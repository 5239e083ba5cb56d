CONSTANTS
  BodySize <- MCBodySize
  MaxChunk = 8
SPECIFICATION MCSpec
INVARIANTS ReaderExact
PROPERTIES Arrives EndsWithClient
\* Everything was written and read, or the writing process is gone; the
\* client is dead.
CHECK_DEADLOCK FALSE

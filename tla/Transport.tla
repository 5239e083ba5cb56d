------------------------------ MODULE Transport ------------------------------
(***************************************************************************)
(* jsonrpc/src/common/messageWriter.ts, messageReader.ts and               *)
(* messageBuffer.ts: messages framed on a byte stream by a process and     *)
(* read back by another.                                                   *)
(*                                                                         *)
(* A message on the stream is a header followed by a body; both are cut    *)
(* into units, of which the stream hands over any number at a time, as it  *)
(* does with bytes.  The semaphores of writer and reader have one permit   *)
(* and serve in the order of the calls (see FifoExecutor).                 *)
(***************************************************************************)
EXTENDS Integers, SequencesExt

CONSTANTS BodySize, \* the units of each message's body, messages being 1, 2, ..
          MaxChunk  \* bound: units handed over at a time

Messages == DOMAIN BodySize

ASSUME TransportAssumption ==
  /\ BodySize \in Seq(Nat \ {0})
  /\ MaxChunk \in Nat \ {0}

(***************************************************************************)
(* A message can be written and read, or fails to be encoded, or to be     *)
(* decoded, or comes from a writer that omits Content-Length.              *)
(***************************************************************************)
Kinds == {"plain", "unencodable", "undecodable", "headerless"}

HeaderSize == 2 \* so that a chunk may end within a header

VARIABLES
  content,   \* the kind of each message, which does not change
  writePromise, \* the promise of each call of write, made in the order 1, 2, ..
  writing,   \* writeSemaphore: messages waiting, the first under way
  phase,     \* the await the first of them has come to
  sender,    \* the writing process: "running", "ended" its stream or "dead"
  wire,      \* units written and not yet received
  buffer,    \* the units of the chunks of the MessageBuffer
  nextMessageLength,
  partialMessageTimer, \* the timer is set
  decoding,  \* readSemaphore: bodies waiting, the first under way
  delivered, \* messages passed to the callback
  closed     \* the reader has fired its close event

writerVars == <<writePromise, writing, phase, sender>>
readerVars == <<buffer, nextMessageLength, partialMessageTimer, decoding,
                delivered, closed>>
streamVars == <<content, writerVars, wire, readerVars>>

None == -1
Header(m) == [i \in 1..HeaderSize |-> <<m, i>>]
Body(m) == [i \in 1..BodySize[m] |-> <<m, HeaderSize + i>>]
Units == UNION {{<<m, i>> : i \in 1..HeaderSize + BodySize[m]} : m \in Messages}

StreamTypeOK ==
  /\ content \in [Messages -> Kinds]
  /\ writePromise \in [Messages -> {"none", "pending", "resolved", "rejected"}]
  /\ writing \in Seq(Messages)
  /\ \A m \in Messages :
       writePromise[m] = "pending" <=> \E i \in DOMAIN writing : writing[i] = m
  /\ phase \in {"encode", "header", "body"}
  /\ sender \in {"running", "ended", "dead"}
  /\ wire \in Seq(Units)
  /\ buffer \in Seq(Units)
  /\ nextMessageLength \in Nat \cup {None}
  /\ partialMessageTimer \in BOOLEAN
  /\ decoding \in Seq(Seq(Units))
  /\ delivered \in Seq(Messages)
  /\ closed \in BOOLEAN

StreamInit ==
  /\ content \in [Messages -> Kinds]
  /\ writePromise = [m \in Messages |-> "none"]
  /\ writing = <<>>
  /\ phase = "encode"
  /\ sender = "running"
  /\ wire = <<>>
  /\ buffer = <<>>
  /\ nextMessageLength = None
  /\ partialMessageTimer = FALSE
  /\ decoding = <<>>
  /\ delivered = <<>>
  /\ closed = FALSE
-----------------------------------------------------------------------------
(***************************************************************************)
(* The writer.                                                             *)
(***************************************************************************)
WriteMessage(m) ==
  /\ sender # "dead"
  /\ writePromise[m] = "none"
  /\ \A j \in 1..m - 1 : writePromise[j] # "none"
  /\ writePromise' = [writePromise EXCEPT ![m] = "pending"]
  /\ writing' = Append(writing, m)
  /\ UNCHANGED <<content, phase, sender, wire, readerVars>>

UnderWay(p) == sender # "dead" /\ writing # <<>> /\ phase = p

\* The thunk under way settles and its successor may start.
SettleWrite(outcome) ==
  /\ writePromise' = [writePromise EXCEPT ![Head(writing)] = outcome]
  /\ writing' = Tail(writing)
  /\ phase' = "encode"

\* contentTypeEncoder and contentEncoder settle.
Encode == /\ UnderWay("encode")
          /\ IF content[Head(writing)] = "unencodable"
             THEN SettleWrite("rejected")
             ELSE phase' = "header" /\ UNCHANGED <<writePromise, writing>>
          /\ UNCHANGED <<content, sender, wire, readerVars>>

\* doWrite: a stream that was ended refuses what is written to it.
WriteHeader == /\ UnderWay("header")
               /\ IF sender = "running"
                  THEN /\ wire' = wire \o Header(Head(writing))
                       /\ phase' = "body"
                       /\ UNCHANGED <<writePromise, writing>>
                  ELSE SettleWrite("rejected") /\ UNCHANGED wire
               /\ UNCHANGED <<content, sender, readerVars>>

WriteBody == /\ UnderWay("body")
             /\ IF sender = "running"
                THEN wire' = wire \o Body(Head(writing)) /\ SettleWrite("resolved")
                ELSE SettleWrite("rejected") /\ UNCHANGED wire
             /\ UNCHANGED <<content, sender, readerVars>>

\* end() goes to the stream directly, past the writes that wait.
End == /\ sender = "running"
       /\ sender' = "ended"
       /\ UNCHANGED <<content, writePromise, writing, phase, wire, readerVars>>

Die == /\ sender # "dead"
       /\ sender' = "dead"
       /\ UNCHANGED <<content, writePromise, writing, phase, wire, readerVars>>
-----------------------------------------------------------------------------
(***************************************************************************)
(* The reader.  The loop of onData works on a record of the reader's       *)
(* state, and stops where the code returns.                                *)
(***************************************************************************)
Reading(chunk) == [buffer |-> buffer \o chunk,
                   length |-> nextMessageLength,
                   timer  |-> partialMessageTimer,
                   bodies |-> decoding,
                   stop   |-> FALSE]

\* Where the first blank line ends, 0 if there is none yet.
HeaderEnd(units) ==
  SelectInSeq(units, LAMBDA u : u[2] = HeaderSize)

\* Headers are taken off the buffer; parsed, they give the length of the body
\* if they are the header of one message and hold Content-Length.
ReadHeaders(r) ==
  LET end == HeaderEnd(r.buffer)
      m == r.buffer[end][1]
      good == SubSeq(r.buffer, 1, end) = Header(m) /\ content[m] # "headerless"
  IN IF end = 0 THEN [r EXCEPT !.stop = TRUE]
     ELSE [r EXCEPT !.buffer = SubSeq(@, end + 1, Len(@)),
                    !.length = IF good THEN BodySize[m] ELSE None,
                    !.stop = ~good]

ReadBody(r) ==
  IF Len(r.buffer) < r.length
  THEN [r EXCEPT !.timer = TRUE, !.stop = TRUE]
  ELSE [r EXCEPT !.buffer = SubSeq(@, r.length + 1, Len(@)),
                 !.length = None,
                 !.timer = FALSE,
                 !.bodies = Append(@, SubSeq(r.buffer, 1, r.length))]

Turn(r) == IF r.stop THEN r
           ELSE IF r.length = None THEN ReadHeaders(r) ELSE ReadBody(r)

\* What remains after the loop, in a set of one, so that TLC computes a turn
\* once.  Each turn but the last takes something off the buffer.
OnData(chunk) ==
  LET after[i \in 0..Len(buffer) + Len(chunk) + 1] ==
        IF i = 0 THEN {Reading(chunk)} ELSE {Turn(r) : r \in after[i - 1]}
  IN after[Len(buffer) + Len(chunk) + 1]

\* Mutant of ReceiveChunk: a chunk is parsed on its own once a body was complete.
ReceiveChunkOnce(n) ==
  /\ n <= Len(wire)
  /\ \E r \in OnData(SubSeq(wire, 1, n)) :
        /\ wire' = SubSeq(wire, n + 1, Len(wire))
        /\ buffer' = IF Len(r.bodies) > Len(decoding) THEN <<>> ELSE r.buffer
        /\ nextMessageLength' = r.length
        /\ partialMessageTimer' = r.timer
        /\ decoding' = r.bodies
  /\ UNCHANGED <<content, writerVars, delivered, closed>>

ReceiveChunk(n) ==
  /\ n <= Len(wire)
  /\ \E r \in OnData(SubSeq(wire, 1, n)) :
        /\ wire' = SubSeq(wire, n + 1, Len(wire))
        /\ buffer' = r.buffer
        /\ nextMessageLength' = r.length
        /\ partialMessageTimer' = r.timer
        /\ decoding' = r.bodies
  /\ UNCHANGED <<content, writerVars, delivered, closed>>

\* Mutant of Decode: bodies are decoded side by side.
DecodeAny ==
  /\ decoding # <<>>
  /\ \E i \in DOMAIN decoding :
       LET m == decoding[i][1][1]
           whole == decoding[i] = Body(m) /\ content[m] # "undecodable"
       IN /\ delivered' = IF whole THEN Append(delivered, m) ELSE delivered
          /\ decoding' = RemoveAt(decoding, i)
  /\ UNCHANGED <<content, writerVars, wire, buffer, nextMessageLength,
                 partialMessageTimer, closed>>

\* The decoders settle: the callback is called, or the error event fired.
Decode ==
  /\ decoding # <<>>
  /\ LET m == Head(decoding)[1][1]
         whole == Head(decoding) = Body(m) /\ content[m] # "undecodable"
     IN delivered' = IF whole THEN Append(delivered, m) ELSE delivered
  /\ decoding' = Tail(decoding)
  /\ UNCHANGED <<content, writerVars, wire, buffer, nextMessageLength,
                 partialMessageTimer, closed>>

\* The stream closes once everything in it was received, not once it was
\* decoded.
CloseStream ==
  /\ sender # "running"
  /\ wire = <<>>
  /\ ~closed
  /\ closed' = TRUE
  /\ UNCHANGED <<content, writerVars, wire, buffer, nextMessageLength,
                 partialMessageTimer, decoding, delivered>>
-----------------------------------------------------------------------------
StreamNext ==
  \/ \E m \in Messages : WriteMessage(m)
  \/ Encode \/ WriteHeader \/ WriteBody \/ End \/ Die
  \/ \E n \in 1..MaxChunk : ReceiveChunk(n)
  \/ Decode \/ CloseStream

StreamSpec == StreamInit /\ [][StreamNext]_streamVars
\* Encoders and decoders settle, the streams go on.
StreamFairness ==
  /\ WF_streamVars(Encode) /\ WF_streamVars(WriteHeader) /\ WF_streamVars(WriteBody)
  /\ WF_streamVars(\E n \in 1..MaxChunk : ReceiveChunk(n))
  /\ WF_streamVars(Decode)
-----------------------------------------------------------------------------
\* What is handed to the decoder is the body of one message, wherever the
\* chunks were cut, and the timer for partial messages is set exactly while
\* part of a message has been read.
ReaderSound ==
  /\ \A i \in DOMAIN decoding : \E m \in Messages : decoding[i] = Body(m)
  /\ partialMessageTimer = (nextMessageLength # None)

\* No message that announces its length is behind one that does not: after
\* such a message the reader takes every body for the start of a header.
InSync(m) == \A j \in 1..m : content[j] # "headerless"

\* Messages arrive in the order of the calls of write, none of them twice, and
\* one whose write was reported to have succeeded is not lost on its way.
DeliveredOnceInOrder ==
  /\ \A i \in DOMAIN delivered :
       /\ \A j \in 1..i - 1 : delivered[j] < delivered[i]
       /\ writePromise[delivered[i]] = "resolved"
  /\ \A m \in Messages :
       (writePromise[m] = "resolved" /\ content[m] = "plain" /\ InSync(m))
         => \/ \E i \in DOMAIN delivered : delivered[i] = m
            \/ \E i \in DOMAIN decoding : decoding[i] = Body(m)
            \/ \E i \in DOMAIN (buffer \o wire) :
                 (buffer \o wire)[i] = Last(Body(m))

\* What the reader decodes is one message's body, and what it delivers are the
\* messages written, once and in order.
ReaderExact == ReaderSound /\ DeliveredOnceInOrder

\* A message whose write succeeded arrives, even if the writer ends its stream
\* or dies and although other messages could not be encoded or decoded.
Arrives ==
  \A m \in Messages :
    (writePromise[m] = "resolved" /\ content[m] = "plain" /\ InSync(m))
      ~> \E i \in DOMAIN delivered : delivered[i] = m

\* Every write settles while the writing process lives.
WritesSettle ==
  \A m \in Messages : writePromise[m] = "pending"
                          ~> (writePromise[m] # "pending" \/ sender = "dead")
=============================================================================

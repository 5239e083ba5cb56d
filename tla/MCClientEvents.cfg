CONSTANTS
 u1=u1
 u2=u2
 w1=w1
 w2=w2
 None=None
 Uris={u1,u2}
 Watchers={w1,w2}
 Kinds={"create","delete"}
 Limits<-Separately
 MaxInFlight=2
SPECIFICATION LiveSpec
CHECK_DEADLOCK FALSE
INVARIANTS EventsKept
PROPERTIES OnlyTheLatest PublishedIsShown

------------------------------ MODULE LinkedMap ------------------------------
(***************************************************************************)
(* LinkedMap and its subclass LRUCache (jsonrpc/src/common/linkedMap.ts):  *)
(* a map whose items are a doubly linked list, in the order in which the   *)
(* connection dispatches and the background pulls.  An iteration may be    *)
(* under way while the map is changed.                                     *)
(*                                                                         *)
(* The item of a key is the key: an item that is taken out and one that is *)
(* put in again later have nothing in common but that (New).  Values are   *)
(* left out, as nothing depends on them.  _state, which counts changes, is *)
(* counted anew in each call: an iteration only compares it.               *)
(***************************************************************************)
EXTENDS Integers, SequencesExt

CONSTANTS
    Keys,
    None,     \* undefined
    Limits    \* the limits of a cache, with None for a plain map

VARIABLES
    list,      \* _map, _head, _tail, _size, the links of the items, and _state
    limit,     \* _limit
    kept,      \* what trimming leaves: the rounded product of _limit and _ratio
    iterator,  \* an iteration: current, the keys seen, whether state is _state
    order      \* ghost: the keys in the order they should have

vars == <<list, limit, kept, iterator, order>>

Empty ==
    [map |-> {}, head |-> None, tail |-> None, size |-> 0, state |-> 0,
     next |-> [k \in Keys |-> None], previous |-> [k \in Keys |-> None]]

Init ==
    /\ list = Empty /\ order = <<>> /\ iterator = None
    /\ limit \in Limits
    /\ IF limit = None THEN kept = None ELSE kept \in 0..limit

-----------------------------------------------------------------------------
(* The list.                                                               *)
Changed(l) == [l EXCEPT !.state = @ + 1]
New(l, k) == [l EXCEPT !.next[k] = None, !.previous[k] = None]
IsEmpty(l) == l.head = None /\ l.tail = None

Clear(l) == Changed([l EXCEPT !.map = {}, !.head = None, !.tail = None, !.size = 0])

AddItemFirst(l, k) ==
    Changed(IF IsEmpty(l) THEN [l EXCEPT !.head = k, !.tail = k]
            ELSE [l EXCEPT !.next[k] = l.head, !.previous[l.head] = k, !.head = k])
AddItemLast(l, k) ==
    Changed(IF IsEmpty(l) THEN [l EXCEPT !.head = k, !.tail = k]
            ELSE [l EXCEPT !.previous[k] = l.tail, !.next[l.tail] = k, !.tail = k])

\* The neighbours of an item, of which there may be none, are linked.
Unlinked(l, k) ==
    LET n == l.next[k]
        p == l.previous[k]
        forward == IF p = None THEN [l EXCEPT !.head = n] ELSE [l EXCEPT !.next[p] = n]
    IN IF n = None THEN [forward EXCEPT !.tail = p] ELSE [forward EXCEPT !.previous[n] = p]
RemoveItem(l, k) == Changed(New(Unlinked(l, k), k))

\* touch: the item becomes the first or the last, if it is not.
TouchItem(l, k, touch) ==
    CASE touch = "First" /\ k # l.head -> AddItemFirst(New(Unlinked(l, k), k), k)
      [] touch = "Last" /\ k # l.tail -> AddItemLast(New(Unlinked(l, k), k), k)
      [] OTHER -> l

GetKey(l, k, touch) == IF k \in l.map THEN TouchItem(l, k, touch) ELSE l
SetKey(l, k, touch) ==
    IF k \in l.map THEN TouchItem(l, k, touch)
    ELSE LET new == New(l, k)
             added == IF touch = "First" THEN AddItemFirst(new, k) ELSE AddItemLast(new, k)
         IN [added EXCEPT !.map = @ \cup {k}, !.size = @ + 1]
RemoveKey(l, k) ==
    IF k \notin l.map THEN l
    ELSE RemoveItem([l EXCEPT !.map = @ \ {k}, !.size = @ - 1], k)

\* What is reached from an item along some links: the first n items.
Along(links, from, n) ==
    LET reach[i \in 0..n] ==
            IF i = 0 THEN <<>>
            ELSE LET before == reach[i - 1]
                     item == IF before = <<>> THEN from ELSE links[Last(before)]
                 IN IF item = None \/ Len(before) < i - 1 THEN before ELSE Append(before, item)
    IN reach[n]

TrimOld(l, newSize) ==
    IF newSize >= l.size THEN l
    ELSE IF newSize = 0 THEN Clear(l)
    ELSE LET trimmed == Along(l.next, l.head, l.size - newSize)
             current == l.next[Last(trimmed)]
         IN Changed([l EXCEPT !.map = @ \ ToSet(trimmed), !.head = current,
                              !.size = newSize, !.previous[current] = None])
CheckTrim(l, max, rest) == IF max # None /\ l.size > max THEN TrimOld(l, rest) ELSE l

-----------------------------------------------------------------------------
(* The calls.  A call ends the iteration under way if it changed the list. *)
Call(l) ==
    /\ list' = [l EXCEPT !.state = 0]
    /\ iterator' = IF iterator = None THEN None
                   ELSE [iterator EXCEPT !.same = @ /\ l.state = 0]

\* The order after a call, told without links.
Without(k) ==
    IF k \in ToSet(order) THEN RemoveAt(order, CHOOSE i \in DOMAIN order : order[i] = k)
    ELSE order
Touched(k, touch) ==
    CASE touch = "First" -> <<k>> \o Without(k)
      [] touch = "Last" -> Append(Without(k), k)
      [] OTHER -> order
Trimmed(keys, max, rest) ==
    IF max # None /\ Len(keys) > max THEN SubSeq(keys, Len(keys) - rest + 1, Len(keys)) ELSE keys

\* set, with the touch LRUCache gives or the caller's.
Set(k, touch) ==
    /\ limit # None => touch = "Last"
    /\ Call(CheckTrim(SetKey(list, k, touch), limit, kept))
    /\ order' = Trimmed(IF k \in ToSet(order) \/ touch = "First" THEN Touched(k, touch)
                        ELSE Append(order, k), limit, kept)
    /\ UNCHANGED <<limit, kept>>
Get(k, touch) ==
    /\ Call(GetKey(list, k, touch))
    /\ order' = IF k \in ToSet(order) THEN Touched(k, touch) ELSE order
    /\ UNCHANGED <<limit, kept>>
Delete(k) ==
    /\ Call(RemoveKey(list, k))
    /\ order' = Without(k)
    /\ UNCHANGED <<limit, kept>>
Shift ==
    /\ ~IsEmpty(list)
    /\ Call(RemoveKey(list, list.head))
    /\ order' = Tail(order)
    /\ UNCHANGED <<limit, kept>>
ClearAll ==
    /\ Call(Clear(list))
    /\ order' = <<>>
    /\ UNCHANGED <<limit, kept>>

\* The setters of limit and ratio.
SetLimit ==
    /\ limit # None
    /\ limit' \in Limits \ {None} /\ kept' \in 0..limit'
    /\ Call(CheckTrim(list, limit', kept'))
    /\ order' = Trimmed(order, limit', kept')

\* keys, values, entries and forEach, step by step.  A step of an iteration
\* whose state is not that of the map throws.
Iterate ==
    /\ iterator' = [current |-> list.head, seen |-> <<>>, same |-> TRUE]
    /\ UNCHANGED <<list, limit, kept, order>>
IteratorNext ==
    /\ iterator # None
    /\ iterator' = IF ~iterator.same \/ iterator.current = None THEN None
                   ELSE [iterator EXCEPT !.seen = Append(@, iterator.current),
                                         !.current = list.next[iterator.current]]
    /\ UNCHANGED <<list, limit, kept, order>>

Next ==
    \/ \E k \in Keys :
          \/ \E touch \in {"None", "First", "Last"} : Set(k, touch) \/ Get(k, touch)
          \/ Delete(k)
    \/ Shift \/ ClearAll \/ SetLimit
    \/ Iterate \/ IteratorNext
Spec == Init /\ [][Next]_vars

-----------------------------------------------------------------------------
(* The links in either direction, the map and the size tell the same list, *)
(* and the one that the calls should have made: the order in which the     *)
(* connection takes messages from its queue.                               *)
LinksAgree ==
    /\ Along(list.next, list.head, Len(order) + 1) = order
    /\ Along(list.previous, list.tail, Len(order) + 1) = Reverse(order)
    /\ list.map = ToSet(order) /\ list.size = Len(order)

(* A cache never keeps more than its limit.                                *)
WithinLimit == limit # None => list.size <= limit

(* An iteration that is not told of a change has seen, and will see, every *)
(* key that is in the map, once and in order.                              *)
IterationExact ==
    iterator # None /\ iterator.same =>
        iterator.seen \o Along(list.next, iterator.current, Len(order) + 1) = order
=============================================================================

--------------------------- MODULE ServicesProofs ---------------------------
(***************************************************************************)
(* Services: what each part promises (ProcessesEnd, AppliedAsSent,         *)
(* WorkspaceAgrees, ProgressShown, FilesTold, ChangeBuilds, ListExact),    *)
(* for every value of the constants and whatever the bounds.  Each part    *)
(* has its inductive invariant, and the one of Services is that of the     *)
(* part a behaviour is of.                                                 *)
(*                                                                         *)
(*   linked map: the ends and the links are those of the order (Chain), a  *)
(*     call that changes it tells the iteration (Told), and an iteration   *)
(*     that was not told stands in the order (IteratorFits);               *)
(*   server process: an answer to shutdown on its way tells that the       *)
(*     process has seen the request (CodeFits), and a process that runs is *)
(*     to be looked at or is the client's (NoneForgotten);                 *)
(*   edits: what is further on its way was sent earlier (InOrder);         *)
(*   folders: the last message that mentions a folder says what is so      *)
(*     (Leads);                                                            *)
(*   settings: a session with one source is nobody's, registering,         *)
(*     announced to, pushed to or over (SettingsPhase);                    *)
(*   progress: what was reported before a window was open is lost, the     *)
(*     rest is shown (Counted);                                            *)
(*   file operations: nothing but the disturbances that an operation notes *)
(*     touches what it needs, so that the files looked at are told apart   *)
(*     by what they are, or by the types remembered before they went       *)
(*     (OperationKept), while others go on beside it (Apart, Aside);       *)
(*   workspace change: what is defined was so at first or is as promised,  *)
(*     and promises are counted (PromisesKept).                            *)
(***************************************************************************)
EXTENDS Services, SequenceLemmas

-----------------------------------------------------------------------------
(* Linked map: the links of a sequence.                                     *)

Link == Keys \cup {None}

\* The ends and the links in both directions are those of the sequence s, in
\* which no key is twice.
Chain(head, tail, next, previous, s) ==
    /\ next \in [Keys -> Link] /\ previous \in [Keys -> Link]
    /\ s \in Seq(Keys)
    /\ \A i, j \in 1..Len(s) : s[i] = s[j] => i = j
    /\ head = IF Len(s) = 0 THEN None ELSE s[1]
    /\ tail = IF Len(s) = 0 THEN None ELSE s[Len(s)]
    /\ \A i \in 1..Len(s) : next[s[i]] = IF i < Len(s) THEN s[i + 1] ELSE None
    /\ \A i \in 1..Len(s) : previous[s[i]] = IF i > 1 THEN s[i - 1] ELSE None

Outside(k, s) == k \in Keys /\ \A i \in 1..Len(s) : s[i] # k

\* The ends of a chain are keys, or none if it is empty.
LEMMA ChainEnds ==
  ASSUME NEW head, NEW tail, NEW next, NEW previous, NEW s,
         Chain(head, tail, next, previous, s)
  PROVE  /\ Len(s) \in Nat /\ head \in Link /\ tail \in Link
         /\ head = None <=> Len(s) = 0
         /\ tail = None <=> Len(s) = 0
  BY ServicesAssumption DEF Chain, Link

\* Links of a key outside do not matter.
LEMMA ChainNew ==
  ASSUME NEW head, NEW tail, NEW next, NEW previous, NEW s, NEW k,
         Chain(head, tail, next, previous, s), Outside(k, s)
  PROVE  Chain(head, tail, [next EXCEPT ![k] = None], [previous EXCEPT ![k] = None], s)
  BY DEF Chain, Outside, Link

\* A key put before the first.
LEMMA ChainFirst ==
  ASSUME NEW head, NEW tail, NEW next, NEW previous, NEW s, NEW k,
         Chain(head, tail, next, previous, s), Outside(k, s),
         next[k] = None, previous[k] = None
  PROVE  /\ Len(s) = 0 => Chain(k, k, next, previous, <<k>> \o s)
         /\ Len(s) # 0 => Chain(k, tail, [next EXCEPT ![k] = head],
                                [previous EXCEPT ![head] = k], <<k>> \o s)
<1> DEFINE t == <<k>> \o s
<1>1. <<k>> \in Seq(Keys) /\ Len(<<k>>) = 1 /\ <<k>>[1] = k /\ s \in Seq(Keys)
  BY DEF Chain, Outside
<1>2. /\ t \in Seq(Keys) /\ Len(s) \in Nat /\ Len(t) = Len(s) + 1
      /\ t[1] = k /\ \A i \in 1..Len(s) : t[i + 1] = s[i]
  BY <1>1, ConcatElements
<1> HIDE DEF t
<1>3. ASSUME NEW i \in 1..Len(t), i # 1
      PROVE  i - 1 \in 1..Len(s) /\ t[i] = s[i - 1]
  <2>1. i - 1 \in 1..Len(s) /\ (i - 1) + 1 = i
    BY <1>2, <1>3
  <2> QED
    BY <1>2, <2>1
<1>4. ASSUME NEW i \in 1..Len(t), NEW j \in 1..Len(t), t[i] = t[j] PROVE i = j
  <2>1. CASE i = 1 \/ j = 1
    BY <1>2, <1>3, <1>4, <2>1 DEF Outside
  <2>2. CASE i # 1 /\ j # 1
    <3>1. i - 1 \in 1..Len(s) /\ j - 1 \in 1..Len(s) /\ s[i - 1] = s[j - 1]
      BY <1>3, <1>4, <2>2
    <3>2. i - 1 = j - 1
      BY <3>1 DEF Chain
    <3> QED
      BY <1>2, <3>2
  <2> QED
    BY <2>1, <2>2
<1>5. CASE Len(s) = 0
  BY <1>2, <1>3, <1>4, <1>5 DEF Chain, t
<1>6. CASE Len(s) # 0
  <2> DEFINE nx == [next EXCEPT ![k] = head]
             pv == [previous EXCEPT ![head] = k]
  <2>1. head = s[1] /\ head \in Keys /\ head # k
    BY <1>2, <1>6 DEF Chain, Outside
  <2>2. nx \in [Keys -> Link] /\ pv \in [Keys -> Link]
    BY <2>1 DEF Chain, Outside, Link
  <2>3. nx[k] = head /\ \A i \in 1..Len(s) : nx[s[i]] = next[s[i]]
    BY <1>2 DEF Chain, Outside
  <2>4. /\ pv[k] = None /\ pv[s[1]] = k
        /\ \A i \in 1..Len(s) : i # 1 => pv[s[i]] = previous[s[i]]
    BY <1>2, <1>6, <2>1 DEF Chain, Outside
  <2>5. ASSUME NEW i \in 1..Len(t)
        PROVE  /\ nx[t[i]] = IF i < Len(t) THEN t[i + 1] ELSE None
               /\ pv[t[i]] = IF i > 1 THEN t[i - 1] ELSE None
    <3>1. CASE i = 1
      BY <1>2, <1>6, <2>1, <2>3, <2>4, <3>1
    <3>2. CASE i # 1
      <4> DEFINE j == i - 1
      <4>1. j \in 1..Len(s) /\ i = j + 1 /\ t[i] = s[j]
        BY <1>2, <1>3, <3>2
      <4> HIDE DEF j
      <4>2. nx[s[j]] = IF j < Len(s) THEN s[j + 1] ELSE None
        BY <2>3, <4>1 DEF Chain
      <4>3. nx[t[i]] = IF i < Len(t) THEN t[i + 1] ELSE None
        BY <1>2, <4>1, <4>2
      <4>4. pv[s[j]] = IF j = 1 THEN k ELSE s[j - 1]
        BY <2>4, <4>1, <1>2 DEF Chain
      <4>5. t[j] = IF j = 1 THEN k ELSE s[j - 1]
        BY <1>2, <1>3, <4>1
      <4>6. i - 1 = j /\ i > 1
        BY <1>2, <4>1, <3>2
      <4> QED
        BY <4>1, <4>3, <4>4, <4>5, <4>6
    <3> QED
      BY <3>1, <3>2
  <2>6. tail = t[Len(t)]
    BY <1>2, <1>6 DEF Chain
  <2> HIDE DEF nx, pv
  <2>7. Chain(k, tail, nx, pv, t)
    BY <1>2, <1>4, <2>2, <2>5, <2>6 DEF Chain
  <2> QED
    BY <1>6, <2>7 DEF nx, pv, t
<1> QED
  BY <1>5, <1>6

\* A key put behind the last.
LEMMA ChainLast ==
  ASSUME NEW head, NEW tail, NEW next, NEW previous, NEW s, NEW k,
         Chain(head, tail, next, previous, s), Outside(k, s),
         next[k] = None, previous[k] = None
  PROVE  /\ Len(s) = 0 => Chain(k, k, next, previous, Append(s, k))
         /\ Len(s) # 0 => Chain(head, k, [next EXCEPT ![tail] = k],
                                [previous EXCEPT ![k] = tail], Append(s, k))
<1> DEFINE t == Append(s, k)
           n == Len(s)
<1>1. /\ t \in Seq(Keys) /\ n \in Nat /\ Len(t) = n + 1
      /\ t[n + 1] = k /\ \A i \in 1..n : t[i] = s[i]
  BY AppendElements DEF Chain, Outside
<1> HIDE DEF t, n
<1>2. \A i, j \in 1..Len(t) : t[i] = t[j] => i = j
  <2>1. ASSUME NEW i \in 1..Len(t)
        PROVE  \/ i = n + 1 /\ t[i] = k
               \/ i \in 1..n /\ t[i] = s[i]
    <3>1. CASE i = n + 1
      BY <1>1, <3>1
    <3>2. CASE i # n + 1
      <4>1. i \in 1..n
        BY <1>1, <3>2
      <4> QED
        BY <1>1, <4>1
    <3> QED
      BY <3>1, <3>2
  <2> QED
    BY <1>1, <2>1 DEF Chain, Outside, n
<1>3. CASE n = 0
  BY <1>1, <1>2, <1>3 DEF Chain, t, n
<1>4. CASE n # 0
  <2> DEFINE nx == [next EXCEPT ![tail] = k]
             pv == [previous EXCEPT ![k] = tail]
  <2>1. tail = s[n] /\ tail \in Keys /\ tail # k
    BY <1>1, <1>4 DEF Chain, Outside, n
  <2>2. nx \in [Keys -> Link] /\ pv \in [Keys -> Link]
    BY <2>1 DEF Chain, Outside, Link
  <2>3. /\ nx[k] = None /\ nx[s[n]] = k
        /\ \A i \in 1..n : i # n => nx[s[i]] = next[s[i]]
    BY <1>1, <1>4, <2>1 DEF Chain, Outside, n
  <2>4. pv[k] = tail /\ \A i \in 1..n : pv[s[i]] = previous[s[i]]
    BY <1>1 DEF Chain, Outside, n
  <2>5. ASSUME NEW i \in 1..Len(t)
        PROVE  /\ nx[t[i]] = IF i < Len(t) THEN t[i + 1] ELSE None
               /\ pv[t[i]] = IF i > 1 THEN t[i - 1] ELSE None
    <3>1. CASE i = n + 1
      BY <1>1, <1>4, <2>1, <2>3, <2>4, <3>1
    <3>2. CASE i # n + 1
      <4>1. i \in 1..n /\ t[i] = s[i]
        BY <1>1, <3>2
      <4>2. nx[s[i]] = IF i = n THEN k ELSE s[i + 1]
        BY <1>1, <2>3, <4>1 DEF Chain, n
      <4>3. pv[s[i]] = IF i > 1 THEN s[i - 1] ELSE None
        BY <2>4, <4>1 DEF Chain, n
      <4> QED
        BY <1>1, <4>1, <4>2, <4>3
    <3> QED
      BY <3>1, <3>2
  <2>6. head = t[1]
    BY <1>1, <1>4 DEF Chain, n
  <2> HIDE DEF nx, pv
  <2>7. Chain(head, k, nx, pv, t)
    BY <1>1, <1>2, <2>2, <2>5, <2>6 DEF Chain
  <2> QED
    BY <1>4, <2>7 DEF nx, pv, t, n
<1> QED
  BY <1>3, <1>4 DEF n

\* A key taken out, wherever it is.
LEMMA ChainRemove ==
  ASSUME NEW head, NEW tail, NEW next, NEW previous, NEW s,
         Chain(head, tail, next, previous, s), NEW i \in 1..Len(s)
  PROVE  LET n == next[s[i]]
             p == previous[s[i]] IN
         /\ Chain(IF p = None THEN n ELSE head, IF n = None THEN p ELSE tail,
                  IF p = None THEN next ELSE [next EXCEPT ![p] = n],
                  IF n = None THEN previous ELSE [previous EXCEPT ![n] = p], RemoveAt(s, i))
         /\ Outside(s[i], RemoveAt(s, i))
<1> SUFFICES ASSUME NEW k \in Keys, s[i] = k, NEW n, n = next[k], NEW p, p = previous[k]
             PROVE  /\ Chain(IF p = None THEN n ELSE head, IF n = None THEN p ELSE tail,
                             IF p = None THEN next ELSE [next EXCEPT ![p] = n],
                             IF n = None THEN previous ELSE [previous EXCEPT ![n] = p],
                             RemoveAt(s, i))
                    /\ Outside(k, RemoveAt(s, i))
  <2>1. s[i] \in Keys
    BY DEF Chain
  <2> QED
    BY <2>1
<1> DEFINE t == RemoveAt(s, i)
           m == Len(s)
           nx == IF p = None THEN next ELSE [next EXCEPT ![p] = n]
           pv == IF n = None THEN previous ELSE [previous EXCEPT ![n] = p]
<1>1. /\ t \in Seq(Keys) /\ m \in Nat /\ Len(t) = m - 1
      /\ \A j \in 1..(m - 1) : t[j] = IF j < i THEN s[j] ELSE s[j + 1]
  BY RemoveAtElements DEF Chain
<1> HIDE DEF t
<1>2. /\ n = IF i < m THEN s[i + 1] ELSE None
      /\ p = IF i > 1 THEN s[i - 1] ELSE None
  BY DEF Chain
<1>3. \A j \in 1..m : s[j] \in Keys /\ s[j] # None
  BY ServicesAssumption DEF Chain
<1>4. (n = None <=> i = m) /\ (p = None <=> i = 1)
  BY <1>1, <1>2, <1>3
<1>5. nx \in [Keys -> Link] /\ pv \in [Keys -> Link]
  BY <1>1, <1>2, <1>3, <1>4 DEF Chain, Link
<1>6. ASSUME NEW j \in 1..m, j # i
      PROVE  nx[s[j]] = IF j = i - 1 THEN n ELSE IF j < m THEN s[j + 1] ELSE None
  <2>1. next[s[j]] = IF j < m THEN s[j + 1] ELSE None
    BY DEF Chain
  <2>2. CASE i = 1
    BY <1>4, <2>1, <2>2
  <2>3. CASE i # 1
    <3>1. i - 1 \in 1..m /\ p = s[i - 1] /\ p \in Keys /\ p # None
      BY <1>1, <1>2, <1>3, <2>3
    <3>2. s[j] = p <=> j = i - 1
      BY <3>1 DEF Chain
    <3> QED
      BY <1>3, <2>1, <3>1, <3>2 DEF Chain
  <2> QED
    BY <2>2, <2>3
<1>7. ASSUME NEW j \in 1..m, j # i
      PROVE  pv[s[j]] = IF j = i + 1 THEN p ELSE IF j > 1 THEN s[j - 1] ELSE None
  <2>1. previous[s[j]] = IF j > 1 THEN s[j - 1] ELSE None
    BY DEF Chain
  <2>2. CASE i = m
    BY <1>1, <1>4, <2>1, <2>2
  <2>3. CASE i # m
    <3>1. i + 1 \in 1..m /\ n = s[i + 1] /\ n \in Keys /\ n # None
      BY <1>1, <1>2, <1>3, <2>3
    <3>2. s[j] = n <=> j = i + 1
      BY <3>1 DEF Chain
    <3> QED
      BY <1>3, <2>1, <3>1, <3>2 DEF Chain
  <2> QED
    BY <2>2, <2>3
<1> HIDE DEF nx, pv
<1>8. ASSUME NEW j \in 1..Len(t)
      PROVE  /\ nx[t[j]] = IF j < Len(t) THEN t[j + 1] ELSE None
             /\ pv[t[j]] = IF j > 1 THEN t[j - 1] ELSE None
  <2>1. CASE j < i
    <3>1. j \in 1..m /\ j # i /\ t[j] = s[j]
      BY <1>1, <2>1
    <3>2. nx[t[j]] = IF j < Len(t) THEN t[j + 1] ELSE None
      BY <1>1, <1>2, <1>6, <2>1, <3>1
    <3>3. pv[t[j]] = IF j > 1 THEN t[j - 1] ELSE None
      BY <1>1, <1>7, <2>1, <3>1
    <3> QED
      BY <3>2, <3>3
  <2>2. CASE ~(j < i)
    <3>1. j + 1 \in 1..m /\ j + 1 # i /\ t[j] = s[j + 1]
      BY <1>1, <2>2
    <3>2. nx[s[j + 1]] = IF j + 1 < m THEN s[(j + 1) + 1] ELSE None
      BY <1>1, <1>6, <2>2, <3>1
    <3>3. nx[t[j]] = IF j < Len(t) THEN t[j + 1] ELSE None
      BY <1>1, <2>2, <3>1, <3>2
    <3>4. pv[s[j + 1]] = IF j = i THEN p ELSE s[j]
      BY <1>1, <1>7, <2>2, <3>1
    <3>5. pv[t[j]] = IF j > 1 THEN t[j - 1] ELSE None
      <4>1. CASE j = i /\ i = 1
        BY <1>2, <3>1, <3>4, <4>1
      <4>2. CASE j = i /\ i # 1
        <5>1. j - 1 \in 1..(m - 1) /\ j - 1 < i /\ i > 1
          BY <1>1, <4>2
        <5>2. t[j - 1] = s[i - 1]
          BY <1>1, <4>2, <5>1
        <5> QED
          BY <1>2, <3>1, <3>4, <4>2, <5>1, <5>2
      <4>3. CASE j # i
        <5>1. j - 1 \in 1..(m - 1) /\ ~(j - 1 < i) /\ (j - 1) + 1 = j
          BY <1>1, <2>2, <4>3
        <5>2. t[j - 1] = s[j]
          BY <1>1, <5>1
        <5> QED
          BY <3>1, <3>4, <4>3, <5>1, <5>2
      <4> QED
        BY <4>1, <4>2, <4>3
    <3> QED
      BY <3>3, <3>5
  <2> QED
    BY <2>1, <2>2
<1>9. /\ \A j \in 1..Len(t) : t[j] # k
      /\ \A j, l \in 1..Len(t) : t[j] = t[l] => j = l
  <2> DEFINE Place(j) == IF j < i THEN j ELSE j + 1
  <2>1. ASSUME NEW j \in 1..Len(t)
        PROVE  Place(j) \in 1..m /\ Place(j) # i /\ t[j] = s[Place(j)]
    BY <1>1
  <2>2. \A j, l \in 1..Len(t) : Place(j) = Place(l) => j = l
    BY <1>1
  <2> HIDE DEF Place
  <2>3. ASSUME NEW j \in 1..Len(t) PROVE t[j] # k
    BY <2>1 DEF Chain
  <2>4. ASSUME NEW j \in 1..Len(t), NEW l \in 1..Len(t), t[j] = t[l] PROVE j = l
    <3>1. s[Place(j)] = s[Place(l)] /\ Place(j) \in 1..Len(s) /\ Place(l) \in 1..Len(s)
      BY <2>1, <2>4
    <3>2. Place(j) = Place(l)
      BY <3>1 DEF Chain
    <3> QED
      BY <2>2, <3>2
  <2> QED
    BY <2>3, <2>4
<1>10. /\ (IF p = None THEN n ELSE head) = IF Len(t) = 0 THEN None ELSE t[1]
       /\ (IF n = None THEN p ELSE tail) = IF Len(t) = 0 THEN None ELSE t[Len(t)]
  BY <1>1, <1>2, <1>4 DEF Chain
<1>11. Chain(IF p = None THEN n ELSE head, IF n = None THEN p ELSE tail, nx, pv, t)
  BY <1>1, <1>5, <1>8, <1>9, <1>10 DEF Chain
<1> QED
  BY <1>9, <1>11 DEF Outside, nx, pv, t


\* The first m keys taken off.
LEMMA ChainTrim ==
  ASSUME NEW head, NEW tail, NEW next, NEW previous, NEW s,
         Chain(head, tail, next, previous, s),
         NEW m \in 1..Len(s), m < Len(s)
  PROVE  Chain(s[m + 1], tail, next, [previous EXCEPT ![s[m + 1]] = None],
               SubSeq(s, m + 1, Len(s)))
<1> DEFINE t == SubSeq(s, m + 1, Len(s))
           pv == [previous EXCEPT ![s[m + 1]] = None]
<1>1. /\ t \in Seq(Keys) /\ Len(s) \in Nat /\ Len(t) = Len(s) - m
      /\ \A i \in 1..Len(t) : t[i] = s[m + i]
  BY DEF Chain
<1> HIDE DEF t
<1>2. ASSUME NEW i \in 1..Len(t) PROVE m + i \in 1..Len(s) /\ t[i] = s[m + i]
  BY <1>1
<1>3. pv \in [Keys -> Link]
  BY <1>1 DEF Chain, Link
<1>4. ASSUME NEW i \in 1..Len(t)
      PROVE  pv[s[m + i]] = IF i = 1 THEN None ELSE s[(m + i) - 1]
  <2>1. m + 1 \in 1..Len(s) /\ s[m + 1] \in Keys /\ s[m + i] \in Keys
    BY <1>1, <1>2 DEF Chain
  <2>2. s[m + i] = s[m + 1] <=> i = 1
    BY <1>1, <1>2, <2>1 DEF Chain
  <2>3. previous[s[m + i]] = s[(m + i) - 1]
    BY <1>1, <1>2 DEF Chain
  <2> QED
    BY <2>1, <2>2, <2>3 DEF Chain
<1> HIDE DEF pv
<1>5. ASSUME NEW i \in 1..Len(t)
      PROVE  /\ next[t[i]] = IF i < Len(t) THEN t[i + 1] ELSE None
             /\ pv[t[i]] = IF i > 1 THEN t[i - 1] ELSE None
  <2>1. next[s[m + i]] = IF m + i < Len(s) THEN s[(m + i) + 1] ELSE None
    BY <1>2 DEF Chain
  <2>2. next[t[i]] = IF i < Len(t) THEN t[i + 1] ELSE None
    <3>1. i < Len(t) => i + 1 \in 1..Len(t) /\ m + (i + 1) = (m + i) + 1
      BY <1>1
    <3>2. i < Len(t) <=> m + i < Len(s)
      BY <1>1
    <3> QED
      BY <1>1, <2>1, <3>1, <3>2
  <2>3. pv[t[i]] = IF i > 1 THEN t[i - 1] ELSE None
    <3>1. i > 1 => i - 1 \in 1..Len(t) /\ m + (i - 1) = (m + i) - 1
      BY <1>1
    <3> QED
      BY <1>1, <1>4, <3>1
  <2> QED
    BY <2>2, <2>3
<1>6. ASSUME NEW i \in 1..Len(t), NEW j \in 1..Len(t), t[i] = t[j] PROVE i = j
  <2>1. m + i = m + j
    BY <1>2, <1>6 DEF Chain
  <2> QED
    BY <2>1
<1>7. /\ s[m + 1] = IF Len(t) = 0 THEN None ELSE t[1]
      /\ tail = IF Len(t) = 0 THEN None ELSE t[Len(t)]
  <2>1. 1 \in 1..Len(t) /\ Len(t) \in 1..Len(t) /\ m + Len(t) = Len(s) /\ Len(s) # 0
    BY <1>1
  <2>2. t[1] = s[m + 1] /\ t[Len(t)] = s[m + Len(t)]
    BY <1>2, <2>1
  <2>3. tail = s[Len(s)]
    BY <2>1 DEF Chain
  <2> QED
    BY <2>1, <2>2, <2>3
<1>8. Chain(s[m + 1], tail, next, pv, t)
  BY <1>1, <1>3, <1>5, <1>6, <1>7 DEF Chain
<1> QED
  BY <1>8 DEF pv, t

\* Along the links of a sequence lies the sequence, up to its end.
LEMMA AlongFollows ==
  ASSUME NEW links, NEW s \in Seq(Keys), NEW n \in Nat,
         \A i \in 1..Len(s) : links[s[i]] = IF i < Len(s) THEN s[i + 1] ELSE None
  PROVE  LM!Along(links, IF Len(s) = 0 THEN None ELSE s[1], n) =
             SubSeq(s, 1, IF n < Len(s) THEN n ELSE Len(s))
<1> DEFINE from == IF Len(s) = 0 THEN None ELSE s[1]
           Upto(i) == SubSeq(s, 1, IF i < Len(s) THEN i ELSE Len(s))
           Step(i, before) ==
              IF i = 0 THEN <<>>
              ELSE LET item == IF before = <<>> THEN from ELSE links[LM!Last(before)]
                   IN IF item = None \/ Len(before) < i - 1 THEN before ELSE Append(before, item)
           Body(f) == [i \in 0..n |-> Step(i, f[i - 1])]
           reach == CHOOSE f : f = Body(f)
           upto == [i \in 0..n |-> Upto(i)]
<1>1. LM!Along(links, from, n) = reach[n]
  BY DEF LM!Along
<1>2. ASSUME NEW i \in 0..n
      PROVE  /\ Upto(i) \in Seq(Keys)
             /\ Len(Upto(i)) = IF i < Len(s) THEN i ELSE Len(s)
             /\ \A j \in 1..Len(Upto(i)) : Upto(i)[j] = s[j]
  OBVIOUS
<1> HIDE DEF from, Upto, Step, reach
<1>3. Upto(0) = <<>>
  BY <1>2
<1>4. ASSUME NEW i \in 1..n PROVE Step(i, Upto(i - 1)) = Upto(i)
  <2> DEFINE before == Upto(i - 1)
             item == IF before = <<>> THEN from ELSE links[LM!Last(before)]
  <2>1. /\ before \in Seq(Keys)
        /\ Len(before) = IF i - 1 < Len(s) THEN i - 1 ELSE Len(s)
        /\ \A j \in 1..Len(before) : before[j] = s[j]
    BY <1>2
  <2>2. /\ Upto(i) \in Seq(Keys)
        /\ Len(Upto(i)) = IF i < Len(s) THEN i ELSE Len(s)
        /\ \A j \in 1..Len(Upto(i)) : Upto(i)[j] = s[j]
    BY <1>2
  <2> HIDE DEF before
  <2>3. item = IF Len(before) < Len(s) THEN s[Len(before) + 1] ELSE None
    <3>1. CASE Len(before) = 0
      BY <2>1, <3>1 DEF from
    <3>2. CASE Len(before) # 0
      <4>1. Len(before) \in 1..Len(s) /\ LM!Last(before) = s[Len(before)] /\ before # <<>>
        BY <2>1, <3>2 DEF LM!Last
      <4> QED
        BY <4>1
    <3> QED
      BY <3>1, <3>2
  <2> HIDE DEF item
  <2>4. Step(i, before) =
          IF item = None \/ Len(before) < i - 1 THEN before ELSE Append(before, item)
    BY DEF Step, item
  <2>5. CASE i <= Len(s)
    <3>1. Len(before) = i - 1 /\ i \in 1..Len(s) /\ item = s[i] /\ item \in Keys
      BY <2>1, <2>3, <2>5
    <3>2. Step(i, before) = Append(before, item)
      BY <2>4, <3>1, ServicesAssumption
    <3>3. /\ Append(before, item) \in Seq(Keys) /\ Len(Append(before, item)) = i
          /\ \A j \in 1..i : Append(before, item)[j] = s[j]
      BY <2>1, <3>1
    <3>4. Append(before, item) = Upto(i)
      BY <2>2, <2>5, <3>3
    <3> QED
      BY <3>2, <3>4 DEF before
  <2>6. CASE i > Len(s)
    <3>1. Len(before) = Len(s) /\ Len(Upto(i)) = Len(s) /\ item = None
      BY <2>1, <2>2, <2>3, <2>6
    <3>2. before = Upto(i)
      BY <2>1, <2>2, <3>1
    <3> QED
      BY <2>4, <3>1, <3>2 DEF before
  <2> QED
    BY <2>5, <2>6
<1>5. upto = Body(upto)
  BY <1>3, <1>4 DEF Step
<1>6. reach = Body(reach)
  BY <1>5 DEF reach
<1>7. n \in {i \in 0..n : reach[i] = Upto(i)}
  <2> DEFINE U == {i \in 0..n : reach[i] = Upto(i)}
  <2>1. \A i \in 0..n : reach[i] = Step(i, reach[i - 1])
    BY <1>6
  <2>2. 0 \in U
    BY <1>3, <2>1 DEF Step
  <2>3. ASSUME NEW i \in U, i < n PROVE i + 1 \in U
    <3>1. i + 1 \in 0..n /\ i + 1 \in 1..n /\ (i + 1) - 1 = i
      BY <2>3
    <3>2. reach[i + 1] = Step(i + 1, Upto(i))
      BY <2>1, <3>1
    <3> QED
      BY <1>4, <3>1, <3>2
  <2>4. U \subseteq 0..n
    OBVIOUS
  <2> HIDE DEF U
  <2>5. n \in U
    BY <2>2, <2>3, <2>4, Reached
  <2> QED
    BY <2>5 DEF U
<1> QED
  BY <1>1, <1>7 DEF from, Upto


-----------------------------------------------------------------------------
(* Linked map: what each operation makes of a list.                         *)

List == [map : SUBSET Keys, head : Link, tail : Link, size : Int, state : Nat,
         next : [Keys -> Link], previous : [Keys -> Link]]

\* The links of l are those of s, and its map and size too.
Linked(l, s) == l \in List /\ Chain(l.head, l.tail, l.next, l.previous, s)
KeysOf(s) == {s[i] : i \in 1..Len(s)}
Represents(l, s) == Linked(l, s) /\ l.map = KeysOf(s) /\ l.size = Len(s)

SameKeys(l, m) == m.map = l.map /\ m.size = l.size

\* A change is counted, so that an iteration is told.
Told(l, s, m, t) == m.state >= l.state /\ (m.state = l.state => m = l /\ t = s)

\* A change.
LEMMA ListChanged ==
  ASSUME NEW l \in List
  PROVE  LET m == LM!Changed(l) IN
         /\ m \in List /\ SameKeys(l, m) /\ m.state = l.state + 1
         /\ m.head = l.head /\ m.tail = l.tail /\ m.next = l.next /\ m.previous = l.previous
  BY DEF LM!Changed, List, SameKeys

\* An item of its own.
LEMMA LinkedNew ==
  ASSUME NEW l, NEW s, NEW k, Linked(l, s), Outside(k, s)
  PROVE  LET m == LM!New(l, k) IN
         /\ Linked(m, s) /\ SameKeys(l, m) /\ m.state = l.state
         /\ m.next[k] = None /\ m.previous[k] = None
<1> DEFINE m == LM!New(l, k)
<1>1. k \in Keys /\ l \in List
  BY DEF Linked, Outside
<1>2. /\ m \in List /\ m.head = l.head /\ m.tail = l.tail /\ SameKeys(l, m)
      /\ m.state = l.state
      /\ m.next = [l.next EXCEPT ![k] = None] /\ m.previous = [l.previous EXCEPT ![k] = None]
  BY <1>1 DEF LM!New, List, Link, SameKeys
<1>3. m.next[k] = None /\ m.previous[k] = None
  BY <1>1, <1>2 DEF List
<1> HIDE DEF m
<1>4. Chain(m.head, m.tail, m.next, m.previous, s)
  BY <1>2, ChainNew DEF Linked
<1> QED
  BY <1>2, <1>3, <1>4 DEF Linked, m

\* addItemFirst.
LEMMA LinkedFirst ==
  ASSUME NEW l, NEW s, NEW k, Linked(l, s), Outside(k, s),
         l.next[k] = None, l.previous[k] = None
  PROVE  LET m == LM!AddItemFirst(l, k) IN
         Linked(m, <<k>> \o s) /\ SameKeys(l, m) /\ m.state = l.state + 1
<1> DEFINE m == LM!AddItemFirst(l, k)
<1>1. k \in Keys /\ k \in Link /\ l \in List
  BY DEF Linked, Outside, Link
<1>2. LM!IsEmpty(l) <=> Len(s) = 0
  BY ChainEnds DEF LM!IsEmpty, Linked
<1>3. CASE Len(s) = 0
  <2>1. /\ m \in List /\ m.head = k /\ m.tail = k /\ SameKeys(l, m) /\ m.state = l.state + 1
        /\ m.next = l.next /\ m.previous = l.previous
    <3> DEFINE u == [l EXCEPT !.head = k, !.tail = k]
    <3>1. /\ u \in List /\ u.head = k /\ u.tail = k /\ SameKeys(l, u) /\ u.state = l.state
          /\ u.next = l.next /\ u.previous = l.previous
      BY <1>1 DEF List, SameKeys
    <3>2. m = LM!Changed(u)
      BY <1>2, <1>3 DEF LM!AddItemFirst
    <3> HIDE DEF u, m
    <3> QED
      BY <3>1, <3>2, ListChanged DEF SameKeys
  <2> HIDE DEF m
  <2>2. Chain(m.head, m.tail, m.next, m.previous, <<k>> \o s)
    <3>1. Chain(l.head, l.tail, l.next, l.previous, s)
      BY DEF Linked
    <3>2. Chain(k, k, l.next, l.previous, <<k>> \o s)
      BY <1>3, <3>1, ChainFirst
    <3> QED
      BY <2>1, <3>2
  <2> QED
    BY <2>1, <2>2 DEF Linked, m
<1>4. CASE Len(s) # 0
  <2>1. l.head \in Keys
    BY <1>4, ChainEnds DEF Linked, Link
  <2>2. /\ m \in List /\ m.head = k /\ m.tail = l.tail /\ SameKeys(l, m) /\ m.state = l.state + 1
        /\ m.next = [l.next EXCEPT ![k] = l.head]
        /\ m.previous = [l.previous EXCEPT ![l.head] = k]
    <3> DEFINE u == [l EXCEPT !.next[k] = l.head, !.previous[l.head] = k, !.head = k]
    <3>1. /\ u \in List /\ u.head = k /\ u.tail = l.tail /\ SameKeys(l, u) /\ u.state = l.state
          /\ u.next = [l.next EXCEPT ![k] = l.head]
          /\ u.previous = [l.previous EXCEPT ![l.head] = k]
      BY <1>1, <2>1 DEF List, SameKeys, Link
    <3>2. m = LM!Changed(u)
      BY <1>2, <1>4 DEF LM!AddItemFirst
    <3> HIDE DEF u, m
    <3> QED
      BY <3>1, <3>2, ListChanged DEF SameKeys
  <2> HIDE DEF m
  <2>3. Chain(m.head, m.tail, m.next, m.previous, <<k>> \o s)
    <3>1. Chain(l.head, l.tail, l.next, l.previous, s)
      BY DEF Linked
    <3>2. Chain(k, l.tail, [l.next EXCEPT ![k] = l.head], [l.previous EXCEPT ![l.head] = k],
                <<k>> \o s)
      BY <1>4, <3>1, ChainFirst
    <3> QED
      BY <2>2, <3>2
  <2> QED
    BY <2>2, <2>3 DEF Linked, m
<1> QED
  BY <1>3, <1>4

\* addItemLast.
LEMMA LinkedLast ==
  ASSUME NEW l, NEW s, NEW k, Linked(l, s), Outside(k, s),
         l.next[k] = None, l.previous[k] = None
  PROVE  LET m == LM!AddItemLast(l, k) IN
         Linked(m, Append(s, k)) /\ SameKeys(l, m) /\ m.state = l.state + 1
<1> DEFINE m == LM!AddItemLast(l, k)
<1>1. k \in Keys /\ k \in Link /\ l \in List
  BY DEF Linked, Outside, Link
<1>2. LM!IsEmpty(l) <=> Len(s) = 0
  BY ChainEnds DEF LM!IsEmpty, Linked
<1>3. CASE Len(s) = 0
  <2>1. /\ m \in List /\ m.head = k /\ m.tail = k /\ SameKeys(l, m) /\ m.state = l.state + 1
        /\ m.next = l.next /\ m.previous = l.previous
    <3> DEFINE u == [l EXCEPT !.head = k, !.tail = k]
    <3>1. /\ u \in List /\ u.head = k /\ u.tail = k /\ SameKeys(l, u) /\ u.state = l.state
          /\ u.next = l.next /\ u.previous = l.previous
      BY <1>1 DEF List, SameKeys
    <3>2. m = LM!Changed(u)
      BY <1>2, <1>3 DEF LM!AddItemLast
    <3> HIDE DEF u, m
    <3> QED
      BY <3>1, <3>2, ListChanged DEF SameKeys
  <2> HIDE DEF m
  <2>2. Chain(m.head, m.tail, m.next, m.previous, Append(s, k))
    <3>1. Chain(l.head, l.tail, l.next, l.previous, s)
      BY DEF Linked
    <3>2. Chain(k, k, l.next, l.previous, Append(s, k))
      BY <1>3, <3>1, ChainLast
    <3> QED
      BY <2>1, <3>2
  <2> QED
    BY <2>1, <2>2 DEF Linked, m
<1>4. CASE Len(s) # 0
  <2>1. l.tail \in Keys
    BY <1>4, ChainEnds DEF Linked, Link
  <2>2. /\ m \in List /\ m.head = l.head /\ m.tail = k /\ SameKeys(l, m) /\ m.state = l.state + 1
        /\ m.next = [l.next EXCEPT ![l.tail] = k]
        /\ m.previous = [l.previous EXCEPT ![k] = l.tail]
    <3> DEFINE u == [l EXCEPT !.previous[k] = l.tail, !.next[l.tail] = k, !.tail = k]
    <3>1. /\ u \in List /\ u.head = l.head /\ u.tail = k /\ SameKeys(l, u) /\ u.state = l.state
          /\ u.next = [l.next EXCEPT ![l.tail] = k]
          /\ u.previous = [l.previous EXCEPT ![k] = l.tail]
      BY <1>1, <2>1 DEF List, SameKeys, Link
    <3>2. m = LM!Changed(u)
      BY <1>2, <1>4 DEF LM!AddItemLast
    <3> HIDE DEF u, m
    <3> QED
      BY <3>1, <3>2, ListChanged DEF SameKeys
  <2> HIDE DEF m
  <2>3. Chain(m.head, m.tail, m.next, m.previous, Append(s, k))
    BY <1>4, <2>2, ChainLast DEF Linked
  <2> QED
    BY <2>2, <2>3 DEF Linked, m
<1> QED
  BY <1>3, <1>4

\* An item between its neighbours is taken out.
LEMMA LinkedUnlinked ==
  ASSUME NEW l, NEW s, Linked(l, s), NEW i \in 1..Len(s)
  PROVE  LET m == LM!Unlinked(l, s[i]) IN
         /\ Linked(m, RemoveAt(s, i)) /\ SameKeys(l, m) /\ m.state = l.state
         /\ Outside(s[i], RemoveAt(s, i))
<1> DEFINE k == s[i]
           n == l.next[k]
           p == l.previous[k]
           m == LM!Unlinked(l, k)
           f == IF p = None THEN [l EXCEPT !.head = n] ELSE [l EXCEPT !.next[p] = n]
<1>1. k \in Keys /\ l \in List
  BY DEF Linked, Chain
<1>2. n \in Link /\ p \in Link
  BY <1>1 DEF List
<1>3. m = IF n = None THEN [f EXCEPT !.tail = p] ELSE [f EXCEPT !.previous[n] = p]
  BY DEF LM!Unlinked
<1> HIDE DEF k, n, p, m
<1>4. /\ f \in List /\ SameKeys(l, f) /\ f.state = l.state
      /\ f.head = IF p = None THEN n ELSE l.head
      /\ f.tail = l.tail
      /\ f.next = IF p = None THEN l.next ELSE [l.next EXCEPT ![p] = n]
      /\ f.previous = l.previous
  <2>1. CASE p = None
    BY <1>1, <1>2, <2>1 DEF List, SameKeys
  <2>2. CASE p # None
    BY <1>1, <1>2, <2>2 DEF List, SameKeys, Link
  <2> QED
    BY <2>1, <2>2
<1> HIDE DEF f
<1>5. /\ m \in List /\ SameKeys(f, m) /\ m.state = f.state
      /\ m.head = f.head
      /\ m.tail = IF n = None THEN p ELSE f.tail
      /\ m.next = f.next
      /\ m.previous = IF n = None THEN f.previous ELSE [f.previous EXCEPT ![n] = p]
  <2>1. CASE n = None
    BY <1>2, <1>3, <1>4, <2>1 DEF List, SameKeys
  <2>2. CASE n # None
    BY <1>2, <1>3, <1>4, <2>2 DEF List, SameKeys, Link
  <2> QED
    BY <2>1, <2>2
<1>6. s[i] = k /\ n = l.next[k] /\ p = l.previous[k]
  BY DEF k, n, p
<1>7. /\ Chain(m.head, m.tail, m.next, m.previous, RemoveAt(s, i))
      /\ Outside(k, RemoveAt(s, i))
  <2>1. Chain(l.head, l.tail, l.next, l.previous, s)
    BY DEF Linked
  <2>2. /\ Chain(IF p = None THEN n ELSE l.head, IF n = None THEN p ELSE l.tail,
                 IF p = None THEN l.next ELSE [l.next EXCEPT ![p] = n],
                 IF n = None THEN l.previous ELSE [l.previous EXCEPT ![n] = p], RemoveAt(s, i))
        /\ Outside(k, RemoveAt(s, i))
    BY <2>1, ChainRemove DEF k, n, p
  <2> QED
    BY <1>4, <1>5, <2>2, Zenon
<1>8. SameKeys(l, m) /\ m.state = l.state
  BY <1>4, <1>5 DEF SameKeys
<1> QED
  BY <1>5, <1>7, <1>8 DEF Linked, m, k

\* removeItem.
LEMMA LinkedRemove ==
  ASSUME NEW l, NEW s, Linked(l, s), NEW i \in 1..Len(s)
  PROVE  LET m == LM!RemoveItem(l, s[i]) IN
         Linked(m, RemoveAt(s, i)) /\ SameKeys(l, m) /\ m.state = l.state + 1
<1> DEFINE k == s[i]
           u == LM!Unlinked(l, k)
           m == LM!New(u, k)
           r == LM!RemoveItem(l, k)
<1>1. /\ Linked(u, RemoveAt(s, i)) /\ SameKeys(l, u) /\ u.state = l.state
      /\ Outside(k, RemoveAt(s, i))
  BY LinkedUnlinked
<1>2. r = LM!Changed(m)
  BY DEF LM!RemoveItem
<1> HIDE DEF u, k, r
<1>3. Linked(m, RemoveAt(s, i)) /\ SameKeys(u, m) /\ m.state = u.state
  BY <1>1, LinkedNew
<1> HIDE DEF m
<1>4. /\ r \in List /\ SameKeys(m, r) /\ r.state = m.state + 1
      /\ r.head = m.head /\ r.tail = m.tail /\ r.next = m.next /\ r.previous = m.previous
  BY <1>2, <1>3 DEF LM!Changed, List, Linked, SameKeys
<1>5. Linked(r, RemoveAt(s, i))
  BY <1>3, <1>4 DEF Linked
<1> QED
  BY <1>1, <1>3, <1>4, <1>5 DEF SameKeys, k, r


\* A key that is moved to an end, or not.
Moved(s, i, touch) ==
    IF touch = "First" THEN <<s[i]>> \o RemoveAt(s, i)
    ELSE IF touch = "Last" THEN Append(RemoveAt(s, i), s[i])
    ELSE s

Touches == {"None", "First", "Last"}

\* What is at an end already is not moved.
LEMMA MovedStays ==
  ASSUME NEW s \in Seq(Keys), Len(s) # 0
  PROVE  Moved(s, 1, "First") = s /\ Moved(s, Len(s), "Last") = s
<1>1. Len(s) \in Nat /\ 1 \in 1..Len(s) /\ Len(s) \in 1..Len(s)
  OBVIOUS
<1>2. Moved(s, 1, "First") = s
  <2> DEFINE r == RemoveAt(s, 1)
             t == <<s[1]>> \o r
  <2>1. /\ r \in Seq(Keys) /\ Len(r) = Len(s) - 1
        /\ \A i \in 1..(Len(s) - 1) : r[i] = s[i + 1]
    BY <1>1, RemoveAtElements
  <2>2. <<s[1]>> \in Seq(Keys) /\ Len(<<s[1]>>) = 1 /\ <<s[1]>>[1] = s[1]
    BY <1>1
  <2> HIDE DEF r
  <2>3. /\ t \in Seq(Keys) /\ Len(t) = 1 + Len(r) /\ t[1] = s[1]
        /\ \A i \in 1..Len(r) : t[1 + i] = r[i]
    BY <2>1, <2>2, ConcatElements
  <2> HIDE DEF t
  <2>4. ASSUME NEW i \in 1..Len(s) PROVE t[i] = s[i]
    <3>1. CASE i = 1
      BY <2>3, <3>1
    <3>2. CASE i # 1
      <4>1. i - 1 \in 1..Len(r) /\ 1 + (i - 1) = i /\ (i - 1) + 1 = i
        BY <1>1, <2>1, <3>2
      <4>2. t[i] = r[i - 1] /\ r[i - 1] = s[i]
        BY <2>1, <2>3, <4>1
      <4> QED
        BY <4>2
    <3> QED
      BY <3>1, <3>2
  <2>5. Len(t) = Len(s) /\ t \in Seq(Keys)
    BY <1>1, <2>1, <2>3
  <2>6. t = s
    BY <2>4, <2>5
  <2> QED
    BY <2>6 DEF Moved, t, r
<1>3. Moved(s, Len(s), "Last") = s
  <2> DEFINE n == Len(s)
             r == RemoveAt(s, n)
             t == Append(r, s[n])
  <2>1. /\ r \in Seq(Keys) /\ Len(r) = n - 1
        /\ \A i \in 1..(n - 1) : r[i] = s[i]
    BY <1>1, RemoveAtElements
  <2>2. s[n] \in Keys
    BY <1>1
  <2> HIDE DEF r
  <2>3. /\ t \in Seq(Keys) /\ Len(t) = Len(r) + 1 /\ t[Len(r) + 1] = s[n]
        /\ \A i \in 1..Len(r) : t[i] = r[i]
    BY <2>1, <2>2, AppendElements
  <2> HIDE DEF t
  <2>4. ASSUME NEW i \in 1..n PROVE t[i] = s[i]
    BY <1>1, <2>1, <2>3
  <2>5. Len(t) = n /\ n \in Nat /\ t \in Seq(Keys)
    BY <1>1, <2>1, <2>3
  <2>6. t = s
    BY <2>4, <2>5
  <2> QED
    BY <2>6 DEF Moved, t, r
<1> QED
  BY <1>2, <1>3

\* touch.
LEMMA LinkedTouch ==
  ASSUME NEW l, NEW s, Linked(l, s), NEW i \in 1..Len(s), NEW touch \in Touches
  PROVE  LET m == LM!TouchItem(l, s[i], touch) IN
         Linked(m, Moved(s, i, touch)) /\ SameKeys(l, m) /\ Told(l, s, m, Moved(s, i, touch))
<1> DEFINE k == s[i]
           u == LM!Unlinked(l, k)
           v == LM!New(u, k)
           m == LM!TouchItem(l, k, touch)
           rest == RemoveAt(s, i)
<1>1. /\ s \in Seq(Keys) /\ Len(s) \in Nat /\ Len(s) # 0
      /\ l.head = s[1] /\ l.tail = s[Len(s)] /\ l.state \in Nat
      /\ 1 \in 1..Len(s) /\ Len(s) \in 1..Len(s)
  BY DEF Linked, Chain, List
<1>2. CASE m = l /\ Moved(s, i, touch) = s
  BY <1>1, <1>2 DEF SameKeys, Told
<1>3. /\ Linked(u, rest) /\ SameKeys(l, u) /\ u.state = l.state /\ Outside(k, rest)
  BY LinkedUnlinked
<1> HIDE DEF u, rest
<1>4. /\ Linked(v, rest) /\ SameKeys(l, v) /\ v.state = l.state
      /\ v.next[k] = None /\ v.previous[k] = None
  <2>1. /\ Linked(v, rest) /\ SameKeys(u, v) /\ v.state = u.state
        /\ v.next[k] = None /\ v.previous[k] = None
    BY <1>3, LinkedNew
  <2> QED
    BY <1>3, <2>1 DEF SameKeys
<1> HIDE DEF v
<1>5. CASE touch = "First"
  <2>1. CASE k = l.head
    <3>1. i = 1
      BY <1>1, <2>1 DEF Linked, Chain
    <3>2. m = l
      BY <1>5, <2>1 DEF LM!TouchItem
    <3> QED
      BY <1>1, <1>2, <1>5, <3>1, <3>2, MovedStays
  <2>2. CASE k # l.head
    <3>1. m = LM!AddItemFirst(v, k)
      BY <1>5, <2>2 DEF LM!TouchItem, v, u
    <3>2. Linked(m, <<k>> \o rest) /\ SameKeys(v, m) /\ m.state = v.state + 1
      BY <1>3, <1>4, <3>1, LinkedFirst
    <3>3. Moved(s, i, touch) = <<k>> \o rest
      BY <1>5 DEF Moved, rest
    <3> QED
      BY <1>1, <1>4, <3>2, <3>3 DEF SameKeys, Told
  <2> QED
    BY <2>1, <2>2
<1>6. CASE touch = "Last"
  <2>1. CASE k = l.tail
    <3>1. i = Len(s)
      BY <1>1, <2>1 DEF Linked, Chain
    <3>2. m = l
      BY <1>6, <2>1 DEF LM!TouchItem
    <3> QED
      BY <1>1, <1>2, <1>6, <3>1, <3>2, MovedStays
  <2>2. CASE k # l.tail
    <3>1. m = LM!AddItemLast(v, k)
      BY <1>6, <2>2 DEF LM!TouchItem, v, u
    <3>2. Linked(m, Append(rest, k)) /\ SameKeys(v, m) /\ m.state = v.state + 1
      BY <1>3, <1>4, <3>1, LinkedLast
    <3>3. Moved(s, i, touch) = Append(rest, k)
      BY <1>6 DEF Moved, rest
    <3> QED
      BY <1>1, <1>4, <3>2, <3>3 DEF SameKeys, Told
  <2> QED
    BY <2>1, <2>2
<1>7. CASE touch = "None"
  <2>1. m = l
    BY <1>7 DEF LM!TouchItem
  <2> QED
    BY <1>2, <1>7, <2>1 DEF Moved
<1> QED
  BY <1>5, <1>6, <1>7 DEF Touches

\* The keys of a sequence that gets or loses one.
LEMMA KeysAppended ==
  ASSUME NEW s \in Seq(Keys), NEW k \in Keys
  PROVE  /\ KeysOf(Append(s, k)) = KeysOf(s) \cup {k} /\ Len(Append(s, k)) = Len(s) + 1
         /\ KeysOf(<<k>> \o s) = KeysOf(s) \cup {k} /\ Len(<<k>> \o s) = Len(s) + 1
<1>1. KeysOf(Append(s, k)) = KeysOf(s) \cup {k} /\ Len(Append(s, k)) = Len(s) + 1
  <2> DEFINE t == Append(s, k)
  <2>1. /\ Len(s) \in Nat /\ Len(t) = Len(s) + 1 /\ t[Len(s) + 1] = k
        /\ \A i \in 1..Len(s) : t[i] = s[i]
    BY AppendElements
  <2> HIDE DEF t
  <2>2. ASSUME NEW i \in 1..Len(t) PROVE t[i] \in KeysOf(s) \cup {k}
    <3>1. CASE i = Len(s) + 1
      BY <2>1, <3>1
    <3>2. CASE i # Len(s) + 1
      <4>1. i \in 1..Len(s)
        BY <2>1, <3>2
      <4> QED
        BY <2>1, <4>1 DEF KeysOf
    <3> QED
      BY <3>1, <3>2
  <2>3. ASSUME NEW x \in KeysOf(s) \cup {k} PROVE x \in KeysOf(t)
    <3>1. CASE x = k
      <4>1. Len(s) + 1 \in 1..Len(t)
        BY <2>1
      <4> QED
        BY <2>1, <3>1, <4>1 DEF KeysOf
    <3>2. CASE x \in KeysOf(s)
      <4>1. PICK i \in 1..Len(s) : s[i] = x
        BY <3>2 DEF KeysOf
      <4>2. i \in 1..Len(t)
        BY <2>1
      <4> QED
        BY <2>1, <4>1, <4>2 DEF KeysOf
    <3> QED
      BY <3>1, <3>2
  <2>4. KeysOf(t) \subseteq KeysOf(s) \cup {k}
    BY <2>2 DEF KeysOf
  <2> QED
    BY <2>1, <2>3, <2>4 DEF t
<1>2. KeysOf(<<k>> \o s) = KeysOf(s) \cup {k} /\ Len(<<k>> \o s) = Len(s) + 1
  <2> DEFINE t == <<k>> \o s
  <2>1. <<k>> \in Seq(Keys) /\ Len(<<k>>) = 1 /\ <<k>>[1] = k
    OBVIOUS
  <2>2. /\ Len(s) \in Nat /\ Len(t) = Len(s) + 1 /\ t[1] = k
        /\ \A i \in 1..Len(s) : t[1 + i] = s[i]
    BY <2>1, ConcatElements
  <2> HIDE DEF t
  <2>3. ASSUME NEW i \in 1..Len(t) PROVE t[i] \in KeysOf(s) \cup {k}
    <3>1. CASE i = 1
      BY <2>2, <3>1
    <3>2. CASE i # 1
      <4>1. i - 1 \in 1..Len(s) /\ 1 + (i - 1) = i
        BY <2>2, <3>2
      <4>2. t[i] = s[i - 1]
        BY <2>2, <4>1
      <4> QED
        BY <4>1, <4>2 DEF KeysOf
    <3> QED
      BY <3>1, <3>2
  <2>4. ASSUME NEW x \in KeysOf(s) \cup {k} PROVE x \in KeysOf(t)
    <3>1. CASE x = k
      <4>1. 1 \in 1..Len(t)
        BY <2>2
      <4> QED
        BY <2>2, <3>1, <4>1 DEF KeysOf
    <3>2. CASE x \in KeysOf(s)
      <4>1. PICK i \in 1..Len(s) : s[i] = x
        BY <3>2 DEF KeysOf
      <4>2. 1 + i \in 1..Len(t)
        BY <2>2
      <4> QED
        BY <2>2, <4>1, <4>2 DEF KeysOf
    <3> QED
      BY <3>1, <3>2
  <2>5. KeysOf(t) \subseteq KeysOf(s) \cup {k}
    BY <2>3 DEF KeysOf
  <2> QED
    BY <2>2, <2>4, <2>5 DEF t
<1> QED
  BY <1>1, <1>2

LEMMA KeysRemoved ==
  ASSUME NEW s \in Seq(Keys), NEW i \in 1..Len(s),
         \A a, b \in 1..Len(s) : s[a] = s[b] => a = b
  PROVE  /\ RemoveAt(s, i) \in Seq(Keys)
         /\ KeysOf(RemoveAt(s, i)) = KeysOf(s) \ {s[i]} /\ Len(RemoveAt(s, i)) = Len(s) - 1
<1> DEFINE t == RemoveAt(s, i)
<1>1. /\ t \in Seq(Keys) /\ Len(s) \in Nat /\ Len(t) = Len(s) - 1
      /\ \A j \in 1..(Len(s) - 1) : t[j] = IF j < i THEN s[j] ELSE s[j + 1]
  BY RemoveAtElements
<1> HIDE DEF t
<1>2. ASSUME NEW j \in 1..Len(t) PROVE t[j] \in KeysOf(s) \ {s[i]}
  <2> DEFINE o == IF j < i THEN j ELSE j + 1
  <2>1. o \in 1..Len(s) /\ o # i /\ t[j] = s[o]
    BY <1>1
  <2> HIDE DEF o
  <2> QED
    BY <2>1 DEF KeysOf
<1>3. ASSUME NEW x \in KeysOf(s) \ {s[i]} PROVE x \in KeysOf(t)
  <2>1. PICK o \in 1..Len(s) : s[o] = x /\ o # i
    BY DEF KeysOf
  <2> DEFINE j == IF o < i THEN o ELSE o - 1
  <2>2. j \in 1..Len(t) /\ o = IF j < i THEN j ELSE j + 1
    BY <1>1, <2>1
  <2> HIDE DEF j
  <2>3. t[j] = x
    BY <1>1, <2>1, <2>2
  <2> QED
    BY <2>2, <2>3 DEF KeysOf
<1>4. KeysOf(t) \subseteq KeysOf(s) \ {s[i]}
  BY <1>2 DEF KeysOf
<1> QED
  BY <1>1, <1>3, <1>4 DEF t

\* A key that is moved stays.
LEMMA KeysMoved ==
  ASSUME NEW s \in Seq(Keys), NEW i \in 1..Len(s), NEW touch \in Touches,
         \A a, b \in 1..Len(s) : s[a] = s[b] => a = b
  PROVE  KeysOf(Moved(s, i, touch)) = KeysOf(s) /\ Len(Moved(s, i, touch)) = Len(s)
<1> DEFINE t == RemoveAt(s, i)
<1>1. t \in Seq(Keys) /\ KeysOf(t) = KeysOf(s) \ {s[i]} /\ Len(t) = Len(s) - 1
  BY KeysRemoved
<1>2. s[i] \in Keys /\ s[i] \in KeysOf(s) /\ Len(s) \in Nat
  BY DEF KeysOf
<1> HIDE DEF t
<1>3. /\ KeysOf(Append(t, s[i])) = KeysOf(s) /\ Len(Append(t, s[i])) = Len(s)
      /\ KeysOf(<<s[i]>> \o t) = KeysOf(s) /\ Len(<<s[i]>> \o t) = Len(s)
  <2> DEFINE e == s[i]
  <2> HIDE DEF e
  <2>1. e \in Keys /\ e \in KeysOf(s) /\ KeysOf(t) = KeysOf(s) \ {e} /\ s[i] = e
    BY <1>1, <1>2 DEF e
  <2>2. /\ KeysOf(Append(t, e)) = KeysOf(t) \cup {e} /\ Len(Append(t, e)) = Len(t) + 1
        /\ KeysOf(<<e>> \o t) = KeysOf(t) \cup {e} /\ Len(<<e>> \o t) = Len(t) + 1
    BY <1>1, <2>1, KeysAppended
  <2>3. KeysOf(t) \cup {e} = KeysOf(s) /\ Len(t) + 1 = Len(s)
    BY <1>1, <1>2, <2>1
  <2> QED
    BY <2>1, <2>2, <2>3
<1> QED
  BY <1>3 DEF Moved, t


-----------------------------------------------------------------------------
(* Linked map: what each call makes of the map.                             *)

Distinct(s) == s \in Seq(Keys) /\ \A i, j \in 1..Len(s) : s[i] = s[j] => i = j

\* What a list that represents a sequence is.
LEMMA RepresentsParts ==
  ASSUME NEW l, NEW s, Represents(l, s)
  PROVE  /\ l \in List /\ Linked(l, s) /\ Distinct(s) /\ Len(s) \in Nat
         /\ l.map = KeysOf(s) /\ l.size = Len(s) /\ l.state \in Nat
         /\ l.head = IF Len(s) = 0 THEN None ELSE s[1]
  BY DEF Represents, Linked, Chain, Distinct, List

\* clear.
LEMMA RepresentsClear ==
  ASSUME NEW l, NEW s, Represents(l, s)
  PROVE  Represents(LM!Clear(l), <<>>) /\ LM!Clear(l).state = l.state + 1
<1> DEFINE u == [l EXCEPT !.map = {}, !.head = None, !.tail = None, !.size = 0]
           m == LM!Clear(l)
<1>1. l \in List
  BY RepresentsParts
<1>2. /\ u \in List /\ u.map = {} /\ u.size = 0 /\ u.head = None /\ u.tail = None
      /\ u.state = l.state
  <2>1. u \in List
    <3>1. {} \in SUBSET Keys /\ None \in Link /\ 0 \in Int
      BY DEF Link
    <3> QED
      BY <1>1, <3>1 DEF List
  <2>2. /\ u.map = {} /\ u.size = 0 /\ u.head = None /\ u.tail = None
        /\ u.state = l.state
    BY <1>1 DEF List
  <2> QED
    BY <2>1, <2>2
<1>3. m = LM!Changed(u)
  BY DEF LM!Clear
<1> HIDE DEF u, m
<1>4. /\ m \in List /\ m.map = {} /\ m.size = 0 /\ m.head = None /\ m.tail = None
      /\ m.state = l.state + 1
  BY <1>2, <1>3, ListChanged DEF SameKeys
<1>5. m.next \in [Keys -> Link] /\ m.previous \in [Keys -> Link]
  BY <1>4 DEF List
<1>6. Len(<<>>) = 0 /\ <<>> \in Seq(Keys)
  OBVIOUS
<1>7. Chain(m.head, m.tail, m.next, m.previous, <<>>)
  BY <1>4, <1>5, <1>6 DEF Chain
<1>8. KeysOf(<<>>) = {}
  BY DEF KeysOf
<1> QED
  BY <1>4, <1>6, <1>7, <1>8 DEF Represents, Linked, m

\* get, and set of a key that is there.
LEMMA RepresentsTouch ==
  ASSUME NEW l, NEW s, Represents(l, s), NEW i \in 1..Len(s), NEW touch \in Touches
  PROVE  LET m == LM!TouchItem(l, s[i], touch)
             t == Moved(s, i, touch) IN
         Represents(m, t) /\ Told(l, s, m, t) /\ Len(t) = Len(s)
<1> DEFINE m == LM!TouchItem(l, s[i], touch)
           t == Moved(s, i, touch)
<1>1. Linked(m, t) /\ SameKeys(l, m) /\ Told(l, s, m, t)
  BY LinkedTouch DEF Represents
<1>2. KeysOf(t) = KeysOf(s) /\ Len(t) = Len(s)
  BY KeysMoved, RepresentsParts DEF Distinct
<1> QED
  BY <1>1, <1>2 DEF Represents, SameKeys

\* set of a key that is not there.
LEMMA RepresentsAdded ==
  ASSUME NEW l, NEW s, Represents(l, s), NEW k \in Keys, k \notin l.map, NEW touch
  PROVE  LET m == LM!SetKey(l, k, touch)
             t == IF touch = "First" THEN <<k>> \o s ELSE Append(s, k) IN
         Represents(m, t) /\ m.state = l.state + 1 /\ Len(t) = Len(s) + 1
<1> DEFINE u == LM!New(l, k)
           v == IF touch = "First" THEN LM!AddItemFirst(u, k) ELSE LM!AddItemLast(u, k)
           m == LM!SetKey(l, k, touch)
           t == IF touch = "First" THEN <<k>> \o s ELSE Append(s, k)
<1>1. /\ Linked(l, s) /\ s \in Seq(Keys) /\ l.map = KeysOf(s) /\ l.size = Len(s)
      /\ Len(s) \in Nat
  BY RepresentsParts DEF Distinct
<1>2. Outside(k, s)
  BY <1>1 DEF Outside, KeysOf
<1>3. m = [v EXCEPT !.map = @ \cup {k}, !.size = @ + 1]
  BY DEF LM!SetKey
<1> HIDE DEF u, m
<1>4. /\ Linked(u, s) /\ SameKeys(l, u) /\ u.state = l.state
      /\ u.next[k] = None /\ u.previous[k] = None
  BY <1>1, <1>2, LinkedNew DEF u
<1>5. Linked(v, t) /\ SameKeys(u, v) /\ v.state = u.state + 1
  <2>1. CASE touch = "First"
    BY <1>2, <1>4, <2>1, LinkedFirst
  <2>2. CASE touch # "First"
    BY <1>2, <1>4, <2>2, LinkedLast
  <2> QED
    BY <2>1, <2>2
<1>6. KeysOf(t) = KeysOf(s) \cup {k} /\ Len(t) = Len(s) + 1
  BY <1>1, KeysAppended
<1> HIDE DEF v, t
<1>7. v \in List
  BY <1>5 DEF Linked
<1>8. /\ m \in List /\ m.map = v.map \cup {k} /\ m.size = v.size + 1 /\ m.state = v.state
      /\ m.head = v.head /\ m.tail = v.tail /\ m.next = v.next /\ m.previous = v.previous
  <2>1. v.map \cup {k} \in SUBSET Keys /\ v.size + 1 \in Int
    BY <1>7 DEF List
  <2>2. m \in List
    BY <1>3, <1>7, <2>1 DEF List
  <2>3. /\ m.map = v.map \cup {k} /\ m.size = v.size + 1 /\ m.state = v.state
        /\ m.head = v.head /\ m.tail = v.tail /\ m.next = v.next /\ m.previous = v.previous
    BY <1>3, <1>7 DEF List
  <2> QED
    BY <2>2, <2>3
<1>9. Linked(m, t)
  BY <1>5, <1>8 DEF Linked
<1> QED
  BY <1>1, <1>4, <1>5, <1>6, <1>8, <1>9 DEF Represents, SameKeys, m, t

\* delete and shift.
LEMMA RepresentsRemoved ==
  ASSUME NEW l, NEW s, Represents(l, s), NEW i \in 1..Len(s)
  PROVE  LET m == LM!RemoveKey(l, s[i])
             t == RemoveAt(s, i) IN
         Represents(m, t) /\ m.state = l.state + 1 /\ Len(t) = Len(s) - 1
<1> DEFINE k == s[i]
           u == [l EXCEPT !.map = @ \ {k}, !.size = @ - 1]
           m == LM!RemoveKey(l, k)
           t == RemoveAt(s, i)
<1>1. /\ Linked(l, s) /\ l \in List /\ Distinct(s) /\ l.map = KeysOf(s) /\ l.size = Len(s)
      /\ Len(s) \in Nat
  BY RepresentsParts
<1>2. k \in l.map
  BY <1>1 DEF KeysOf
<1>3. m = LM!RemoveItem(u, k)
  BY <1>2 DEF LM!RemoveKey
<1> HIDE DEF m
<1>4. /\ u \in List /\ u.map = l.map \ {k} /\ u.size = l.size - 1 /\ u.state = l.state
      /\ u.head = l.head /\ u.tail = l.tail /\ u.next = l.next /\ u.previous = l.previous
  <2>1. l.map \ {k} \in SUBSET Keys /\ l.size - 1 \in Int
    BY <1>1 DEF List
  <2>2. u \in List
    BY <1>1, <2>1 DEF List
  <2>3. /\ u.map = l.map \ {k} /\ u.size = l.size - 1 /\ u.state = l.state
        /\ u.head = l.head /\ u.tail = l.tail /\ u.next = l.next /\ u.previous = l.previous
    BY <1>1 DEF List
  <2> QED
    BY <2>2, <2>3
<1> HIDE DEF u
<1>5. Linked(u, s)
  BY <1>1, <1>4 DEF Linked
<1>6. Linked(m, t) /\ SameKeys(u, m) /\ m.state = u.state + 1
  BY <1>3, <1>5, LinkedRemove
<1>7. KeysOf(t) = KeysOf(s) \ {k} /\ Len(t) = Len(s) - 1
  BY <1>1, KeysRemoved DEF Distinct
<1> QED
  BY <1>1, <1>4, <1>6, <1>7 DEF Represents, SameKeys, m

\* The keys behind the first m are the others.
LEMMA KeysTrimmed ==
  ASSUME NEW s, Distinct(s), NEW m \in 1..Len(s)
  PROVE  KeysOf(SubSeq(s, m + 1, Len(s))) = KeysOf(s) \ KeysOf(SubSeq(s, 1, m))
<1> DEFINE a == SubSeq(s, 1, m)
           b == SubSeq(s, m + 1, Len(s))
<1>1. /\ Len(s) \in Nat
      /\ Len(a) = m /\ \A i \in 1..m : a[i] = s[i]
      /\ Len(b) = Len(s) - m /\ \A i \in 1..(Len(s) - m) : b[i] = s[m + i]
  BY DEF Distinct
<1> HIDE DEF a, b
<1>2. ASSUME NEW i \in 1..Len(b) PROVE b[i] \in KeysOf(s) \ KeysOf(a)
  <2>1. m + i \in 1..Len(s) /\ b[i] = s[m + i]
    BY <1>1
  <2>2. ASSUME NEW j \in 1..Len(a) PROVE a[j] # b[i]
    <3>1. j \in 1..Len(s) /\ j # m + i /\ a[j] = s[j]
      BY <1>1
    <3> QED
      BY <2>1, <3>1 DEF Distinct
  <2> QED
    BY <2>1, <2>2 DEF KeysOf
<1>3. ASSUME NEW x \in KeysOf(s) \ KeysOf(a) PROVE x \in KeysOf(b)
  <2>1. PICK i \in 1..Len(s) : s[i] = x
    BY DEF KeysOf
  <2>2. ~(i <= m)
    BY <1>1, <2>1 DEF KeysOf
  <2>3. i - m \in 1..Len(b) /\ m + (i - m) = i
    BY <1>1, <2>2
  <2>4. b[i - m] = x
    BY <1>1, <2>1, <2>3
  <2> QED
    BY <2>3, <2>4 DEF KeysOf
<1>4. KeysOf(b) \subseteq KeysOf(s) \ KeysOf(a)
  BY <1>2 DEF KeysOf
<1> QED
  BY <1>3, <1>4 DEF a, b

\* checkTrim: the last keys are left, as many as is said, if there were too many.
LEMMA RepresentsTrimmed ==
  ASSUME NEW l, NEW s, Represents(l, s), NEW max, NEW rest,
         max # None => max \in Nat /\ rest \in 0..max
  PROVE  LET m == LM!CheckTrim(l, max, rest)
             t == LM!Trimmed(s, max, rest) IN
         Represents(m, t) /\ Told(l, s, m, t) /\ (max # None => Len(t) <= max)
<1> DEFINE m == LM!CheckTrim(l, max, rest)
           t == LM!Trimmed(s, max, rest)
<1>1. /\ l \in List /\ Linked(l, s) /\ Distinct(s) /\ Len(s) \in Nat
      /\ l.map = KeysOf(s) /\ l.size = Len(s) /\ l.state \in Nat
      /\ l.head = IF Len(s) = 0 THEN None ELSE s[1]
  BY RepresentsParts
<1>2. CASE ~(max # None /\ Len(s) > max)
  <2>1. m = l /\ t = s
    BY <1>1, <1>2 DEF LM!CheckTrim, LM!Trimmed
  <2> QED
    BY <1>1, <1>2, <2>1 DEF Told
<1>3. CASE max # None /\ Len(s) > max
  <2>1. /\ m = LM!TrimOld(l, rest) /\ t = SubSeq(s, Len(s) - rest + 1, Len(s))
        /\ rest \in Nat /\ rest <= max /\ max \in Nat /\ rest < Len(s)
    BY <1>1, <1>3 DEF LM!CheckTrim, LM!Trimmed
  <2> HIDE DEF m, t
  <2>2. CASE rest = 0
    <3>1. m = LM!Clear(l)
      BY <1>1, <2>1, <2>2 DEF LM!TrimOld
    <3>2. t = <<>> /\ Len(t) = 0
      BY <1>1, <2>1, <2>2 DEF Distinct
    <3>3. Represents(m, t) /\ m.state = l.state + 1
      BY <3>1, <3>2, RepresentsClear
    <3> QED
      BY <1>1, <2>1, <3>2, <3>3 DEF Told, m, t
  <2>3. CASE rest # 0
    <3> DEFINE n == Len(s) - rest
               trimmed == LM!Along(l.next, l.head, l.size - rest)
               current == l.next[LM!Last(trimmed)]
               u == [l EXCEPT !.map = @ \ LM!ToSet(trimmed), !.head = current,
                              !.size = rest, !.previous[current] = None]
    <3>1. n \in 1..Len(s) /\ n < Len(s) /\ n \in Nat
      BY <1>1, <2>1, <2>3
    <3>2. m = LM!Changed(u)
      BY <1>1, <2>1, <2>3 DEF LM!TrimOld
    <3>3. trimmed = SubSeq(s, 1, n)
      <4>1. /\ s \in Seq(Keys)
            /\ \A i \in 1..Len(s) : l.next[s[i]] = IF i < Len(s) THEN s[i + 1] ELSE None
        BY <1>1 DEF Linked, Chain
      <4>2. l.size - rest = n
        BY <1>1
      <4> HIDE DEF n
      <4>3. LM!Along(l.next, l.head, n) = SubSeq(s, 1, IF n < Len(s) THEN n ELSE Len(s))
        BY <1>1, <3>1, <4>1, AlongFollows
      <4> QED
        BY <3>1, <4>2, <4>3
    <3> HIDE DEF n, trimmed
    <3>4. /\ trimmed \in Seq(Keys) /\ Len(trimmed) = n /\ LM!ToSet(trimmed) = KeysOf(trimmed)
          /\ LM!Last(trimmed) = s[n]
      BY <1>1, <3>1, <3>3 DEF Distinct, LM!Last, LM!ToSet, KeysOf
    <3>5. current = s[n + 1] /\ current \in Keys
      BY <1>1, <3>1, <3>4 DEF Linked, Chain
    <3> HIDE DEF current
    <3>6. /\ u \in List /\ u.map = l.map \ KeysOf(trimmed) /\ u.head = current
          /\ u.tail = l.tail /\ u.size = rest /\ u.state = l.state /\ u.next = l.next
          /\ u.previous = [l.previous EXCEPT ![current] = None]
      <4>1. l.map \ KeysOf(trimmed) \in SUBSET Keys /\ current \in Link /\ rest \in Int
        BY <1>1, <2>1, <3>5 DEF List, Link
      <4>2. [l.previous EXCEPT ![current] = None] \in [Keys -> Link]
        BY <1>1, <3>5 DEF List, Link
      <4>3. u = [l EXCEPT !.map = l.map \ KeysOf(trimmed), !.head = current, !.size = rest,
                          !.previous = [l.previous EXCEPT ![current] = None]]
        BY <1>1, <3>4 DEF List
      <4> HIDE DEF u
      <4>4. u \in List
        BY <1>1, <4>1, <4>2, <4>3 DEF List
      <4>5. /\ u.map = l.map \ KeysOf(trimmed) /\ u.head = current
            /\ u.tail = l.tail /\ u.size = rest /\ u.state = l.state /\ u.next = l.next
            /\ u.previous = [l.previous EXCEPT ![current] = None]
        BY <1>1, <4>3 DEF List
      <4> QED
        BY <4>4, <4>5
    <3> HIDE DEF u
    <3>7. /\ m \in List /\ m.map = u.map /\ m.size = u.size /\ m.state = u.state + 1
          /\ m.head = u.head /\ m.tail = u.tail /\ m.next = u.next /\ m.previous = u.previous
      BY <3>2, <3>6, ListChanged DEF SameKeys
    <3>8. t = SubSeq(s, n + 1, Len(s)) /\ Len(t) = rest
      BY <1>1, <2>1, <3>1 DEF n, Distinct
    <3>9. Chain(m.head, m.tail, m.next, m.previous, t)
      <4>1. Chain(l.head, l.tail, l.next, l.previous, s)
        BY <1>1 DEF Linked
      <4>2. Chain(s[n + 1], l.tail, l.next, [l.previous EXCEPT ![s[n + 1]] = None],
                  SubSeq(s, n + 1, Len(s)))
        BY <3>1, <4>1, ChainTrim
      <4> QED
        BY <3>5, <3>6, <3>7, <3>8, <4>2
    <3>10. m.map = KeysOf(t)
      BY <1>1, <3>1, <3>3, <3>6, <3>7, <3>8, KeysTrimmed
    <3>11. Represents(m, t)
      BY <3>6, <3>7, <3>8, <3>9, <3>10 DEF Represents, Linked
    <3> QED
      <4>1. m.state > l.state
        BY <1>1, <3>6, <3>7
      <4>2. Told(l, s, m, t) /\ Len(t) <= max
        BY <1>1, <2>1, <3>7, <3>6, <3>8, <4>1 DEF Told
      <4> QED
        BY <3>11, <4>2 DEF m, t
  <2> QED
    BY <2>2, <2>3
<1> QED
  BY <1>2, <1>3


-----------------------------------------------------------------------------
(* Linked map: the invariant.                                               *)

\* An iteration that was not told of a change stands where it has come to.
IteratorFits ==
    iterator # None =>
        /\ iterator \in [current : Link, seen : Seq(Keys), same : BOOLEAN]
        /\ iterator.same =>
              /\ Len(iterator.seen) <= Len(order)
              /\ \A i \in 1..Len(iterator.seen) : iterator.seen[i] = order[i]
              /\ iterator.current =
                    IF Len(iterator.seen) < Len(order) THEN order[Len(iterator.seen) + 1]
                    ELSE None

LimitFits ==
    /\ limit \in Limits
    /\ limit # None => kept \in 0..limit /\ Len(order) <= limit

MapInv == Represents(list, order) /\ list.state = 0 /\ LimitFits /\ IteratorFits

LEMMA MapInit == LM!Init => MapInv
<1> SUFFICES ASSUME LM!Init PROVE MapInv
  OBVIOUS
<1>1. list \in List
  BY DEF LM!Init, LM!Empty, List, Link
<1>2. /\ list.map = {} /\ list.size = 0 /\ list.head = None /\ list.tail = None /\ list.state = 0
      /\ order = <<>> /\ iterator = None
  BY DEF LM!Init, LM!Empty
<1>3. Len(order) = 0 /\ order \in Seq(Keys)
  BY <1>2
<1>4. list.next \in [Keys -> Link] /\ list.previous \in [Keys -> Link]
  BY <1>1 DEF List
<1>5. Chain(list.head, list.tail, list.next, list.previous, order)
  BY <1>2, <1>3, <1>4 DEF Chain
<1>6. KeysOf(order) = {}
  BY <1>3 DEF KeysOf
<1>7. Represents(list, order)
  BY <1>1, <1>2, <1>3, <1>5, <1>6 DEF Represents, Linked
<1>8. LimitFits
  <2>1. limit # None => limit \in Nat /\ kept \in 0..limit
    BY ServicesAssumption DEF LM!Init
  <2> QED
    BY <1>3, <2>1 DEF LM!Init, LimitFits
<1> QED
  BY <1>2, <1>7, <1>8 DEF MapInv, IteratorFits

\* A call that leaves a list and the order it should have.
LEMMA MapCalled ==
  ASSUME MapInv, NEW l, LM!Call(l), Represents(l, order'), Told(list, order, l, order'), LimitFits'
  PROVE  MapInv'
<1>1. list' = [l EXCEPT !.state = 0] /\ l \in List /\ Linked(l, order')
  BY RepresentsParts DEF LM!Call
<1>2. /\ list' \in List /\ list'.map = l.map /\ list'.size = l.size /\ list'.state = 0
      /\ list'.head = l.head /\ list'.tail = l.tail
      /\ list'.next = l.next /\ list'.previous = l.previous
  BY <1>1 DEF List
<1>3. Represents(list', order')
  BY <1>2 DEF Represents, Linked
<1>4. IteratorFits'
  <2> SUFFICES ASSUME iterator' # None
               PROVE  IteratorFits'
    BY DEF IteratorFits
  <2>1. /\ iterator # None
        /\ iterator' = [iterator EXCEPT !.same = @ /\ l.state = 0]
    BY DEF LM!Call
  <2>2. iterator \in [current : Link, seen : Seq(Keys), same : BOOLEAN]
    BY <2>1 DEF MapInv, IteratorFits
  <2>3. /\ iterator' \in [current : Link, seen : Seq(Keys), same : BOOLEAN]
        /\ iterator'.current = iterator.current /\ iterator'.seen = iterator.seen
        /\ iterator'.same <=> iterator.same /\ l.state = 0
    BY <2>1, <2>2
  <2>4. l.state = 0 => order' = order
    BY DEF Told, MapInv
  <2> QED
    BY <2>1, <2>3, <2>4 DEF MapInv, IteratorFits
<1> QED
  BY <1>2, <1>3, <1>4 DEF MapInv

\* Where a key is, and the order without it.
LEMMA WithoutIs ==
  ASSUME MapInv, NEW k
  PROVE  /\ k \notin KeysOf(order) => LM!Without(k) = order
         /\ k \in KeysOf(order) =>
              \E i \in 1..Len(order) : order[i] = k /\ LM!Without(k) = RemoveAt(order, i)
         /\ LM!ToSet(order) = KeysOf(order)
<1>1. DOMAIN order = 1..Len(order) /\ Distinct(order)
  BY RepresentsParts DEF MapInv, Distinct
<1>2. LM!ToSet(order) = KeysOf(order)
  BY <1>1 DEF LM!ToSet, KeysOf
<1>3. ASSUME k \in KeysOf(order)
      PROVE  \E i \in 1..Len(order) : order[i] = k /\ LM!Without(k) = RemoveAt(order, i)
  <2> DEFINE i == CHOOSE i \in DOMAIN order : order[i] = k
  <2>1. i \in 1..Len(order) /\ order[i] = k
    BY <1>1, <1>3 DEF KeysOf
  <2>2. LM!Without(k) = RemoveAt(order, i)
    BY <1>2, <1>3 DEF LM!Without, LM!RemoveAt, RemoveAt
  <2> QED
    BY <2>1, <2>2
<1>4. k \notin KeysOf(order) => LM!Without(k) = order
  BY <1>2 DEF LM!Without
<1> QED
  BY <1>2, <1>3, <1>4

\* The order a touch should make is the one it makes.
LEMMA TouchedIs ==
  ASSUME MapInv, NEW k, k \in KeysOf(order), NEW touch \in Touches
  PROVE  \E i \in 1..Len(order) : order[i] = k /\ LM!Touched(k, touch) = Moved(order, i, touch)
<1>1. PICK i \in 1..Len(order) : order[i] = k /\ LM!Without(k) = RemoveAt(order, i)
  BY WithoutIs
<1>2. CASE touch = "First"
  BY <1>1, <1>2 DEF LM!Touched, Moved
<1>3. CASE touch = "Last"
  BY <1>1, <1>3 DEF LM!Touched, Moved
<1>4. CASE touch = "None"
  BY <1>1, <1>4 DEF LM!Touched, Moved
<1> QED
  BY <1>2, <1>3, <1>4 DEF Touches

\* The limit of a cache that is kept.
LEMMA LimitKept ==
  ASSUME MapInv
  PROVE  limit # None => limit \in Nat /\ kept \in 0..limit
  BY ServicesAssumption DEF MapInv, LimitFits

-----------------------------------------------------------------------------
(* Linked map: the calls.                                                   *)

LEMMA MapGet ==
  ASSUME MapInv, NEW k \in Keys, NEW touch \in Touches, LM!Get(k, touch)
  PROVE  MapInv'
<1> DEFINE l == LM!GetKey(list, k, touch)
<1>1. LM!Call(l) /\ limit' = limit /\ kept' = kept
  BY DEF LM!Get
<1>2. /\ Represents(list, order) /\ list.map = KeysOf(order) /\ LM!ToSet(order) = KeysOf(order)
      /\ list.state \in Nat
  BY RepresentsParts, WithoutIs DEF MapInv
<1>3. CASE k \in KeysOf(order)
  <2>1. PICK i \in 1..Len(order) :
           order[i] = k /\ LM!Touched(k, touch) = Moved(order, i, touch)
    BY <1>3, TouchedIs
  <2>2. l = LM!TouchItem(list, order[i], touch) /\ order' = Moved(order, i, touch)
    BY <1>2, <1>3, <2>1 DEF LM!GetKey, LM!Get
  <2> HIDE DEF l
  <2>3. Represents(l, order') /\ Told(list, order, l, order') /\ Len(order') = Len(order)
    BY <1>2, <2>2, RepresentsTouch
  <2>4. LimitFits'
    BY <1>1, <2>3 DEF MapInv, LimitFits
  <2> QED
    BY <1>1, <2>3, <2>4, MapCalled
<1>4. CASE k \notin KeysOf(order)
  <2>1. l = list /\ order' = order
    BY <1>2, <1>4 DEF LM!GetKey, LM!Get
  <2>2. Told(list, order, l, order')
    BY <1>2, <2>1 DEF Told
  <2>3. LimitFits'
    BY <1>1, <2>1 DEF MapInv, LimitFits
  <2> QED
    BY <1>1, <1>2, <2>1, <2>2, <2>3, MapCalled
<1> QED
  BY <1>3, <1>4

\* What set makes of the list before it is trimmed.
LEMMA MapSetKey ==
  ASSUME MapInv, NEW k \in Keys, NEW touch \in Touches
  PROVE  LET l == LM!SetKey(list, k, touch)
             s == IF k \in LM!ToSet(order) \/ touch = "First" THEN LM!Touched(k, touch)
                  ELSE Append(order, k) IN
         Represents(l, s) /\ Told(list, order, l, s)
<1> DEFINE l == LM!SetKey(list, k, touch)
           s == IF k \in LM!ToSet(order) \/ touch = "First" THEN LM!Touched(k, touch)
                ELSE Append(order, k)
<1>1. /\ Represents(list, order) /\ list.map = KeysOf(order) /\ LM!ToSet(order) = KeysOf(order)
      /\ list.state \in Nat
  BY RepresentsParts, WithoutIs DEF MapInv
<1>2. CASE k \in KeysOf(order)
  <2>1. PICK i \in 1..Len(order) :
           order[i] = k /\ LM!Touched(k, touch) = Moved(order, i, touch)
    BY <1>2, TouchedIs
  <2>2. l = LM!TouchItem(list, order[i], touch) /\ s = Moved(order, i, touch)
    BY <1>1, <1>2, <2>1 DEF LM!SetKey
  <2> HIDE DEF l, s
  <2>3. Represents(l, s) /\ Told(list, order, l, s)
    BY <1>1, <2>2, RepresentsTouch
  <2> QED
    BY <2>3 DEF l, s
<1>3. CASE k \notin KeysOf(order)
  <2>1. s = IF touch = "First" THEN <<k>> \o order ELSE Append(order, k)
    BY <1>1, <1>3, WithoutIs DEF LM!Touched
  <2>2. k \notin list.map
    BY <1>1, <1>3
  <2> HIDE DEF l, s
  <2>3. Represents(l, s) /\ l.state = list.state + 1
    BY <1>1, <2>1, <2>2, RepresentsAdded DEF l
  <2>4. Told(list, order, l, s)
    BY <1>1, <2>3 DEF Told
  <2> QED
    BY <2>3, <2>4 DEF l, s
<1> QED
  BY <1>2, <1>3

LEMMA MapSet ==
  ASSUME MapInv, NEW k \in Keys, NEW touch \in Touches, LM!Set(k, touch)
  PROVE  MapInv'
<1> DEFINE l == LM!SetKey(list, k, touch)
           s == IF k \in LM!ToSet(order) \/ touch = "First" THEN LM!Touched(k, touch)
                ELSE Append(order, k)
           m == LM!CheckTrim(l, limit, kept)
<1>1. LM!Call(m) /\ order' = LM!Trimmed(s, limit, kept) /\ limit' = limit /\ kept' = kept
  BY DEF LM!Set
<1>2. Represents(l, s) /\ Told(list, order, l, s)
  BY MapSetKey
<1> HIDE DEF l, s, m
<1>3. /\ Represents(m, order') /\ Told(l, s, m, order')
      /\ limit # None => Len(order') <= limit
  BY <1>1, <1>2, LimitKept, RepresentsTrimmed DEF m
<1>4. Told(list, order, m, order')
  <2>1. list.state \in Nat /\ l.state \in Nat /\ m.state \in Nat
    BY <1>2, <1>3, RepresentsParts DEF MapInv
  <2> QED
    BY <1>2, <1>3, <2>1 DEF Told
<1>5. LimitFits'
  BY <1>1, <1>3 DEF MapInv, LimitFits
<1> QED
  BY <1>1, <1>3, <1>4, <1>5, MapCalled

LEMMA MapDelete ==
  ASSUME MapInv, NEW k \in Keys, LM!Delete(k)
  PROVE  MapInv'
<1> DEFINE l == LM!RemoveKey(list, k)
<1>1. LM!Call(l) /\ order' = LM!Without(k) /\ limit' = limit /\ kept' = kept
  BY DEF LM!Delete
<1>2. /\ Represents(list, order) /\ list.map = KeysOf(order) /\ list.state \in Nat
      /\ Len(order) \in Nat
  BY RepresentsParts DEF MapInv
<1>3. CASE k \in KeysOf(order)
  <2>1. PICK i \in 1..Len(order) : order[i] = k /\ LM!Without(k) = RemoveAt(order, i)
    BY <1>3, WithoutIs
  <2> HIDE DEF l
  <2>2. Represents(l, order') /\ l.state = list.state + 1 /\ Len(order') = Len(order) - 1
    BY <1>1, <1>2, <2>1, RepresentsRemoved DEF l
  <2>3. Told(list, order, l, order')
    BY <1>2, <2>2 DEF Told
  <2>4. LimitFits'
    BY <1>1, <1>2, <2>2, LimitKept DEF MapInv, LimitFits
  <2> QED
    BY <1>1, <2>2, <2>3, <2>4, MapCalled
<1>4. CASE k \notin KeysOf(order)
  <2>1. l = list /\ order' = order
    BY <1>1, <1>2, <1>4, WithoutIs DEF LM!RemoveKey
  <2>2. Told(list, order, l, order')
    BY <1>2, <2>1 DEF Told
  <2>3. LimitFits'
    BY <1>1, <2>1 DEF MapInv, LimitFits
  <2> QED
    BY <1>1, <1>2, <2>1, <2>2, <2>3, MapCalled
<1> QED
  BY <1>3, <1>4

LEMMA MapShift == MapInv /\ LM!Shift => MapInv'
<1> SUFFICES ASSUME MapInv, LM!Shift PROVE MapInv'
  OBVIOUS
<1> DEFINE l == LM!RemoveKey(list, list.head)
<1>1. LM!Call(l) /\ order' = Tail(order) /\ limit' = limit /\ kept' = kept /\ ~LM!IsEmpty(list)
  BY DEF LM!Shift
<1>2. /\ Represents(list, order) /\ Linked(list, order) /\ list.state \in Nat
      /\ Len(order) \in Nat /\ order \in Seq(Keys)
      /\ list.head = IF Len(order) = 0 THEN None ELSE order[1]
  BY RepresentsParts DEF MapInv, Distinct
<1>3. Len(order) # 0
  BY <1>1, <1>2, ChainEnds DEF LM!IsEmpty, Linked
<1>4. 1 \in 1..Len(order) /\ list.head = order[1] /\ order # <<>>
  BY <1>2, <1>3
<1>5. RemoveAt(order, 1) = Tail(order)
  <2>1. /\ Tail(order) \in Seq(Keys) /\ Len(Tail(order)) = Len(order) - 1
        /\ \A i \in 1..Len(Tail(order)) : Tail(order)[i] = order[i + 1]
    BY <1>2, <1>4, TailElements
  <2>2. /\ RemoveAt(order, 1) \in Seq(Keys) /\ Len(RemoveAt(order, 1)) = Len(order) - 1
        /\ \A i \in 1..(Len(order) - 1) : RemoveAt(order, 1)[i] = order[i + 1]
    BY <1>2, <1>4, RemoveAtElements
  <2> QED
    BY <2>1, <2>2
<1>6. Represents(l, order') /\ l.state = list.state + 1 /\ Len(order') = Len(order) - 1
  <2> DEFINE m == LM!RemoveKey(list, order[1])
  <2>1. m = l
    BY <1>4
  <2> HIDE DEF l
  <2>2. LET t == RemoveAt(order, 1) IN
        Represents(m, t) /\ m.state = list.state + 1 /\ Len(t) = Len(order) - 1
    BY <1>2, <1>4, RepresentsRemoved
  <2> HIDE DEF m
  <2> QED
    BY <1>1, <1>5, <2>1, <2>2
<1> HIDE DEF l
<1>7. Told(list, order, l, order')
  BY <1>2, <1>6 DEF Told
<1>8. LimitFits'
  BY <1>1, <1>2, <1>6, LimitKept DEF MapInv, LimitFits
<1> QED
  BY <1>1, <1>6, <1>7, <1>8, MapCalled

LEMMA MapClear == MapInv /\ LM!ClearAll => MapInv'
<1> SUFFICES ASSUME MapInv, LM!ClearAll PROVE MapInv'
  OBVIOUS
<1>1. LM!Call(LM!Clear(list)) /\ order' = <<>> /\ limit' = limit /\ kept' = kept
  BY DEF LM!ClearAll
<1>2. Represents(list, order) /\ list.state \in Nat
  BY RepresentsParts DEF MapInv
<1>3. Represents(LM!Clear(list), order') /\ LM!Clear(list).state = list.state + 1
  BY <1>1, <1>2, RepresentsClear
<1>4. Told(list, order, LM!Clear(list), order')
  BY <1>2, <1>3 DEF Told
<1>5. Len(order') = 0
  BY <1>1
<1>6. LimitFits'
  BY <1>1, <1>5, LimitKept DEF MapInv, LimitFits
<1> QED
  BY <1>1, <1>3, <1>4, <1>6, MapCalled

LEMMA MapSetLimit == MapInv /\ LM!SetLimit => MapInv'
<1> SUFFICES ASSUME MapInv, LM!SetLimit PROVE MapInv'
  OBVIOUS
<1> DEFINE m == LM!CheckTrim(list, limit', kept')
<1>1. /\ LM!Call(m) /\ order' = LM!Trimmed(order, limit', kept')
      /\ limit' \in Limits \ {None} /\ kept' \in 0..limit'
  BY DEF LM!SetLimit
<1>2. limit' \in Nat
  BY <1>1, ServicesAssumption
<1> HIDE DEF m
<1>3. /\ Represents(m, order') /\ Told(list, order, m, order')
      /\ limit' # None => Len(order') <= limit'
  BY <1>1, <1>2, RepresentsTrimmed DEF m, MapInv
<1>4. LimitFits'
  BY <1>1, <1>3 DEF LimitFits
<1> QED
  BY <1>1, <1>3, <1>4, MapCalled

LEMMA MapIterate == MapInv /\ LM!Iterate => MapInv'
<1> SUFFICES ASSUME MapInv, LM!Iterate PROVE MapInv'
  OBVIOUS
<1>1. /\ iterator' = [current |-> list.head, seen |-> <<>>, same |-> TRUE]
      /\ list' = list /\ limit' = limit /\ kept' = kept /\ order' = order
  BY DEF LM!Iterate
<1>2. /\ list.head = IF Len(order) = 0 THEN None ELSE order[1]
      /\ list.head \in Link /\ Len(order) \in Nat
  BY RepresentsParts DEF MapInv, List
<1>3. Len(<<>>) = 0 /\ <<>> \in Seq(Keys)
  OBVIOUS
<1>4. IteratorFits'
  BY <1>1, <1>2, <1>3 DEF IteratorFits
<1>5. Represents(list', order') /\ list'.state = 0 /\ LimitFits'
  BY <1>1 DEF MapInv, LimitFits
<1> QED
  BY <1>4, <1>5 DEF MapInv

LEMMA MapIterated == MapInv /\ LM!IteratorNext => MapInv'
<1> SUFFICES ASSUME MapInv, LM!IteratorNext PROVE MapInv'
  OBVIOUS
<1>1. list' = list /\ limit' = limit /\ kept' = kept /\ order' = order
  BY DEF LM!IteratorNext
<1>2. Represents(list', order') /\ list'.state = 0 /\ LimitFits'
  BY <1>1 DEF MapInv, LimitFits
<1>3. CASE ~iterator.same \/ iterator.current = None
  <2>1. iterator' = None
    BY <1>3 DEF LM!IteratorNext
  <2> QED
    BY <1>2, <2>1 DEF MapInv, IteratorFits
<1>4. CASE iterator.same /\ iterator.current # None
  <2> DEFINE c == iterator.current
             n == Len(iterator.seen)
  <2>1. /\ iterator # None
        /\ iterator' = [iterator EXCEPT !.seen = Append(@, c), !.current = list.next[c]]
    BY <1>4 DEF LM!IteratorNext
  <2>2. /\ iterator \in [current : Link, seen : Seq(Keys), same : BOOLEAN]
        /\ n <= Len(order) /\ \A i \in 1..n : iterator.seen[i] = order[i]
        /\ c = IF n < Len(order) THEN order[n + 1] ELSE None
    BY <1>4, <2>1 DEF MapInv, IteratorFits
  <2>3. /\ Linked(list, order) /\ order \in Seq(Keys) /\ Len(order) \in Nat /\ n \in Nat
        /\ iterator.seen \in Seq(Keys) /\ list \in List
    BY <2>2, RepresentsParts DEF MapInv, Distinct
  <2>4. n < Len(order) /\ c = order[n + 1] /\ n + 1 \in 1..Len(order)
    BY <1>4, <2>2, <2>3
  <2>5. c \in Keys
    BY <2>3, <2>4
  <2> HIDE DEF c
  <2>6. list.next[c] = IF n + 1 < Len(order) THEN order[(n + 1) + 1] ELSE None
    BY <2>3, <2>4 DEF Linked, Chain
  <2>7. list.next[c] \in Link
    BY <2>3, <2>5 DEF List
  <2> DEFINE t == Append(iterator.seen, c)
  <2>8. t \in Seq(Keys) /\ Len(t) = n + 1 /\ t[n + 1] = c /\ \A i \in 1..n : t[i] = iterator.seen[i]
    BY <2>3, <2>5, AppendElements
  <2> HIDE DEF t
  <2>9. /\ iterator' \in [current : Link, seen : Seq(Keys), same : BOOLEAN]
        /\ iterator'.current = list.next[c] /\ iterator'.seen = t
    BY <2>1, <2>2, <2>7, <2>8 DEF t
  <2> HIDE DEF n
  <2>10. ASSUME NEW i \in 1..Len(t) PROVE t[i] = order[i]
    <3>1. CASE i = n + 1
      BY <2>4, <2>8, <3>1
    <3>2. CASE i # n + 1
      <4>1. i \in 1..n
        BY <2>3, <2>8, <3>2
      <4> QED
        BY <2>2, <2>8, <4>1
    <3> QED
      BY <3>1, <3>2
  <2>11. IteratorFits'
    BY <1>1, <2>3, <2>4, <2>6, <2>8, <2>9, <2>10 DEF IteratorFits
  <2> QED
    BY <1>2, <2>11 DEF MapInv
<1> QED
  BY <1>3, <1>4

LEMMA MapStep == MapInv /\ [LM!Next]_(LM!vars) => MapInv'
<1> SUFFICES ASSUME MapInv, [LM!Next]_(LM!vars) PROVE MapInv'
  OBVIOUS
<1>1. ASSUME NEW k \in Keys, NEW touch \in Touches, LM!Set(k, touch) PROVE MapInv'
  BY <1>1, MapSet
<1>2. ASSUME NEW k \in Keys, NEW touch \in Touches, LM!Get(k, touch) PROVE MapInv'
  BY <1>2, MapGet
<1>3. ASSUME NEW k \in Keys, LM!Delete(k) PROVE MapInv'
  BY <1>3, MapDelete
<1>4. ASSUME UNCHANGED LM!vars PROVE MapInv'
  BY <1>4 DEF LM!vars, MapInv, LimitFits, IteratorFits
<1> QED
  BY <1>1, <1>2, <1>3, <1>4, MapShift, MapClear, MapSetLimit, MapIterate, MapIterated
  DEF LM!Next, Touches

\* More steps along links than a sequence is long.
LEMMA AlongAll ==
  ASSUME NEW links, NEW from, NEW s \in Seq(Keys), NEW n \in Nat, Len(s) < n,
         from = IF Len(s) = 0 THEN None ELSE s[1],
         \A i \in 1..Len(s) : links[s[i]] = IF i < Len(s) THEN s[i + 1] ELSE None
  PROVE  LM!Along(links, from, n) = s
<1>1. LM!Along(links, IF Len(s) = 0 THEN None ELSE s[1], n) =
         SubSeq(s, 1, IF n < Len(s) THEN n ELSE Len(s))
  BY AlongFollows
<1>2. ~(n < Len(s)) /\ SubSeq(s, 1, Len(s)) = s
  OBVIOUS
<1> QED
  BY <1>1, <1>2

\* What is promised of the links, the limit and the iteration.
LEMMA MapHolds == MapInv => LM!LinksAgree /\ LM!WithinLimit /\ LM!IterationExact
<1> SUFFICES ASSUME MapInv PROVE LM!LinksAgree /\ LM!WithinLimit /\ LM!IterationExact
  OBVIOUS
<1> DEFINE n == Len(order)
<1>1. /\ Linked(list, order) /\ order \in Seq(Keys) /\ n \in Nat
      /\ list.map = KeysOf(order) /\ list.size = n
      /\ list.head = IF n = 0 THEN None ELSE order[1]
      /\ list.tail = IF n = 0 THEN None ELSE order[n]
  BY RepresentsParts DEF MapInv, Distinct, Linked, Chain
<1>2. n + 1 \in Nat /\ n < n + 1
  BY <1>1
<1>3. LM!Along(list.next, list.head, n + 1) = order
  <2>1. \A i \in 1..n : list.next[order[i]] = IF i < n THEN order[i + 1] ELSE None
    BY <1>1 DEF Linked, Chain
  <2> QED
    BY <1>1, <1>2, <2>1, AlongAll
<1>4. LM!Along(list.previous, list.tail, n + 1) = LM!Reverse(order)
  <2> DEFINE r == LM!Reverse(order)
  <2>1. /\ r \in Seq(Keys) /\ Len(r) = n
        /\ \A i \in 1..n : r[i] = order[(n - i) + 1]
    BY <1>1 DEF LM!Reverse
  <2> HIDE DEF r
  <2>2. ASSUME NEW i \in 1..n
        PROVE  list.previous[r[i]] = IF i < n THEN r[i + 1] ELSE None
    <3>1. (n - i) + 1 \in 1..n
      BY <1>1
    <3>2. list.previous[order[(n - i) + 1]] =
             IF (n - i) + 1 > 1 THEN order[((n - i) + 1) - 1] ELSE None
      BY <3>1, <1>1 DEF Linked, Chain
    <3>3. i < n => i + 1 \in 1..n /\ (n - (i + 1)) + 1 = ((n - i) + 1) - 1
      BY <1>1
    <3>4. (n - i) + 1 > 1 <=> i < n
      BY <1>1
    <3> QED
      BY <2>1, <3>2, <3>3, <3>4
  <2>3. list.tail = IF Len(r) = 0 THEN None ELSE r[1]
    <3>1. n # 0 => 1 \in 1..n /\ (n - 1) + 1 = n
      BY <1>1
    <3> QED
      BY <1>1, <2>1, <3>1
  <2>4. \A i \in 1..Len(r) : list.previous[r[i]] = IF i < Len(r) THEN r[i + 1] ELSE None
    BY <2>1, <2>2
  <2>5. Len(r) < n + 1
    BY <1>2, <2>1
  <2>6. LM!Along(list.previous, list.tail, n + 1) = r
    BY <1>2, <2>1, <2>3, <2>4, <2>5, AlongAll
  <2> QED
    BY <2>6 DEF r
<1>5. LM!LinksAgree
  BY <1>1, <1>3, <1>4, WithoutIs DEF LM!LinksAgree
<1>6. LM!WithinLimit
  BY <1>1 DEF LM!WithinLimit, MapInv, LimitFits
<1>7. LM!IterationExact
  <2> SUFFICES ASSUME iterator # None, iterator.same
               PROVE  iterator.seen \o LM!Along(list.next, iterator.current, n + 1) = order
    BY DEF LM!IterationExact
  <2> DEFINE a == iterator.seen
             j == Len(a)
             b == SubSeq(order, j + 1, n)
  <2>1. /\ a \in Seq(Keys) /\ j \in Nat /\ j <= n /\ \A i \in 1..j : a[i] = order[i]
        /\ iterator.current = IF j < n THEN order[j + 1] ELSE None
    BY DEF MapInv, IteratorFits
  <2> HIDE DEF a
  <2>2. b \in Seq(Keys) /\ Len(b) = n - j /\ \A i \in 1..(n - j) : b[i] = order[j + i]
    BY <1>1, <2>1
  <2> HIDE DEF b, j
  <2>3. ASSUME NEW i \in 1..Len(b)
        PROVE  list.next[b[i]] = IF i < Len(b) THEN b[i + 1] ELSE None
    <3>1. j + i \in 1..n /\ b[i] = order[j + i]
      BY <1>1, <2>1, <2>2
    <3>2. list.next[order[j + i]] = IF j + i < n THEN order[(j + i) + 1] ELSE None
      BY <3>1, <1>1 DEF Linked, Chain
    <3>3. i < Len(b) => i + 1 \in 1..(n - j) /\ j + (i + 1) = (j + i) + 1
      BY <1>1, <2>1, <2>2
    <3>4. i < Len(b) <=> j + i < n
      BY <1>1, <2>1, <2>2
    <3> QED
      BY <2>2, <3>1, <3>2, <3>3, <3>4
  <2>4. iterator.current = IF Len(b) = 0 THEN None ELSE b[1]
    <3>1. j < n => 1 \in 1..(n - j)
      BY <1>1, <2>1
    <3> QED
      BY <1>1, <2>1, <2>2, <3>1
  <2>5. Len(b) < n + 1
    BY <1>1, <2>1, <2>2
  <2>6. \A i \in 1..Len(b) : list.next[b[i]] = IF i < Len(b) THEN b[i + 1] ELSE None
    BY <2>3
  <2>7. LM!Along(list.next, iterator.current, n + 1) = b
    BY <1>2, <2>2, <2>4, <2>5, <2>6, AlongAll
  <2> DEFINE t == a \o b
  <2>8. /\ t \in Seq(Keys) /\ Len(t) = n
        /\ \A i \in 1..j : t[i] = a[i]
        /\ \A i \in 1..Len(b) : t[j + i] = b[i]
    BY <1>1, <2>1, <2>2, ConcatElements DEF j
  <2> HIDE DEF t
  <2>9. ASSUME NEW i \in 1..n PROVE t[i] = order[i]
    <3>1. CASE i <= j
      BY <1>1, <2>1, <2>8, <3>1
    <3>2. CASE ~(i <= j)
      <4>1. i - j \in 1..Len(b) /\ j + (i - j) = i
        BY <1>1, <2>1, <2>2, <3>2
      <4>2. i - j \in 1..(n - j)
        BY <2>2, <4>1
      <4>3. b[i - j] = order[j + (i - j)] /\ t[j + (i - j)] = b[i - j]
        BY <2>2, <2>8, <4>1, <4>2
      <4> QED
        BY <4>1, <4>3
    <3> QED
      BY <3>1, <3>2
  <2>10. t = order
    BY <1>1, <2>8, <2>9
  <2> QED
    BY <2>7, <2>10 DEF t, a
<1> QED
  BY <1>5, <1>6, <1>7

-----------------------------------------------------------------------------
(* Server process: the invariant.                                           *)

Process == [stage : {"none", "alive", "killed", "exited", "crashed"}, code : {0, 1},
            inbox : Seq({"initialize", "shutdown", "exit"}),
            outbox : Seq({"initialize", "shutdown"}),
            shutdownReceived : BOOLEAN, watches : BOOLEAN, ended : BOOLEAN, hangs : BOOLEAN]

ProcessTypeOK ==
    /\ launch \in SP!Launches
    /\ clientPhase \in {"off", "starting", "running", "stopping", "dead"}
    /\ process \in [SP!Processes -> Process]
    /\ connection \in SP!Processes \cup {0} /\ serverProcess \in SP!Processes \cup {0}
    /\ clientPhase \in {"starting", "running", "stopping"} => connection \in SP!Processes
    /\ checks \subseteq SP!Processes /\ late \subseteq SP!Processes /\ stopped \subseteq SP!Processes

\* A process that has answered shutdown has received it, and one that has
\* received it exits with code 0; only a process that was started answers.
ProcessFits(p) ==
    /\ \A k \in 1..Len(p.outbox) : p.outbox[k] = "shutdown" => p.shutdownReceived
    /\ p.stage = "exited" /\ p.shutdownReceived => p.code = 0
    /\ p.stage = "none" => p.outbox = <<>>

\* So has every process that was stopped in time.
CodeFits ==
    \A i \in SP!Processes :
        /\ ProcessFits(process[i])
        /\ i \in stopped => process[i].shutdownReceived /\ process[i].stage # "none"

\* Every process that runs will be looked at, or is the client's.
NoneForgotten ==
    clientPhase # "dead" /\ ~SP!Detached /\ ~closedLate
        => \A i \in SP!Processes :
              SP!Alive(i) => \/ i \in checks
                             \/ clientPhase # "off" /\ i = connection /\ i = serverProcess

ProcessInv == ProcessTypeOK /\ CodeFits /\ NoneForgotten

-----------------------------------------------------------------------------
(* Steps that change one process.                                           *)

\* Nothing is launched at first.
LEMMA ProcessInit == SP!Init => ProcessTypeOK /\ CodeFits /\ NoneForgotten
<1> SUFFICES ASSUME SP!Init PROVE ProcessTypeOK /\ CodeFits /\ NoneForgotten
  OBVIOUS
<1>1. SP!NoProcess \in Process
  BY DEF SP!NoProcess, Process
<1> QED
  BY <1>1 DEF SP!Init, ProcessTypeOK, CodeFits, ProcessFits, NoneForgotten, SP!Alive, SP!NoProcess

\* The rest of the processes are as they were.
LEMMA OneChanged ==
  ASSUME process \in [SP!Processes -> Process], CodeFits, UNCHANGED stopped,
         NEW i \in SP!Processes, NEW p \in Process,
         process' = [process EXCEPT ![i] = p],
         ProcessFits(p),
         i \in stopped => p.shutdownReceived /\ p.stage # "none"
  PROVE  process' \in [SP!Processes -> Process] /\ CodeFits'
BY DEF CodeFits

\* Taking what the client has read off the answers, and sending it a message,
\* keep what an answer tells.
LEMMA TailFits ==
  ASSUME NEW p \in Process, ProcessFits(p), p.outbox # <<>>
  PROVE  /\ Tail(p.outbox) \in Seq({"initialize", "shutdown"})
         /\ \A k \in 1..Len(Tail(p.outbox)) :
               Tail(p.outbox)[k] = "shutdown" => p.shutdownReceived
<1> DEFINE q == p.outbox
<1>1. q \in Seq({"initialize", "shutdown"})
  BY DEF Process
<1> HIDE DEF q
<1>2. /\ Tail(q) \in Seq({"initialize", "shutdown"}) /\ Len(Tail(q)) = Len(q) - 1
      /\ \A k \in 1..Len(Tail(q)) : Tail(q)[k] = q[k + 1] /\ k + 1 \in 1..Len(q)
  BY <1>1, q # <<>> DEF q
<1> QED
  BY <1>2 DEF ProcessFits, q

\* Each step changes one process, or tells all that the client is dead.
LEMMA ProcessStep ==
  ProcessTypeOK /\ CodeFits /\ [SP!Next]_(SP!vars) => process' \in [SP!Processes -> Process] /\ CodeFits'
<1> SUFFICES ASSUME ProcessTypeOK, CodeFits, [SP!Next]_(SP!vars)
             PROVE  process' \in [SP!Processes -> Process] /\ CodeFits'
  OBVIOUS
<1>0. /\ process \in [SP!Processes -> Process]
      /\ \A i \in SP!Processes : process[i] \in Process /\ ProcessFits(process[i])
  BY DEF ProcessTypeOK, CodeFits
<1>1. ASSUME NEW i \in SP!Processes, SP!Launch(i)
      PROVE  process' \in [SP!Processes -> Process] /\ CodeFits'
  <2> DEFINE p == [SP!NoProcess EXCEPT !.stage = "alive", !.inbox = <<"initialize">>,
                                    !.watches = (launch.kind = "module")]
  <2>a. <<"initialize">> \in Seq({"initialize", "shutdown", "exit"})
    OBVIOUS
  <2>b. p \in Process
    <3>1. <<>> \in Seq({"initialize", "shutdown"})
      OBVIOUS
    <3>2. CASE launch.kind = "module"
      BY <2>a, <3>1, <3>2 DEF Process, SP!NoProcess
    <3>3. CASE launch.kind # "module"
      BY <2>a, <3>1, <3>3 DEF Process, SP!NoProcess
    <3> QED
      BY <3>2, <3>3
  <2>1. p \in Process /\ ProcessFits(p)
    BY <2>b DEF SP!NoProcess, ProcessFits
  <2>2. i \notin stopped
    BY <1>1 DEF SP!Launch, SP!Fresh, CodeFits
  <2> QED
    BY <1>0, <1>1, <2>1, <2>2, OneChanged DEF SP!Launch
<1>2. CASE SP!Initialized
  <2> DEFINE p == [process[connection] EXCEPT !.outbox = Tail(@)]
  <2>1. connection \in SP!Processes /\ process[connection].outbox # <<>>
    BY <1>2 DEF SP!Initialized, SP!Answered, ProcessTypeOK
  <2>2. p \in Process /\ ProcessFits(p)
    BY <1>0, <2>1, TailFits DEF Process, ProcessFits
  <2> QED
    BY <1>0, <1>2, <2>1, <2>2, OneChanged DEF SP!Initialized, CodeFits, Process
<1>3. CASE SP!Stop
  <2> DEFINE p == [process[connection] EXCEPT !.inbox = Append(@, "shutdown")]
  <2>1. connection \in SP!Processes
    BY <1>3 DEF SP!Stop, ProcessTypeOK
  <2>a. Append(process[connection].inbox, "shutdown") \in Seq({"initialize", "shutdown", "exit"})
    BY <1>0, <2>1 DEF Process
  <2>2. p \in Process /\ ProcessFits(p)
    BY <1>0, <2>1, <2>a DEF Process, ProcessFits
  <2> QED
    BY <1>0, <1>3, <2>1, <2>2, OneChanged DEF SP!Stop, SP!Receives, CodeFits, Process
<1>4. CASE SP!StopRefused \/ SP!StopTimesOut \/ SP!ConnectionClosed \/ UNCHANGED SP!vars
  BY <1>0, <1>4 DEF SP!StopRefused, SP!StopTimesOut, SP!ConnectionClosed, SP!vars, CodeFits
<1>5. CASE SP!ShutdownAnswered
  <2> DEFINE old == process[connection]
             p == [old EXCEPT !.outbox = Tail(@), !.inbox = Append(@, "exit"),
                              !.ended = TRUE]
  <2>1. /\ connection \in SP!Processes /\ old.outbox # <<>> /\ Head(old.outbox) = "shutdown"
    BY <1>5 DEF SP!ShutdownAnswered, SP!Answered, ProcessTypeOK
  <2>a. Append(old.inbox, "exit") \in Seq({"initialize", "shutdown", "exit"})
    BY <1>0, <2>1 DEF Process
  <2>b. /\ Tail(old.outbox) \in Seq({"initialize", "shutdown"})
        /\ \A k \in 1..Len(Tail(old.outbox)) :
              Tail(old.outbox)[k] = "shutdown" => old.shutdownReceived
    BY <1>0, <2>1, TailFits
  <2>2. p \in Process /\ ProcessFits(p)
    BY <1>0, <2>1, <2>a, <2>b DEF Process, ProcessFits
  <2>3. old.shutdownReceived
    BY <1>0, <2>1 DEF Process, ProcessFits
  <2> QED
    <3>1. /\ process' = [process EXCEPT ![connection] = p]
          /\ stopped' = stopped \cup {connection}
      BY <1>0, <1>5, <2>1 DEF SP!ShutdownAnswered, Process
    <3>2. p.shutdownReceived /\ p.stage = old.stage /\ old.stage # "none"
      BY <1>0, <2>1, <2>3 DEF Process, ProcessFits
    <3> HIDE DEF p
    <3> QED
      BY <1>0, <2>1, <2>2, <3>1, <3>2 DEF CodeFits
<1>6. CASE SP!ClientDies
  <2>1. \A i \in SP!Processes : /\ [process[i] EXCEPT !.ended = TRUE] \in Process
                             /\ ProcessFits([process[i] EXCEPT !.ended = TRUE])
    BY <1>0 DEF Process, ProcessFits
  <2> QED
    BY <1>0, <1>6, <2>1 DEF SP!ClientDies, CodeFits, Process
<1>7. ASSUME NEW i \in SP!Processes, SP!LateAnswer(i)
      PROVE  process' \in [SP!Processes -> Process] /\ CodeFits'
  <2> DEFINE p == [process[i] EXCEPT !.outbox = Tail(@), !.inbox = Append(@, "exit")]
  <2>1. p \in Process /\ ProcessFits(p)
    BY <1>0, <1>7, TailFits DEF SP!LateAnswer, SP!Answered, Process, ProcessFits
  <2> QED
    BY <1>0, <1>7, <2>1, OneChanged DEF SP!LateAnswer, CodeFits, Process
<1>8. ASSUME NEW i \in SP!Processes, SP!LateClosed(i)
      PROVE  process' \in [SP!Processes -> Process] /\ CodeFits'
  <2> DEFINE p == [process[connection] EXCEPT !.ended = TRUE]
  <2>1. CASE clientPhase = "off"
    BY <1>0, <1>8, <2>1 DEF SP!LateClosed, CodeFits
  <2>2. CASE clientPhase # "off"
    <3>1. connection \in SP!Processes
      BY <1>8, <2>2 DEF SP!LateClosed, ProcessTypeOK
    <3>2. p \in Process /\ ProcessFits(p)
      BY <1>0, <3>1 DEF Process, ProcessFits
    <3> QED
      BY <1>0, <1>8, <2>2, <3>1, <3>2, OneChanged DEF SP!LateClosed, CodeFits, Process
  <2> QED
    BY <2>1, <2>2
<1>9. ASSUME NEW i \in SP!Processes, SP!Check(i)
      PROVE  process' \in [SP!Processes -> Process] /\ CodeFits'
  <2> DEFINE p == [process[i] EXCEPT !.stage = "killed"]
  <2>1. p \in Process /\ ProcessFits(p)
    BY <1>0 DEF Process, ProcessFits
  <2> QED
    BY <1>0, <1>9, <2>1, OneChanged DEF SP!Check, CodeFits, Process
<1>10. ASSUME NEW i \in SP!Processes, SP!Alive(i), SP!Exit(i), SP!Server(i)
       PROVE  process' \in [SP!Processes -> Process] /\ CodeFits'
  <2> DEFINE p == [process[i] EXCEPT !.stage = "exited",
                                     !.code = IF process[i].shutdownReceived THEN 0 ELSE 1]
  <2>1. p \in Process /\ ProcessFits(p)
    BY <1>0 DEF Process, ProcessFits
  <2> QED
    BY <1>0, <1>10, <2>1, OneChanged DEF SP!Exit, SP!Server, CodeFits, Process
<1>11. ASSUME NEW i \in SP!Processes, SP!Handle(i)
       PROVE  process' \in [SP!Processes -> Process] /\ CodeFits'
  <2> DEFINE old == process[i]
             message == Head(old.inbox)
  <2>1. /\ old.inbox # <<>> /\ SP!Alive(i) /\ SP!Server(i) /\ stopped' = stopped
        /\ message \in {"initialize", "shutdown", "exit"}
        /\ Tail(old.inbox) \in Seq({"initialize", "shutdown", "exit"})
    BY <1>0, <1>11 DEF SP!Handle, SP!Runs, SP!Server, Process
  <2>2. CASE message = "initialize"
    <3> DEFINE p == [old EXCEPT !.inbox = Tail(@), !.watches = TRUE,
                                !.outbox = Append(@, "initialize")]
    <3>0. Append(old.outbox, "initialize") \in Seq({"initialize", "shutdown"})
      BY <1>0 DEF Process
    <3>1. p \in Process
      BY <1>0, <2>1, <3>0 DEF Process
    <3>2. ProcessFits(p)
      BY <1>0, <2>1 DEF Process, ProcessFits, SP!Alive
    <3>3. process' = [process EXCEPT ![i] = p]
      <4>1. process' = [[process EXCEPT ![i].inbox = Tail(@)]
                          EXCEPT ![i].watches = TRUE, ![i].outbox = Append(@, "initialize")]
        BY <1>11, <2>2 DEF SP!Handle
      <4> QED
        BY <1>0, <4>1 DEF Process
    <3> QED
      BY <1>0, <2>1, <3>1, <3>2, <3>3, OneChanged DEF CodeFits, Process
  <2>3. CASE message = "shutdown"
    <3> DEFINE p == [old EXCEPT !.inbox = Tail(@), !.shutdownReceived = TRUE,
                                !.outbox = Append(@, "shutdown")]
    <3>0. Append(old.outbox, "shutdown") \in Seq({"initialize", "shutdown"})
      BY <1>0 DEF Process
    <3>1. p \in Process
      BY <1>0, <2>1, <3>0 DEF Process
    <3>2. ProcessFits(p)
      BY <1>0, <2>1 DEF Process, ProcessFits, SP!Alive
    <3>3. process' = [process EXCEPT ![i] = p]
      <4>1. process' = [[process EXCEPT ![i].inbox = Tail(@)]
                          EXCEPT ![i].shutdownReceived = TRUE, ![i].outbox = Append(@, "shutdown")]
        BY <1>11, <2>3 DEF SP!Handle
      <4> QED
        BY <1>0, <4>1 DEF Process
    <3> QED
      BY <1>0, <2>1, <3>1, <3>2, <3>3, OneChanged DEF CodeFits, Process
  <2>4. CASE message = "exit"
    BY <1>10, <1>11, <2>1, <2>4 DEF SP!Handle
  <2> QED
    BY <2>1, <2>2, <2>3, <2>4
<1>12. ASSUME NEW i \in SP!Processes, SP!Crash(i)
       PROVE  process' \in [SP!Processes -> Process] /\ CodeFits'
  <2> DEFINE p == [process[i] EXCEPT !.stage = "crashed"]
  <2>1. p \in Process /\ ProcessFits(p)
    BY <1>0 DEF Process, ProcessFits
  <2> QED
    BY <1>0, <1>12, <2>1, OneChanged DEF SP!Crash, SP!Server, CodeFits, Process
<1>13. ASSUME NEW i \in SP!Processes, SP!Hang(i)
       PROVE  process' \in [SP!Processes -> Process] /\ CodeFits'
  <2> DEFINE p == [process[i] EXCEPT !.hangs = TRUE]
  <2>1. p \in Process /\ ProcessFits(p)
    BY <1>0 DEF Process, ProcessFits
  <2> QED
    BY <1>0, <1>13, <2>1, OneChanged DEF SP!Hang, SP!Server, CodeFits, Process
<1>14. ASSUME NEW i \in SP!Processes, SP!StreamEnds(i) \/ SP!ClientGone(i)
       PROVE  process' \in [SP!Processes -> Process] /\ CodeFits'
  BY <1>10, <1>14 DEF SP!StreamEnds, SP!ClientGone, SP!Runs
<1> QED
  BY <1>1, <1>2, <1>3, <1>4, <1>5, <1>6, <1>7, <1>8, <1>9, <1>11, <1>12, <1>13, <1>14
     DEF SP!Next, SP!ServerStep

\* The rest of the client's state keeps its types.
LEMMA ProcessTypeStep == ProcessTypeOK /\ CodeFits /\ [SP!Next]_(SP!vars) => ProcessTypeOK'
<1> SUFFICES ASSUME ProcessTypeOK, CodeFits, [SP!Next]_(SP!vars) PROVE ProcessTypeOK'
  OBVIOUS
<1>0. process' \in [SP!Processes -> Process]
  BY ProcessStep
<1> USE DEF ProcessTypeOK
<1>1. ASSUME NEW i \in SP!Processes, SP!Launch(i) PROVE ProcessTypeOK'
  BY <1>0, <1>1 DEF SP!Launch
<1>2. CASE SP!Initialized
  BY <1>0, <1>2 DEF SP!Initialized
<1>3. CASE SP!Stop
  BY <1>0, <1>3 DEF SP!Stop
<1>4. CASE SP!StopRefused
  BY <1>0, <1>4 DEF SP!StopRefused, SP!LetGo
<1>5. CASE SP!ShutdownAnswered
  BY <1>0, <1>5 DEF SP!ShutdownAnswered, SP!LetGo
<1>6. CASE SP!StopTimesOut
  BY <1>0, <1>6 DEF SP!StopTimesOut, SP!LetGo
<1>7. CASE SP!ConnectionClosed
  BY <1>0, <1>7 DEF SP!ConnectionClosed
<1>8. CASE SP!ClientDies
  BY <1>0, <1>8 DEF SP!ClientDies
<1>9. ASSUME NEW i \in SP!Processes, SP!LateAnswer(i) PROVE ProcessTypeOK'
  BY <1>0, <1>9 DEF SP!LateAnswer
<1>10. ASSUME NEW i \in SP!Processes, SP!LateClosed(i) PROVE ProcessTypeOK'
  BY <1>0, <1>10 DEF SP!LateClosed
<1>11. ASSUME NEW i \in SP!Processes, SP!Check(i) PROVE ProcessTypeOK'
  BY <1>0, <1>11 DEF SP!Check
<1>12. ASSUME NEW i \in SP!Processes, SP!ServerStep(i) PROVE ProcessTypeOK'
  BY <1>0, <1>12 DEF SP!ServerStep, SP!Handle, SP!StreamEnds, SP!ClientGone, SP!Server
<1>13. ASSUME NEW i \in SP!Processes, SP!Crash(i) PROVE ProcessTypeOK'
  BY <1>0, <1>13 DEF SP!Crash, SP!Server
<1>14. ASSUME NEW i \in SP!Processes, SP!Hang(i) PROVE ProcessTypeOK'
  BY <1>0, <1>14 DEF SP!Hang, SP!Server
<1>15. CASE UNCHANGED SP!vars
  BY <1>15 DEF SP!vars
<1> QED
  BY <1>1, <1>2, <1>3, <1>4, <1>5, <1>6, <1>7, <1>8, <1>9, <1>10, <1>11, <1>12, <1>13, <1>14, <1>15 DEF SP!Next

\* Whoever lets go of a process leaves it to be looked at.
LEMMA ForgottenStep == ProcessTypeOK /\ NoneForgotten /\ [SP!Next]_(SP!vars) => NoneForgotten'
<1> SUFFICES ASSUME ProcessTypeOK /\ NoneForgotten, [SP!Next]_(SP!vars) PROVE NoneForgotten'
  OBVIOUS
<1> USE DEF ProcessTypeOK, NoneForgotten, Process, SP!Alive, SP!Detached
<1>1. ASSUME NEW i \in SP!Processes, SP!Launch(i) PROVE NoneForgotten'
  BY <1>1 DEF SP!Launch, SP!Fresh, SP!NoProcess
<1>2. CASE SP!Initialized
  BY <1>2 DEF SP!Initialized, SP!Answered
<1>3. CASE SP!Stop
  BY <1>3 DEF SP!Stop, SP!Receives
<1>4. CASE SP!StopRefused
  BY <1>4 DEF SP!StopRefused, SP!LetGo
<1>5. CASE SP!ShutdownAnswered
  <2>1. \A i \in SP!Processes : process'[i].stage = process[i].stage
    BY <1>5 DEF SP!ShutdownAnswered
  <2> QED
    BY <1>5, <2>1 DEF SP!ShutdownAnswered, SP!LetGo
<1>6. CASE SP!StopTimesOut
  <2>1. \A i \in SP!Processes : i # 0
    BY DEF SP!Processes
  <2> QED
    BY <1>6, <2>1 DEF SP!StopTimesOut, SP!LetGo
<1>7. CASE SP!ConnectionClosed
  BY <1>7 DEF SP!ConnectionClosed
<1>8. CASE SP!ClientDies
  BY <1>8 DEF SP!ClientDies
<1>9. ASSUME NEW i \in SP!Processes, SP!LateAnswer(i) PROVE NoneForgotten'
  BY <1>9 DEF SP!LateAnswer, SP!Answered
<1>10. ASSUME NEW i \in SP!Processes, SP!LateClosed(i) PROVE NoneForgotten'
  BY <1>10 DEF SP!LateClosed
<1>11. ASSUME NEW i \in SP!Processes, SP!Check(i) PROVE NoneForgotten'
  BY <1>11 DEF SP!Check
<1>12. ASSUME NEW i \in SP!Processes, SP!Handle(i) PROVE NoneForgotten'
  <2>1. \A j \in SP!Processes : process'[j].stage = "alive" => process[j].stage = "alive"
    <3>1. CASE Head(process[i].inbox) = "exit"
      <4>1. SP!Exit(i)
        BY <1>12, <3>1 DEF SP!Handle
      <4> QED
        BY <4>1 DEF SP!Exit
    <3>2. CASE Head(process[i].inbox) = "initialize"
      <4>1. process' = [[process EXCEPT ![i].inbox = Tail(@)]
                          EXCEPT ![i].watches = TRUE, ![i].outbox = Append(@, "initialize")]
        BY <1>12, <3>2 DEF SP!Handle
      <4> QED
        BY <4>1
    <3>3. CASE Head(process[i].inbox) = "shutdown"
      <4>1. process' = [[process EXCEPT ![i].inbox = Tail(@)]
                          EXCEPT ![i].shutdownReceived = TRUE, ![i].outbox = Append(@, "shutdown")]
        BY <1>12, <3>3 DEF SP!Handle
      <4> QED
        BY <4>1
    <3>4. Head(process[i].inbox) \in {"initialize", "shutdown", "exit"}
      BY <1>12 DEF SP!Handle
    <3> QED
      BY <3>1, <3>2, <3>3, <3>4
  <2> QED
    BY <1>12, <2>1 DEF SP!Handle, SP!Server
<1>13. ASSUME NEW i \in SP!Processes, SP!StreamEnds(i) PROVE NoneForgotten'
  BY <1>13 DEF SP!StreamEnds, SP!Runs, SP!Exit, SP!Server
<1>14. ASSUME NEW i \in SP!Processes, SP!ClientGone(i) PROVE NoneForgotten'
  BY <1>14 DEF SP!ClientGone, SP!Runs, SP!Exit, SP!Server
<1>15. ASSUME NEW i \in SP!Processes, SP!Crash(i) PROVE NoneForgotten'
  BY <1>15 DEF SP!Crash, SP!Server
<1>16. ASSUME NEW i \in SP!Processes, SP!Hang(i) PROVE NoneForgotten'
  BY <1>16 DEF SP!Hang, SP!Runs, SP!Server
<1>17. CASE UNCHANGED SP!vars
  BY <1>17 DEF SP!vars
<1> QED
  BY <1>1, <1>2, <1>3, <1>4, <1>5, <1>6, <1>7, <1>8, <1>9, <1>10, <1>11, <1>12, <1>13, <1>14, <1>15, <1>16, <1>17 DEF SP!Next, SP!ServerStep

-----------------------------------------------------------------------------
(* Edits: the invariant.                                                    *)

At == Nat \X Nat
Edit == [id : Nat, at : [Documents -> At \cup {None}]]
Note == [document : Documents, at : At]

EditsTypeOK ==
    /\ version \in [Documents -> Nat] /\ opens \in [Documents -> Nat]
    /\ seen \in [Documents -> At]
    /\ notified \in Seq(Note)
    /\ ordered \in Seq(Edit) /\ locked \in Seq(Edit) /\ converting \in Seq(Edit)
    /\ applied \in Seq(Nat) /\ edits \in Nat /\ stale = FALSE

Increasing(q) == \A i, j \in 1..Len(q) : i < j => q[i].id < q[j].id
Before(q, r) == \A i \in 1..Len(q), j \in 1..Len(r) : q[i].id < r[j].id
UpTo(n, q) == \A i \in 1..Len(q) : q[i].id <= n

\* What is further on its way was sent earlier.
InOrder ==
    /\ Len(converting) <= WE!Capacity
    /\ Increasing(locked) /\ Increasing(ordered)
    /\ Before(converting, locked) /\ Before(converting, ordered)
    /\ Before(locked, ordered)
    /\ UpTo(edits, converting) /\ UpTo(edits, locked) /\ UpTo(edits, ordered)

\* What was applied was sent before all that, in this order.
AppliedFirst ==
    /\ \A i, j \in 1..Len(applied) : i < j => applied[i] < applied[j]
    /\ \A i \in 1..Len(applied) :
          /\ applied[i] <= edits
          /\ \A j \in 1..Len(converting) : applied[i] < converting[j].id
          /\ \A j \in 1..Len(locked) : applied[i] < locked[j].id
          /\ \A j \in 1..Len(ordered) : applied[i] < ordered[j].id

EditsInv == EditsTypeOK /\ InOrder /\ AppliedFirst
-----------------------------------------------------------------------------
(* Queues of edits.                                                         *)

\* An edit that passes from the head of a queue to the end of the next keeps
\* the order within them and between them.
LEMMA Passing ==
  ASSUME NEW q \in Seq(Edit), NEW r \in Seq(Edit), q # <<>>,
         Increasing(q), Increasing(r), Before(r, q)
  PROVE  /\ Increasing(Tail(q)) /\ Increasing(Append(r, Head(q)))
         /\ Before(Append(r, Head(q)), Tail(q))
         /\ \A i \in 1..Len(Tail(q)) : \E k \in 1..Len(q) : Tail(q)[i] = q[k]
         /\ \A i \in 1..Len(Append(r, Head(q))) :
               \/ \E k \in 1..Len(r) : Append(r, Head(q))[i] = r[k]
               \/ Append(r, Head(q))[i] = q[1]
         /\ Tail(q) \in Seq(Edit) /\ Append(r, Head(q)) \in Seq(Edit)
         /\ 1 \in 1..Len(q)
<1>1. /\ Tail(q) \in Seq(Edit) /\ Head(q) = q[1] /\ q[1] \in Edit
      /\ Len(q) \in Nat \ {0} /\ Len(Tail(q)) = Len(q) - 1
      /\ \A i \in 1..Len(Tail(q)) : Tail(q)[i] = q[i + 1]
  BY TailElements
<1> DEFINE a == Append(r, q[1])
<1>2. /\ a \in Seq(Edit) /\ Len(r) \in Nat /\ Len(a) = Len(r) + 1
      /\ \A i \in 1..Len(r) : a[i] = r[i]
      /\ a[Len(r) + 1] = q[1]
  BY <1>1, AppendElements
<1> HIDE DEF a
<1>3. \A i \in 1..Len(Tail(q)) : i + 1 \in 1..Len(q) /\ 1 < i + 1 /\ Tail(q)[i] = q[i + 1]
  BY <1>1
<1>4. \A i \in 1..Len(a) : \/ i \in 1..Len(r) /\ a[i] = r[i]
                           \/ i = Len(r) + 1 /\ a[i] = q[1]
  <2> SUFFICES ASSUME NEW i \in 1..Len(r) + 1
               PROVE  \/ i \in 1..Len(r) /\ a[i] = r[i]
                      \/ i = Len(r) + 1 /\ a[i] = q[1]
    BY <1>2
  <2>0. \A j \in 1..Len(r) : a[j] = r[j]
    BY <1>2
  <2>1. CASE i = Len(r) + 1
    BY <1>2, <2>1
  <2>2. CASE i # Len(r) + 1
    <3>1. i \in 1..Len(r)
      BY <1>2, <2>2
    <3> QED
      BY <2>0, <3>1
  <2> QED
    BY <2>1, <2>2
<1>5. 1 \in 1..Len(q)
  BY <1>1
<1>6. Increasing(Tail(q))
  <2> SUFFICES ASSUME NEW i \in 1..Len(Tail(q)), NEW j \in 1..Len(Tail(q)), i < j
               PROVE  Tail(q)[i].id < Tail(q)[j].id
    BY DEF Increasing
  <2>1. i + 1 < j + 1
    OBVIOUS
  <2> QED
    BY <1>3, <2>1 DEF Increasing
<1>7. Increasing(a)
  BY <1>2, <1>4, <1>5 DEF Increasing, Before
<1>8. Before(a, Tail(q))
  BY <1>3, <1>4, <1>5 DEF Increasing, Before
<1> QED
  BY <1>1, <1>2, <1>3, <1>4, <1>5, <1>6, <1>7, <1>8 DEF a
\* An edit that is newer than all others goes to the end of a queue.
LEMMA Sending ==
  ASSUME NEW q \in Seq(Edit), NEW e \in Edit, NEW n \in Nat, e.id = n + 1,
         Increasing(q), UpTo(n, q)
  PROVE  /\ Increasing(Append(q, e)) /\ UpTo(n + 1, Append(q, e))
         /\ \A r \in Seq(Edit) : UpTo(n, r) /\ Before(r, q)
               => UpTo(n + 1, r) /\ Before(r, Append(q, e))
         /\ \A i \in 1..Len(Append(q, e)) :
               \/ i \in 1..Len(q) /\ Append(q, e)[i] = q[i]
               \/ Append(q, e)[i].id = n + 1
<1> DEFINE a == Append(q, e)
<1>1. /\ a \in Seq(Edit) /\ Len(q) \in Nat /\ Len(a) = Len(q) + 1
      /\ \A i \in 1..Len(q) : a[i] = q[i]
      /\ a[Len(q) + 1] = e
  BY AppendElements
<1> HIDE DEF a
<1>2. ASSUME NEW r \in Seq(Edit), NEW i \in 1..Len(r) PROVE r[i].id \in Nat
  <2>1. r[i] \in Edit
    OBVIOUS
  <2> QED
    BY <2>1 DEF Edit
<1>3. ASSUME NEW i \in 1..Len(a)
      PROVE  \/ i \in 1..Len(q) /\ a[i].id = q[i].id /\ q[i].id \in Nat /\ q[i].id <= n
                /\ a[i] = q[i]
             \/ i = Len(q) + 1 /\ a[i].id = n + 1
  <2>1. CASE i = Len(q) + 1
    BY <1>1, <2>1
  <2>2. CASE i # Len(q) + 1
    <3>1. i \in 1..Len(q)
      BY <1>1, <2>2
    <3>2. a[i] = q[i]
      BY <1>1, <3>1
    <3>3. q[i].id \in Nat /\ q[i].id <= n
      BY <1>2, <3>1 DEF UpTo
    <3> QED
      BY <3>1, <3>2, <3>3
  <2> QED
    BY <2>1, <2>2
<1>4. UpTo(n + 1, a)
  BY <1>3 DEF UpTo
<1>5. Increasing(a)
  <2> SUFFICES ASSUME NEW i \in 1..Len(a), NEW j \in 1..Len(a), i < j
               PROVE  a[i].id < a[j].id
    BY DEF Increasing
  <2>1. i \in 1..Len(q)
    BY <1>1
  <2>2. CASE j \in 1..Len(q)
    BY <1>1, <2>1, <2>2 DEF Increasing
  <2>3. CASE j = Len(q) + 1
    BY <1>3, <2>1, <2>3
  <2> QED
    BY <1>3, <2>2, <2>3
<1>6. ASSUME NEW r \in Seq(Edit), UpTo(n, r), Before(r, q)
      PROVE  UpTo(n + 1, r) /\ Before(r, a)
  <2>1. UpTo(n + 1, r)
    BY <1>2, <1>6 DEF UpTo
  <2>2. ASSUME NEW i \in 1..Len(r), NEW j \in 1..Len(a) PROVE r[i].id < a[j].id
    <3>1. r[i].id \in Nat /\ r[i].id <= n
      BY <1>2, <1>6 DEF UpTo
    <3>2. CASE j \in 1..Len(q) /\ a[j].id = q[j].id
      BY <1>6, <3>2 DEF Before
    <3> QED
      BY <1>3, <3>1, <3>2
  <2> QED
    BY <2>1, <2>2 DEF Before
<1> QED
  BY <1>3, <1>4, <1>5, <1>6 DEF a

\* The operators on sequences of the instance are those of the library.
LEMMA RemoveAtIs == ASSUME NEW q, NEW i PROVE WE!RemoveAt(q, i) = RemoveAt(q, i)
BY DEF WE!RemoveAt, RemoveAt

\* So is the operator that puts a set in some order.
LEMMA SetToSeqIs == ASSUME NEW S PROVE WE!SetToSeq(S) = SetToSeq(S)
<1>1. WE!Cardinality(S) = Cardinality(S)
  BY DEF WE!Cardinality, Cardinality
<1> QED
  BY <1>1 DEF WE!SetToSeq, SetToSeq, WE!IsInjective, IsInjective

-----------------------------------------------------------------------------
(* Types, and that what is applied has been validated.                      *)

\* No step spoils the types, and an edit that was validated is for the versions
\* the open documents have.
LEMMA EditsTypeStep ==
  IsFiniteSet(Documents) /\ EditsTypeOK /\ [WE!Next]_(WE!vars) => EditsTypeOK'
<1> SUFFICES ASSUME IsFiniteSet(Documents), EditsTypeOK, [WE!Next]_(WE!vars) PROVE EditsTypeOK'
  OBVIOUS
<1>1. ASSUME NEW d \in Documents, WE!Open(d) \/ WE!Type(d) PROVE EditsTypeOK'
  <2>1. version' \in [Documents -> Nat] /\ opens' \in [Documents -> Nat]
    <3>1. CASE WE!Open(d)
      BY <3>1 DEF EditsTypeOK, WE!Open
    <3>2. CASE WE!Type(d)
      BY <3>2 DEF EditsTypeOK, WE!Type
    <3> QED
      BY <1>1, <3>1, <3>2
  <2>2. [document |-> d, at |-> <<opens'[d], version'[d]>>] \in Note
    BY <2>1 DEF Note, At
  <2>3. notified' \in Seq(Note)
    <3>1. notified' = Append(notified, [document |-> d, at |-> <<opens'[d], version'[d]>>])
      BY <1>1 DEF WE!Open, WE!Type, WE!Tells
    <3> QED
      BY <2>2, <3>1 DEF EditsTypeOK
  <2>4. UNCHANGED <<seen, ordered, locked, converting, applied, stale, edits>>
    BY <1>1 DEF WE!Open, WE!Type
  <2> QED
    BY <2>1, <2>3, <2>4 DEF EditsTypeOK
<1>2. ASSUME NEW d \in Documents, WE!Close(d) PROVE EditsTypeOK'
  BY <1>2 DEF EditsTypeOK, WE!Close
<1>3. CASE WE!ServerLearns
  <2>1. Head(notified) \in Note /\ Tail(notified) \in Seq(Note)
    BY <1>3 DEF EditsTypeOK, WE!ServerLearns
  <2> QED
    BY <1>3, <2>1 DEF EditsTypeOK, WE!ServerLearns, Note
<1>4. ASSUME NEW documents \in SUBSET Documents, WE!ServerSends(documents) PROVE EditsTypeOK'
  <2> DEFINE e == [id |-> edits + 1,
                   at |-> [d \in Documents |-> IF d \in documents THEN seen[d] ELSE None]]
  <2>1. e \in Edit /\ edits + 1 \in Nat
    BY DEF EditsTypeOK, Edit
  <2> HIDE DEF e
  <2>2. edits' = edits + 1 /\ ordered' = Append(ordered, e)
    BY <1>4 DEF WE!ServerSends, e
  <2> QED
    BY <1>4, <2>1, <2>2 DEF EditsTypeOK, WE!ServerSends
<1>5. CASE WE!Receive
  BY <1>5 DEF EditsTypeOK, WE!Receive
<1>6. CASE WE!Convert
  BY <1>6 DEF EditsTypeOK, WE!Convert
<1>7. ASSUME NEW i \in DOMAIN converting, WE!Converted(i) PROVE EditsTypeOK'
  <2> DEFINE edit == converting[i]
             touched == {d \in Documents : edit.at[d] # None /\ version[d] # 0}
  <2>1. edit \in Edit /\ RemoveAt(converting, i) \in Seq(Edit)
    BY RemoveAtElements DEF EditsTypeOK
  <2>2. CASE ~WE!ValidateWorkspaceEdit(edit)
    BY <1>7, <2>1, <2>2, RemoveAtIs DEF EditsTypeOK, WE!Converted
  <2>3. CASE WE!ValidateWorkspaceEdit(edit)
    <3>1. version' \in [Documents -> Nat]
      <4>1. version' = [d \in Documents |-> IF d \in touched THEN version[d] + 1
                                             ELSE version[d]]
        BY <1>7, <2>3 DEF WE!Converted
      <4> HIDE DEF touched
      <4> QED
        BY <4>1 DEF EditsTypeOK
    <3> DEFINE told == {[document |-> d, at |-> <<opens[d], version'[d]>>] : d \in touched}
    <3>2. IsFiniteSet(told)
      <4>1. IsFiniteSet(touched)
        BY FS_Subset
      <4> HIDE DEF touched
      <4> DEFINE f == [d \in touched |-> [document |-> d, at |-> <<opens[d], version'[d]>>]]
      <4>2. f \in Surjection(touched, told)
        BY DEF Surjection
      <4> QED
        BY <4>1, <4>2, FS_Surjection DEF ExistsSurjection
    <3>3. told \subseteq Note
      BY <3>1 DEF EditsTypeOK, Note, At
    <3> HIDE DEF told
    <3>4. SetToSeq(told) \in Seq(Note)
      BY <3>2, <3>3, SetToSeqElements
    <3>5. notified' = notified \o SetToSeq(told)
      <4>1. notified' = notified \o WE!SetToSeq(told)
        BY <1>7, <2>3 DEF WE!Converted, told
      <4> QED
        BY <4>1, SetToSeqIs
    <3>6. notified' \in Seq(Note)
      BY <3>4, <3>5 DEF EditsTypeOK
    <3>7. \A d \in touched : ~WE!Outdated(d, edit)
      BY <2>3 DEF WE!ValidateWorkspaceEdit, WE!Outdated
    <3>8. stale' = FALSE
      BY <1>7, <2>3, <3>7 DEF WE!Converted, EditsTypeOK
    <3>9. applied' \in Seq(Nat)
      <4>1. applied' = Append(applied, edit.id) /\ edit.id \in Nat
        BY <1>7, <2>1, <2>3 DEF WE!Converted, Edit
      <4> QED
        BY <4>1 DEF EditsTypeOK
    <3> QED
      BY <1>7, <2>1, <3>1, <3>6, <3>8, <3>9, RemoveAtIs DEF EditsTypeOK, WE!Converted
  <2> QED
    BY <2>2, <2>3
<1>8. CASE UNCHANGED WE!vars
  BY <1>8 DEF EditsTypeOK, WE!vars
<1> QED
  BY <1>1, <1>2, <1>3, <1>4, <1>5, <1>6, <1>7, <1>8 DEF WE!Next

-----------------------------------------------------------------------------
(* The order.                                                               *)

\* What an edit passes on its way keeps its place in the order, and the
\* semaphore lets it go through the conversion alone.
LEMMA EditsOrderStep ==
  EditsTypeOK /\ InOrder /\ AppliedFirst /\ [WE!Next]_(WE!vars) => InOrder' /\ AppliedFirst'
<1> SUFFICES ASSUME EditsTypeOK, InOrder, AppliedFirst, [WE!Next]_(WE!vars)
             PROVE  InOrder' /\ AppliedFirst'
  OBVIOUS
<1>1. CASE UNCHANGED <<ordered, locked, converting, applied, edits>>
  BY <1>1 DEF InOrder, AppliedFirst, Increasing, Before, UpTo
<1>2. ASSUME NEW documents \in SUBSET Documents, WE!ServerSends(documents)
      PROVE  InOrder' /\ AppliedFirst'
  <2> DEFINE e == [id |-> edits + 1,
                   at |-> [d \in Documents |-> IF d \in documents THEN seen[d] ELSE None]]
  <2>1. /\ ordered' = Append(ordered, e) /\ edits' = edits + 1
        /\ UNCHANGED <<locked, converting, applied>>
    BY <1>2 DEF WE!ServerSends
  <2>2. e \in Edit /\ e.id = edits + 1 /\ edits \in Nat
    BY DEF EditsTypeOK, Edit
  <2> HIDE DEF e
  <2>3. Increasing(ordered) /\ UpTo(edits, ordered)
    BY DEF InOrder
  <2>4. ordered \in Seq(Edit) /\ converting \in Seq(Edit) /\ locked \in Seq(Edit)
    BY DEF EditsTypeOK
  <2>5. /\ Increasing(ordered') /\ UpTo(edits + 1, ordered')
        /\ \A r \in Seq(Edit) : UpTo(edits, r) /\ Before(r, ordered)
              => UpTo(edits + 1, r) /\ Before(r, ordered')
        /\ \A i \in 1..Len(ordered') :
              \/ i \in 1..Len(ordered) /\ ordered'[i] = ordered[i]
              \/ ordered'[i].id = edits + 1
    BY <2>1, <2>2, <2>3, <2>4, Sending
  <2>6. Before(converting, ordered') /\ UpTo(edits + 1, converting)
    BY <2>4, <2>5 DEF InOrder
  <2>7. Before(locked, ordered') /\ UpTo(edits + 1, locked)
    BY <2>4, <2>5 DEF InOrder
  <2>8. InOrder'
    BY <2>1, <2>5, <2>6, <2>7 DEF InOrder
  <2>9. AppliedFirst'
    <3>1. \A i \in 1..Len(applied) : applied[i] \in Nat /\ applied[i] < edits + 1
      BY <2>2 DEF EditsTypeOK, AppliedFirst
    <3> QED
      BY <2>1, <2>2, <2>5, <3>1 DEF AppliedFirst
  <2> QED
    BY <2>8, <2>9
<1>3. CASE WE!Receive
  <2>1. /\ locked' = Append(locked, Head(ordered)) /\ ordered' = Tail(ordered)
        /\ ordered # <<>> /\ UNCHANGED <<converting, applied, edits>>
    BY <1>3 DEF WE!Receive
  <2>2. /\ Increasing(ordered') /\ Increasing(locked') /\ Before(locked', ordered')
        /\ \A i \in 1..Len(ordered') : \E k \in 1..Len(ordered) : ordered'[i] = ordered[k]
        /\ \A i \in 1..Len(locked') :
              \/ \E k \in 1..Len(locked) : locked'[i] = locked[k]
              \/ locked'[i] = ordered[1]
        /\ 1 \in 1..Len(ordered)
    BY <2>1, Passing DEF EditsTypeOK, InOrder
  <2>3. Before(converting, locked') /\ Before(converting, ordered')
    BY <2>2 DEF InOrder, Before
  <2>4. UpTo(edits, locked') /\ UpTo(edits, ordered')
    BY <2>2 DEF InOrder, UpTo
  <2>5. InOrder'
    BY <2>1, <2>2, <2>3, <2>4 DEF InOrder
  <2>6. AppliedFirst'
    BY <2>1, <2>2 DEF AppliedFirst
  <2> QED
    BY <2>5, <2>6
<1>4. CASE WE!Convert
  <2>1. /\ converting' = Append(converting, Head(locked)) /\ locked' = Tail(locked)
        /\ locked # <<>> /\ Len(converting) < WE!Capacity
        /\ UNCHANGED <<ordered, applied, edits>>
    BY <1>4 DEF WE!Convert
  <2>2. Len(converting) = 0 /\ Len(converting') = 1
    BY <2>1 DEF EditsTypeOK, WE!Capacity
  <2>3. /\ Increasing(locked') /\ Before(converting', locked')
        /\ \A i \in 1..Len(locked') : \E k \in 1..Len(locked) : locked'[i] = locked[k]
        /\ \A i \in 1..Len(converting') :
              \/ \E k \in 1..Len(converting) : converting'[i] = converting[k]
              \/ converting'[i] = locked[1]
        /\ 1 \in 1..Len(locked)
    <3>1. Increasing(converting)
      BY <2>2 DEF Increasing
    <3> QED
      BY <2>1, <3>1, Passing DEF EditsTypeOK, InOrder
  <2>4. Before(converting', ordered) /\ Before(locked', ordered)
    BY <2>3 DEF InOrder, Before
  <2>5. UpTo(edits, locked') /\ UpTo(edits, converting')
    BY <2>3 DEF InOrder, UpTo
  <2>6. InOrder'
    BY <2>1, <2>2, <2>3, <2>4, <2>5 DEF InOrder, WE!Capacity
  <2>7. AppliedFirst'
    BY <2>1, <2>3 DEF AppliedFirst
  <2> QED
    BY <2>6, <2>7
<1>5. ASSUME NEW i \in DOMAIN converting, WE!Converted(i) PROVE InOrder' /\ AppliedFirst'
  <2>1. i \in 1..Len(converting) /\ Len(converting) = 1 /\ converting[i] \in Edit
    <3>1. converting \in Seq(Edit) /\ Len(converting) <= 1
      BY DEF EditsTypeOK, InOrder, WE!Capacity
    <3>2. i \in 1..Len(converting) /\ Len(converting) \in Nat
      BY <3>1
    <3>3. Len(converting) = 1
      <4>1. \A n \in Nat : i \in 1..n /\ n <= 1 => n = 1
        OBVIOUS
      <4> QED
        BY <3>1, <3>2, <4>1
    <3>4. converting[i] \in Edit
      BY <3>1, <3>2
    <3> QED
      BY <3>2, <3>3, <3>4
  <2>2. Len(converting') = 0 /\ UNCHANGED <<ordered, locked, edits>>
    <3>1. converting' = RemoveAt(converting, i)
      BY <1>5, RemoveAtIs DEF WE!Converted
    <3> QED
      <4>1. Len(converting') = Len(converting) - 1
        BY <2>1, <3>1, RemoveAtElements DEF EditsTypeOK
      <4> QED
        BY <1>5, <2>1, <4>1 DEF WE!Converted
  <2>3. InOrder'
    BY <2>2 DEF InOrder, Before, UpTo, Increasing, WE!Capacity
  <2>4. CASE applied' = applied
    BY <2>2, <2>3, <2>4 DEF AppliedFirst
  <2>5. CASE applied' = Append(applied, converting[i].id)
    <3>1. /\ Len(applied) \in Nat /\ converting[i].id \in Nat
          /\ Len(applied') = Len(applied) + 1
          /\ applied'[Len(applied) + 1] = converting[i].id
          /\ \A k \in 1..Len(applied) : applied'[k] = applied[k] /\ applied[k] \in Nat
      BY <2>1, <2>5, AppendElements DEF EditsTypeOK, Edit
    <3>2. \A k \in 1..Len(applied') :
             \/ k \in 1..Len(applied) /\ applied'[k] = applied[k]
             \/ k = Len(applied) + 1 /\ applied'[k] = converting[i].id
      BY <3>1
    <3>3. /\ converting[i].id <= edits
          /\ \A j \in 1..Len(locked) : converting[i].id < locked[j].id
          /\ \A j \in 1..Len(ordered) : converting[i].id < ordered[j].id
      BY <2>1 DEF InOrder, UpTo, Before
    <3>4. \A k \in 1..Len(applied) : applied[k] < converting[i].id
      BY <2>1 DEF AppliedFirst
    <3>5. \A k, j \in 1..Len(applied') : k < j => applied'[k] < applied'[j]
      BY <3>1, <3>2, <3>4 DEF AppliedFirst
    <3> QED
      BY <2>2, <2>3, <3>2, <3>3, <3>4, <3>5 DEF AppliedFirst
  <2>6. applied' = applied \/ applied' = Append(applied, converting[i].id)
    BY <1>5 DEF WE!Converted
  <2> QED
    BY <2>3, <2>4, <2>5, <2>6
<1>6. [\E d \in Documents : WE!Open(d) \/ WE!Type(d) \/ WE!Close(d)]_(WE!vars) \/ WE!ServerLearns
        => UNCHANGED <<ordered, locked, converting, applied, edits>>
  BY DEF WE!Open, WE!Type, WE!Close, WE!ServerLearns, WE!vars
<1> QED
  BY <1>1, <1>2, <1>3, <1>4, <1>5, <1>6 DEF WE!Next

\* Nothing is on its way at first.
LEMMA EditsInit == WE!Init => EditsInv
BY DEF WE!Init, EditsInv, EditsTypeOK, At, InOrder, AppliedFirst, Increasing, Before, UpTo, WE!Capacity

-----------------------------------------------------------------------------
(* Workspace folders: the invariant.                                        *)

FolderSets == SUBSET Folders
FolderMessage ==
    [kind : {"event"}, added : FolderSets, removed : FolderSets]
    \cup [kind : {"folders"}, folders : FolderSets]
FolderRequest == {[kind |-> "register"], [kind |-> "getFolders"]}

\* Whether a message says of folder f if it is there, and what it says.
Mentions(m, f) == m.kind = "folders" \/ f \in m.added \/ f \in m.removed
Says(m, f) == IF m.kind = "folders" THEN f \in m.folders ELSE f \in m.added

\* The last message on its way that mentions a folder says what is so, and of
\* a folder that none mentions the server knows it already.
Leads(q, knows, current) ==
    \A f \in Folders :
        /\ (\A k \in 1..Len(q) : ~Mentions(q[k], f)) => (f \in knows <=> f \in current)
        /\ \A k \in 1..Len(q) :
              Mentions(q[k], f) /\ (\A j \in 1..Len(q) : k < j => ~Mentions(q[j], f))
                  => (Says(q[k], f) <=> f \in current)

\* Nothing of a server is left when it has stopped.
FoldersReset ==
    /\ listeners = {} /\ toServer = <<>> /\ toClient = <<>>
    /\ autoRegistered = FALSE /\ unregistration = FALSE /\ askedEarly = FALSE
    /\ unregistrations = 0

\* While it initializes, the folders it was told are those remembered.
FoldersInitializing ==
    /\ listeners = {} /\ unregistration = FALSE /\ askedEarly = FALSE /\ unregistrations = 0
    /\ \/ /\ toServer = <<[kind |-> "initialize", folders |-> initialFolders]>>
          /\ toClient = <<>>
       \/ /\ toServer = <<>> /\ known = initialFolders /\ autoRegistered \in BOOLEAN
          /\ toClient = <<[kind |-> "capabilities", changeNotifications |-> autoRegistered]>>

\* The one listener that comes with a capability or is asked for once.
OneRegistration ==
    /\ autoRegistered \in BOOLEAN /\ unregistration \in BOOLEAN /\ askedEarly \in BOOLEAN
    /\ toClient \in Seq(FolderRequest)
    /\ ~(autoRegistered /\ unregistration)
    /\ \/ listeners = {} /\ ~autoRegistered
       \/ listeners = {"static"} /\ autoRegistered
       \/ listeners = {"dynamic"} /\ unregistration
    /\ \A i \in 1..Len(toClient) : toClient[i].kind = "register" =>
          /\ unregistration /\ listeners = {}
          /\ \A j \in 1..Len(toClient) : toClient[j].kind = "register" => i = j

\* Until a listener is there nothing is told but the folders remembered.
FoldersFollow ==
    /\ known \in FolderSets /\ toServer \in Seq(FolderMessage)
    /\ ~askedEarly /\ listeners = {} => toServer = <<>> /\ known = initialFolders
    /\ ~askedEarly /\ listeners # {} => Leads(toServer, known, folders)

FoldersInv ==
    /\ folders \in FolderSets /\ initialFolders \in FolderSets /\ unregistrations \in Nat
    /\ phase \in {"stopped", "initializing", "running"}
    /\ phase = "stopped" => FoldersReset
    /\ phase = "initializing" => FoldersInitializing
    /\ phase = "running" /\ unregistrations = 0 => OneRegistration /\ FoldersFollow

-----------------------------------------------------------------------------
(* What messages on their way say.                                          *)

\* The fields of a message that tells of folders.
LEMMA FolderFields ==
  ASSUME NEW m \in FolderMessage
  PROVE  \/ /\ m.kind = "event" /\ m.added \in FolderSets /\ m.removed \in FolderSets
         \/ m.kind = "folders" /\ m.folders \in FolderSets
BY DEF FolderMessage

\* With nothing on its way the server knows the folders.
LEMMA LeadsNothing ==
  ASSUME NEW knows \in FolderSets, NEW current \in FolderSets
  PROVE  Leads(<<>>, knows, current) <=> knows = current
BY DEF Leads, FolderSets

\* Whatever is told of a folder last is so, if a message that is true of what it
\* mentions, and mentions what changed, is the last.
LEMMA LeadsAppend ==
  ASSUME NEW q \in Seq(FolderMessage), NEW m \in FolderMessage,
         NEW knows \in FolderSets, NEW old \in FolderSets, NEW new \in FolderSets,
         Leads(q, knows, old),
         \A f \in Folders : Mentions(m, f) => (Says(m, f) <=> f \in new),
         \A f \in Folders : ~Mentions(m, f) => (f \in old <=> f \in new)
  PROVE  Leads(Append(q, m), knows, new)
<1> DEFINE a == Append(q, m)
           n == Len(q)
<1>1. /\ n \in Nat /\ Len(a) = n + 1
      /\ \A i \in 1..n : a[i] = q[i] /\ i \in 1..Len(a) /\ i < n + 1
      /\ a[n + 1] = m /\ n + 1 \in 1..Len(a)
      /\ \A i \in 1..Len(a) : i = n + 1 \/ i \in 1..n
  BY AppendElements
<1> HIDE DEF a, n
<1>2. ASSUME NEW f \in Folders, \A k \in 1..Len(a) : ~Mentions(a[k], f)
      PROVE  f \in knows <=> f \in new
  <2>1. \A k \in 1..n : ~Mentions(q[k], f)
    BY <1>1, <1>2
  <2>2. ~Mentions(m, f)
    BY <1>1, <1>2
  <2> QED
    BY <2>1, <2>2 DEF Leads, n
<1>3. ASSUME NEW f \in Folders, NEW k \in 1..Len(a), Mentions(a[k], f),
             \A j \in 1..Len(a) : k < j => ~Mentions(a[j], f)
      PROVE  Says(a[k], f) <=> f \in new
  <2>1. CASE k = n + 1
    BY <1>1, <1>3, <2>1
  <2>2. CASE k \in 1..n
    <3>1. \A j \in 1..n : k < j => ~Mentions(q[j], f)
      BY <1>1, <1>3
    <3>2. ~Mentions(m, f)
      BY <1>1, <1>3, <2>2
    <3>3. Says(q[k], f) <=> f \in old
      BY <1>1, <1>3, <2>2, <3>1 DEF Leads, n
    <3> QED
      BY <1>1, <2>2, <3>2, <3>3
  <2> QED
    BY <1>1, <2>1, <2>2
<1> QED
  BY <1>2, <1>3 DEF Leads, a

\* What a server knows when it has taken in a message.
Taken(m, knows) ==
    IF m.kind = "event" THEN (knows \ m.removed) \cup m.added ELSE m.folders

\* A server that has taken in the first of them is led on by the rest.
LEMMA LeadsTail ==
  ASSUME NEW q \in Seq(FolderMessage), q # <<>>,
         NEW knows \in FolderSets, NEW current \in FolderSets, Leads(q, knows, current)
  PROVE  /\ Taken(Head(q), knows) \in FolderSets
         /\ Leads(Tail(q), Taken(Head(q), knows), current)
<1> DEFINE t == Tail(q)
           n == Len(q)
           now == Taken(Head(q), knows)
<1>1. /\ n \in Nat \ {0} /\ Len(t) = n - 1 /\ Head(q) = q[1] /\ 1 \in 1..n
      /\ \A i \in 1..Len(t) : t[i] = q[i + 1] /\ i + 1 \in 1..n /\ 1 < i + 1
      /\ \A i \in 1..n : i = 1 \/ \E j \in 1..Len(t) : i = j + 1
      /\ q[1] \in FolderMessage
  <2>1. \A i \in 1..n : i = 1 \/ i - 1 \in 1..n - 1
    OBVIOUS
  <2>2. /\ Len(q) \in Nat \ {0} /\ Len(Tail(q)) = Len(q) - 1 /\ Head(q) = q[1]
        /\ \A i \in 1..Len(Tail(q)) : Tail(q)[i] = q[i + 1]
    BY TailElements
  <2>3. q[1] \in FolderMessage
    BY <2>2
  <2> QED
    BY <2>1, <2>2, <2>3
<1>2. now \in FolderSets
  BY <1>1, FolderFields DEF Taken, FolderSets
<1>3. \A f \in Folders : /\ Mentions(q[1], f) => (f \in now <=> Says(q[1], f))
                         /\ ~Mentions(q[1], f) => (f \in now <=> f \in knows)
  BY <1>1, FolderFields DEF Taken, Mentions, Says, FolderSets
<1> HIDE DEF t, n, now
<1>4. ASSUME NEW f \in Folders, \A k \in 1..Len(t) : ~Mentions(t[k], f)
      PROVE  f \in now <=> f \in current
  <2>1. \A k \in 1..n : k # 1 => ~Mentions(q[k], f)
    BY <1>1, <1>4
  <2>2. CASE Mentions(q[1], f)
    <3>1. Says(q[1], f) <=> f \in current
      BY <1>1, <2>1, <2>2 DEF Leads, n
    <3> QED
      BY <1>3, <2>2, <3>1
  <2>3. CASE ~Mentions(q[1], f)
    <3>1. f \in knows <=> f \in current
      BY <2>1, <2>3 DEF Leads, n
    <3> QED
      BY <1>3, <2>3, <3>1
  <2> QED
    BY <2>2, <2>3
<1>5. ASSUME NEW f \in Folders, NEW k \in 1..Len(t), Mentions(t[k], f),
             \A j \in 1..Len(t) : k < j => ~Mentions(t[j], f)
      PROVE  Says(t[k], f) <=> f \in current
  <2>1. k + 1 \in 1..n /\ Mentions(q[k + 1], f) /\ t[k] = q[k + 1]
    BY <1>1, <1>5
  <2>2. \A j \in 1..n : k + 1 < j => ~Mentions(q[j], f)
    <3> SUFFICES ASSUME NEW j \in 1..n, k + 1 < j PROVE ~Mentions(q[j], f)
      OBVIOUS
    <3>1. PICK i \in 1..Len(t) : j = i + 1
      BY <1>1
    <3>2. k < i /\ t[i] = q[j]
      BY <1>1, <3>1
    <3> QED
      BY <1>5, <3>1, <3>2
  <2> QED
    BY <2>1, <2>2 DEF Leads, n
<1> QED
  BY <1>2, <1>4, <1>5 DEF Leads, t, now

-----------------------------------------------------------------------------
(* Workspace folders: the steps.                                            *)

\* A change is told as it is: what it mentions is so afterwards, and it mentions
\* what is not as before.
LEMMA EventTells ==
  ASSUME NEW old \in FolderSets, NEW new \in FolderSets
  PROVE  LET m == WF!Event(new \ old, old \ new)
         IN /\ m \in FolderMessage
            /\ \A f \in Folders : Mentions(m, f) => (Says(m, f) <=> f \in new)
            /\ \A f \in Folders : ~Mentions(m, f) => (f \in old <=> f \in new)
<1> DEFINE m == WF!Event(new \ old, old \ new)
<1>1. /\ m \in FolderMessage /\ m.kind = "event"
      /\ m.added = new \ old /\ m.removed = old \ new
  BY DEF WF!Event, FolderMessage, FolderSets
<1> HIDE DEF m
<1>2. \A f \in Folders : Mentions(m, f) <=> f \in (new \ old) \cup (old \ new)
  BY <1>1 DEF Mentions
<1>3. \A f \in Folders : Says(m, f) <=> f \in new \ old
  BY <1>1 DEF Says
<1> QED
  BY <1>1, <1>2, <1>3 DEF m

\* A registration tells what changed since the folders were remembered, and
\* from then on the messages lead to the folders.
LEMMA RegistrationLeads ==
  ASSUME initialFolders \in FolderSets, folders \in FolderSets
  PROVE  /\ WF!SendInitialEvent \in Seq(FolderMessage)
         /\ Leads(WF!SendInitialEvent, initialFolders, folders)
<1>1. CASE folders = initialFolders
  BY <1>1, LeadsNothing DEF WF!SendInitialEvent
<1>2. CASE folders # initialFolders
  <2> DEFINE m == WF!Event(folders \ initialFolders, initialFolders \ folders)
  <2>1. m \in FolderMessage
    BY EventTells
  <2>2. Leads(<<>>, initialFolders, initialFolders)
    BY LeadsNothing
  <2>3. Leads(Append(<<>>, m), initialFolders, folders)
    <3>1. <<>> \in Seq(FolderMessage)
      OBVIOUS
    <3>2. /\ \A f \in Folders : Mentions(m, f) => (Says(m, f) <=> f \in folders)
          /\ \A f \in Folders : ~Mentions(m, f) => (f \in initialFolders <=> f \in folders)
      BY EventTells
    <3> HIDE DEF m
    <3> QED
      BY <2>1, <2>2, <3>1, <3>2, LeadsAppend
  <2>4. WF!SendInitialEvent = <<m>> /\ Append(<<>>, m) = <<m>>
    BY <1>2 DEF WF!SendInitialEvent
  <2> HIDE DEF m
  <2> QED
    BY <2>1, <2>3, <2>4
<1> QED
  BY <1>1, <1>2

\* A request that waits its turn leaves the registrations as they are.
LEMMA RequestAppended ==
  ASSUME NEW q \in Seq(FolderRequest), NEW r \in FolderRequest
  PROVE  /\ Append(q, r) \in Seq(FolderRequest)
         /\ Len(Append(q, r)) = Len(q) + 1 /\ Append(q, r)[Len(q) + 1] = r
         /\ \A i \in 1..Len(q) : Append(q, r)[i] = q[i]
         /\ \A i \in 1..Len(Append(q, r)) : i \in 1..Len(q) \/ i = Len(q) + 1
BY AppendElements

\* No step of client, user or server spoils what is known of the folders.
LEMMA FoldersStep == FoldersInv /\ [WF!Next]_(WF!vars) => FoldersInv'
<1> SUFFICES ASSUME FoldersInv, [WF!Next]_(WF!vars) PROVE FoldersInv'
  OBVIOUS
<1>0. /\ folders \in FolderSets /\ initialFolders \in FolderSets /\ unregistrations \in Nat
      /\ phase \in {"stopped", "initializing", "running"}
  BY DEF FoldersInv
<1>1. CASE WF!Start
  BY <1>1 DEF FoldersInv, WF!Start, FoldersReset, FoldersInitializing, WF!ServerVars
<1>2. CASE WF!Initialize
  <2>0. phase = "initializing" /\ toClient # <<>> /\ phase' = "running" /\ Head(toClient).kind = "capabilities"
    BY <1>2 DEF WF!Initialize
  <2>1. /\ toServer = <<>> /\ known = initialFolders /\ autoRegistered \in BOOLEAN
        /\ toClient = <<[kind |-> "capabilities", changeNotifications |-> autoRegistered]>>
        /\ listeners = {} /\ unregistration = FALSE /\ askedEarly = FALSE
    BY <2>0 DEF FoldersInv, FoldersInitializing
  <2>2. /\ toClient' = <<>>
        /\ UNCHANGED <<folders, initialFolders, known, autoRegistered, unregistration,
                       askedEarly, unregistrations>>
    BY <1>2, <2>1 DEF WF!Initialize, WF!ServerVars, WF!Bounds
  <2>3. CASE autoRegistered
    <3>1. listeners' = {"static"} /\ toServer' = WF!SendInitialEvent
      <4>1. listeners' = listeners \cup {"static"} /\ toServer' = toServer \o WF!SendInitialEvent
        BY <1>2, <2>1, <2>3 DEF WF!Initialize, WF!Register
      <4>2. WF!SendInitialEvent \in Seq(FolderMessage)
        BY <1>0, RegistrationLeads
      <4> QED
        BY <2>1, <4>1, <4>2
    <3>2. OneRegistration'
      <4>1. toClient' \in Seq(FolderRequest) /\ 1..Len(toClient') = {}
        <5>1. <<>> \in Seq(FolderRequest) /\ 1..Len(<<>>) = {}
          OBVIOUS
        <5> QED
          BY <2>2, <5>1
      <4>2. autoRegistered' = TRUE /\ unregistration' = FALSE /\ askedEarly' = FALSE
        BY <2>1, <2>2, <2>3
      <4> QED
        BY <3>1, <4>1, <4>2 DEF OneRegistration
    <3>3. FoldersFollow'
      BY <1>0, <2>1, <2>2, <3>1, RegistrationLeads DEF FoldersFollow
    <3> QED
      BY <1>0, <2>0, <2>2, <3>2, <3>3 DEF FoldersInv
  <2>4. CASE ~autoRegistered
    <3>1. UNCHANGED <<listeners, toServer>>
      BY <1>2, <2>1, <2>4 DEF WF!Initialize
    <3>2. OneRegistration'
      <4>1. toClient' \in Seq(FolderRequest) /\ 1..Len(toClient') = {}
        <5>1. <<>> \in Seq(FolderRequest) /\ 1..Len(<<>>) = {}
          OBVIOUS
        <5> QED
          BY <2>2, <5>1
      <4>2. autoRegistered' = FALSE /\ unregistration' = FALSE /\ askedEarly' = FALSE
        BY <2>1, <2>2, <2>4
      <4> QED
        BY <2>1, <3>1, <4>1, <4>2 DEF OneRegistration
    <3>3. FoldersFollow'
      BY <1>0, <2>1, <2>2, <3>1 DEF FoldersFollow
    <3> QED
      BY <1>0, <2>0, <2>2, <3>2, <3>3 DEF FoldersInv
  <2> QED
    BY <2>3, <2>4
<1>3. CASE WF!Stop
  BY <1>0, <1>3 DEF FoldersInv, WF!Stop, FoldersReset
<1>4. ASSUME NEW changeNotifications \in BOOLEAN, WF!ServerInitialize(changeNotifications)
      PROVE  FoldersInv'
  <2>1. CASE phase = "stopped"
    BY <1>4, <2>1 DEF WF!ServerInitialize, FoldersInv, FoldersReset
  <2>2. CASE phase = "initializing"
    <3>1. toServer = <<[kind |-> "initialize", folders |-> initialFolders]>> /\ toClient = <<>>
      BY <1>4, <2>2 DEF FoldersInv, FoldersInitializing, WF!ServerInitialize
    <3>2. /\ toServer' = <<>> /\ known' = initialFolders /\ autoRegistered' = changeNotifications
          /\ toClient' = <<[kind |-> "capabilities", changeNotifications |-> changeNotifications]>>
      BY <1>4, <3>1 DEF WF!ServerInitialize
    <3> QED
      BY <1>4, <2>2, <3>2 DEF WF!ServerInitialize, FoldersInv, FoldersInitializing, WF!Bounds
  <2>3. CASE phase = "running"
    <3>1. unregistrations # 0
      <4> SUFFICES ASSUME unregistrations = 0 PROVE FALSE
        OBVIOUS
      <4>1. toServer \in Seq(FolderMessage) /\ toServer # <<>>
        BY <1>4, <2>3 DEF FoldersInv, FoldersFollow, WF!ServerInitialize
      <4>2. Head(toServer) \in FolderMessage
        BY <4>1
      <4> QED
        BY <1>4, <4>2, FolderFields DEF WF!ServerInitialize
    <3> QED
      BY <1>4, <2>3, <3>1 DEF WF!ServerInitialize, FoldersInv, WF!Bounds
  <2> QED
    BY <1>0, <2>1, <2>2, <2>3
<1>5. CASE phase # "running" /\ ~WF!Start /\ ~WF!Initialize /\ ~WF!Stop
           /\ ~\E changeNotifications \in BOOLEAN : WF!ServerInitialize(changeNotifications)
  <2>1. (\E new \in SUBSET Folders : WF!Change(new)) \/ WF!Receive \/ UNCHANGED WF!vars
    BY <1>5 DEF WF!Next, WF!Serve, WF!OnDidChangeWorkspaceFolders, WF!GetWorkspaceFolders,
                WF!Unregister, WF!Initialized
  <2>2. ASSUME NEW new \in SUBSET Folders, WF!Change(new) PROVE FoldersInv'
    <3>1. listeners = {} /\ (toServer = <<>> \/ \E x : toServer = <<x>>)
      BY <1>0, <1>5 DEF FoldersInv, FoldersReset, FoldersInitializing
    <3>2. toServer' = toServer
      BY <2>2, <3>1 DEF WF!Change, WF!EventFor
    <3> QED
      BY <1>5, <2>2, <3>2 DEF WF!Change, FoldersInv, FoldersReset, FoldersInitializing,
         WF!ServerVars, FolderSets
  <2>3. CASE WF!Receive
    BY <1>0, <1>5, <2>3 DEF WF!Receive, FoldersInv, FoldersReset, FoldersInitializing
  <2>4. CASE UNCHANGED WF!vars
    BY <2>4 DEF WF!vars, FoldersInv, FoldersReset, FoldersInitializing, OneRegistration, FoldersFollow
  <2> QED
    BY <2>1, <2>2, <2>3, <2>4
<1>6. CASE phase = "running" /\ (unregistrations # 0 \/ \E id \in WF!Ids : WF!Unregister(id))
           /\ ~WF!Stop
  <2> DEFINE Kept == /\ phase' = "running" /\ unregistrations' \in Nat \ {0}
                    /\ folders' \in FolderSets /\ initialFolders' \in FolderSets
  <2> SUFFICES Kept
    BY DEF FoldersInv
  <2>1. ASSUME NEW id \in WF!Ids, WF!Unregister(id) PROVE Kept
    BY <1>0, <1>6, <2>1 DEF WF!Unregister
  <2>2. CASE unregistrations # 0
    <3>1. CASE \E id \in WF!Ids : WF!Unregister(id)
      BY <2>1, <3>1
    <3>2. ASSUME NEW new \in SUBSET Folders, WF!Change(new) PROVE Kept
      BY <1>0, <1>6, <2>2, <3>2 DEF WF!Change, FolderSets
    <3>3. CASE WF!Serve \/ WF!Receive
      BY <1>0, <1>6, <2>2, <3>3 DEF WF!Serve, WF!Receive, WF!Bounds
    <3>4. CASE WF!OnDidChangeWorkspaceFolders \/ WF!GetWorkspaceFolders
      BY <1>0, <1>6, <2>2, <3>4 DEF WF!OnDidChangeWorkspaceFolders, WF!GetWorkspaceFolders, WF!Bounds
    <3>5. ASSUME NEW changeNotifications \in BOOLEAN, WF!ServerInitialize(changeNotifications)
          PROVE  Kept
      BY <1>0, <1>6, <2>2, <3>5 DEF WF!ServerInitialize, WF!Bounds
    <3>6. CASE UNCHANGED WF!vars
      BY <1>0, <1>6, <2>2, <3>6 DEF WF!vars
    <3>7. ~WF!Start /\ ~WF!Initialize
      BY <1>6 DEF WF!Start, WF!Initialize
    <3> QED
      BY <1>6, <3>1, <3>2, <3>3, <3>4, <3>5, <3>6, <3>7 DEF WF!Next
  <2> QED
    BY <1>6, <2>1, <2>2
<1>7. CASE phase = "running" /\ unregistrations = 0
           /\ ~WF!Stop /\ ~\E id \in WF!Ids : WF!Unregister(id)
  <2>0. OneRegistration /\ FoldersFollow
    BY <1>7 DEF FoldersInv
  <2>a. /\ toClient \in Seq(FolderRequest) /\ toServer \in Seq(FolderMessage)
        /\ known \in FolderSets
    BY <2>0 DEF OneRegistration, FoldersFollow
  <2>1. CASE WF!Serve
    <3> DEFINE request == Head(toClient)
    <3>1. /\ toClient' = Tail(toClient) /\ toClient # <<>>
          /\ askedEarly' = (askedEarly \/ (request.kind = "getFolders" /\ listeners = {}))
          /\ UNCHANGED <<folders, phase, initialFolders, known, autoRegistered, unregistration,
                         unregistrations>>
      BY <2>1 DEF WF!Serve, WF!ServerVars, WF!Bounds
    <3>2. /\ toClient' \in Seq(FolderRequest) /\ request \in FolderRequest /\ request = toClient[1]
          /\ 1 \in 1..Len(toClient)
          /\ \A i \in 1..Len(toClient') : /\ toClient'[i] = toClient[i + 1]
                                          /\ i + 1 \in 1..Len(toClient) /\ i + 1 # 1
      BY <2>a, <3>1, TailElements
    <3>3. request.kind = "register" \/ request.kind = "getFolders"
      BY <3>2 DEF FolderRequest
    <3> HIDE DEF request
    <3>4. CASE request.kind = "register"
      <4>1. unregistration /\ listeners = {}
            /\ \A j \in 1..Len(toClient) : toClient[j].kind = "register" => 1 = j
        BY <2>0, <3>2, <3>4 DEF OneRegistration
      <4>2. listeners' = listeners \cup {"dynamic"} /\ toServer' = toServer \o WF!SendInitialEvent
        BY <2>1, <3>4 DEF WF!Serve, WF!Register, request
      <4>3. \A i \in 1..Len(toClient') : toClient'[i].kind # "register"
        BY <3>2, <4>1
      <4>4. askedEarly' = askedEarly
        BY <2>0, <3>1, <3>4 DEF OneRegistration
      <4>5. OneRegistration'
        BY <2>0, <3>1, <3>2, <4>1, <4>2, <4>3, <4>4 DEF OneRegistration
      <4>6. WF!SendInitialEvent \in Seq(FolderMessage)
            /\ Leads(WF!SendInitialEvent, initialFolders, folders)
        BY <1>0, RegistrationLeads
      <4>7. FoldersFollow'
        <5>1. toServer' \in Seq(FolderMessage) /\ listeners' # {}
          BY <2>a, <4>2, <4>6
        <5>2. ~askedEarly => toServer' = WF!SendInitialEvent /\ known = initialFolders
          BY <2>0, <4>1, <4>2, <4>6 DEF FoldersFollow
        <5> QED
          BY <2>a, <3>1, <4>4, <4>6, <5>1, <5>2 DEF FoldersFollow
      <4> QED
        BY <1>0, <1>7, <3>1, <4>5, <4>7 DEF FoldersInv
    <3>5. CASE request.kind = "getFolders"
      <4> DEFINE m == [kind |-> "folders", folders |-> folders]
      <4>1. listeners' = listeners /\ toServer' = Append(toServer, m)
        BY <2>1, <3>5 DEF WF!Serve, request
      <4>2. askedEarly' \in BOOLEAN /\ (~askedEarly' => ~askedEarly /\ listeners # {})
        BY <2>0, <3>1, <3>5 DEF OneRegistration
      <4>3. OneRegistration'
        BY <2>0, <3>1, <3>2, <4>1, <4>2 DEF OneRegistration
      <4>4. m \in FolderMessage /\ \A f \in Folders : Mentions(m, f) /\ (Says(m, f) <=> f \in folders)
        BY <1>0 DEF FolderMessage, Mentions, Says
      <4> HIDE DEF m
      <4>5. Leads(toServer, known, folders) => Leads(toServer', known, folders)
        BY <1>0, <2>a, <4>1, <4>4, LeadsAppend
      <4>6. toServer' \in Seq(FolderMessage)
        BY <2>a, <4>1, <4>4
      <4>7. FoldersFollow'
        BY <2>0, <3>1, <4>1, <4>2, <4>5, <4>6 DEF FoldersFollow
      <4> QED
        BY <1>0, <1>7, <3>1, <4>3, <4>7 DEF FoldersInv
    <3> QED
      BY <3>3, <3>4, <3>5
  <2>2. ASSUME NEW new \in SUBSET Folders, WF!Change(new) PROVE FoldersInv'
    <3> DEFINE e == WF!Event(new \ folders, folders \ new)
    <3>1. /\ folders' = new /\ new \in FolderSets
          /\ toServer' = toServer \o WF!EventFor("static", e) \o WF!EventFor("dynamic", e)
          /\ UNCHANGED <<phase, initialFolders, listeners, toClient, known, autoRegistered,
                         unregistration, askedEarly, unregistrations>>
      BY <2>2 DEF WF!Change, WF!ServerVars, FolderSets
    <3>2. /\ e \in FolderMessage
          /\ \A f \in Folders : Mentions(e, f) => (Says(e, f) <=> f \in new)
          /\ \A f \in Folders : ~Mentions(e, f) => (f \in folders <=> f \in new)
      BY <1>0, <3>1, EventTells
    <3> HIDE DEF e
    <3>3. OneRegistration'
      BY <2>0, <3>1 DEF OneRegistration
    <3>4. CASE listeners = {}
      <4>1. toServer' = toServer
        BY <2>a, <3>1, <3>4 DEF WF!EventFor
      <4>2. FoldersFollow'
        BY <2>0, <3>1, <3>4, <4>1 DEF FoldersFollow
      <4> QED
        BY <1>0, <1>7, <3>1, <3>3, <4>2 DEF FoldersInv
    <3>5. CASE listeners # {}
      <4>1. toServer' = Append(toServer, e)
        <5>1. /\ Append(toServer, e) = toServer \o <<e>>
              /\ (toServer \o <<e>>) \o <<>> = toServer \o <<e>> /\ toServer \o <<>> = toServer
          <6>1. <<e>> \in Seq(FolderMessage)
            BY <3>2
          <6> QED
            BY <2>a, <3>2, <6>1
        <5>2. CASE listeners = {"static"}
          <6>1. WF!EventFor("static", e) = <<e>> /\ WF!EventFor("dynamic", e) = <<>>
            BY <5>2 DEF WF!EventFor
          <6> QED
            BY <3>1, <5>1, <6>1
        <5>3. CASE listeners = {"dynamic"}
          <6>1. WF!EventFor("static", e) = <<>> /\ WF!EventFor("dynamic", e) = <<e>>
            BY <5>3 DEF WF!EventFor
          <6> QED
            BY <3>1, <5>1, <6>1
        <5> QED
          BY <2>0, <3>5, <5>2, <5>3 DEF OneRegistration
      <4>2. Leads(toServer, known, folders) => Leads(toServer', known, folders')
        BY <1>0, <2>a, <3>1, <3>2, <4>1, LeadsAppend
      <4>3. FoldersFollow'
        <5>1. toServer' \in Seq(FolderMessage)
          BY <2>a, <3>2, <4>1
        <5> QED
          BY <2>0, <3>1, <3>5, <4>2, <5>1 DEF FoldersFollow
      <4> QED
        BY <1>0, <1>7, <3>1, <3>3, <4>3 DEF FoldersInv
    <3> QED
      BY <3>4, <3>5
  <2>3. CASE WF!Receive
    <3>1. /\ toServer # <<>> /\ toServer' = Tail(toServer)
          /\ UNCHANGED <<folders, phase, initialFolders, listeners, toClient, autoRegistered,
                         unregistration, askedEarly, unregistrations>>
      BY <2>3 DEF WF!Receive, WF!Bounds
    <3>2. known' = Taken(Head(toServer), known)
      BY <2>3 DEF WF!Receive, Taken
    <3>3. OneRegistration'
      BY <2>0, <3>1 DEF OneRegistration
    <3>4. toServer' \in Seq(FolderMessage) /\ known' \in FolderSets
      <4>1. Head(toServer) \in FolderMessage
        BY <2>a, <3>1
      <4> QED
        BY <2>a, <3>1, <3>2, <4>1, FolderFields DEF Taken, FolderSets
    <3>5. Leads(toServer, known, folders) => Leads(toServer', known', folders)
      BY <1>0, <2>a, <3>1, <3>2, LeadsTail
    <3>6. FoldersFollow'
      BY <2>0, <3>1, <3>4, <3>5 DEF FoldersFollow
    <3> QED
      BY <1>0, <1>7, <3>1, <3>3, <3>6 DEF FoldersInv
  <2>4. CASE WF!OnDidChangeWorkspaceFolders \/ WF!GetWorkspaceFolders
    <3>1. PICK r \in FolderRequest :
             /\ toClient' = Append(toClient, r)
             /\ r.kind = "register" => ~autoRegistered /\ ~unregistration /\ unregistration' = TRUE
             /\ r.kind # "register" => unregistration' = unregistration
      BY <2>4 DEF WF!OnDidChangeWorkspaceFolders, WF!GetWorkspaceFolders, FolderRequest,
         WF!RegistersNow, WF!ServerVars
    <3>2. UNCHANGED <<folders, phase, initialFolders, listeners, toServer, known, autoRegistered,
                      askedEarly, unregistrations>>
      BY <2>4 DEF WF!OnDidChangeWorkspaceFolders, WF!GetWorkspaceFolders, WF!ServerVars, WF!Bounds
    <3>3. /\ toClient' \in Seq(FolderRequest)
          /\ toClient'[Len(toClient) + 1] = r
          /\ \A i \in 1..Len(toClient) : toClient'[i] = toClient[i]
          /\ \A i \in 1..Len(toClient') : i \in 1..Len(toClient) \/ i = Len(toClient) + 1
      BY <2>a, <3>1, RequestAppended
    <3>4. CASE r.kind = "register"
      <4>1. listeners = {} /\ \A i \in 1..Len(toClient) : toClient[i].kind # "register"
        BY <2>0, <3>1, <3>4 DEF OneRegistration
      <4>2. OneRegistration'
        BY <2>0, <3>1, <3>2, <3>3, <3>4, <4>1 DEF OneRegistration
      <4>3. FoldersFollow'
        BY <2>0, <3>2 DEF FoldersFollow
      <4> QED
        BY <1>0, <1>7, <3>2, <4>2, <4>3 DEF FoldersInv
    <3>5. CASE r.kind # "register"
      <4>1. OneRegistration'
        BY <2>0, <3>1, <3>2, <3>3, <3>5 DEF OneRegistration
      <4>2. FoldersFollow'
        BY <2>0, <3>2 DEF FoldersFollow
      <4> QED
        BY <1>0, <1>7, <3>2, <4>1, <4>2 DEF FoldersInv
    <3> QED
      BY <3>4, <3>5
  <2>5. CASE UNCHANGED WF!vars
    BY <2>5 DEF WF!vars, FoldersInv, FoldersReset, FoldersInitializing, OneRegistration, FoldersFollow
  <2> QED
    BY <1>1, <1>2, <1>4, <1>7, <2>1, <2>2, <2>3, <2>4, <2>5 DEF WF!Next
<1> QED
  BY <1>0, <1>1, <1>2, <1>3, <1>4, <1>5, <1>6, <1>7

\* Folders agree, and one listener is there, in the states of the invariant.
LEMMA FoldersHold == FoldersInv => WF!FoldersAgree /\ WF!OneListener
<1> SUFFICES ASSUME FoldersInv PROVE WF!FoldersAgree /\ WF!OneListener
  OBVIOUS
<1>1. WF!FoldersAgree
  <2> SUFFICES ASSUME phase = "running", listeners # {}, toServer = <<>>, unregistrations = 0,
                      ~askedEarly
               PROVE  known = folders
    BY DEF WF!FoldersAgree
  <2>1. known \in FolderSets /\ folders \in FolderSets /\ Leads(<<>>, known, folders)
    BY DEF FoldersInv, FoldersFollow
  <2> QED
    BY <2>1, LeadsNothing
<1>2. WF!OneListener
  <2> SUFFICES ASSUME unregistrations = 0 PROVE WF!Cardinality(listeners) <= 1
    BY DEF WF!OneListener
  <2>1. listeners = {} \/ listeners = {"static"} \/ listeners = {"dynamic"}
    BY DEF FoldersInv, FoldersReset, FoldersInitializing, OneRegistration
  <2>2. WF!Cardinality(listeners) = Cardinality(listeners)
    BY DEF WF!Cardinality, Cardinality
  <2>3. Cardinality(listeners) = 0 \/ Cardinality(listeners) = 1
    BY <2>1, FS_EmptySet, FS_Singleton
  <2> QED
    BY <2>2, <2>3
<1> QED
  BY <1>1, <1>2
\* Nothing is told at first.
LEMMA FoldersInit == WF!Init => FoldersInv
BY DEF WF!Init, FoldersInv, FoldersReset, FolderSets

-----------------------------------------------------------------------------
(* Settings: the invariant.                                                 *)

SettingsValue == [Sections -> Values \cup {0}]
Push ==
    [kind : {"settings", "answer"}, settings : SettingsValue] \cup {[kind |-> "null"]}
SettingsRequest ==
    [kind : {"register"}, id : Registrations, sections : SUBSET Sections]
    \cup [kind : {"unregister"}, id : Registrations] \cup {[kind |-> "pull"]}

SettingsTypeOK ==
    /\ settings \in [Sections -> Values] /\ configurationSection \in SUBSET Sections
    /\ registrations \in Nat /\ synchronizing \in BOOLEAN
    /\ watching \in [CS!Ids -> (SUBSET Sections) \cup {None}]
    /\ pushes \in Seq(Push) /\ requests \in Seq(SettingsRequest)
    /\ waiting \in Seq(Push) /\ Len(waiting) <= 1
    /\ openPending \in BOOLEAN /\ overtaken \in BOOLEAN /\ has \in SettingsValue

\* Nothing of a server is left when it has stopped.
SettingsReset ==
    /\ watching = [i \in CS!Ids |-> None]
    /\ pushes = <<>> /\ requests = <<>> /\ waiting = <<>>
    /\ openPending = FALSE /\ overtaken = FALSE /\ registrations = 0 /\ ids = {}

NoRegister == \A k \in 1..Len(requests) : requests[k].kind # "register"
NoListener == \A i \in CS!Ids : watching[i] = None
OnlyListener(l) == watching[l] # None /\ \A i \in CS!Ids : i # l => watching[i] = None

\* What the program has when it has taken in what was sent.
Newest == IF pushes = <<>> THEN has ELSE pushes[Len(pushes)].settings
Latest == IF waiting = <<>> THEN Newest ELSE waiting[1].settings

\* No server has asked for the settings.
NobodyAsked ==
    /\ configurationSection = {} /\ registrations = 0 /\ ids = {} /\ NoListener
    /\ pushes = <<>> /\ requests = <<>> /\ waiting = <<>>
\* The registration is on its way, with the pull of a program that asked for no
\* sections right behind it.
Registering ==
    /\ configurationSection = {} /\ registrations = 1 /\ NoListener
    /\ pushes = <<>> /\ waiting = <<>>
    /\ requests # <<>> /\ requests[1].kind = "register"
    /\ \A k \in 2..Len(requests) : requests[k].kind # "register"
    /\ IF requests[1].sections = {} THEN Len(requests) >= 2 /\ requests[2].kind = "pull"
       ELSE \A k \in 1..Len(requests) : requests[k].kind # "pull"
\* It is over, and none follows.
Over ==
    /\ registrations = 1 \/ configurationSection # {}
    /\ NoListener /\ NoRegister
\* A listener without sections: the program pulls, or has been told to, unless
\* the newest answer is of the settings as they are.
Announced(l) ==
    /\ registrations = 1 /\ watching[l] = {}
    /\ \A k \in 1..Len(pushes) : pushes[k].kind # "settings"
    /\ \A k \in 1..Len(waiting) : waiting[k].kind = "null"
    /\ \/ waiting # <<>>
       \/ \E k \in 1..Len(pushes) : pushes[k].kind = "null"
       \/ \E k \in 1..Len(requests) : requests[k].kind = "pull"
       \/ Newest = settings
\* A listener with sections: it pushes their values, the newest last.
Pushed(l) ==
    /\ registrations = 1 \/ configurationSection # {}
    /\ watching[l] # {}
    /\ \A k \in 1..Len(pushes) : pushes[k].kind = "settings"
    /\ \A k \in 1..Len(waiting) : waiting[k].kind = "settings"
    /\ \A k \in 1..Len(requests) : requests[k].kind # "pull"
    /\ ~overtaken => \A s \in watching[l] : Latest[s] = settings[s]

\* A listener is the one source of the settings.
Chosen(l) == OnlyListener(l) /\ NoRegister /\ (Announced(l) \/ Pushed(l))
SettingsPhase == NobodyAsked \/ Registering \/ Over \/ \E l \in CS!Ids : Chosen(l)

SettingsInv ==
    /\ SettingsTypeOK
    /\ ~synchronizing => SettingsReset
    /\ synchronizing /\ CS!OneSource => SettingsPhase

-----------------------------------------------------------------------------
(* Settings: what is sent.                                                  *)

\* The kinds and fields of what the client sends.
LEMMA PushFields ==
  ASSUME NEW m \in Push
  PROVE  \/ m.kind \in {"settings", "answer"} /\ m.settings \in SettingsValue
         \/ m.kind = "null"
BY DEF Push

\* The kinds of requests, and their fields.
LEMMA RequestFields ==
  ASSUME NEW r \in SettingsRequest
  PROVE  \/ r.kind = "register" /\ r.id \in Registrations /\ r.sections \in SUBSET Sections
         \/ r.kind = "unregister" /\ r.id \in Registrations
         \/ r.kind = "pull"
BY DEF SettingsRequest

\* A listener with sections pushes their values, one without a null.
LEMMA NotificationIs ==
  ASSUME NEW sections \in SUBSET Sections, NEW current \in [Sections -> Values]
  PROVE  /\ CS!Notification(sections, current) \in Push
         /\ sections = {} => CS!Notification(sections, current).kind = "null"
         /\ sections # {} =>
               /\ CS!Notification(sections, current).kind = "settings"
               /\ \A s \in sections : CS!Notification(sections, current).settings[s] = current[s]
<1>1. CASE sections = {}
  BY <1>1 DEF CS!Notification, Push
<1>2. CASE sections # {}
  <2> DEFINE x == CS!ExtractSettingsInformation(sections, current)
  <2>1. x \in SettingsValue /\ \A s \in sections : x[s] = current[s]
    BY DEF CS!ExtractSettingsInformation, SettingsValue
  <2> HIDE DEF x
  <2>2. CS!Notification(sections, current) = [kind |-> "settings", settings |-> x]
    BY <1>2 DEF CS!Notification, x
  <2> QED
    BY <1>2, <2>1, <2>2 DEF Push
<1> QED
  BY <1>1, <1>2

\* sendNotification keeps the types.
LEMMA SendTypes ==
  ASSUME SettingsTypeOK, NEW outgoing \in Seq(Push), CS!SendNotifications(outgoing)
  PROVE  /\ pushes' \in Seq(Push) /\ waiting' \in Seq(Push) /\ Len(waiting') <= 1
         /\ openPending' \in BOOLEAN /\ overtaken' \in BOOLEAN
<1>1. CASE outgoing = <<>>
  BY <1>1 DEF CS!SendNotifications, SettingsTypeOK
<1>2. CASE outgoing # <<>>
  <2>1. Head(outgoing) \in Push /\ Tail(outgoing) \in Seq(Push)
    BY <1>2
  <2>2. CASE openPending /\ waiting = <<>>
    <3>1. /\ waiting' = <<Head(outgoing)>> /\ openPending' = FALSE
          /\ pushes' = pushes \o Tail(outgoing)
          /\ overtaken' = (overtaken \/ Tail(outgoing) # <<>>)
      BY <1>2, <2>2 DEF CS!SendNotifications
    <3>2. \A m \in Push : <<m>> \in Seq(Push) /\ Len(<<m>>) = 1
      OBVIOUS
    <3>3. waiting' \in Seq(Push) /\ Len(waiting') = 1 /\ openPending' \in BOOLEAN
      BY <2>1, <3>1, <3>2
    <3>4. pushes' \in Seq(Push) /\ overtaken' \in BOOLEAN
      BY <2>1, <3>1 DEF SettingsTypeOK
    <3> QED
      BY <3>3, <3>4
  <2>3. CASE ~(openPending /\ waiting = <<>>)
    <3>1. /\ pushes' = pushes \o outgoing /\ overtaken' = (overtaken \/ waiting # <<>>)
          /\ openPending' = openPending /\ waiting' = waiting
      BY <1>2, <2>3 DEF CS!SendNotifications
    <3>2. pushes' \in Seq(Push) /\ overtaken' \in BOOLEAN
      BY <3>1 DEF SettingsTypeOK
    <3> QED
      BY <3>1, <3>2 DEF SettingsTypeOK
  <2> QED
    BY <2>2, <2>3
<1> QED
  BY <1>1, <1>2

\* One notification waits alone, or is added to what was sent.
LEMMA SendOne ==
  ASSUME SettingsTypeOK, NEW m \in Push, CS!SendNotifications(<<m>>)
  PROVE  \/ /\ waiting' = <<m>> /\ pushes' = pushes /\ overtaken' = overtaken
            /\ waiting = <<>>
         \/ /\ waiting' = waiting /\ pushes' = Append(pushes, m)
            /\ overtaken' = (overtaken \/ waiting # <<>>)
<1>1. /\ <<m>> # <<>> /\ Head(<<m>>) = m /\ Tail(<<m>>) = <<>>
      /\ \A q \in Seq(Push) : q \o <<>> = q /\ q \o <<m>> = Append(q, m)
  OBVIOUS
<1>2. CASE openPending /\ waiting = <<>>
  BY <1>1, <1>2 DEF CS!SendNotifications, SettingsTypeOK
<1>3. CASE ~(openPending /\ waiting = <<>>)
  BY <1>1, <1>3 DEF CS!SendNotifications, SettingsTypeOK
<1> QED
  BY <1>2, <1>3

\* The listeners that an event affects send one notification each.
LEMMA ChangeSends ==
  ASSUME SettingsTypeOK, NEW s \in Sections, NEW v \in Values, CS!Change(s, v)
  PROVE  /\ settings' \in [Sections -> Values]
         /\ \A t \in Sections : t # s => settings'[t] = settings[t]
         /\ \E outgoing \in Seq(Push) :
               /\ CS!SendNotifications(outgoing)
               /\ CS!Affected(s) = {} => outgoing = <<>>
               /\ \A l \in CS!Ids : CS!Affected(s) = {l}
                     => outgoing = <<CS!Notification(watching[l], settings')>>
<1>1. settings' \in [Sections -> Values] /\ \A t \in Sections : t # s => settings'[t] = settings[t]
  BY DEF CS!Change, SettingsTypeOK
<1> DEFINE A == CS!Affected(s)
           n == CS!Cardinality(A)
<1>2. /\ A \subseteq CS!Ids /\ \A l \in A : watching[l] \in SUBSET Sections
      /\ IsFiniteSet(A)
  <2>1. A \subseteq CS!Ids /\ \A l \in A : watching[l] \in SUBSET Sections
    BY DEF CS!Affected, SettingsTypeOK
  <2>2. IsFiniteSet(CS!Ids)
    BY ServicesAssumption, FS_AddElement DEF CS!Ids
  <2> QED
    BY <2>1, <2>2, FS_Subset
<1>3. n = Cardinality(A) /\ n \in Nat
  <2>1. n = Cardinality(A)
    BY DEF CS!Cardinality, Cardinality
  <2> QED
    BY <1>2, <2>1, FS_CardinalityType
<1>4. PICK told \in [1..n -> A] :
         /\ {told[k] : k \in DOMAIN told} = A
         /\ CS!SendNotifications([k \in DOMAIN told |->
                                     CS!Notification(watching[told[k]], settings')])
  BY DEF CS!Change
<1> HIDE DEF n, A
<1> DEFINE outgoing == [k \in 1..n |-> CS!Notification(watching[told[k]], settings')]
<1>5. CS!SendNotifications(outgoing) /\ DOMAIN told = 1..n
  BY <1>4
<1>6. \A k \in 1..n : CS!Notification(watching[told[k]], settings') \in Push
  BY <1>1, <1>2, <1>4, NotificationIs
<1>7. outgoing \in Seq(Push) /\ Len(outgoing) = n
  BY <1>3, <1>6
<1>8. ASSUME A = {} PROVE outgoing = <<>>
  <2>1. n = 0
    BY <1>3, <1>8, FS_EmptySet
  <2> QED
    BY <1>7, <2>1
<1>9. ASSUME NEW l \in CS!Ids, A = {l} PROVE outgoing = <<CS!Notification(watching[l], settings')>>
  <2>1. n = 1
    BY <1>3, <1>9, FS_Singleton
  <2>2. told[1] = l /\ 1 \in 1..n
    BY <1>4, <1>9, <2>1
  <2>3. outgoing[1] = CS!Notification(watching[l], settings')
    BY <2>2
  <2> HIDE DEF outgoing
  <2> QED
    BY <1>7, <2>1, <2>3
<1> HIDE DEF outgoing
<1> QED
  BY <1>1, <1>5, <1>7, <1>8, <1>9 DEF A

-----------------------------------------------------------------------------
(* Settings: types.                                                         *)

\* No step spoils the types.
LEMMA SettingsTypeStep == SettingsTypeOK /\ [CS!Next]_(CS!vars) => SettingsTypeOK'
<1> SUFFICES ASSUME SettingsTypeOK, [CS!Next]_(CS!vars) PROVE SettingsTypeOK'
  OBVIOUS
<1>0. /\ settings \in [Sections -> Values] /\ configurationSection \in SUBSET Sections
      /\ registrations \in Nat /\ synchronizing \in BOOLEAN
      /\ watching \in [CS!Ids -> (SUBSET Sections) \cup {None}]
      /\ pushes \in Seq(Push) /\ requests \in Seq(SettingsRequest)
      /\ waiting \in Seq(Push) /\ Len(waiting) <= 1
      /\ openPending \in BOOLEAN /\ overtaken \in BOOLEAN /\ has \in SettingsValue
  BY DEF SettingsTypeOK
<1>a. ASSUME NEW id \in CS!Ids, NEW sections \in SUBSET Sections, CS!Register(id, sections)
      PROVE  /\ watching' \in [CS!Ids -> (SUBSET Sections) \cup {None}]
             /\ pushes' \in Seq(Push) /\ waiting' \in Seq(Push) /\ Len(waiting') <= 1
             /\ openPending' \in BOOLEAN /\ overtaken' \in BOOLEAN
  <2> DEFINE outgoing == IF sections = {} THEN <<>> ELSE <<CS!Notification(sections, settings)>>
  <2>1. outgoing \in Seq(Push)
    <3>1. CS!Notification(sections, settings) \in Push
      BY <1>0, NotificationIs
    <3>2. <<>> \in Seq(Push) /\ <<CS!Notification(sections, settings)>> \in Seq(Push)
      BY <3>1
    <3> QED
      BY <3>2
  <2>2. CS!SendNotifications(outgoing)
    BY <1>a DEF CS!Register
  <2> HIDE DEF outgoing
  <2>3. watching' \in [CS!Ids -> (SUBSET Sections) \cup {None}]
    BY <1>0, <1>a DEF CS!Register
  <2> QED
    BY <2>1, <2>2, <2>3, SendTypes
<1>1. CASE CS!Start
  <2>1. CASE configurationSection = {}
    BY <1>0, <1>1, <2>1 DEF CS!Start, SettingsTypeOK
  <2>2. CASE configurationSection # {}
    <3>1. CS!Register("option", configurationSection) /\ "option" \in CS!Ids
      BY <1>1, <2>2 DEF CS!Start, CS!Ids
    <3> QED
      BY <1>0, <1>1, <1>a, <3>1 DEF CS!Start, SettingsTypeOK
  <2> QED
    BY <2>1, <2>2
<1>2. CASE CS!Stop
  <2>1. [s \in Sections |-> 0] \in SettingsValue
    BY DEF SettingsValue
  <2>2. <<>> \in Seq(Push) /\ <<>> \in Seq(SettingsRequest) /\ Len(<<>>) <= 1
    OBVIOUS
  <2>3. [i \in CS!Ids |-> None] \in [CS!Ids -> (SUBSET Sections) \cup {None}]
    OBVIOUS
  <2> QED
    BY <1>0, <1>2, <2>1, <2>2, <2>3 DEF CS!Stop, SettingsTypeOK
<1>3. CASE CS!Serve
  <2> DEFINE r == Head(requests)
  <2>1. /\ r \in SettingsRequest /\ requests' = Tail(requests) /\ requests' \in Seq(SettingsRequest)
        /\ UNCHANGED <<settings, configurationSection, synchronizing, has, registrations>>
    BY <1>0, <1>3 DEF CS!Serve, CS!Bounds
  <2>2. CASE r.kind = "register"
    <3>1. CS!Register(r.id, r.sections)
      BY <1>3, <2>2 DEF CS!Serve
    <3>2. r.id \in CS!Ids /\ r.sections \in SUBSET Sections
      BY <2>1, <2>2, RequestFields DEF CS!Ids
    <3> QED
      BY <1>0, <1>a, <2>1, <3>1, <3>2 DEF SettingsTypeOK
  <2>3. CASE r.kind = "unregister"
    <3>1. /\ watching' = [watching EXCEPT ![r.id] = None]
          /\ UNCHANGED <<openPending, waiting, pushes, overtaken>>
      BY <1>3, <2>3 DEF CS!Serve
    <3>2. watching' \in [CS!Ids -> (SUBSET Sections) \cup {None}]
      BY <1>0, <3>1
    <3> QED
      BY <1>0, <2>1, <3>1, <3>2 DEF SettingsTypeOK
  <2>4. CASE r.kind = "pull"
    <3>1. /\ pushes' = Append(pushes, [kind |-> "answer", settings |-> settings])
          /\ overtaken' = (overtaken \/ waiting # <<>>)
          /\ UNCHANGED <<watching, openPending, waiting>>
      BY <1>3, <2>4 DEF CS!Serve
    <3>2. [kind |-> "answer", settings |-> settings] \in Push
      BY <1>0 DEF Push, SettingsValue
    <3> QED
      BY <1>0, <2>1, <3>1, <3>2 DEF SettingsTypeOK
  <2> QED
    BY <2>1, <2>2, <2>3, <2>4, RequestFields
<1>4. CASE CS!Waited
  BY <1>0, <1>4 DEF CS!Waited, SettingsTypeOK, CS!Bounds
<1>5. CASE CS!OpenHidden
  BY <1>0, <1>5 DEF CS!OpenHidden, SettingsTypeOK, CS!Bounds
<1>6. ASSUME NEW s \in Sections, NEW v \in Values, CS!Change(s, v) PROVE SettingsTypeOK'
  <2>1. PICK outgoing \in Seq(Push) : CS!SendNotifications(outgoing)
    BY <1>6, ChangeSends
  <2>2. settings' \in [Sections -> Values]
    BY <1>6, ChangeSends
  <2> QED
    BY <1>0, <1>6, <2>1, <2>2, SendTypes DEF CS!Change, SettingsTypeOK
<1>7. ASSUME NEW id \in Registrations, NEW sections \in SUBSET Sections,
             CS!ServerRegister(id, sections)
      PROVE  SettingsTypeOK'
  <2> DEFINE r == [kind |-> "register", id |-> id, sections |-> sections]
  <2>1. r \in SettingsRequest /\ CS!Pull \in SettingsRequest
    BY DEF SettingsRequest, CS!Pull
  <2> HIDE DEF r
  <2>2. requests' = Append(requests, r) \o (IF sections = {} THEN <<CS!Pull>> ELSE <<>>)
    BY <1>7 DEF CS!ServerRegister, r
  <2>3. requests' \in Seq(SettingsRequest)
    BY <1>0, <2>1, <2>2
  <2> QED
    BY <1>0, <1>7, <2>3 DEF CS!ServerRegister, SettingsTypeOK
<1>8. ASSUME NEW id \in Registrations, CS!ServerUnregister(id) PROVE SettingsTypeOK'
  <2>1. [kind |-> "unregister", id |-> id] \in SettingsRequest
    BY DEF SettingsRequest
  <2> QED
    BY <1>0, <1>8, <2>1 DEF CS!ServerUnregister, SettingsTypeOK, CS!Bounds
<1>9. CASE CS!Receive
  <2>1. Head(pushes) \in Push /\ Tail(pushes) \in Seq(Push) /\ CS!Pull \in SettingsRequest
    BY <1>0, <1>9 DEF CS!Receive, SettingsRequest, CS!Pull
  <2>2. CASE Head(pushes).kind = "null"
    <3>1. requests' = Append(requests, CS!Pull) /\ has' = has /\ pushes' = Tail(pushes)
      BY <1>9, <2>2 DEF CS!Receive
    <3>2. requests' \in Seq(SettingsRequest)
      BY <1>0, <2>1, <3>1
    <3> QED
      BY <1>0, <1>9, <2>1, <3>1, <3>2 DEF CS!Receive, SettingsTypeOK, CS!Bounds
  <2>3. CASE Head(pushes).kind # "null"
    <3>1. Head(pushes).settings \in SettingsValue
      BY <2>1, <2>3, PushFields
    <3> QED
      BY <1>0, <1>9, <2>1, <2>3, <3>1 DEF CS!Receive, SettingsTypeOK, CS!Bounds
  <2> QED
    BY <2>2, <2>3
<1>10. CASE UNCHANGED CS!vars
  BY <1>10 DEF CS!vars, SettingsTypeOK
<1> QED
  BY <1>1, <1>2, <1>3, <1>4, <1>5, <1>6, <1>7, <1>8, <1>9, <1>10 DEF CS!Next

-----------------------------------------------------------------------------
(* Settings: the steps, of a session with one source.                       *)

\* The steps that neither a listener nor a message takes part in.
LEMMA PhaseKept ==
  ASSUME SettingsPhase,
         UNCHANGED <<settings, configurationSection, registrations, ids, watching, waiting,
                     pushes, requests, has, overtaken>>
  PROVE  SettingsPhase'
BY DEF SettingsPhase, NobodyAsked, Registering, Over, Chosen, OnlyListener, NoListener, NoRegister,
       Announced, Pushed, Newest, Latest

\* A client that starts with sections in its options pushes them.
LEMMA PhaseStart ==
  ASSUME SettingsTypeOK, SettingsReset, CS!Start
  PROVE  SettingsPhase'
<1>1. CASE configurationSection = {}
  <2>1. NobodyAsked'
    BY <1>1 DEF CS!Start, SettingsReset, NobodyAsked, NoListener
  <2> QED
    BY <2>1 DEF SettingsPhase
<1>2. CASE configurationSection # {}
  <2> DEFINE m == CS!Notification(configurationSection, settings)
  <2>1. /\ m \in Push /\ m.kind = "settings"
        /\ \A s \in configurationSection : m.settings[s] = settings[s]
    BY <1>2, NotificationIs DEF SettingsTypeOK
  <2> HIDE DEF m
  <2>2. CS!Register("option", configurationSection) /\ "option" \in CS!Ids
    BY <1>2 DEF CS!Start, CS!Ids
  <2>3. CS!SendNotifications(<<m>>) /\ watching' = [watching EXCEPT !["option"] = configurationSection]
    BY <1>2, <2>2 DEF CS!Register, m
  <2>4. \/ waiting' = <<m>> /\ pushes' = <<>>
        \/ waiting' = <<>> /\ pushes' = <<m>>
    BY <2>1, <2>3, SendOne DEF SettingsReset
  <2>5. requests' = <<>> /\ settings' = settings /\ configurationSection' = configurationSection
    BY DEF CS!Start, SettingsReset
  <2>6. /\ watching'["option"] = configurationSection
        /\ \A i \in CS!Ids : i # "option" => watching'[i] = None
    BY <2>2, <2>3 DEF SettingsReset
  <2>7. OnlyListener("option")'
    BY <2>6, ServicesAssumption DEF OnlyListener, SettingsTypeOK
  <2>8. NoRegister'
    BY <2>5 DEF NoRegister
  <2>9. /\ \A k \in 1..Len(pushes') : pushes'[k].kind = "settings"
        /\ \A k \in 1..Len(waiting') : waiting'[k].kind = "settings"
        /\ \A k \in 1..Len(requests') : requests'[k].kind # "pull"
    BY <2>1, <2>4, <2>5
  <2>10. Latest' = m.settings
    BY <2>4 DEF Latest, Newest
  <2>11. Pushed("option")'
    BY <1>2, <2>1, <2>5, <2>6, <2>9, <2>10 DEF Pushed
  <2> QED
    BY <2>2, <2>7, <2>8, <2>11 DEF SettingsPhase, Chosen
<1> QED
  BY <1>1, <1>2

\* The push that waited is sent.
LEMMA PhaseWaited ==
  ASSUME SettingsTypeOK, SettingsPhase, CS!Waited
  PROVE  SettingsPhase'
<1>0. waiting \in Seq(Push) /\ pushes \in Seq(Push) /\ Len(waiting) = 1
  <2>1. waiting \in Seq(Push) /\ pushes \in Seq(Push) /\ Len(waiting) <= 1 /\ waiting # <<>>
    BY DEF CS!Waited, SettingsTypeOK
  <2>2. Len(waiting) \in Nat \ {0}
    BY <2>1, TailElements
  <2>3. Len(waiting) = 1
    <3>1. \A n \in Nat \ {0} : n <= 1 => n = 1
      OBVIOUS
    <3> QED
      BY <2>1, <2>2, <3>1
  <2> QED
    BY <2>1, <2>3
<1>1. /\ waiting # <<>> /\ waiting' = <<>> /\ pushes' = pushes \o waiting
      /\ UNCHANGED <<settings, configurationSection, registrations, ids, watching, requests,
                     has, overtaken>>
  BY DEF CS!Waited, CS!Bounds
<1>2. /\ Len(pushes') = Len(pushes) + 1 /\ pushes'[Len(pushes) + 1] = waiting[1]
      /\ \A k \in 1..Len(pushes) : pushes'[k] = pushes[k]
      /\ Len(pushes) \in Nat /\ pushes' # <<>>
  BY <1>0, <1>1, ConcatElements
<1>3. ~NobodyAsked /\ ~Registering
  BY <1>1 DEF NobodyAsked, Registering
<1>4. CASE Over
  <2>1. Over'
    BY <1>1, <1>4 DEF Over, NoListener, NoRegister
  <2> QED
    BY <2>1 DEF SettingsPhase
<1>5. ASSUME NEW l \in CS!Ids, Chosen(l) PROVE SettingsPhase'
  <2>1. OnlyListener(l)' /\ NoRegister'
    BY <1>1, <1>5 DEF Chosen, OnlyListener, NoRegister
  <2>2. ASSUME Announced(l) PROVE Announced(l)'
    BY <1>1, <1>2, <2>2 DEF Announced
  <2>3. ASSUME Pushed(l) PROVE Pushed(l)'
    <3>1. Latest' = Latest
      BY <1>1, <1>2 DEF Latest, Newest
    <3> QED
      BY <1>1, <1>2, <2>3, <3>1 DEF Pushed
  <2> QED
    BY <1>5, <2>1, <2>2, <2>3 DEF SettingsPhase, Chosen
<1> QED
  BY <1>3, <1>4, <1>5 DEF SettingsPhase

\* A change: the one listener pushes, if it is about its sections.
LEMMA PhaseChange ==
  ASSUME SettingsTypeOK, SettingsPhase, NEW s \in Sections, NEW v \in Values, CS!Change(s, v)
  PROVE  SettingsPhase'
<1>0. /\ waiting \in Seq(Push) /\ pushes \in Seq(Push)
      /\ watching \in [CS!Ids -> (SUBSET Sections) \cup {None}]
  BY DEF SettingsTypeOK
<1>1. UNCHANGED <<configurationSection, registrations, ids, watching, requests, has>>
  BY DEF CS!Change
<1>2. /\ settings' \in [Sections -> Values]
      /\ \A t \in Sections : t # s => settings'[t] = settings[t]
  BY ChangeSends
<1>3. PICK outgoing \in Seq(Push) :
         /\ CS!SendNotifications(outgoing)
         /\ CS!Affected(s) = {} => outgoing = <<>>
         /\ \A l \in CS!Ids : CS!Affected(s) = {l}
               => outgoing = <<CS!Notification(watching[l], settings')>>
  BY ChangeSends
<1>4. ASSUME CS!Affected(s) = {} PROVE UNCHANGED <<waiting, pushes, overtaken>>
  BY <1>3, <1>4 DEF CS!SendNotifications
<1>5. ASSUME NoListener PROVE UNCHANGED <<waiting, pushes, overtaken>>
  BY <1>4, <1>5 DEF NoListener, CS!Affected
<1>6. CASE NobodyAsked
  <2>1. NobodyAsked'
    BY <1>1, <1>5, <1>6 DEF NobodyAsked, NoListener
  <2> QED
    BY <2>1 DEF SettingsPhase
<1>7. CASE Registering
  <2>1. Registering'
    BY <1>1, <1>5, <1>7 DEF Registering, NoListener
  <2> QED
    BY <2>1 DEF SettingsPhase
<1>8. CASE Over
  <2>1. Over'
    BY <1>1, <1>5, <1>8 DEF Over, NoListener, NoRegister
  <2> QED
    BY <2>1 DEF SettingsPhase
<1>9. ASSUME NEW l \in CS!Ids, Chosen(l) PROVE SettingsPhase'
  <2>1. OnlyListener(l)' /\ NoRegister'
    BY <1>1, <1>9 DEF Chosen, OnlyListener, NoRegister
  <2>2. watching[l] \in SUBSET Sections
    BY <1>0, <1>9 DEF Chosen, OnlyListener
  <2>3. CS!Affected(s) = IF watching[l] = {} \/ s \in watching[l] THEN {l} ELSE {}
    BY <1>9 DEF Chosen, OnlyListener, CS!Affected
  <2> DEFINE m == CS!Notification(watching[l], settings')
  <2>4. /\ m \in Push /\ (watching[l] = {} => m.kind = "null")
        /\ watching[l] # {} => m.kind = "settings" /\ \A t \in watching[l] : m.settings[t] = settings'[t]
    BY <1>2, <2>2, NotificationIs
  <2> HIDE DEF m
  <2>5. ASSUME CS!Affected(s) = {l}
        PROVE  \/ /\ waiting' = <<m>> /\ pushes' = pushes /\ overtaken' = overtaken
                  /\ waiting = <<>>
               \/ /\ waiting' = waiting /\ pushes' = Append(pushes, m)
                  /\ overtaken' = (overtaken \/ waiting # <<>>)
    BY <1>3, <2>4, <2>5, SendOne DEF m
  <2>6. /\ Len(pushes) \in Nat /\ Len(Append(pushes, m)) = Len(pushes) + 1
        /\ \A k \in 1..Len(pushes) : Append(pushes, m)[k] = pushes[k]
        /\ Append(pushes, m)[Len(pushes) + 1] = m /\ Append(pushes, m) # <<>>
    BY <1>0, <2>4, AppendElements
  <2>7. ASSUME Announced(l) PROVE Announced(l)'
    <3>1. watching[l] = {} /\ CS!Affected(s) = {l} /\ m.kind = "null"
      BY <2>3, <2>4, <2>7 DEF Announced
    <3>2. CASE waiting' = <<m>> /\ pushes' = pushes
      BY <1>1, <2>7, <3>1, <3>2 DEF Announced
    <3>3. CASE waiting' = waiting /\ pushes' = Append(pushes, m)
      <4> DEFINE next == Append(pushes, m)
      <4>1. /\ \A k \in 1..Len(next) : next[k].kind # "settings"
            /\ \E k \in 1..Len(next) : next[k].kind = "null"
        BY <2>6, <2>7, <3>1 DEF Announced
      <4> HIDE DEF next
      <4>2. pushes' = next
        BY <3>3 DEF next
      <4> QED
        BY <1>1, <2>7, <3>3, <4>1, <4>2 DEF Announced
    <3> QED
      BY <2>5, <3>1, <3>2, <3>3
  <2>8. ASSUME Pushed(l) PROVE Pushed(l)'
    <3>1. CASE s \notin watching[l]
      <4>1. UNCHANGED <<waiting, pushes, overtaken>>
        BY <1>4, <2>3, <2>8, <3>1 DEF Pushed
      <4>2. Latest' = Latest
        BY <1>1, <4>1 DEF Latest, Newest
      <4> QED
        BY <1>1, <1>2, <2>2, <2>8, <3>1, <4>1, <4>2 DEF Pushed
    <3>2. CASE s \in watching[l]
      <4>1. CS!Affected(s) = {l} /\ m.kind = "settings" /\ \A t \in watching[l] : m.settings[t] = settings'[t]
        BY <2>3, <2>4, <2>8, <3>2 DEF Pushed
      <4>2. CASE waiting' = <<m>> /\ pushes' = pushes
        <5>1. Latest' = m.settings
          BY <4>2 DEF Latest
        <5> QED
          BY <1>1, <2>8, <4>1, <4>2, <5>1 DEF Pushed
      <4>3. CASE /\ waiting' = waiting /\ pushes' = Append(pushes, m)
                 /\ overtaken' = (overtaken \/ waiting # <<>>)
        <5> DEFINE next == Append(pushes, m)
        <5>1. /\ \A k \in 1..Len(next) : next[k].kind = "settings"
              /\ next # <<>> /\ next[Len(next)] = m
          BY <2>6, <2>8, <4>1 DEF Pushed
        <5> HIDE DEF next
        <5>2. pushes' = next
          BY <4>3 DEF next
        <5>3. ~overtaken' => Latest' = m.settings
          BY <4>3, <5>1, <5>2 DEF Latest, Newest
        <5> QED
          BY <1>1, <2>8, <4>1, <4>3, <5>1, <5>2, <5>3 DEF Pushed
      <4> QED
        BY <2>5, <4>1, <4>2, <4>3
    <3> QED
      BY <3>1, <3>2
  <2> QED
    BY <1>9, <2>1, <2>7, <2>8 DEF SettingsPhase, Chosen
<1> QED
  BY <1>6, <1>7, <1>8, <1>9 DEF SettingsPhase

\* The client registers a listener, which pushes at once if sections are named.
LEMMA PhaseRegister ==
  ASSUME SettingsTypeOK, SettingsPhase, CS!Serve, Head(requests).kind = "register"
  PROVE  SettingsPhase'
<1> DEFINE r == Head(requests)
<1>0. /\ waiting \in Seq(Push) /\ pushes \in Seq(Push) /\ requests # <<>>
      /\ watching \in [CS!Ids -> (SUBSET Sections) \cup {None}]
      /\ requests \in Seq(SettingsRequest) /\ settings \in [Sections -> Values]
  BY DEF SettingsTypeOK, CS!Serve
<1>1. /\ UNCHANGED <<settings, configurationSection, registrations, ids, has>>
      /\ requests' = Tail(requests) /\ CS!Register(r.id, r.sections)
  BY DEF CS!Serve, CS!Bounds
<1>2. /\ r = requests[1] /\ Len(requests') = Len(requests) - 1 /\ Len(requests) \in Nat
      /\ \A k \in 1..Len(requests') : requests'[k] = requests[k + 1]
      /\ r \in SettingsRequest
  BY <1>0, <1>1, TailElements
<1>3. Registering
  BY <1>0, <1>2 DEF SettingsPhase, NobodyAsked, Over, Chosen, NoRegister
<1>4. PICK id \in Registrations, sections \in SUBSET Sections : r.id = id /\ r.sections = sections
  BY <1>2, RequestFields
<1>a. id \in CS!Ids
  BY DEF CS!Ids
<1>b. CS!Register(id, sections) /\ requests[1].sections = sections
  BY <1>1, <1>2, <1>4
<1>5. /\ watching'[id] = sections
      /\ \A i \in CS!Ids : i # id => watching'[i] = None
  BY <1>0, <1>1, <1>3, <1>a, <1>b DEF CS!Register, Registering, NoListener
<1>6. OnlyListener(id)'
  BY <1>5, <1>a, ServicesAssumption DEF OnlyListener
<1>7. NoRegister'
  BY <1>2, <1>3 DEF NoRegister, Registering
<1>8. CASE sections = {}
  <2>1. UNCHANGED <<waiting, pushes, overtaken>>
    BY <1>8, <1>b DEF CS!Register, CS!SendNotifications
  <2>2. requests'[1].kind = "pull" /\ 1 \in 1..Len(requests')
    BY <1>2, <1>3, <1>8, <1>b DEF Registering
  <2>3. \A k \in 1..Len(pushes') : FALSE
    BY <1>3, <2>1 DEF Registering
  <2>4. \A k \in 1..Len(waiting') : FALSE
    BY <1>3, <2>1 DEF Registering
  <2>5. registrations' = 1 /\ watching'[id] = {}
    BY <1>1, <1>3, <1>5, <1>8 DEF Registering
  <2>6. Announced(id)'
    BY <2>2, <2>3, <2>4, <2>5 DEF Announced
  <2> QED
    BY <1>a, <1>6, <1>7, <2>6 DEF SettingsPhase, Chosen
<1>9. CASE sections # {}
  <2> DEFINE m == CS!Notification(sections, settings)
  <2>1. /\ m \in Push /\ m.kind = "settings"
        /\ \A s \in sections : m.settings[s] = settings[s]
    <3>1. sections \in SUBSET Sections /\ settings \in [Sections -> Values]
      BY <1>0, <1>4
    <3> QED
      BY <1>9, <3>1, NotificationIs
  <2>2. CS!SendNotifications(<<m>>)
    BY <1>9, <1>b DEF CS!Register
  <2> HIDE DEF m
  <2>3. \/ waiting' = <<m>> /\ pushes' = <<>>
        \/ waiting' = <<>> /\ pushes' = <<m>>
    BY <1>3, <2>1, <2>2, SendOne DEF Registering
  <2>4. /\ \A k \in 1..Len(pushes') : pushes'[k].kind = "settings"
        /\ \A k \in 1..Len(waiting') : waiting'[k].kind = "settings"
    BY <2>1, <2>3
  <2>5. \A k \in 1..Len(requests') : requests'[k].kind # "pull"
    BY <1>2, <1>3, <1>9, <1>b DEF Registering
  <2>6. Latest' = m.settings
    BY <2>3 DEF Latest, Newest
  <2>7. Pushed(id)'
    BY <1>1, <1>3, <1>5, <1>9, <2>1, <2>4, <2>5, <2>6 DEF Pushed, Registering
  <2> QED
    BY <1>a, <1>6, <1>7, <2>7 DEF SettingsPhase, Chosen
<1> QED
  BY <1>8, <1>9

\* The end of the listener is the end of what is sent.
LEMMA PhaseUnregister ==
  ASSUME SettingsTypeOK, SettingsPhase, CS!Serve, Head(requests).kind = "unregister"
  PROVE  SettingsPhase'
<1> DEFINE r == Head(requests)
<1>0. /\ waiting \in Seq(Push) /\ pushes \in Seq(Push) /\ requests # <<>>
      /\ watching \in [CS!Ids -> (SUBSET Sections) \cup {None}]
      /\ requests \in Seq(SettingsRequest)
  BY DEF SettingsTypeOK, CS!Serve
<1>1. /\ UNCHANGED <<settings, configurationSection, registrations, ids, has, waiting, pushes,
                     overtaken>>
      /\ requests' = Tail(requests) /\ watching' = [watching EXCEPT ![r.id] = None]
  BY DEF CS!Serve, CS!Bounds
<1>2. /\ r = requests[1] /\ Len(requests') = Len(requests) - 1 /\ Len(requests) \in Nat \ {0}
      /\ \A k \in 1..Len(requests') : requests'[k] = requests[k + 1]
      /\ r \in SettingsRequest
  BY <1>0, <1>1, TailElements
<1>3. ~NobodyAsked /\ ~Registering
  BY <1>0, <1>2 DEF NobodyAsked, Registering
<1>4. PICK id \in Registrations : r.id = id
  BY <1>2, RequestFields
<1>5. /\ id \in CS!Ids /\ watching'[id] = None
      /\ \A i \in CS!Ids : i # id => watching'[i] = watching[i]
  BY <1>0, <1>1, <1>4 DEF CS!Ids
<1>6. ASSUME NoRegister PROVE NoRegister'
  BY <1>2, <1>6 DEF NoRegister
<1>7. CASE Over
  <2>1. Over'
    BY <1>1, <1>5, <1>6, <1>7 DEF Over, NoListener
  <2> QED
    BY <2>1 DEF SettingsPhase
<1>8. ASSUME NEW l \in CS!Ids, Chosen(l) PROVE SettingsPhase'
  <2>1. CASE l = id
    <3>1. Over'
      BY <1>1, <1>5, <1>6, <1>8, <2>1 DEF Over, NoListener, Chosen, OnlyListener, Announced, Pushed
    <3> QED
      BY <3>1 DEF SettingsPhase
  <2>2. CASE l # id
    <3>1. OnlyListener(l)' /\ NoRegister'
      BY <1>5, <1>6, <1>8, <2>2 DEF Chosen, OnlyListener
    <3>2. Newest' = Newest /\ Latest' = Latest /\ watching'[l] = watching[l]
      BY <1>1, <1>5, <2>2 DEF Newest, Latest
    <3>3. ASSUME NEW k \in 1..Len(requests), requests[k].kind = "pull"
          PROVE  k - 1 \in 1..Len(requests') /\ requests'[k - 1].kind = "pull"
      BY <1>2, <3>3
    <3>4. ASSUME Announced(l) PROVE Announced(l)'
      BY <1>1, <3>2, <3>3, <3>4 DEF Announced
    <3>5. ASSUME Pushed(l) PROVE Pushed(l)'
      BY <1>1, <1>2, <3>2, <3>5 DEF Pushed
    <3> QED
      BY <1>8, <3>1, <3>4, <3>5 DEF SettingsPhase, Chosen
  <2> QED
    BY <2>1, <2>2
<1> QED
  BY <1>3, <1>7, <1>8 DEF SettingsPhase

\* A pull is answered with the settings as they are.
LEMMA PhasePull ==
  ASSUME SettingsTypeOK, SettingsPhase, CS!Serve, Head(requests).kind = "pull"
  PROVE  SettingsPhase'
<1> DEFINE r == Head(requests)
           m == [kind |-> "answer", settings |-> settings]
<1>0. /\ pushes \in Seq(Push) /\ requests # <<>> /\ requests \in Seq(SettingsRequest)
      /\ settings \in [Sections -> Values]
  BY DEF SettingsTypeOK, CS!Serve
<1>1. /\ UNCHANGED <<settings, configurationSection, registrations, ids, has, waiting, watching>>
      /\ requests' = Tail(requests) /\ pushes' = Append(pushes, m)
  BY DEF CS!Serve, CS!Bounds
<1>2. /\ r = requests[1] /\ Len(requests') = Len(requests) - 1 /\ Len(requests) \in Nat \ {0}
      /\ \A k \in 1..Len(requests') : requests'[k] = requests[k + 1]
  BY <1>0, <1>1, TailElements
<1>3. m \in Push
  BY <1>0 DEF Push, SettingsValue
<1>4. m.kind = "answer" /\ m.settings = settings
  OBVIOUS
<1> HIDE DEF m
<1>5. /\ Len(pushes') = Len(pushes) + 1 /\ Len(pushes) \in Nat /\ pushes' # <<>>
      /\ \A k \in 1..Len(pushes) : pushes'[k] = pushes[k]
      /\ pushes'[Len(pushes) + 1] = m
  BY <1>0, <1>1, <1>3, AppendElements
<1>6. ~NobodyAsked /\ ~Registering
  BY <1>0, <1>2 DEF NobodyAsked, Registering
<1>7. CASE Over
  <2>1. Over'
    BY <1>1, <1>2, <1>7 DEF Over, NoListener, NoRegister
  <2> QED
    BY <2>1 DEF SettingsPhase
<1>8. ASSUME NEW l \in CS!Ids, Chosen(l) PROVE SettingsPhase'
  <2>1. OnlyListener(l)' /\ NoRegister'
    BY <1>1, <1>2, <1>8 DEF Chosen, OnlyListener, NoRegister
  <2>2. ~Pushed(l)
    BY <1>2 DEF Pushed
  <2>3. Announced(l)
    BY <1>8, <2>2 DEF Chosen
  <2>4. Newest' = settings'
    BY <1>1, <1>4, <1>5 DEF Newest
  <2>5. \A k \in 1..Len(pushes') : pushes'[k].kind # "settings"
    BY <1>4, <1>5, <2>3 DEF Announced
  <2>6. Announced(l)'
    BY <1>1, <2>3, <2>4, <2>5 DEF Announced
  <2> QED
    BY <2>1, <2>6 DEF SettingsPhase, Chosen
<1> QED
  BY <1>6, <1>7, <1>8 DEF SettingsPhase

\* The first registration of a session without sections in the options.
LEMMA PhaseServerRegister ==
  ASSUME SettingsTypeOK, SettingsPhase, NEW id \in Registrations, NEW sections \in SUBSET Sections,
         CS!ServerRegister(id, sections), CS!OneSource'
  PROVE  SettingsPhase'
<1>1. /\ UNCHANGED <<configurationSection, watching, pushes, waiting>>
      /\ registrations' = registrations + 1 /\ registrations \in Nat
  BY DEF CS!ServerRegister, SettingsTypeOK
<1>2. NobodyAsked
  BY <1>1 DEF CS!OneSource, SettingsPhase, NobodyAsked, Registering, Over, Chosen, Announced, Pushed
<1> DEFINE r == [kind |-> "register", id |-> id, sections |-> sections]
<1>3. /\ r.kind = "register" /\ r.sections = sections /\ CS!Pull.kind = "pull"
      /\ r \in SettingsRequest /\ CS!Pull \in SettingsRequest
  BY DEF CS!Pull, SettingsRequest
<1> HIDE DEF r
<1>4. requests' = <<r>> \o (IF sections = {} THEN <<CS!Pull>> ELSE <<>>)
  BY <1>2 DEF CS!ServerRegister, NobodyAsked, r
<1>5. /\ requests' # <<>> /\ requests'[1] = r
      /\ sections = {} => Len(requests') = 2 /\ requests'[2] = CS!Pull
      /\ sections # {} => Len(requests') = 1
  <2>1. CASE sections = {}
    <3>1. requests' = <<r>> \o <<CS!Pull>>
      BY <1>4, <2>1
    <3>2. /\ <<r>> \in Seq(SettingsRequest) /\ <<CS!Pull>> \in Seq(SettingsRequest)
          /\ Len(<<r>>) = 1 /\ Len(<<CS!Pull>>) = 1 /\ <<r>>[1] = r /\ <<CS!Pull>>[1] = CS!Pull
      BY <1>3
    <3>3. Len(requests') = 2 /\ requests'[1] = r /\ requests'[2] = CS!Pull
      BY <3>1, <3>2, ConcatElements
    <3> QED
      BY <2>1, <3>3
  <2>2. CASE sections # {}
    <3>1. requests' = <<r>> \o <<>>
      BY <1>4, <2>2
    <3> QED
      BY <1>3, <2>2, <3>1
  <2> QED
    BY <2>1, <2>2
<1>6. Registering'
  BY <1>1, <1>2, <1>3, <1>5 DEF Registering, NobodyAsked, NoListener
<1> QED
  BY <1>6 DEF SettingsPhase

\* The program ends the registration.
LEMMA PhaseServerUnregister ==
  ASSUME SettingsTypeOK, SettingsPhase, NEW id \in Registrations, CS!ServerUnregister(id)
  PROVE  SettingsPhase'
<1> DEFINE r == [kind |-> "unregister", id |-> id]
<1>1. /\ UNCHANGED <<settings, configurationSection, registrations, has, waiting, watching, pushes,
                     overtaken>>
      /\ requests' = Append(requests, r) /\ id \in ids
  BY DEF CS!ServerUnregister, CS!Bounds
<1>2. r \in SettingsRequest /\ r.kind = "unregister"
  BY DEF SettingsRequest
<1> HIDE DEF r
<1>3. /\ Len(requests') = Len(requests) + 1 /\ Len(requests) \in Nat /\ requests' # <<>>
      /\ \A k \in 1..Len(requests) : requests'[k] = requests[k]
      /\ requests'[Len(requests) + 1] = r
  BY <1>1, <1>2, AppendElements DEF SettingsTypeOK
<1>4. ~NobodyAsked
  BY <1>1 DEF NobodyAsked
<1>5. CASE Registering
  <2>1. requests \in Seq(SettingsRequest) /\ Len(requests) >= 1 /\ requests'[1] = requests[1]
    BY <1>3, <1>5, TailElements DEF Registering, SettingsTypeOK
  <2>2. Registering'
    BY <1>1, <1>2, <1>3, <1>5, <2>1 DEF Registering, NoListener
  <2> QED
    BY <2>2 DEF SettingsPhase
<1>6. ASSUME NoRegister PROVE NoRegister'
  BY <1>2, <1>3, <1>6 DEF NoRegister
<1>7. CASE Over
  <2>1. Over'
    BY <1>1, <1>6, <1>7 DEF Over, NoListener
  <2> QED
    BY <2>1 DEF SettingsPhase
<1>8. ASSUME NEW l \in CS!Ids, Chosen(l) PROVE SettingsPhase'
  <2>1. OnlyListener(l)' /\ NoRegister'
    BY <1>1, <1>6, <1>8 DEF Chosen, OnlyListener
  <2>2. Newest' = Newest /\ Latest' = Latest
    BY <1>1 DEF Newest, Latest
  <2>3. ASSUME Announced(l) PROVE Announced(l)'
    BY <1>1, <1>3, <2>2, <2>3 DEF Announced
  <2>4. ASSUME Pushed(l) PROVE Pushed(l)'
    BY <1>1, <1>2, <1>3, <2>2, <2>4 DEF Pushed
  <2> QED
    BY <1>8, <2>1, <2>3, <2>4 DEF SettingsPhase, Chosen
<1> QED
  BY <1>4, <1>5, <1>7, <1>8 DEF SettingsPhase

\* The program takes in a push or an answer, or pulls because of a null.
LEMMA PhaseReceive ==
  ASSUME SettingsTypeOK, SettingsPhase, CS!Receive
  PROVE  SettingsPhase'
<1>0. pushes \in Seq(Push) /\ pushes # <<>> /\ requests \in Seq(SettingsRequest)
  BY DEF SettingsTypeOK, CS!Receive
<1>1. /\ UNCHANGED <<settings, configurationSection, registrations, ids, waiting, watching, overtaken>>
      /\ pushes' = Tail(pushes)
      /\ IF pushes[1].kind = "null" THEN requests' = Append(requests, CS!Pull) /\ has' = has
         ELSE has' = pushes[1].settings /\ requests' = requests
  BY <1>0 DEF CS!Receive, CS!Bounds
<1>2. /\ Len(pushes') = Len(pushes) - 1 /\ Len(pushes) \in Nat \ {0}
      /\ \A k \in 1..Len(pushes') : pushes'[k] = pushes[k + 1]
      /\ pushes' \in Seq(Push)
  BY <1>0, <1>1, TailElements
<1>3. CS!Pull.kind = "pull" /\ CS!Pull \in SettingsRequest
  BY DEF CS!Pull, SettingsRequest
<1>4. ASSUME pushes[1].kind = "null"
      PROVE  /\ Len(requests') = Len(requests) + 1 /\ Len(requests) \in Nat
             /\ \A k \in 1..Len(requests) : requests'[k] = requests[k]
             /\ requests'[Len(requests) + 1] = CS!Pull
  BY <1>0, <1>1, <1>3, <1>4, AppendElements
<1>5. ~NobodyAsked /\ ~Registering
  BY <1>0 DEF NobodyAsked, Registering
<1>6. ASSUME NoRegister PROVE NoRegister'
  <2>1. CASE pushes[1].kind = "null"
    BY <1>3, <1>4, <1>6, <2>1 DEF NoRegister
  <2>2. CASE pushes[1].kind # "null"
    BY <1>1, <1>6, <2>2 DEF NoRegister
  <2> QED
    BY <2>1, <2>2
<1>7. CASE Over
  <2>1. Over'
    BY <1>1, <1>6, <1>7 DEF Over, NoListener
  <2> QED
    BY <2>1 DEF SettingsPhase
<1>8. ASSUME NEW l \in CS!Ids, Chosen(l) PROVE SettingsPhase'
  <2>1. OnlyListener(l)' /\ NoRegister'
    BY <1>1, <1>6, <1>8 DEF Chosen, OnlyListener
  <2>2. ASSUME pushes[1].kind # "null" PROVE Newest' = Newest
    <3>1. CASE Len(pushes) = 1
      <4>1. pushes' = <<>>
        BY <1>2, <3>1
      <4> QED
        BY <1>0, <1>1, <2>2, <3>1, <4>1 DEF Newest
    <3>2. CASE Len(pushes) # 1
      <4>1. pushes' # <<>> /\ pushes'[Len(pushes')] = pushes[Len(pushes)]
        BY <1>2, <3>2
      <4> QED
        BY <1>0, <4>1 DEF Newest
    <3> QED
      BY <3>1, <3>2
  <2>3. ASSUME Announced(l) PROVE Announced(l)'
    <3>1. \A k \in 1..Len(pushes') : pushes'[k].kind # "settings"
      BY <1>2, <2>3 DEF Announced
    <3>2. CASE pushes[1].kind = "null"
      <4>1. \E k \in 1..Len(requests') : requests'[k].kind = "pull"
        BY <1>3, <1>4, <3>2
      <4> QED
        BY <1>1, <2>3, <3>1, <4>1 DEF Announced
    <3>3. CASE pushes[1].kind # "null"
      <4>1. ASSUME NEW k \in 1..Len(pushes), pushes[k].kind = "null"
            PROVE  k - 1 \in 1..Len(pushes') /\ pushes'[k - 1].kind = "null"
        BY <1>2, <3>3, <4>1
      <4> QED
        BY <1>1, <2>2, <2>3, <3>1, <3>3, <4>1 DEF Announced
    <3> QED
      BY <3>2, <3>3
  <2>4. ASSUME Pushed(l) PROVE Pushed(l)'
    <3>1. pushes[1].kind = "settings"
      BY <1>2, <2>4 DEF Pushed
    <3>2. Latest' = Latest
      BY <1>1, <2>2, <3>1 DEF Latest
    <3>3. \A k \in 1..Len(pushes') : pushes'[k].kind = "settings"
      BY <1>2, <2>4 DEF Pushed
    <3> QED
      BY <1>1, <2>4, <3>1, <3>2, <3>3 DEF Pushed
  <2> QED
    BY <1>8, <2>1, <2>3, <2>4 DEF SettingsPhase, Chosen
<1> QED
  BY <1>5, <1>7, <1>8 DEF SettingsPhase

-----------------------------------------------------------------------------
(* Settings: the invariant.                                                 *)

\* The invariant holds at first.
LEMMA SettingsInit == CS!Init => SettingsInv
<1> SUFFICES ASSUME CS!Init PROVE SettingsInv
  OBVIOUS
<1>1. SettingsReset
  BY DEF CS!Init, SettingsReset
<1>2. /\ [s \in Sections |-> 0] \in SettingsValue
      /\ [i \in CS!Ids |-> None] \in [CS!Ids -> (SUBSET Sections) \cup {None}]
  BY DEF SettingsValue
<1>3. <<>> \in Seq(Push) /\ <<>> \in Seq(SettingsRequest) /\ Len(<<>>) <= 1
  OBVIOUS
<1>4. SettingsTypeOK
  BY <1>2, <1>3 DEF CS!Init, SettingsTypeOK
<1> QED
  BY <1>1, <1>4 DEF CS!Init, SettingsInv

\* The invariant is kept.
LEMMA SettingsStep == SettingsInv /\ [CS!Next]_(CS!vars) => SettingsInv'
<1> SUFFICES ASSUME SettingsInv, [CS!Next]_(CS!vars) PROVE SettingsInv'
  OBVIOUS
<1>1. SettingsTypeOK /\ SettingsTypeOK' /\ (~synchronizing => SettingsReset)
  BY SettingsTypeStep DEF SettingsInv
<1>2. ASSUME synchronizing, CS!OneSource, UNCHANGED <<configurationSection, registrations>>
      PROVE  CS!OneSource'
  BY <1>2 DEF CS!OneSource
<1>3. ASSUME synchronizing, CS!OneSource PROVE SettingsPhase
  BY <1>3 DEF SettingsInv
<1>4. CASE CS!Start
  <2>1. synchronizing' /\ SettingsReset
    BY <1>1, <1>4 DEF CS!Start
  <2>2. SettingsPhase'
    BY <1>1, <1>4, <2>1, PhaseStart
  <2> QED
    BY <1>1, <2>1, <2>2 DEF SettingsInv
<1>5. CASE CS!Stop
  <2>1. ~synchronizing' /\ SettingsReset'
    BY <1>5 DEF CS!Stop, SettingsReset
  <2> QED
    BY <1>1, <2>1 DEF SettingsInv
<1>6. CASE CS!Serve
  <2>1. /\ synchronizing /\ synchronizing' = synchronizing /\ requests # <<>>
        /\ UNCHANGED <<configurationSection, registrations>>
    BY <1>6 DEF CS!Serve, CS!Bounds
  <2>2. Head(requests) \in SettingsRequest
    BY <1>1, <2>1, TailElements DEF SettingsTypeOK
  <2>3. ASSUME CS!OneSource' PROVE SettingsPhase'
    <3>1. SettingsPhase
      BY <1>3, <2>1, <2>3 DEF CS!OneSource
    <3> QED
      BY <1>1, <1>6, <2>2, <3>1, RequestFields, PhaseRegister, PhaseUnregister, PhasePull
  <2> QED
    BY <1>1, <2>1, <2>3 DEF SettingsInv
<1>7. CASE CS!Waited
  <2>1. /\ waiting # <<>> /\ synchronizing' = synchronizing
        /\ UNCHANGED <<configurationSection, registrations>>
    BY <1>7 DEF CS!Waited, CS!Bounds
  <2>2. synchronizing
    BY <1>1, <2>1 DEF SettingsReset
  <2>3. ASSUME CS!OneSource' PROVE SettingsPhase'
    <3>1. SettingsPhase
      BY <1>3, <2>1, <2>2, <2>3 DEF CS!OneSource
    <3> QED
      BY <1>1, <1>7, <3>1, PhaseWaited
  <2> QED
    BY <1>1, <2>1, <2>2, <2>3 DEF SettingsInv
<1>8. CASE CS!OpenHidden
  <2>1. /\ synchronizing /\ synchronizing' = synchronizing
        /\ UNCHANGED <<settings, configurationSection, registrations, ids, watching, waiting,
                       pushes, requests, has, overtaken>>
    BY <1>8 DEF CS!OpenHidden, CS!Bounds
  <2>2. ASSUME CS!OneSource' PROVE SettingsPhase'
    <3>1. SettingsPhase
      BY <1>3, <2>1, <2>2 DEF CS!OneSource
    <3> QED
      BY <2>1, <3>1, PhaseKept
  <2> QED
    BY <1>1, <2>1, <2>2 DEF SettingsInv
<1>9. ASSUME NEW s \in Sections, NEW v \in Values, CS!Change(s, v) PROVE SettingsInv'
  <2>1. synchronizing' = synchronizing /\ UNCHANGED <<configurationSection, registrations, watching, ids, requests>>
    BY <1>9 DEF CS!Change
  <2>2. CASE synchronizing
    <3>1. ASSUME CS!OneSource' PROVE SettingsPhase'
      <4>1. SettingsPhase
        BY <1>3, <2>1, <2>2, <3>1 DEF CS!OneSource
      <4> QED
        BY <1>1, <1>9, <4>1, PhaseChange
    <3> QED
      BY <1>1, <2>1, <2>2, <3>1 DEF SettingsInv
  <2>3. CASE ~synchronizing
    <3>1. CS!Affected(s) = {}
      BY <1>1, <2>3 DEF CS!Affected, SettingsReset
    <3>2. CS!SendNotifications(<<>>)
      BY <1>1, <1>9, <3>1, ChangeSends
    <3>3. UNCHANGED <<openPending, waiting, pushes, overtaken>>
      BY <3>2 DEF CS!SendNotifications
    <3>4. SettingsReset'
      BY <1>1, <2>1, <2>3, <3>3 DEF SettingsReset
    <3> QED
      BY <1>1, <2>1, <2>3, <3>4 DEF SettingsInv
  <2> QED
    BY <1>1, <2>2, <2>3 DEF SettingsTypeOK
<1>10. ASSUME NEW id \in Registrations, NEW sections \in SUBSET Sections,
              CS!ServerRegister(id, sections)
       PROVE  SettingsInv'
  <2>1. /\ synchronizing /\ synchronizing' = synchronizing
        /\ configurationSection' = configurationSection /\ registrations' = registrations + 1
        /\ registrations \in Nat
    BY <1>1, <1>10 DEF CS!ServerRegister, SettingsTypeOK
  <2>2. ASSUME CS!OneSource' PROVE SettingsPhase'
    <3>1. CS!OneSource
      BY <2>1, <2>2 DEF CS!OneSource
    <3> QED
      BY <1>1, <1>3, <1>10, <2>1, <2>2, <3>1, PhaseServerRegister
  <2> QED
    BY <1>1, <2>1, <2>2 DEF SettingsInv
<1>11. ASSUME NEW id \in Registrations, CS!ServerUnregister(id) PROVE SettingsInv'
  <2>1. /\ synchronizing /\ synchronizing' = synchronizing
        /\ UNCHANGED <<configurationSection, registrations>>
    BY <1>11 DEF CS!ServerUnregister, CS!Bounds
  <2>2. ASSUME CS!OneSource' PROVE SettingsPhase'
    <3>1. SettingsPhase
      BY <1>3, <2>1, <2>2 DEF CS!OneSource
    <3> QED
      BY <1>1, <1>11, <3>1, PhaseServerUnregister
  <2> QED
    BY <1>1, <2>1, <2>2 DEF SettingsInv
<1>12. CASE CS!Receive
  <2>1. /\ pushes # <<>> /\ synchronizing' = synchronizing
        /\ UNCHANGED <<configurationSection, registrations>>
    BY <1>12 DEF CS!Receive, CS!Bounds
  <2>2. synchronizing
    BY <1>1, <2>1 DEF SettingsReset
  <2>3. ASSUME CS!OneSource' PROVE SettingsPhase'
    <3>1. SettingsPhase
      BY <1>3, <2>1, <2>2, <2>3 DEF CS!OneSource
    <3> QED
      BY <1>1, <1>12, <3>1, PhaseReceive
  <2> QED
    BY <1>1, <2>1, <2>2, <2>3 DEF SettingsInv
<1>13. CASE UNCHANGED CS!vars
  <2>1. UNCHANGED <<settings, configurationSection, registrations, ids, watching, waiting,
                    pushes, requests, has, overtaken, openPending, synchronizing>>
    BY <1>13 DEF CS!vars
  <2>2. ASSUME synchronizing', CS!OneSource' PROVE SettingsPhase'
    <3>1. SettingsPhase
      BY <1>3, <2>1, <2>2 DEF CS!OneSource
    <3> QED
      BY <2>1, <3>1, PhaseKept
  <2>3. ASSUME ~synchronizing' PROVE SettingsReset'
    BY <1>1, <2>1, <2>3 DEF SettingsReset
  <2> QED
    BY <1>1, <2>2, <2>3 DEF SettingsInv
<1> QED
  BY <1>4, <1>5, <1>6, <1>7, <1>8, <1>9, <1>10, <1>11, <1>12, <1>13 DEF CS!Next

\* The invariant gives the agreement.
LEMMA SettingsHold == SettingsInv => CS!SettingsAgree
<1> SUFFICES ASSUME SettingsInv, pushes = <<>>, requests = <<>>, waiting = <<>>, ~overtaken,
                    CS!OneSource,
                    NEW i \in CS!Ids, watching[i] # None, NEW s \in Sections,
                    watching[i] = {} \/ s \in watching[i]
             PROVE  has[s] = settings[s]
  BY DEF CS!SettingsAgree, CS!Listening
<1>1. synchronizing
  BY DEF SettingsInv, SettingsReset
<1>2. SettingsPhase
  BY <1>1 DEF SettingsInv
<1>3. Latest = has /\ Newest = has
  BY DEF Latest, Newest
<1>4. PICK l \in CS!Ids : Chosen(l)
  BY <1>2 DEF SettingsPhase, NobodyAsked, Registering, Over, NoListener
<1>5. l = i
  BY <1>4 DEF Chosen, OnlyListener
<1>6. CASE Announced(l)
  BY <1>3, <1>6 DEF Announced
<1>7. CASE Pushed(l)
  BY <1>3, <1>5, <1>7 DEF Pushed
<1> QED
  BY <1>4, <1>6, <1>7 DEF Chosen

-----------------------------------------------------------------------------
(* Progress: the invariant.                                                 *)

Begin == [kind : {"begin"}, percentage : Percentages \cup {None}, text : BOOLEAN]
Window == [stage : {"starting", "open", "closed"}, shown : Nat, begin : Begin]

ProgressTypeOK ==
    /\ origin \in {"server", "initialize"} /\ instance \in {"none", "kept", "done"}
    /\ cancelled \in BOOLEAN /\ userAsked \in BOOLEAN
    /\ reports \in Seq(WP!Messages) /\ cancels \in Seq({"cancel"})
    /\ listening \in BOOLEAN /\ created \in BOOLEAN /\ infinite \in BOOLEAN
    /\ initializing \in BOOLEAN
    /\ windows \in Seq(Window) /\ window \in 0..Len(windows)
    /\ reported \in Nat /\ highest \in 0..100 /\ lost \in Nat

\* The part's window is an open one, and none is the part's when it is done.
WindowsKept ==
    /\ window # 0 => listening /\ windows[window].stage = "open"
    /\ listening \/ windows # <<>> \/ userAsked \/ origin = "initialize" => created

\* The percentage of a begin, 0 for none.
Of(m) == IF m.percentage = None THEN 0 ELSE WP!Clamp(m.percentage)

\* Before there is a window what is reported is lost; a window that starts
\* still has the begin to add; an open one has all the rest.
Counted ==
    /\ windows = <<>> => lost = reported /\ highest = reported /\ ~infinite
    /\ Len(windows) = 1 /\ windows[1].stage = "starting" =>
          /\ lost = reported /\ infinite = (windows[1].begin.percentage = None)
          /\ highest = WP!Larger(reported, Of(windows[1].begin))
    /\ Len(windows) = 1 /\ windows[1].stage = "open" =>
          window = 1 /\ windows[1].shown + lost = highest /\ reported = highest

CancelKept ==
    userAsked /\ origin = "server" /\ instance = "kept" => cancels # <<>> \/ cancelled

ProgressInv == ProgressTypeOK /\ WindowsKept /\ Counted /\ CancelKept

-----------------------------------------------------------------------------
(* Progress: the operators.                                                 *)

\* The kinds and fields of messages.
LEMMA MessageFields ==
  ASSUME NEW m \in WP!Messages
  PROVE  \/ m.kind = "end"
         \/ /\ m.kind = "report"
            /\ m.percentage \in Percentages \cup {None} /\ m.text \in BOOLEAN
         \/ m.kind = "begin" /\ m \in Begin
BY DEF WP!Messages, Begin

\* A begin has a percentage or none, and a text.
LEMMA BeginFields ==
  ASSUME NEW m \in Begin
  PROVE  m.kind = "begin" /\ m.percentage \in Percentages \cup {None} /\ m.text \in BOOLEAN
BY DEF Begin

\* A clamped percentage is from 0 to 100.
LEMMA ClampIs ==
  ASSUME NEW p \in Percentages
  PROVE  WP!Clamp(p) \in 0..100
BY ServicesAssumption DEF WP!Clamp

\* What a message adds raises what was reported to its percentage.
LEMMA DeltaIs ==
  ASSUME NEW m, m.percentage \in Percentages \cup {None}, reported \in Nat
  PROVE  /\ WP!Delta(m) \in Nat
         /\ WP!Counts(m) => /\ m.percentage \in Percentages
                            /\ reported + WP!Delta(m) = WP!Larger(reported, WP!Clamp(m.percentage))
         /\ ~WP!Counts(m) => WP!Delta(m) = 0
<1>1. CASE WP!Counts(m)
  <2>1. m.percentage \in Percentages
    BY <1>1 DEF WP!Counts
  <2> DEFINE c == WP!Clamp(m.percentage)
  <2>2. c \in 0..100
    BY <2>1, ClampIs
  <2>3. WP!Delta(m) = WP!Larger(0, c - reported)
    BY <1>1 DEF WP!Delta
  <2> HIDE DEF c
  <2>4. WP!Larger(0, c - reported) \in Nat /\ reported + WP!Larger(0, c - reported) = WP!Larger(reported, c)
    BY <2>2 DEF WP!Larger
  <2> QED
    BY <1>1, <2>1, <2>3, <2>4 DEF c
<1>2. CASE ~WP!Counts(m)
  BY <1>2 DEF WP!Delta
<1> QED
  BY <1>1, <1>2

\* An entry of the windows is replaced.
LEMMA WindowChanged ==
  ASSUME NEW i \in 1..Len(windows), windows \in Seq(Window), NEW w \in Window,
         windows' = [windows EXCEPT ![i] = w]
  PROVE  /\ windows' \in Seq(Window) /\ Len(windows') = Len(windows) /\ windows' # <<>>
         /\ windows'[i] = w /\ \A j \in 1..Len(windows) : j # i => windows'[j] = windows[j]
OBVIOUS

-----------------------------------------------------------------------------
(* Progress: the steps.                                                     *)

\* The part ends, and with it the window it has.
LEMMA ProgressFinish ==
  ASSUME ProgressInv, created, WP!Finish,
         UNCHANGED <<origin, instance, cancelled, userAsked, cancels, highest, lost>>,
         reports' \in Seq(WP!Messages), initializing' \in BOOLEAN
  PROVE  ProgressInv'
<1>0. /\ windows \in Seq(Window) /\ window \in 0..Len(windows) /\ Len(windows) \in Nat
      /\ highest \in 0..100 /\ lost \in Nat /\ reported \in Nat
  BY DEF ProgressInv, ProgressTypeOK
<1>1. /\ listening' = FALSE /\ window' = 0 /\ created' = TRUE /\ infinite' = infinite
      /\ reported' = reported
  BY DEF WP!Finish, ProgressInv, ProgressTypeOK
<1>a. /\ cancelled' \in BOOLEAN /\ userAsked' \in BOOLEAN /\ listening' \in BOOLEAN
      /\ created' \in BOOLEAN /\ infinite' \in BOOLEAN
  BY <1>1 DEF ProgressInv, ProgressTypeOK
<1>b. /\ origin' \in {"server", "initialize"} /\ instance' \in {"none", "kept", "done"}
      /\ cancels' \in Seq({"cancel"})
  BY DEF ProgressInv, ProgressTypeOK
<1>2. CASE window = 0
  <2>1. windows' = windows
    BY <1>2 DEF WP!Finish
  <2>2. Counted'
    BY <1>0, <1>1, <1>2, <2>1 DEF ProgressInv, Counted, Of
  <2>3. ProgressTypeOK'
    BY <1>0, <1>1, <1>a, <1>b, <2>1 DEF ProgressTypeOK
  <2>4. WindowsKept' /\ CancelKept'
    BY <1>1 DEF ProgressInv, WindowsKept, CancelKept
  <2> QED
    BY <2>2, <2>3, <2>4 DEF ProgressInv
<1>3. CASE window # 0
  <2> DEFINE w == [windows[window] EXCEPT !.stage = "closed"]
  <2>1. window \in 1..Len(windows) /\ windows[window] \in Window
    BY <1>0, <1>3
  <2>2. w \in Window /\ w.stage = "closed"
    BY <2>1 DEF Window
  <2>3. windows' = [windows EXCEPT ![window] = w]
    BY <1>3 DEF WP!Finish
  <2> HIDE DEF w
  <2>4. /\ windows' \in Seq(Window) /\ Len(windows') = Len(windows) /\ windows' # <<>>
        /\ windows'[window] = w
    BY <1>0, <2>1, <2>2, <2>3, WindowChanged
  <2>5. Counted'
    <3>1. Len(windows') = 1 => window = 1
      BY <2>1, <2>4
    <3> QED
      BY <2>2, <2>4, <3>1 DEF Counted
  <2>6. ProgressTypeOK'
    BY <1>0, <1>1, <1>a, <1>b, <2>4 DEF ProgressTypeOK
  <2>7. WindowsKept' /\ CancelKept'
    BY <1>1 DEF ProgressInv, WindowsKept, CancelKept
  <2> QED
    BY <2>5, <2>6, <2>7 DEF ProgressInv
<1> QED
  BY <1>2, <1>3

\* A report raises what is reported, in the window if there is one.
LEMMA ProgressReport ==
  ASSUME ProgressInv, listening, NEW m, m.percentage \in Percentages \cup {None},
         WP!Report(m),
         UNCHANGED <<origin, instance, cancelled, userAsked, cancels, listening, created,
                     infinite, window, initializing>>,
         reports' \in Seq(WP!Messages),
         highest' = IF WP!Counts(m) THEN WP!Larger(highest, WP!Clamp(m.percentage)) ELSE highest
  PROVE  ProgressInv'
<1> DEFINE d == WP!Delta(m)
<1>0. /\ windows \in Seq(Window) /\ window \in 0..Len(windows) /\ Len(windows) \in Nat
      /\ highest \in 0..100 /\ lost \in Nat /\ reported \in Nat
  BY DEF ProgressInv, ProgressTypeOK
<1>1. /\ d \in Nat
      /\ WP!Counts(m) => /\ m.percentage \in Percentages
                         /\ reported + d = WP!Larger(reported, WP!Clamp(m.percentage))
      /\ ~WP!Counts(m) => d = 0
  BY <1>0, DeltaIs
<1>2. /\ reported' = reported + d
      /\ window = 0 => windows' = windows /\ lost' = lost + d
      /\ window # 0 => lost' = lost
  BY DEF WP!Report
<1>a. window # 0 => windows' = [windows EXCEPT ![window].shown = @ + d]
  BY DEF WP!Report
<1> HIDE DEF d
<1>b. lost' \in Nat /\ reported' \in Nat
  BY <1>0, <1>1, <1>2
<1>3. /\ highest' \in 0..100
      /\ reported = highest => reported' = highest'
      /\ \A c \in 0..100 : highest = WP!Larger(reported, c) => highest' = WP!Larger(reported', c)
  <2>1. CASE WP!Counts(m)
    <3> DEFINE p == WP!Clamp(m.percentage)
    <3>1. p \in 0..100
      BY <1>1, <2>1, ClampIs
    <3>2. highest' = WP!Larger(highest, p) /\ reported' = WP!Larger(reported, p)
      BY <1>1, <1>2, <2>1
    <3> HIDE DEF p
    <3>3. highest' \in 0..100
      BY <1>0, <3>1, <3>2 DEF WP!Larger
    <3>4. reported = highest => reported' = highest'
      BY <3>2
    <3>5. ASSUME NEW c \in 0..100, highest = WP!Larger(reported, c)
          PROVE  highest' = WP!Larger(reported', c)
      <4>1. WP!Larger(WP!Larger(reported, c), p) = WP!Larger(WP!Larger(reported, p), c)
        BY <1>0, <3>1 DEF WP!Larger
      <4> QED
        BY <3>2, <3>5, <4>1
    <3> QED
      BY <3>3, <3>4, <3>5
  <2>2. CASE ~WP!Counts(m)
    <3>1. highest' = highest
      BY <2>2
    <3>2. reported' = reported
      BY <1>0, <1>1, <1>2, <2>2
    <3> QED
      BY <1>0, <3>1, <3>2
  <2> QED
    BY <2>1, <2>2
<1>4. CASE window = 0
  <2>1. windows' = windows /\ lost' = lost + d
    BY <1>2, <1>4
  <2>2. ASSUME NEW i \in 1..Len(windows) PROVE Of(windows[i].begin) \in 0..100
    <3>0. windows[i] \in Window
      BY <1>0
    <3>1. windows[i].begin.percentage \in Percentages \cup {None}
      BY <3>0 DEF Window, Begin
    <3> QED
      <4>1. CASE windows[i].begin.percentage = None
        BY <4>1 DEF Of
      <4>2. CASE windows[i].begin.percentage # None
        <5>1. WP!Clamp(windows[i].begin.percentage) \in 0..100
          BY <3>1, <4>2, ClampIs
        <5> QED
          BY <4>2, <5>1 DEF Of
      <4> QED
        BY <4>1, <4>2
  <2>3. Counted'
    <3>1. windows' = <<>> => lost' = reported' /\ highest' = reported' /\ ~infinite'
      BY <1>0, <1>2, <1>3, <2>1 DEF ProgressInv, Counted
    <3>2. ASSUME Len(windows) = 1, windows[1].stage = "starting"
          PROVE  /\ lost' = reported' /\ infinite' = (windows[1].begin.percentage = None)
                 /\ highest' = WP!Larger(reported', Of(windows[1].begin))
      <4>1. lost = reported /\ infinite = (windows[1].begin.percentage = None)
        BY <3>2 DEF ProgressInv, Counted
      <4>2. highest = WP!Larger(reported, Of(windows[1].begin)) /\ Of(windows[1].begin) \in 0..100
        BY <2>2, <3>2 DEF ProgressInv, Counted
      <4> QED
        BY <1>2, <1>3, <2>1, <4>1, <4>2
    <3>3. ~(Len(windows) = 1 /\ windows[1].stage = "open")
      BY <1>4 DEF ProgressInv, Counted
    <3>4. Of(windows[1].begin)' = Of(windows[1].begin)
      BY <2>1 DEF Of
    <3> QED
      BY <2>1, <3>1, <3>2, <3>3, <3>4 DEF Counted
  <2>4. ProgressTypeOK'
    BY <1>0, <1>3, <1>b, <2>1 DEF ProgressInv, ProgressTypeOK
  <2>5. WindowsKept' /\ CancelKept'
    BY <2>1 DEF ProgressInv, WindowsKept, CancelKept
  <2> QED
    BY <2>3, <2>4, <2>5 DEF ProgressInv
<1>5. CASE window # 0
  <2> DEFINE w == [windows[window] EXCEPT !.shown = @ + d]
  <2>1. window \in 1..Len(windows) /\ windows[window] \in Window
    BY <1>0, <1>5
  <2>2. /\ w \in Window /\ w.stage = windows[window].stage
        /\ w.shown = windows[window].shown + d /\ windows[window].shown \in Nat
    BY <1>1, <2>1 DEF Window
  <2>3. windows' = [windows EXCEPT ![window] = w] /\ lost' = lost
    BY <1>2, <1>5, <1>a
  <2> HIDE DEF w
  <2>4. /\ windows' \in Seq(Window) /\ Len(windows') = Len(windows) /\ windows' # <<>>
        /\ windows'[window] = w
    BY <1>0, <2>1, <2>2, <2>3, WindowChanged
  <2>5. windows[window].stage = "open"
    BY <1>5 DEF ProgressInv, WindowsKept
  <2>6. Counted'
    <3>1. ASSUME Len(windows) = 1
          PROVE  window = 1 /\ windows[1].shown + lost = highest /\ reported = highest
      BY <2>1, <2>5, <3>1 DEF ProgressInv, Counted
    <3>2. ASSUME Len(windows') = 1
          PROVE  /\ windows'[1].stage = "open" /\ window' = 1
                 /\ windows'[1].shown + lost' = highest' /\ reported' = highest'
      <4>1. window = 1 /\ windows[1].shown + lost = highest /\ reported = highest
        BY <2>4, <3>1, <3>2
      <4>2. windows'[1] = w /\ w.stage = "open" /\ w.shown = windows[1].shown + d
        BY <2>2, <2>4, <2>5, <4>1
      <4>3. reported' = highest' /\ reported' = reported + d /\ lost' = lost /\ window' = window
        BY <1>2, <1>3, <2>3, <4>1
      <4>4. windows[1].shown \in Nat /\ d \in Nat
        BY <1>1, <2>2, <4>1
      <4>5. \A a, b, c, e \in Nat : a + b = c => (a + e) + b = c + e
        OBVIOUS
      <4>6. (windows[1].shown + d) + lost = highest + d
        BY <1>0, <4>1, <4>4, <4>5
      <4> QED
        BY <4>1, <4>2, <4>3, <4>6
    <3> QED
      BY <2>4, <3>2 DEF Counted
  <2>7. ProgressTypeOK'
    BY <1>0, <1>3, <1>b, <2>4 DEF ProgressInv, ProgressTypeOK
  <2>8. WindowsKept' /\ CancelKept'
    BY <2>2, <2>4, <2>5 DEF ProgressInv, WindowsKept, CancelKept
  <2> QED
    BY <2>6, <2>7, <2>8 DEF ProgressInv
<1> QED
  BY <1>4, <1>5

\* A begin asks for a window.
LEMMA ProgressBegin ==
  ASSUME ProgressInv, listening, NEW m \in Begin,
         UNCHANGED <<origin, instance, cancelled, userAsked, cancels, listening, created,
                     reported, window, lost, initializing>>,
         reports' \in Seq(WP!Messages),
         infinite' = (m.percentage = None),
         windows' = Append(windows, [stage |-> "starting", shown |-> 0, begin |-> m]),
         highest' = IF m.percentage = None THEN highest
                    ELSE WP!Larger(highest, WP!Clamp(m.percentage))
  PROVE  ProgressInv'
<1> DEFINE w == [stage |-> "starting", shown |-> 0, begin |-> m]
<1>0. /\ windows \in Seq(Window) /\ window \in 0..Len(windows) /\ Len(windows) \in Nat
      /\ highest \in 0..100 /\ lost \in Nat /\ reported \in Nat
  BY DEF ProgressInv, ProgressTypeOK
<1>1. w \in Window /\ w.stage = "starting" /\ w.begin = m
  BY DEF Window
<1> HIDE DEF w
<1>2. windows' = Append(windows, w)
  BY DEF w
<1>3. /\ windows' \in Seq(Window) /\ Len(windows') = Len(windows) + 1 /\ windows' # <<>>
      /\ \A i \in 1..Len(windows) : windows'[i] = windows[i]
      /\ windows'[Len(windows) + 1] = w
  BY <1>0, <1>1, <1>2, AppendElements
<1>4. Of(m) \in 0..100 /\ highest' \in 0..100 /\ highest' = WP!Larger(highest, Of(m))
  <2>1. CASE m.percentage = None
    <3>1. highest' = highest /\ Of(m) = 0
      BY <2>1 DEF Of
    <3>2. WP!Larger(highest, 0) = highest
      BY <1>0 DEF WP!Larger
    <3>3. WP!Larger(highest, Of(m)) = highest
      BY <3>1, <3>2
    <3>4. 0 \in 0..100
      OBVIOUS
    <3> QED
      BY <1>0, <3>1, <3>3, <3>4
  <2>2. CASE m.percentage # None
    <3>1. WP!Clamp(m.percentage) \in 0..100
      BY <2>2, BeginFields, ClampIs
    <3>2. highest' = WP!Larger(highest, WP!Clamp(m.percentage)) /\ Of(m) = WP!Clamp(m.percentage)
      BY <2>2 DEF Of
    <3> QED
      BY <1>0, <3>1, <3>2 DEF WP!Larger
  <2> QED
    BY <2>1, <2>2
<1>5. Counted'
  <2>1. ASSUME Len(windows') = 1
        PROVE  /\ windows'[1] = w /\ lost' = reported'
               /\ highest' = WP!Larger(reported', Of(m))
    <3>1. Len(windows) = 0
      BY <1>0, <1>3, <2>1
    <3>2. windows = <<>>
      BY <1>0, <3>1
    <3>3. lost = reported /\ highest = reported
      BY <3>2 DEF ProgressInv, Counted
    <3> QED
      BY <1>3, <1>4, <3>1, <3>3
  <2>2. ASSUME Len(windows') = 1, windows'[1].stage = "starting"
        PROVE  /\ lost' = reported' /\ infinite' = (windows'[1].begin.percentage = None)
               /\ highest' = WP!Larger(reported', Of(windows[1].begin)')
    <3>1. windows'[1] = w
      BY <2>1, <2>2
    <3>2. windows'[1].begin = m /\ Of(windows[1].begin)' = Of(m)
      BY <1>1, <3>1 DEF Of
    <3> QED
      BY <2>1, <2>2, <3>2
  <2>3. ASSUME Len(windows') = 1 PROVE windows'[1].stage # "open"
    BY <1>1, <2>1, <2>3
  <2> QED
    BY <1>3, <2>2, <2>3 DEF Counted
<1>6. infinite' \in BOOLEAN
  OBVIOUS
<1>7. ProgressTypeOK'
  BY <1>0, <1>3, <1>4, <1>6 DEF ProgressInv, ProgressTypeOK
<1>8. WindowsKept' /\ CancelKept'
  BY <1>0, <1>3 DEF ProgressInv, WindowsKept, CancelKept
<1> QED
  BY <1>5, <1>7, <1>8 DEF ProgressInv

\* A window that has started shows the percentage of its begin, or is closed.
LEMMA ProgressReady ==
  ASSUME ProgressInv, NEW i \in DOMAIN windows, WP!WindowReady(i)
  PROVE  ProgressInv'
<1> DEFINE begin == windows[i].begin
           d == WP!Delta(begin)
<1>0. /\ windows \in Seq(Window) /\ window \in 0..Len(windows) /\ Len(windows) \in Nat
      /\ highest \in 0..100 /\ lost \in Nat /\ reported \in Nat
      /\ i \in 1..Len(windows) /\ windows[i].stage = "starting"
  BY DEF ProgressInv, ProgressTypeOK, WP!WindowReady
<1>1. /\ windows[i] \in Window /\ begin \in Begin
      /\ begin.percentage \in Percentages \cup {None}
  <2>1. windows[i] \in Window
    BY <1>0
  <2> QED
    BY <2>1 DEF Window, Begin
<1>2. UNCHANGED <<origin, instance, cancelled, userAsked, cancels, reports, highest, lost,
                  initializing, listening, created, infinite>>
  BY DEF WP!WindowReady, WP!serverVars, WP!partVars
<1>3. windows # <<>>
  BY <1>0
<1>4. CASE listening
  <2>1. /\ d \in Nat
        /\ WP!Counts(begin) => /\ begin.percentage \in Percentages
                               /\ reported + d = WP!Larger(reported, WP!Clamp(begin.percentage))
        /\ ~WP!Counts(begin) => d = 0
    BY <1>0, <1>1, DeltaIs
  <2>2. window' = i /\ reported' = reported + d
    BY <1>4 DEF WP!WindowReady
  <2> DEFINE w == [windows[i] EXCEPT !.stage = "open", !.shown = d]
  <2>3. w \in Window /\ w.stage = "open" /\ w.shown = d
    BY <1>1, <2>1 DEF Window
  <2>4. windows' = [windows EXCEPT ![i] = w]
    BY <1>4 DEF WP!WindowReady
  <2>5. ASSUME Len(windows) = 1 PROVE d + lost = highest /\ reported' = highest
    <3>1. i = 1
      BY <1>0, <2>5
    <3>2. /\ lost = reported /\ infinite = (begin.percentage = None)
          /\ highest = WP!Larger(reported, Of(begin))
      BY <1>0, <2>5, <3>1 DEF ProgressInv, Counted
    <3>3. reported + d = highest
      <4>1. CASE begin.percentage = None
        <5>1. d = 0 /\ Of(begin) = 0
          BY <2>1, <4>1 DEF WP!Counts, Of
        <5> QED
          BY <1>0, <3>2, <5>1 DEF WP!Larger
      <4>2. CASE begin.percentage # None
        <5>1. WP!Counts(begin) /\ Of(begin) = WP!Clamp(begin.percentage)
          BY <3>2, <4>2 DEF WP!Counts, Of
        <5> QED
          BY <2>1, <3>2, <5>1
      <4> QED
        BY <4>1, <4>2
    <3> HIDE DEF d
    <3> QED
      BY <1>0, <2>1, <2>2, <3>2, <3>3
  <2> HIDE DEF w, d
  <2>6. /\ windows' \in Seq(Window) /\ Len(windows') = Len(windows) /\ windows' # <<>>
        /\ windows'[i] = w
    BY <1>0, <2>3, <2>4, WindowChanged
  <2>7. Counted'
    <3>1. ASSUME Len(windows') = 1
          PROVE  /\ windows'[1].stage = "open" /\ window' = 1
                 /\ windows'[1].shown + lost' = highest' /\ reported' = highest'
      <4>1. i = 1
        BY <1>0, <2>6, <3>1
      <4> QED
        BY <1>2, <2>2, <2>3, <2>5, <2>6, <3>1, <4>1
    <3> QED
      BY <2>6, <3>1 DEF Counted
  <2>8. reported' \in Nat /\ window' \in 0..Len(windows')
    BY <1>0, <2>1, <2>2, <2>6
  <2>9. ProgressTypeOK'
    BY <1>2, <2>6, <2>8 DEF ProgressInv, ProgressTypeOK
  <2>10. WindowsKept' /\ CancelKept'
    BY <1>2, <1>3, <1>4, <2>2, <2>3, <2>6 DEF ProgressInv, WindowsKept, CancelKept
  <2> QED
    BY <2>7, <2>9, <2>10 DEF ProgressInv
<1>5. CASE ~listening
  <2> DEFINE w == [windows[i] EXCEPT !.stage = "closed"]
  <2>1. w \in Window /\ w.stage = "closed"
    BY <1>1 DEF Window
  <2>2. windows' = [windows EXCEPT ![i] = w] /\ window' = window /\ reported' = reported
    BY <1>5 DEF WP!WindowReady, WP!partVars
  <2> HIDE DEF w
  <2>3. /\ windows' \in Seq(Window) /\ Len(windows') = Len(windows) /\ windows' # <<>>
        /\ windows'[i] = w
    BY <1>0, <2>1, <2>2, WindowChanged
  <2>4. Counted'
    <3>1. ASSUME Len(windows') = 1 PROVE windows'[1].stage = "closed"
      <4>1. i = 1
        BY <1>0, <2>3, <3>1
      <4> QED
        BY <2>1, <2>3, <4>1
    <3> QED
      BY <2>3, <3>1 DEF Counted
  <2>5. window = 0
    BY <1>5 DEF ProgressInv, WindowsKept
  <2>6. ProgressTypeOK'
    BY <1>0, <1>2, <2>2, <2>3 DEF ProgressInv, ProgressTypeOK
  <2>7. WindowsKept' /\ CancelKept'
    BY <1>2, <1>3, <2>2, <2>5 DEF ProgressInv, WindowsKept, CancelKept
  <2> QED
    BY <2>4, <2>6, <2>7 DEF ProgressInv
<1> QED
  BY <1>4, <1>5

\* The steps that leave the windows and the percentages as they are.
LEMMA CountedKept ==
  ASSUME Counted, UNCHANGED <<windows, lost, reported, highest, infinite, window>>
  PROVE  Counted'
BY DEF Counted, Of

\* The invariant holds at first.
LEMMA ProgressInit == WP!Init => ProgressInv
<1> SUFFICES ASSUME WP!Init PROVE ProgressInv
  OBVIOUS
<1>1. <<>> \in Seq(WP!Messages) /\ <<>> \in Seq({"cancel"}) /\ <<>> \in Seq(Window) /\ Len(<<>>) = 0
  OBVIOUS
<1>2. created \in BOOLEAN /\ listening \in BOOLEAN /\ initializing \in BOOLEAN
  BY DEF WP!Init
<1>a. /\ reports \in Seq(WP!Messages) /\ cancels \in Seq({"cancel"})
      /\ windows \in Seq(Window) /\ Len(windows) = 0
  BY <1>1 DEF WP!Init
<1>b. /\ origin \in {"server", "initialize"} /\ instance \in {"none", "kept", "done"}
      /\ cancelled \in BOOLEAN /\ userAsked \in BOOLEAN /\ infinite \in BOOLEAN
  BY DEF WP!Init
<1>c. window \in 0..Len(windows) /\ reported \in Nat /\ highest \in 0..100 /\ lost \in Nat
  BY <1>a DEF WP!Init
<1>3. ProgressTypeOK
  BY <1>2, <1>a, <1>b, <1>c DEF ProgressTypeOK
<1>4. Counted
  BY <1>1 DEF WP!Init, Counted
<1> QED
  BY <1>3, <1>4 DEF WP!Init, ProgressInv, WindowsKept, CancelKept

\* The invariant is kept.
LEMMA ProgressStep == ProgressInv /\ [WP!Next]_(WP!vars) => ProgressInv'
<1> SUFFICES ASSUME ProgressInv, [WP!Next]_(WP!vars) PROVE ProgressInv'
  OBVIOUS
<1>0. /\ windows \in Seq(Window) /\ window \in 0..Len(windows) /\ Len(windows) \in Nat
      /\ highest \in 0..100 /\ lost \in Nat /\ reported \in Nat
      /\ reports \in Seq(WP!Messages) /\ cancels \in Seq({"cancel"})
      /\ created \in BOOLEAN /\ listening \in BOOLEAN /\ cancelled \in BOOLEAN
  BY DEF ProgressInv, ProgressTypeOK
<1>1. CASE WP!CreateWorkDoneProgress
  <2>1. /\ UNCHANGED <<origin, cancelled, reports, cancels, infinite, reported, window, windows,
                       initializing, highest, lost, userAsked>>
        /\ created' = TRUE /\ listening' = TRUE /\ instance' = "kept" /\ ~created
    BY <1>1 DEF WP!CreateWorkDoneProgress
  <2>2. ProgressTypeOK'
    BY <2>1 DEF ProgressInv, ProgressTypeOK
  <2>3. Counted'
    BY <2>1, CountedKept DEF ProgressInv
  <2>4. WindowsKept' /\ CancelKept'
    BY <2>1 DEF ProgressInv, WindowsKept, CancelKept
  <2> QED
    BY <2>2, <2>3, <2>4 DEF ProgressInv
<1>2. ASSUME NEW m \in WP!Messages, WP!Call(m) PROVE ProgressInv'
  <2>1. /\ UNCHANGED <<origin, cancelled, cancels, listening, created, infinite, reported, window,
                       windows, initializing, highest, lost, userAsked>>
        /\ reports' = Append(reports, m)
        /\ instance' \in {instance, "done"}
    BY <1>2 DEF WP!Call, WP!partVars
  <2>2. reports' \in Seq(WP!Messages)
    BY <1>0, <2>1
  <2>3. ProgressTypeOK'
    BY <2>1, <2>2 DEF ProgressInv, ProgressTypeOK
  <2>4. Counted'
    BY <2>1, CountedKept DEF ProgressInv
  <2>5. WindowsKept' /\ CancelKept'
    BY <2>1 DEF ProgressInv, WindowsKept, CancelKept
  <2> QED
    BY <2>3, <2>4, <2>5 DEF ProgressInv
<1>3. CASE WP!HandleCancel
  <2>1. /\ UNCHANGED <<origin, instance, reports, listening, created, infinite, reported, window,
                       windows, initializing, highest, lost, userAsked>>
        /\ cancels' = Tail(cancels) /\ cancels # <<>>
        /\ cancelled' = (cancelled \/ (instance = "kept" /\ origin = "server"))
    BY <1>3 DEF WP!HandleCancel, WP!partVars
  <2>2. cancels' \in Seq({"cancel"}) /\ cancelled' \in BOOLEAN
    BY <1>0, <2>1
  <2>3. ProgressTypeOK'
    BY <2>1, <2>2 DEF ProgressInv, ProgressTypeOK
  <2>4. Counted'
    BY <2>1, CountedKept DEF ProgressInv
  <2>5. WindowsKept' /\ CancelKept'
    BY <2>1 DEF ProgressInv, WindowsKept, CancelKept
  <2> QED
    BY <2>3, <2>4, <2>5 DEF ProgressInv
<1>4. CASE WP!HandleProgress
  <2> DEFINE m == Head(reports)
  <2>1. /\ m \in WP!Messages /\ reports' \in Seq(WP!Messages)
        /\ UNCHANGED <<origin, instance, cancelled, cancels, initializing, userAsked>>
    BY <1>0, <1>4 DEF WP!HandleProgress, WP!serverVars
  <2>2. CASE ~listening
    <3>1. UNCHANGED <<listening, created, infinite, reported, window, windows, highest, lost>>
      BY <1>4, <2>2 DEF WP!HandleProgress, WP!partVars
    <3>2. ProgressTypeOK'
      BY <2>1, <3>1 DEF ProgressInv, ProgressTypeOK
    <3>3. Counted'
      BY <3>1, CountedKept DEF ProgressInv
    <3>4. WindowsKept' /\ CancelKept'
      BY <2>1, <3>1 DEF ProgressInv, WindowsKept, CancelKept
    <3> QED
      BY <3>2, <3>3, <3>4 DEF ProgressInv
  <2>3. CASE listening /\ m.kind = "end"
    <3>1. WP!Finish /\ lost' = lost /\ highest' = highest
      BY <1>4, <2>3 DEF WP!HandleProgress
    <3>2. created
      BY <1>0, <2>3 DEF ProgressInv, WindowsKept
    <3>3. initializing' \in BOOLEAN
      BY <2>1 DEF ProgressInv, ProgressTypeOK
    <3> QED
      BY <2>1, <3>1, <3>2, <3>3, ProgressFinish
  <2>4. CASE listening /\ m.kind = "report"
    <3>1. m.percentage \in Percentages \cup {None}
      BY <2>1, <2>4, MessageFields
    <3>2. WP!Report(m) /\ UNCHANGED <<listening, created, infinite, window>>
      BY <1>4, <2>4 DEF WP!HandleProgress
    <3>3. highest' = IF WP!Counts(m) THEN WP!Larger(highest, WP!Clamp(m.percentage)) ELSE highest
      BY <1>4, <2>4 DEF WP!HandleProgress, WP!Counts
    <3> HIDE DEF m
    <3> QED
      BY <2>1, <2>4, <3>1, <3>2, <3>3, ProgressReport
  <2>5. CASE listening /\ m.kind = "begin"
    <3>1. m \in Begin
      BY <2>1, <2>5, MessageFields
    <3>2. /\ infinite' = (m.percentage = None)
          /\ windows' = Append(windows, [stage |-> "starting", shown |-> 0, begin |-> m])
          /\ UNCHANGED <<listening, created, reported, window, lost>>
          /\ highest' = IF m.percentage = None THEN highest
                        ELSE WP!Larger(highest, WP!Clamp(m.percentage))
      BY <1>4, <2>5 DEF WP!HandleProgress
    <3> HIDE DEF m
    <3> QED
      BY <2>1, <2>5, <3>1, <3>2, ProgressBegin
  <2> QED
    BY <1>0, <2>1, <2>2, <2>3, <2>4, <2>5, MessageFields
<1>5. ASSUME NEW i \in DOMAIN windows, WP!WindowReady(i) PROVE ProgressInv'
  BY <1>5, ProgressReady
<1>6. ASSUME NEW i \in DOMAIN windows, WP!UserCancels(i) PROVE ProgressInv'
  <2>1. /\ UNCHANGED <<origin, instance, cancelled, reports, listening, created, infinite, reported,
                       window, windows, initializing, highest, lost>>
        /\ userAsked' = TRUE /\ cancels' = Append(cancels, "cancel")
    BY <1>6 DEF WP!UserCancels, WP!serverVars, WP!partVars
  <2>2. cancels' \in Seq({"cancel"}) /\ cancels' # <<>>
    BY <1>0, <2>1, AppendElements
  <2>3. ProgressTypeOK'
    BY <2>1, <2>2 DEF ProgressInv, ProgressTypeOK
  <2>4. Counted'
    BY <2>1, CountedKept DEF ProgressInv
  <2>5. windows # <<>>
    BY <1>0, <1>6
  <2>6. WindowsKept' /\ CancelKept'
    BY <2>1, <2>2, <2>5 DEF ProgressInv, WindowsKept, CancelKept
  <2> QED
    BY <2>3, <2>4, <2>6 DEF ProgressInv
<1>7. CASE WP!Clear
  <2>1. /\ WP!Finish /\ listening
        /\ UNCHANGED <<origin, instance, cancelled, userAsked, cancels, highest, lost, reports,
                       initializing>>
    BY <1>7 DEF WP!Clear, WP!serverVars
  <2>2. created /\ initializing' \in BOOLEAN
    BY <1>0, <2>1 DEF ProgressInv, WindowsKept, ProgressTypeOK
  <2> QED
    BY <1>0, <2>1, <2>2, ProgressFinish
<1>8. CASE WP!Initialized
  <2>1. /\ WP!Finish /\ initializing' = FALSE
        /\ UNCHANGED <<origin, instance, cancelled, userAsked, cancels, highest, lost, reports>>
    BY <1>8 DEF WP!Initialized, WP!serverVars
  <2>2. created
    BY <1>8 DEF ProgressInv, WindowsKept, ProgressTypeOK, WP!Initialized
  <2> QED
    BY <1>0, <2>1, <2>2, ProgressFinish
<1>9. CASE UNCHANGED WP!vars
  <2>1. Counted'
    BY <1>9, CountedKept DEF WP!vars, ProgressInv
  <2>2. ProgressTypeOK'
    BY <1>9 DEF WP!vars, ProgressInv, ProgressTypeOK
  <2>3. WindowsKept' /\ CancelKept'
    BY <1>9 DEF WP!vars, ProgressInv, WindowsKept, CancelKept
  <2> QED
    BY <2>1, <2>2, <2>3 DEF ProgressInv
<1> QED
  BY <1>1, <1>2, <1>3, <1>4, <1>5, <1>6, <1>7, <1>8, <1>9 DEF WP!Next

\* The invariant gives what is promised of the windows and of the cancel.
LEMMA ProgressHolds ==
  ASSUME ProgressInv
  PROVE  WP!NoWindowLeft /\ WP!ShownIsReported /\ WP!CancelReachesServer
<1>0. /\ windows \in Seq(Window) /\ window \in 0..Len(windows) /\ Len(windows) \in Nat
      /\ highest \in 0..100 /\ lost \in Nat
  BY DEF ProgressInv, ProgressTypeOK
<1>1. WP!NoWindowLeft
  <2> SUFFICES ASSUME ~listening, Len(windows) <= 1, NEW i \in DOMAIN windows,
                      windows[i].stage = "open"
               PROVE  FALSE
    BY DEF WP!NoWindowLeft
  <2>a. i \in 1..Len(windows)
    BY <1>0
  <2>1. Len(windows) = 1 /\ i = 1
    <3>1. \A n \in Nat : \A k \in 1..n : n <= 1 => n = 1 /\ k = 1
      OBVIOUS
    <3> QED
      BY <1>0, <2>a, <3>1
  <2>2. window = 1
    BY <2>1 DEF ProgressInv, Counted
  <2> QED
    BY <2>2 DEF ProgressInv, WindowsKept
<1>2. WP!ShownIsReported
  <2> SUFFICES ASSUME Len(windows) = 1, windows[1].stage = "open"
               PROVE  windows[1].shown + lost = highest /\ windows[1].shown <= 100
    BY DEF WP!ShownIsReported
  <2>1. windows[1].shown + lost = highest
    BY DEF ProgressInv, Counted
  <2>2. windows[1] \in Window
    <3>1. Len(<<>>) = 0
      OBVIOUS
    <3>2. windows # <<>>
      BY <3>1
    <3> QED
      BY <1>0, <3>2, TailElements
  <2>3. windows[1].shown \in Nat
    BY <2>2 DEF Window
  <2>4. \A a, b \in Nat, c \in 0..100 : a + b = c => a <= 100
    OBVIOUS
  <2> QED
    BY <1>0, <2>1, <2>3, <2>4
<1>3. WP!CancelReachesServer
  BY DEF ProgressInv, CancelKept, WP!CancelReachesServer
<1> QED
  BY <1>1, <1>2, <1>3

-----------------------------------------------------------------------------
(* File operations: the invariant.                                          *)

PathType == {"file", "folder", "none"}
Operation ==
    [stage : {"idle", "will", "did", "over"}, files : SUBSET Paths, caching : SUBSET Paths,
     matching : SUBSET Paths, matched : SUBSET Paths, told : BOOLEAN, sent : SUBSET Paths,
     were : [Paths -> PathType], trusted : BOOLEAN, undisturbed : BOOLEAN]

OperationTypeOK ==
    /\ kind \in {"create", "remove"} /\ role \in {"will", "did"}
    /\ disk \in [Paths -> PathType] /\ cache \in [Paths -> PathType]
    /\ registered \in [RegistrationIds -> Filters \cup {{}}]
    /\ listener \in BOOLEAN /\ willListener \in BOOLEAN /\ running \in BOOLEAN
    /\ op \in [FO!Operations -> Operation]

\* What is looked at are files of the operation, at the stage of the feature's
\* event, and the did feature has found nothing before it.
FilesKept(n) ==
    /\ op[n].matching \subseteq op[n].files
    /\ op[n].stage \in {"idle", "over"} => op[n].files = {} /\ ~op[n].told
    /\ op[n].told => op[n].matching = {}
    /\ role = "did" /\ op[n].stage = "will"
          => op[n].matching = {} /\ op[n].matched = {} /\ ~op[n].told
    /\ role = "will" /\ op[n].stage = "did" /\ op[n].undisturbed => op[n].matching = {}
    /\ \A p \in op[n].files : op[n].were[p] \in {"file", "folder"}

\* What is on the disk, before and after the editor changed it.
DiskKept(n) ==
    /\ op[n].stage = "will"
          => \A p \in op[n].files : disk[p] = IF kind = "create" THEN "none" ELSE op[n].were[p]
    /\ op[n].stage = "did" /\ kind = "create" => \A p \in op[n].files : disk[p] = op[n].were[p]
    /\ op[n].stage = "did" /\ kind = "remove" /\ op[n].undisturbed
          => \A p \in op[n].matching : disk[p] = "none"

\* Operations that are going to change the disk do not meet.
Apart ==
    \A m, n \in FO!Operations :
        m # n /\ op[m].stage = "will" /\ op[n].stage = "will" => op[m].files \cap op[n].files = {}

Asked(n) == FO!Wanted(op[n].were) \cap op[n].files
Slash(n) == {p \in op[n].files : \E f \in FO!InForce : f.form = "slash" /\ p \in f.paths}

\* The files looked at so far are told apart by what they are or were.
MatchedExactly(n) ==
    /\ role = "will" /\ kind = "remove" /\ op[n].stage \in {"will", "did"}
          => op[n].matched = Asked(n) \ op[n].matching
    /\ role = "did" /\ kind = "create" /\ op[n].stage = "did"
          => op[n].matched = Asked(n) \ op[n].matching
    /\ op[n].told /\ (role = "did") = (kind = "create") => op[n].sent = Asked(n)

\* The cache has the types that the filters ask for: of the files looked at
\* before the disk changed, and of those to be looked at after it.
TypesRemembered(n) ==
    /\ op[n].stage = "will" => \A p \in op[n].files :
          /\ cache[p] \in {"none", op[n].were[p]}
          /\ FO!AsksType(p) /\ p \notin op[n].caching => cache[p] # "none"
    /\ op[n].stage = "did" => \A p \in op[n].matching : FO!AsksType(p) => cache[p] = op[n].were[p]
MatchedByCache(n) ==
    /\ TypesRemembered(n)
    /\ op[n].stage = "did"
          => /\ op[n].matched \subseteq Asked(n)
             /\ (Asked(n) \ Slash(n)) \ op[n].matching \subseteq op[n].matched
    /\ op[n].told => op[n].sent \subseteq Asked(n) /\ Asked(n) \ Slash(n) \subseteq op[n].sent

OperationKept(n) ==
    op[n].undisturbed =>
        MatchedExactly(n) /\ (FO!Caches /\ op[n].trusted => MatchedByCache(n))

OperationInv ==
    /\ OperationTypeOK /\ FO!ListensWhileNeeded /\ Apart
    /\ \A n \in FO!Operations : FilesKept(n) /\ DiskKept(n) /\ OperationKept(n)

-----------------------------------------------------------------------------
(* File operations: matching.                                               *)

\* A path whose type can be read matches if it is wanted.
LEMMA MatchIsWanted ==
  ASSUME ~FO!Caches, NEW were, NEW p \in Paths, disk[p] = were[p], were[p] \in {"file", "folder"}
  PROVE  FO!Match(p) <=> p \in FO!Wanted(were)
<1>1. FO!GetFileType(p) = were[p]
  BY DEF FO!GetFileType
<1>2. ASSUME NEW f
      PROVE  FO!MatchesPath(f, p) \/ FO!MatchesSlash(f, p)
             <=> /\ p \in f.paths
                 /\ \/ f.form = "path" /\ f.kind \in {"any", were[p]}
                    \/ f.form = "slash" /\ f.kind = "folder" /\ were[p] = "folder"
  BY <1>1 DEF FO!MatchesPath, FO!MatchesSlash
<1> QED
  BY <1>2 DEF FO!Match, FO!Wanted

\* A path that is gone matches, by the cache, if it is wanted, but for filters
\* that need a slash.
LEMMA MatchByCache ==
  ASSUME FO!Caches, NEW were, NEW p \in Paths, disk[p] = "none", were[p] \in {"file", "folder"},
         FO!AsksType(p) => cache[p] = were[p]
  PROVE  /\ FO!Match(p) => p \in FO!Wanted(were)
         /\ p \in FO!Wanted(were) =>
               FO!Match(p) \/ \E f \in FO!InForce : f.form = "slash" /\ p \in f.paths
<1>1. ASSUME NEW f \in FO!InForce, f.form = "path", p \in f.paths, f.kind # "any"
      PROVE  FO!GetFileType(p) = were[p]
  <2>1. FO!AsksType(p)
    BY <1>1 DEF FO!AsksType
  <2> QED
    BY <2>1 DEF FO!GetFileType
<1>2. ASSUME NEW f \in FO!InForce, FO!MatchesPath(f, p) \/ FO!MatchesSlash(f, p)
      PROVE  p \in FO!Wanted(were)
  <2>1. f.form = "path" /\ p \in f.paths /\ (f.kind = "any" \/ FO!GetFileType(p) \in {"none", f.kind})
    BY <1>2 DEF FO!MatchesPath, FO!MatchesSlash
  <2>2. f.kind \in {"any", were[p]}
    BY <1>1, <2>1
  <2> QED
    BY <2>1, <2>2 DEF FO!Wanted
<1>3. ASSUME NEW f \in FO!InForce, f.form = "path", p \in f.paths, f.kind \in {"any", were[p]}
      PROVE  FO!MatchesPath(f, p)
  BY <1>1, <1>3 DEF FO!MatchesPath
<1> QED
  BY <1>2, <1>3 DEF FO!Match, FO!Wanted

\* Without filters nothing is wanted and no type is asked for.
LEMMA NothingWanted ==
  ASSUME FO!InForce = {}
  PROVE  /\ \A were : FO!Wanted(were) = {}
         /\ \A p : ~FO!AsksType(p)
BY DEF FO!Wanted, FO!AsksType

\* The filters in force are those of the registrations.
LEMMA InForceIs == FO!InForce = UNION {registered[i] : i \in RegistrationIds}
BY DEF FO!InForce

-----------------------------------------------------------------------------
(* File operations: what a step does not touch.                             *)

\* What is wanted and asked for depends on the filters and on the operation.
LEMMA SameWanted ==
  ASSUME UNCHANGED registered
  PROVE  /\ FO!InForce' = FO!InForce
         /\ \A were : FO!Wanted(were)' = FO!Wanted(were)
         /\ \A p : FO!AsksType(p)' = FO!AsksType(p)
BY DEF FO!InForce, FO!AsksType, FO!Wanted

\* Only whether the operation n is undisturbed may have changed.
Aside(n) ==
    /\ op'[n] = [op[n] EXCEPT !.undisturbed = op'[n].undisturbed]
    /\ op'[n].undisturbed => op[n].undisturbed
    /\ UNCHANGED <<kind, role>>

LEMMA SameOperation ==
  ASSUME OperationInv, NEW n \in FO!Operations, Aside(n)
  PROVE  /\ op[n] \in Operation
         /\ op'[n].stage = op[n].stage /\ op'[n].files = op[n].files
         /\ op'[n].caching = op[n].caching /\ op'[n].matching = op[n].matching
         /\ op'[n].matched = op[n].matched /\ op'[n].told = op[n].told
         /\ op'[n].sent = op[n].sent /\ op'[n].were = op[n].were
         /\ op'[n].trusted = op[n].trusted
         /\ op'[n].undisturbed => op[n].undisturbed
<1>1. op[n] \in Operation
  BY DEF OperationInv, OperationTypeOK
<1> QED
  BY <1>1 DEF Aside, Operation

LEMMA FilesAside ==
  ASSUME OperationInv, NEW n \in FO!Operations, Aside(n)
  PROVE  FilesKept(n)'
<1>1. FilesKept(n) /\ UNCHANGED role
  BY DEF OperationInv, Aside
<1> QED
  BY <1>1, SameOperation DEF FilesKept

\* The paths that matter to the operation are as they were.
LEMMA DiskAside ==
  ASSUME OperationInv, NEW n \in FO!Operations, Aside(n),
         op[n].stage = "will" \/ (op[n].stage = "did" /\ kind = "create")
            => \A p \in op[n].files : disk'[p] = disk[p],
         op[n].stage = "did" /\ kind = "remove" /\ op'[n].undisturbed
            => \A p \in op[n].matching : disk'[p] = disk[p]
  PROVE  DiskKept(n)'
<1>1. DiskKept(n) /\ UNCHANGED kind
  BY DEF OperationInv, Aside
<1> QED
  BY <1>1, SameOperation DEF DiskKept

\* The cache does not matter any more, or has at most learned the types of
\* what is on the disk.
LEMMA KeptAside ==
  ASSUME OperationInv, NEW n \in FO!Operations, Aside(n),
         op'[n].undisturbed =>
            /\ UNCHANGED registered
            /\ FO!Looking(n) => \A p \in Paths :
                  cache'[p] # cache[p]
                     => cache[p] = "none" /\ disk[p] # "none" /\ cache'[p] = disk[p]
  PROVE  OperationKept(n)'
<1> SUFFICES ASSUME op'[n].undisturbed
             PROVE  MatchedExactly(n)' /\ ((FO!Caches /\ op[n].trusted)' => MatchedByCache(n)')
  BY DEF OperationKept
<1>1. UNCHANGED <<kind, role, registered>>
  BY DEF Aside
<1>2. /\ op[n].undisturbed /\ Asked(n)' = Asked(n) /\ Slash(n)' = Slash(n)
      /\ FO!Caches' = FO!Caches /\ \A p : FO!AsksType(p)' = FO!AsksType(p)
  BY <1>1, SameWanted, SameOperation DEF Asked, Slash, FO!Caches
<1>3. MatchedExactly(n) /\ (FO!Caches /\ op[n].trusted => MatchedByCache(n))
  BY <1>2 DEF OperationInv, OperationKept
<1>4. MatchedExactly(n)'
  BY <1>1, <1>2, <1>3, SameOperation DEF MatchedExactly
<1>5. ASSUME FO!Caches, op[n].trusted PROVE MatchedByCache(n)'
  <2>1. MatchedByCache(n)
    BY <1>3, <1>5
  <2>2. kind = "remove"
    BY <1>5 DEF FO!Caches, OperationInv, OperationTypeOK
  <2>3. /\ op[n].files \subseteq Paths /\ op[n].matching \subseteq op[n].files
        /\ FilesKept(n) /\ DiskKept(n)
    BY SameOperation DEF Operation, OperationInv, FilesKept
  <2>4. op[n].stage = "will" => \A p \in op[n].files :
           /\ cache'[p] \in {"none", op[n].were[p]}
           /\ FO!AsksType(p) /\ p \notin op[n].caching => cache'[p] # "none"
    <3> SUFFICES ASSUME op[n].stage = "will", NEW p \in op[n].files
                 PROVE  /\ cache'[p] \in {"none", op[n].were[p]}
                        /\ FO!AsksType(p) /\ p \notin op[n].caching => cache'[p] # "none"
      OBVIOUS
    <3>1. disk[p] = op[n].were[p] /\ FO!Looking(n)
      BY <2>2, <2>3 DEF DiskKept, FO!Looking
    <3>2. /\ cache[p] \in {"none", op[n].were[p]}
          /\ FO!AsksType(p) /\ p \notin op[n].caching => cache[p] # "none"
      BY <2>1 DEF MatchedByCache, TypesRemembered
    <3> QED
      BY <2>3, <3>1, <3>2
  <2>5. op[n].stage = "did" => \A p \in op[n].matching :
           FO!AsksType(p) => cache'[p] = op[n].were[p]
    <3> SUFFICES ASSUME op[n].stage = "did", NEW p \in op[n].matching, FO!AsksType(p)
                 PROVE  cache'[p] = op[n].were[p]
      OBVIOUS
    <3>1. disk[p] = "none" /\ FO!Looking(n)
      BY <1>2, <2>2, <2>3 DEF DiskKept, FO!Looking
    <3>2. cache[p] = op[n].were[p]
      BY <2>1 DEF MatchedByCache, TypesRemembered
    <3> QED
      BY <2>3, <3>1, <3>2
  <2>6. TypesRemembered(n)'
    BY <1>2, <2>4, <2>5, SameOperation DEF TypesRemembered
  <2> QED
    BY <1>2, <2>1, <2>6, SameOperation DEF MatchedByCache
<1> QED
  BY <1>2, <1>4, <1>5, SameOperation

\* Operations whose stage and files are the same, or that have not begun or do
\* not change the disk any more, stay apart.
LEMMA ApartKept ==
  ASSUME OperationInv,
         \A n \in FO!Operations :
            op'[n].stage = "will" => op[n].stage = "will" /\ op'[n].files = op[n].files
  PROVE  Apart'
BY DEF OperationInv, Apart

\* A listener goes with the filters.
LEMMA ListensKept ==
  ASSUME OperationInv, UNCHANGED <<kind, role, registered, listener, willListener, running>>
  PROVE  FO!ListensWhileNeeded'
BY DEF OperationInv, FO!ListensWhileNeeded, FO!InForce, FO!Caches

\* The others are as they were when one operation goes on.
LEMMA OneOperation ==
  ASSUME OperationInv, UNCHANGED <<kind, role>>, NEW n \in FO!Operations, NEW r \in Operation,
         op' = [op EXCEPT ![n] = r]
  PROVE  /\ op' \in [FO!Operations -> Operation] /\ op'[n] = r
         /\ \A m \in FO!Operations : m # n => Aside(m) /\ op'[m] = op[m]
<1>1. op \in [FO!Operations -> Operation]
  BY DEF OperationInv, OperationTypeOK
<1>2. op' \in [FO!Operations -> Operation] /\ op'[n] = r
  BY <1>1
<1>3. ASSUME NEW m \in FO!Operations, m # n PROVE Aside(m) /\ op'[m] = op[m]
  <2>1. op'[m] = op[m] /\ op[m] \in Operation
    BY <1>1, <1>3
  <2>2. op[m] = [op[m] EXCEPT !.undisturbed = op[m].undisturbed]
    BY <2>1 DEF Operation
  <2> QED
    BY <2>1, <2>2 DEF Aside
<1> QED
  BY <1>2, <1>3

\* Those that are disturbed keep all the rest.
LEMMA Disturbed ==
  ASSUME OperationInv, UNCHANGED <<kind, role>>, NEW disturbed, NEW n \in FO!Operations,
         op'[n] = FO!Disturb(disturbed)[n]
  PROVE  /\ op'[n] \in Operation /\ Aside(n)
         /\ op'[n].undisturbed => op[n].undisturbed /\ n \notin disturbed
<1>1. op[n] \in Operation
  BY DEF OperationInv, OperationTypeOK
<1>2. op'[n] = [op[n] EXCEPT !.undisturbed = op[n].undisturbed /\ n \notin disturbed]
  BY DEF FO!Disturb
<1>3. op[n].undisturbed \in BOOLEAN
  BY <1>1 DEF Operation
<1> DEFINE b == op[n].undisturbed /\ n \notin disturbed
<1>4. b \in BOOLEAN /\ (b => op[n].undisturbed /\ n \notin disturbed)
  BY <1>3
<1>5. op'[n] = [op[n] EXCEPT !.undisturbed = b]
  BY <1>2
<1> HIDE DEF b
<1>6. op'[n] \in Operation /\ op'[n].undisturbed = b
  BY <1>1, <1>4, <1>5 DEF Operation
<1>7. Aside(n)
  BY <1>4, <1>5, <1>6 DEF Aside
<1> QED
  BY <1>4, <1>6, <1>7

\* A disturbed operation has nothing to keep but its files and its place.
LEMMA AllDisturbed ==
  ASSUME OperationInv, op' = FO!Disturb(FO!Operations), UNCHANGED <<kind, role, disk, cache>>,
         registered' \in [RegistrationIds -> Filters \cup {{}}],
         listener' \in BOOLEAN, willListener' \in BOOLEAN, running' \in BOOLEAN,
         FO!ListensWhileNeeded'
  PROVE  OperationInv'
<1>1. ASSUME NEW n \in FO!Operations
      PROVE  op'[n] \in Operation /\ Aside(n) /\ ~op'[n].undisturbed
  BY Disturbed
<1>2. op' \in [FO!Operations -> Operation]
  BY <1>1 DEF FO!Disturb
<1>3. OperationTypeOK'
  BY <1>2 DEF OperationInv, OperationTypeOK
<1>4. Apart'
  BY <1>1, SameOperation, ApartKept
<1>5. ASSUME NEW n \in FO!Operations PROVE FilesKept(n)' /\ DiskKept(n)' /\ OperationKept(n)'
  <2>1. FilesKept(n)' /\ DiskKept(n)'
    BY <1>1, FilesAside, DiskAside
  <2>2. OperationKept(n)'
    BY <1>1 DEF OperationKept
  <2> QED
    BY <2>1, <2>2
<1> QED
  BY <1>3, <1>4, <1>5 DEF OperationInv

\* The cache has at most learned the types of what is on the disk.
Learned ==
    /\ cache' \in [Paths -> PathType]
    /\ \A p \in Paths :
          cache'[p] # cache[p] => cache[p] = "none" /\ disk[p] # "none" /\ cache'[p] = disk[p]

\* What an operation does is its own, as far as it leaves the disk.
LEMMA OneGoesOn ==
  ASSUME OperationInv, NEW n \in FO!Operations, NEW r \in Operation, op' = [op EXCEPT ![n] = r],
         UNCHANGED <<kind, role, disk, registered, listener, willListener, running>>, Learned,
         Apart', FilesKept(n)', DiskKept(n)', OperationKept(n)'
  PROVE  OperationInv'
<1>1. op' \in [FO!Operations -> Operation]
  BY OneOperation
<1>2. OperationTypeOK'
  BY <1>1 DEF OperationInv, OperationTypeOK, Learned
<1>3. ASSUME NEW m \in FO!Operations, m # n
      PROVE  FilesKept(m)' /\ DiskKept(m)' /\ OperationKept(m)'
  <2>1. Aside(m)
    BY <1>3, OneOperation
  <2> QED
    BY <2>1, FilesAside, DiskAside, KeptAside DEF Learned
<1> QED
  BY <1>2, <1>3, ListensKept DEF OperationInv

\* A look remembers the type of a path that is there.
LEMMA Remembered ==
  ASSUME OperationInv, NEW p \in Paths, FO!Remember(p)
  PROVE  /\ Learned
         /\ FO!Caches /\ FO!AsksType(p) /\ disk[p] # "none" => cache'[p] # "none"
<1>1. cache \in [Paths -> PathType] /\ disk[p] \in PathType
  BY DEF OperationInv, OperationTypeOK
<1> QED
  BY <1>1 DEF FO!Remember, Learned

-----------------------------------------------------------------------------
(* File operations: the steps.                                              *)

\* The feature listens from its first filters on.
LEMMA ListensRegister ==
  ASSUME OperationInv, NEW id \in RegistrationIds, NEW filters \in Filters, FO!Register(id, filters)
  PROVE  OperationInv'
<1>1. /\ running /\ listener' = TRUE /\ willListener' = FO!Caches /\ running' = running
      /\ registered' = IF FO!Invalid(filters) THEN registered
                       ELSE [registered EXCEPT ![id] = filters]
      /\ op' = FO!Disturb(FO!Operations) /\ UNCHANGED <<kind, role, disk, cache>>
  BY DEF FO!Register
<1>2. registered' \in [RegistrationIds -> Filters \cup {{}}]
  BY <1>1 DEF OperationInv, OperationTypeOK
<1>3. FO!Caches' = FO!Caches /\ FO!Caches \in BOOLEAN
  BY <1>1 DEF FO!Caches
<1>4. FO!ListensWhileNeeded'
  BY <1>1, <1>3 DEF FO!ListensWhileNeeded
<1>5. listener' \in BOOLEAN /\ willListener' \in BOOLEAN /\ running' \in BOOLEAN
  BY <1>1, <1>3 DEF OperationInv, OperationTypeOK
<1> QED
  BY <1>1, <1>2, <1>4, <1>5, AllDisturbed

\* It listens until the last of them are gone.
LEMMA ListensUnregister ==
  ASSUME OperationInv, NEW id \in RegistrationIds, FO!Unregister(id)
  PROVE  OperationInv'
<1> DEFINE last == \A i \in RegistrationIds : registered'[i] = {}
<1>1. /\ running /\ running' = running
      /\ registered' = [registered EXCEPT ![id] = {}]
      /\ listener' = (listener /\ ~last) /\ willListener' = (willListener /\ ~last)
      /\ op' = FO!Disturb(FO!Operations) /\ UNCHANGED <<kind, role, disk, cache>>
  BY DEF FO!Unregister
<1>2. registered \in [RegistrationIds -> Filters \cup {{}}]
  BY DEF OperationInv, OperationTypeOK
<1>3. registered' \in [RegistrationIds -> Filters \cup {{}}]
  BY <1>1, <1>2
<1>4. FO!Caches' = FO!Caches
  BY <1>1 DEF FO!Caches
<1>5. ASSUME FO!InForce' # {} PROVE FO!InForce # {} /\ ~last
  <2>1. PICK i \in RegistrationIds : registered'[i] # {}
    BY <1>5 DEF FO!InForce
  <2>2. registered[i] = registered'[i]
    BY <1>1, <1>2, <2>1
  <2>3. FO!InForce # {}
    <3>1. PICK f : f \in registered[i]
      BY <2>1, <2>2
    <3> QED
      BY <3>1 DEF FO!InForce
  <2> QED
    BY <2>1, <2>3
<1> HIDE DEF last
<1>6. FO!ListensWhileNeeded'
  <2>1. FO!InForce' # {} => listener' /\ willListener' = FO!Caches'
    <3> SUFFICES ASSUME FO!InForce' # {} PROVE listener' /\ willListener' = FO!Caches'
      OBVIOUS
    <3>1. listener /\ willListener = FO!Caches /\ ~last
      BY <1>5 DEF OperationInv, FO!ListensWhileNeeded
    <3>2. willListener \in BOOLEAN /\ willListener' = (willListener /\ ~last)
      BY <1>1 DEF OperationInv, OperationTypeOK
    <3>3. willListener' = willListener
      BY <3>1, <3>2
    <3> QED
      BY <1>1, <1>4, <3>1, <3>3
  <2> QED
    BY <1>1, <2>1 DEF FO!ListensWhileNeeded
<1>7. listener' \in BOOLEAN /\ willListener' \in BOOLEAN /\ running' \in BOOLEAN
  BY <1>1 DEF OperationInv, OperationTypeOK
<1> QED
  BY <1>1, <1>3, <1>6, <1>7, AllDisturbed

\* When the client stops, so does the feature.
LEMMA ListensClear ==
  ASSUME OperationInv, FO!Clear
  PROVE  OperationInv'
<1>1. /\ running' = FALSE /\ listener' = FALSE /\ willListener' = FALSE
      /\ registered' = [i \in RegistrationIds |-> {}]
      /\ op' = FO!Disturb(FO!Operations) /\ UNCHANGED <<kind, role, disk, cache>>
  BY DEF FO!Clear
<1>2. registered' \in [RegistrationIds -> Filters \cup {{}}]
  BY <1>1
<1>3. FO!InForce' = {}
  BY <1>1 DEF FO!InForce
<1>4. FO!ListensWhileNeeded'
  BY <1>1, <1>3 DEF FO!ListensWhileNeeded
<1> QED
  BY <1>1, <1>2, <1>4, AllDisturbed

\* An operation begins.
LEMMA OperationBegin ==
  ASSUME OperationInv, NEW n \in FO!Operations,
         NEW files \in SUBSET Paths, NEW types \in [Paths -> FO!Kinds],
         FO!Begin(n, files, types)
  PROVE  OperationInv'
<1> DEFINE were == FO!TypesOf(files, types)
           trusted == \A p \in files : cache[p] \in {"none", disk[p]}
           caching == IF willListener THEN files ELSE {}
           matching == IF role = "will" /\ listener THEN files ELSE {}
           new == [stage |-> "will", files |-> files, caching |-> caching,
                     matching |-> matching, matched |-> {}, told |-> FALSE, sent |-> {},
                     were |-> were, trusted |-> trusted, undisturbed |-> TRUE]
<1>1. /\ op' = [op EXCEPT ![n] = new]
      /\ UNCHANGED <<kind, role, disk, registered, listener, willListener, cache, running>>
      /\ \A p \in files : FO!Operable(p)
  BY DEF FO!Begin
<1>2. /\ kind \in {"create", "remove"} /\ role \in {"will", "did"}
      /\ disk \in [Paths -> PathType] /\ cache \in [Paths -> PathType]
      /\ types \in [Paths -> {"file", "folder"}]
  BY DEF OperationInv, OperationTypeOK, FO!Kinds
<1>3. were \in [Paths -> PathType]
  BY <1>2 DEF PathType, FO!TypesOf
<1>4. ASSUME NEW p \in files
      PROVE  /\ were[p] \in {"file", "folder"}
             /\ disk[p] = IF kind = "create" THEN "none" ELSE were[p]
             /\ \A m \in FO!Operations : op[m].stage = "will" => p \notin op[m].files
  BY <1>1, <1>2 DEF FO!Operable, PathType, FO!TypesOf
<1>5. trusted \in BOOLEAN /\ caching \subseteq files /\ matching \subseteq files
  OBVIOUS
<1>6. ASSUME trusted, kind = "remove", NEW p \in files PROVE cache[p] \in {"none", were[p]}
  BY <1>4, <1>6
<1> HIDE DEF were, trusted, caching, matching
<1>7. /\ new \in Operation /\ new.stage = "will" /\ new.files = files
      /\ new.caching = caching /\ new.matching = matching /\ new.matched = {}
      /\ new.told = FALSE /\ new.sent = {} /\ new.were = were /\ new.trusted = trusted
  BY <1>3, <1>5 DEF Operation
<1> HIDE DEF new
<1>8. op'[n] = new /\ \A m \in FO!Operations : m # n => op'[m] = op[m]
  BY <1>1, <1>7, OneOperation
<1>9. Learned
  BY <1>1, <1>2 DEF Learned
<1>10. Apart'
  BY <1>4, <1>7, <1>8 DEF OperationInv, Apart
<1>11. FilesKept(n)'
  BY <1>1, <1>4, <1>5, <1>7, <1>8 DEF FilesKept, matching
<1>12. DiskKept(n)'
  BY <1>1, <1>4, <1>7, <1>8 DEF DiskKept
<1>13. FO!InForce' = FO!InForce /\ FO!Caches' = FO!Caches /\ FO!ListensWhileNeeded
       /\ \A p : FO!AsksType(p)' = FO!AsksType(p)
  BY <1>1, SameWanted DEF FO!Caches, OperationInv
<1>14. OperationKept(n)'
  <2>1. Asked(n)' \subseteq files
    BY <1>7, <1>8 DEF Asked
  <2>2. MatchedExactly(n)'
    <3> SUFFICES ASSUME role = "will" PROVE {} = Asked(n)' \ matching
      BY <1>1, <1>7, <1>8 DEF MatchedExactly
    <3>1. CASE listener
      BY <2>1, <3>1 DEF matching
    <3>2. CASE ~listener
      <4>1. FO!InForce' = {}
        BY <1>13, <3>2 DEF FO!ListensWhileNeeded
      <4>2. Asked(n)' = {}
        BY <4>1 DEF Asked, FO!Wanted
      <4> QED
        BY <4>2
    <3> QED
      BY <3>1, <3>2
  <2>3. ASSUME FO!Caches, trusted PROVE MatchedByCache(n)'
    <3>1. role = "did" /\ kind = "remove"
      BY <2>3 DEF FO!Caches
    <3>2. ASSUME NEW p \in files, FO!AsksType(p) PROVE p \in caching
      <4>1. FO!InForce # {}
        BY <3>2 DEF FO!AsksType
      <4>2. willListener
        BY <1>13, <2>3, <4>1 DEF FO!ListensWhileNeeded
      <4> QED
        BY <4>2 DEF caching
    <3>3. TypesRemembered(n)'
      BY <1>1, <1>6, <1>7, <1>8, <1>13, <2>3, <3>1, <3>2 DEF TypesRemembered
    <3> QED
      BY <1>7, <1>8, <3>3 DEF MatchedByCache
  <2> QED
    BY <1>7, <1>8, <1>13, <2>2, <2>3 DEF OperationKept
<1> QED
  BY <1>1, <1>7, <1>9, <1>10, <1>11, <1>12, <1>14, OneGoesOn

\* A file is looked at for the cache.
LEMMA OperationCache ==
  ASSUME OperationInv, NEW n \in FO!Operations, NEW p \in Paths, FO!CacheOne(n, p)
  PROVE  OperationInv'
<1> DEFINE looked == [op[n] EXCEPT !.caching = @ \ {p}]
<1>1. /\ op' = [op EXCEPT ![n] = looked] /\ FO!Remember(p)
      /\ UNCHANGED <<kind, role, disk, registered, listener, willListener, running>>
  BY DEF FO!CacheOne
<1>2. op[n] \in Operation
  BY DEF OperationInv, OperationTypeOK
<1>3. /\ looked \in Operation /\ looked.stage = op[n].stage /\ looked.files = op[n].files
      /\ looked.caching = op[n].caching \ {p} /\ looked.matching = op[n].matching
      /\ looked.matched = op[n].matched /\ looked.told = op[n].told
      /\ looked.sent = op[n].sent /\ looked.were = op[n].were /\ looked.trusted = op[n].trusted
      /\ looked.undisturbed = op[n].undisturbed
  BY <1>2 DEF Operation
<1> HIDE DEF looked
<1>4. op'[n] = looked /\ \A m \in FO!Operations : m # n => op'[m] = op[m]
  BY <1>1, <1>3, OneOperation
<1>5. Learned /\ (FO!Caches /\ FO!AsksType(p) /\ disk[p] # "none" => cache'[p] # "none")
  BY <1>1, Remembered
<1>6. Apart'
  BY <1>3, <1>4, ApartKept
<1>7. FilesKept(n)' /\ DiskKept(n)'
  BY <1>1, <1>3, <1>4 DEF OperationInv, FilesKept, DiskKept
<1>8. /\ Asked(n)' = Asked(n) /\ Slash(n)' = Slash(n) /\ FO!Caches' = FO!Caches
      /\ \A q : FO!AsksType(q)' = FO!AsksType(q)
  BY <1>1, <1>3, <1>4, SameWanted DEF Asked, Slash, FO!Caches
<1>9. OperationKept(n)'
  <2> SUFFICES ASSUME op[n].undisturbed
               PROVE  MatchedExactly(n)' /\ (FO!Caches /\ op[n].trusted => MatchedByCache(n)')
    BY <1>3, <1>4, <1>8 DEF OperationKept
  <2>1. MatchedExactly(n) /\ (FO!Caches /\ op[n].trusted => MatchedByCache(n))
    BY DEF OperationInv, OperationKept
  <2>2. MatchedExactly(n)'
    BY <1>1, <1>3, <1>4, <1>8, <2>1 DEF MatchedExactly
  <2>3. ASSUME FO!Caches, op[n].trusted PROVE MatchedByCache(n)'
    <3>1. MatchedByCache(n) /\ FilesKept(n) /\ DiskKept(n) /\ kind = "remove"
          /\ op[n].files \subseteq Paths
      BY <1>2, <2>1, <2>3 DEF OperationInv, FO!Caches, Operation
    <3>2. ASSUME op[n].stage = "will", NEW q \in op[n].files
          PROVE  /\ cache'[q] \in {"none", op[n].were[q]}
                 /\ FO!AsksType(q) /\ q \notin op[n].caching \ {p} => cache'[q] # "none"
      <4>1. /\ disk[q] = op[n].were[q] /\ disk[q] # "none" /\ q \in Paths
            /\ cache[q] \in {"none", op[n].were[q]}
            /\ FO!AsksType(q) /\ q \notin op[n].caching => cache[q] # "none"
        BY <3>1, <3>2 DEF FilesKept, DiskKept, MatchedByCache, TypesRemembered
      <4> QED
        BY <1>5, <2>3, <4>1 DEF Learned
    <3>3. ASSUME op[n].stage = "did", NEW q \in op[n].matching, FO!AsksType(q)
          PROVE  cache'[q] = op[n].were[q]
      <4>1. disk[q] = "none" /\ q \in Paths /\ cache[q] = op[n].were[q]
        BY <3>1, <3>3 DEF FilesKept, DiskKept, MatchedByCache, TypesRemembered
      <4> QED
        BY <1>5, <4>1 DEF Learned
    <3>4. TypesRemembered(n)'
      BY <1>3, <1>4, <1>8, <3>2, <3>3 DEF TypesRemembered
    <3> QED
      BY <1>3, <1>4, <1>8, <3>1, <3>4 DEF MatchedByCache
  <2> QED
    BY <2>2, <2>3
<1> QED
  BY <1>1, <1>3, <1>5, <1>6, <1>7, <1>9, OneGoesOn

\* A file is looked at by the filter.
LEMMA OperationMatch ==
  ASSUME OperationInv, NEW n \in FO!Operations, NEW p \in Paths, FO!MatchOne(n, p)
  PROVE  OperationInv'
<1> DEFINE found == IF FO!Match(p) THEN op[n].matched \cup {p} ELSE op[n].matched
           looked == [op[n] EXCEPT !.matching = @ \ {p}, !.matched = found]
<1>1. /\ p \in op[n].matching /\ op' = [op EXCEPT ![n] = looked] /\ FO!Remember(p)
      /\ UNCHANGED <<kind, role, disk, registered, listener, willListener, running>>
  BY DEF FO!MatchOne
<1>2. op[n] \in Operation /\ kind \in {"create", "remove"} /\ role \in {"will", "did"}
  BY DEF OperationInv, OperationTypeOK
<1>3. found \subseteq Paths
  BY <1>2 DEF Operation
<1> HIDE DEF found
<1>4. /\ looked \in Operation /\ looked.stage = op[n].stage /\ looked.files = op[n].files
      /\ looked.caching = op[n].caching /\ looked.matching = op[n].matching \ {p}
      /\ looked.matched = found /\ looked.told = op[n].told
      /\ looked.sent = op[n].sent /\ looked.were = op[n].were /\ looked.trusted = op[n].trusted
      /\ looked.undisturbed = op[n].undisturbed
  BY <1>2, <1>3 DEF Operation
<1> HIDE DEF looked
<1>5. op'[n] = looked /\ \A m \in FO!Operations : m # n => op'[m] = op[m]
  BY <1>1, <1>4, OneOperation
<1>6. Learned
  BY <1>1, Remembered
<1>7. Apart'
  BY <1>4, <1>5, ApartKept
<1>8. FilesKept(n) /\ DiskKept(n) /\ p \in op[n].files /\ ~op[n].told
      /\ op[n].stage \in {"will", "did"}
  BY <1>1, <1>2 DEF OperationInv, FilesKept, Operation
<1>9. FilesKept(n)' /\ DiskKept(n)'
  BY <1>1, <1>4, <1>5, <1>8 DEF FilesKept, DiskKept
<1>10. /\ Asked(n)' = Asked(n) /\ Slash(n)' = Slash(n) /\ FO!Caches' = FO!Caches
       /\ \A q : FO!AsksType(q)' = FO!AsksType(q)
  BY <1>1, <1>4, <1>5, SameWanted DEF Asked, Slash, FO!Caches
<1>11. OperationKept(n)'
  <2> SUFFICES ASSUME op[n].undisturbed
               PROVE  MatchedExactly(n)' /\ (FO!Caches /\ op[n].trusted => MatchedByCache(n)')
    BY <1>4, <1>5, <1>10 DEF OperationKept
  <2>1. MatchedExactly(n) /\ (FO!Caches /\ op[n].trusted => MatchedByCache(n))
    BY DEF OperationInv, OperationKept
  <2>2. op[n].were[p] \in {"file", "folder"}
    BY <1>8 DEF FilesKept
  <2>3. ASSUME op[n].matched = Asked(n) \ op[n].matching, ~FO!Caches, disk[p] = op[n].were[p]
        PROVE  found = Asked(n) \ (op[n].matching \ {p})
    <3>1. FO!Match(p) <=> p \in Asked(n)
      BY <1>8, <2>2, <2>3, MatchIsWanted DEF Asked
    <3> QED
      BY <1>1, <2>3, <3>1 DEF found
  <2>4. ASSUME role = "will", kind = "remove" PROVE found = Asked(n) \ (op[n].matching \ {p})
    <3>1. op[n].stage = "will"
      BY <1>1, <1>8, <2>4 DEF FilesKept
    <3>2. disk[p] = op[n].were[p] /\ ~FO!Caches
      BY <1>8, <2>4, <3>1 DEF DiskKept, FO!Caches
    <3> QED
      BY <2>1, <2>3, <2>4, <3>1, <3>2 DEF MatchedExactly
  <2>5. ASSUME role = "did" PROVE op[n].stage = "did"
    BY <1>1, <1>8, <2>5 DEF FilesKept
  <2>6. ASSUME role = "did", kind = "create" PROVE found = Asked(n) \ (op[n].matching \ {p})
    <3>1. disk[p] = op[n].were[p] /\ ~FO!Caches
      BY <1>8, <2>5, <2>6 DEF DiskKept, FO!Caches
    <3> QED
      BY <2>1, <2>3, <2>5, <2>6, <3>1 DEF MatchedExactly
  <2>7. MatchedExactly(n)'
    BY <1>1, <1>4, <1>5, <1>8, <1>10, <2>4, <2>6 DEF MatchedExactly
  <2>8. ASSUME FO!Caches, op[n].trusted PROVE MatchedByCache(n)'
    <3>1. /\ MatchedByCache(n) /\ role = "did" /\ kind = "remove" /\ op[n].stage = "did"
      BY <2>1, <2>5, <2>8 DEF FO!Caches
    <3>2. disk[p] = "none" /\ (FO!AsksType(p) => cache[p] = op[n].were[p])
      BY <1>1, <1>8, <3>1 DEF DiskKept, MatchedByCache, TypesRemembered
    <3>3. /\ FO!Match(p) => p \in FO!Wanted(op[n].were)
          /\ p \in FO!Wanted(op[n].were) =>
                FO!Match(p) \/ \E f \in FO!InForce : f.form = "slash" /\ p \in f.paths
      BY <2>2, <2>8, <3>2, MatchByCache
    <3>4. (FO!Match(p) => p \in Asked(n)) /\ (p \in Asked(n) \ Slash(n) => FO!Match(p))
      BY <1>8, <3>3 DEF Asked, Slash
    <3>5. found \subseteq Asked(n) /\ (Asked(n) \ Slash(n)) \ (op[n].matching \ {p}) \subseteq found
      <4>1. /\ op[n].matched \subseteq Asked(n)
            /\ (Asked(n) \ Slash(n)) \ op[n].matching \subseteq op[n].matched
        BY <3>1 DEF MatchedByCache
      <4> QED
        BY <3>4, <4>1 DEF found
    <3>6. ASSUME NEW q \in op[n].matching, FO!AsksType(q) PROVE cache'[q] = op[n].were[q]
      <4>1. disk[q] = "none" /\ q \in Paths /\ cache[q] = op[n].were[q]
        BY <1>2, <1>8, <3>1, <3>6
           DEF FilesKept, DiskKept, MatchedByCache, TypesRemembered, Operation
      <4> QED
        BY <1>6, <4>1 DEF Learned
    <3>7. TypesRemembered(n)'
      BY <1>4, <1>5, <1>10, <3>1, <3>6 DEF TypesRemembered
    <3> QED
      BY <1>4, <1>5, <1>8, <1>10, <3>5, <3>7 DEF MatchedByCache
  <2> QED
    BY <2>7, <2>8
<1> QED
  BY <1>1, <1>4, <1>6, <1>7, <1>9, <1>11, OneGoesOn

\* What the server is told, when no filter is in force, is as good as nothing.
LEMMA NothingAsked ==
  ASSUME OperationInv, NEW n, ~running
  PROVE  Asked(n) = {}
<1>1. FO!InForce = {}
  BY DEF OperationInv, FO!ListensWhileNeeded
<1> QED
  BY <1>1, NothingWanted DEF Asked

\* The server is asked.
LEMMA OperationAsk ==
  ASSUME OperationInv, NEW n \in FO!Operations, FO!Ask(n)
  PROVE  OperationInv'
<1> DEFINE sent == IF running THEN op[n].matched ELSE {}
           asked == [op[n] EXCEPT !.told = TRUE, !.sent = sent]
<1>1. /\ role = "will" /\ op[n].stage \in {"will", "did"} /\ op[n].matching = {}
      /\ op' = [op EXCEPT ![n] = asked]
      /\ UNCHANGED <<kind, role, disk, registered, listener, willListener, cache, running>>
  BY DEF FO!Ask
<1>2. op[n] \in Operation /\ cache \in [Paths -> PathType]
  BY DEF OperationInv, OperationTypeOK
<1>3. sent \subseteq Paths
  BY <1>2 DEF Operation
<1>4. ASSUME op[n].undisturbed, kind = "remove" PROVE sent = Asked(n) /\ op[n].matched = Asked(n)
  <2>1. op[n].matched = Asked(n)
    BY <1>1, <1>4 DEF OperationInv, OperationKept, MatchedExactly
  <2> QED
    BY <2>1, NothingAsked
<1> HIDE DEF sent
<1>5. /\ asked \in Operation /\ asked.stage = op[n].stage /\ asked.files = op[n].files
      /\ asked.caching = op[n].caching /\ asked.matching = op[n].matching
      /\ asked.matched = op[n].matched /\ asked.told = TRUE /\ asked.sent = sent
      /\ asked.were = op[n].were /\ asked.undisturbed = op[n].undisturbed
  BY <1>2, <1>3 DEF Operation
<1> HIDE DEF asked
<1>6. op'[n] = asked /\ \A m \in FO!Operations : m # n => op'[m] = op[m]
  BY <1>1, <1>5, OneOperation
<1>7. Apart'
  BY <1>5, <1>6, ApartKept
<1>8. Learned
  BY <1>1, <1>2 DEF Learned
<1>9. FilesKept(n)' /\ DiskKept(n)'
  BY <1>1, <1>5, <1>6 DEF OperationInv, FilesKept, DiskKept
<1>10. Asked(n)' = Asked(n) /\ ~FO!Caches'
  BY <1>1, <1>5, <1>6, SameWanted DEF Asked, FO!Caches
<1>11. OperationKept(n)'
  <2>1. kind \in {"create", "remove"}
    BY DEF OperationInv, OperationTypeOK
  <2>2. ASSUME op[n].undisturbed PROVE MatchedExactly(n)'
    BY <1>1, <1>4, <1>5, <1>6, <1>10, <2>1, <2>2 DEF MatchedExactly
  <2> QED
    BY <1>5, <1>6, <1>10, <2>2 DEF OperationKept
<1> QED
  BY <1>1, <1>5, <1>7, <1>8, <1>9, <1>11, OneGoesOn

\* The operation is over for the feature.
LEMMA OperationEnd ==
  ASSUME OperationInv, NEW n \in FO!Operations, FO!End(n)
  PROVE  OperationInv'
<1> DEFINE over == [FO!Idle EXCEPT !.stage = "over", !.caching = op[n].caching]
<1>1. /\ op' = [op EXCEPT ![n] = over]
      /\ UNCHANGED <<kind, role, disk, registered, listener, willListener, cache, running>>
  BY DEF FO!End
<1>2. op[n] \in Operation /\ cache \in [Paths -> PathType]
  BY DEF OperationInv, OperationTypeOK
<1>3. /\ over \in Operation /\ over.stage = "over" /\ over.files = {} /\ over.matching = {}
      /\ over.told = FALSE /\ over.undisturbed = FALSE
  BY <1>2 DEF Operation, FO!Idle, PathType
<1> HIDE DEF over
<1>4. op'[n] = over /\ \A m \in FO!Operations : m # n => op'[m] = op[m]
  BY <1>1, <1>3, OneOperation
<1>5. Apart'
  BY <1>3, <1>4, ApartKept
<1>6. Learned
  BY <1>1, <1>2 DEF Learned
<1>7. FilesKept(n)' /\ DiskKept(n)' /\ OperationKept(n)'
  BY <1>3, <1>4 DEF FilesKept, DiskKept, OperationKept
<1> QED
  BY <1>1, <1>3, <1>5, <1>6, <1>7, OneGoesOn

\* The editor carries the operation out.
LEMMA OperationCarry ==
  ASSUME OperationInv, NEW n \in FO!Operations, FO!Carry(n)
  PROVE  OperationInv'
<1> DEFINE matching == IF role = "will" THEN op[n].matching
                       ELSE IF listener THEN op[n].files ELSE {}
           waited == op[n].undisturbed /\ op[n].caching = {} /\ op[n].matching = {}
           carried == [op[n] EXCEPT !.stage = "did", !.matching = matching,
                                    !.undisturbed = waited]
<1>1. /\ op[n].stage = "will" /\ op' = [op EXCEPT ![n] = carried]
      /\ disk' = [p \in Paths |-> IF p \notin op[n].files THEN disk[p]
                                  ELSE IF kind = "create" THEN op[n].were[p] ELSE "none"]
      /\ UNCHANGED <<kind, role, registered, listener, willListener, cache, running>>
  BY DEF FO!Carry
<1>2. /\ op[n] \in Operation /\ kind \in {"create", "remove"} /\ role \in {"will", "did"}
      /\ cache \in [Paths -> PathType] /\ disk \in [Paths -> PathType]
      /\ FilesKept(n) /\ DiskKept(n)
  BY DEF OperationInv, OperationTypeOK
<1>3. matching \subseteq op[n].files /\ op[n].files \subseteq Paths
  BY <1>2 DEF FilesKept, Operation
<1>4. waited \in BOOLEAN
      /\ (waited => op[n].undisturbed /\ op[n].caching = {} /\ op[n].matching = {})
  BY <1>2 DEF Operation
<1>5. ASSUME role = "will" PROVE matching = op[n].matching
  BY <1>5
<1>6. ASSUME role = "did" PROVE matching = IF listener THEN op[n].files ELSE {}
  BY <1>6
<1> HIDE DEF matching, waited
<1>7. /\ carried \in Operation /\ carried.stage = "did" /\ carried.files = op[n].files
      /\ carried.caching = op[n].caching /\ carried.matching = matching
      /\ carried.matched = op[n].matched /\ carried.told = op[n].told
      /\ carried.sent = op[n].sent /\ carried.were = op[n].were
      /\ carried.trusted = op[n].trusted /\ carried.undisturbed = waited
  BY <1>2, <1>3, <1>4 DEF Operation
<1> HIDE DEF carried
<1>8. /\ op' \in [FO!Operations -> Operation] /\ op'[n] = carried
      /\ \A m \in FO!Operations : m # n => Aside(m) /\ op'[m] = op[m]
  BY <1>1, <1>7, OneOperation
<1>9. Apart'
  BY <1>1, <1>7, <1>8, ApartKept
<1>10. OperationTypeOK'
  <2>1. disk' \in [Paths -> PathType]
    BY <1>1, <1>2 DEF Operation, PathType
  <2> QED
    BY <1>1, <1>8, <2>1 DEF OperationInv, OperationTypeOK
<1>11. FilesKept(n)'
  <2>1. role = "did" => ~op[n].told
    BY <1>1, <1>2 DEF FilesKept
  <2> QED
    BY <1>1, <1>2, <1>3, <1>4, <1>5, <1>7, <1>8, <2>1 DEF FilesKept
<1>12. DiskKept(n)'
  BY <1>1, <1>3, <1>7, <1>8 DEF DiskKept
<1>13. /\ Asked(n)' = Asked(n) /\ Slash(n)' = Slash(n) /\ FO!Caches' = FO!Caches
       /\ \A q : FO!AsksType(q)' = FO!AsksType(q)
  BY <1>1, <1>7, <1>8, SameWanted DEF Asked, Slash, FO!Caches
<1>14. OperationKept(n)'
  <2> SUFFICES ASSUME waited
               PROVE  MatchedExactly(n)' /\ (FO!Caches /\ op[n].trusted => MatchedByCache(n)')
    BY <1>7, <1>8, <1>13 DEF OperationKept
  <2>1. MatchedExactly(n) /\ (FO!Caches /\ op[n].trusted => MatchedByCache(n))
    BY <1>4 DEF OperationInv, OperationKept
  <2>2. ASSUME ~listener PROVE Asked(n) = {}
    <3>1. FO!InForce = {}
      BY <2>2 DEF OperationInv, FO!ListensWhileNeeded
    <3> QED
      BY <3>1, NothingWanted DEF Asked
  <2>3. ASSUME role = "did" PROVE op[n].matched = {} /\ ~op[n].told /\ Asked(n) \ matching = {}
    BY <1>1, <1>2, <1>6, <2>2, <2>3 DEF FilesKept, Asked
  <2>4. MatchedExactly(n)'
    <3>1. CASE role = "will"
      BY <1>1, <1>5, <1>7, <1>8, <1>13, <2>1, <3>1 DEF MatchedExactly
    <3>2. CASE role = "did"
      BY <1>1, <1>7, <1>8, <1>13, <2>3, <3>2 DEF MatchedExactly
    <3> QED
      BY <1>2, <3>1, <3>2
  <2>5. ASSUME FO!Caches, op[n].trusted PROVE MatchedByCache(n)'
    <3>1. role = "did" /\ kind = "remove" /\ TypesRemembered(n)
      BY <2>1, <2>5 DEF FO!Caches, MatchedByCache
    <3>2. ASSUME NEW q \in matching, FO!AsksType(q) PROVE cache[q] = op[n].were[q]
      BY <1>1, <1>3, <1>4, <3>1, <3>2 DEF TypesRemembered
    <3>3. TypesRemembered(n)'
      BY <1>1, <1>7, <1>8, <1>13, <3>2 DEF TypesRemembered
    <3> QED
      BY <1>7, <1>8, <1>13, <2>3, <3>1, <3>3 DEF MatchedByCache
  <2> QED
    BY <2>4, <2>5
<1>15. ASSUME NEW m \in FO!Operations, m # n
       PROVE  FilesKept(m)' /\ DiskKept(m)' /\ OperationKept(m)'
  <2>1. Aside(m) /\ DiskKept(m) /\ FilesKept(m) /\ op[m] \in Operation
    BY <1>8, <1>15 DEF OperationInv, OperationTypeOK
  <2>2. op[m].files \subseteq Paths /\ op[m].matching \subseteq op[m].files
    BY <2>1 DEF Operation, FilesKept
  <2>3. ASSUME op[m].stage = "will", NEW p \in op[m].files PROVE disk'[p] = disk[p]
    <3>1. p \notin op[n].files
      BY <1>1, <1>15, <2>3 DEF OperationInv, Apart
    <3> QED
      BY <1>1, <2>2, <3>1
  <2>4. ASSUME op[m].stage = "did", kind = "create", NEW p \in op[m].files
        PROVE  disk'[p] = disk[p]
    <3>1. disk[p] = op[m].were[p] /\ op[m].were[p] # "none"
      BY <2>1, <2>4 DEF DiskKept, FilesKept
    <3>2. p \notin op[n].files
      BY <1>1, <1>2, <2>4, <3>1 DEF DiskKept
    <3> QED
      BY <1>1, <2>2, <3>2
  <2>5. ASSUME op[m].stage = "did", kind = "remove", op'[m].undisturbed, NEW p \in op[m].matching
        PROVE  disk'[p] = disk[p]
    <3>1. disk[p] = "none"
      BY <2>1, <2>5 DEF Aside, DiskKept
    <3> QED
      BY <1>1, <2>2, <2>5, <3>1
  <2>6. DiskKept(m)'
    BY <2>1, <2>3, <2>4, <2>5, DiskAside
  <2> QED
    BY <1>1, <2>1, <2>6, FilesAside, KeptAside
<1>16. FO!ListensWhileNeeded'
  BY <1>1, ListensKept
<1> QED
  BY <1>9, <1>10, <1>11, <1>12, <1>14, <1>15, <1>16 DEF OperationInv

\* The server is notified, and the cache is cleared: those are disturbed that
\* still need it.
LEMMA OperationSend ==
  ASSUME OperationInv, NEW n \in FO!Operations, FO!Send(n)
  PROVE  OperationInv'
<1> DEFINE clears == FO!Caches /\ op[n].matched # {}
           others == {m \in FO!Operations \ {n} : clears /\ FO!Looking(m)}
           sent == IF running THEN op[n].matched ELSE {}
           noted == [op[n] EXCEPT !.told = TRUE, !.sent = sent]
<1>1. /\ role = "did" /\ op[n].stage = "did" /\ op[n].matching = {}
      /\ op' = [FO!Disturb(others) EXCEPT ![n].told = TRUE, ![n].sent = sent]
      /\ cache' = IF clears THEN [p \in Paths |-> "none"] ELSE cache
      /\ UNCHANGED <<kind, role, disk, registered, listener, willListener, running>>
  BY DEF FO!Send, FO!ClearCache
<1>2. /\ op[n] \in Operation /\ cache \in [Paths -> PathType] /\ kind \in {"create", "remove"}
      /\ FilesKept(n) /\ DiskKept(n)
  BY DEF OperationInv, OperationTypeOK
<1>3. sent \subseteq Paths
  BY <1>2 DEF Operation
<1>4. ASSUME NEW m \in FO!Operations, m # n
      PROVE  /\ op'[m] \in Operation /\ Aside(m)
             /\ op'[m].undisturbed => ~(clears /\ FO!Looking(m))
  <2>1. op'[m] = FO!Disturb(others)[m]
    BY <1>1, <1>4 DEF FO!Disturb
  <2>2. op'[m] \in Operation /\ Aside(m) /\ (op'[m].undisturbed => m \notin others)
    BY <1>1, <2>1, Disturbed
  <2> QED
    BY <1>4, <2>2
<1>5. op'[n] = noted
  <2>1. FO!Disturb(others)[n] = [op[n] EXCEPT !.undisturbed = op[n].undisturbed /\ n \notin others]
    BY DEF FO!Disturb
  <2>2. n \notin others /\ op[n].undisturbed \in BOOLEAN
    BY <1>2 DEF Operation
  <2>3. FO!Disturb(others)[n] = op[n]
    BY <1>2, <2>1, <2>2 DEF Operation
  <2> HIDE DEF others, sent
  <2> DEFINE table == FO!Disturb(others)
  <2>4. table \in [FO!Operations -> Operation]
    <3>1. ASSUME NEW m \in FO!Operations PROVE table[m] \in Operation
      <4>1. op[m] \in Operation
        BY DEF OperationInv, OperationTypeOK
      <4>2. table[m] = [op[m] EXCEPT !.undisturbed = op[m].undisturbed /\ m \notin others]
        BY DEF FO!Disturb
      <4>3. (op[m].undisturbed /\ m \notin others) \in BOOLEAN
        BY <4>1 DEF Operation
      <4> QED
        BY <4>1, <4>2, <4>3 DEF Operation
    <3>2. table = [m \in FO!Operations |-> table[m]]
      BY DEF FO!Disturb
    <3> HIDE DEF table
    <3> QED
      BY <3>1, <3>2
  <2>5. op' = [table EXCEPT ![n].told = TRUE, ![n].sent = sent] /\ table[n] = op[n]
    BY <1>1, <2>3
  <2> HIDE DEF table
  <2> QED
    BY <2>4, <2>5
<1> HIDE DEF sent
<1>6. /\ noted \in Operation /\ noted.stage = op[n].stage /\ noted.files = op[n].files
      /\ noted.caching = op[n].caching /\ noted.matching = op[n].matching
      /\ noted.matched = op[n].matched /\ noted.told = TRUE /\ noted.sent = sent
      /\ noted.were = op[n].were /\ noted.trusted = op[n].trusted
      /\ noted.undisturbed = op[n].undisturbed
  BY <1>2, <1>3 DEF Operation
<1> HIDE DEF noted, others, clears
<1>7. op' \in [FO!Operations -> Operation]
  <2>1. \A m \in FO!Operations : op'[m] \in Operation
    BY <1>4, <1>5, <1>6
  <2>2. op' = [m \in FO!Operations |-> op'[m]]
    BY <1>1 DEF FO!Disturb
  <2> QED
    BY <2>1, <2>2
<1>8. cache' \in [Paths -> PathType]
  BY <1>1, <1>2 DEF PathType
<1>9. OperationTypeOK'
  BY <1>1, <1>7, <1>8 DEF OperationInv, OperationTypeOK
<1>10. Apart'
  <2>1. ASSUME NEW m \in FO!Operations, op'[m].stage = "will"
        PROVE  op[m].stage = "will" /\ op'[m].files = op[m].files
    BY <1>4, <1>5, <1>6, <2>1, SameOperation
  <2> QED
    BY <2>1, ApartKept
<1>11. ASSUME NEW m \in FO!Operations, m # n
       PROVE  FilesKept(m)' /\ DiskKept(m)' /\ OperationKept(m)'
  <2>1. Aside(m)
    BY <1>4, <1>11
  <2>2. ASSUME op'[m].undisturbed, FO!Looking(m) PROVE cache' = cache
    BY <1>1, <1>4, <1>11, <2>2
  <2>3. FilesKept(m)' /\ DiskKept(m)'
    BY <1>1, <2>1, FilesAside, DiskAside
  <2>4. OperationKept(m)'
    BY <1>1, <2>1, <2>2, KeptAside
  <2> QED
    BY <2>3, <2>4
<1>12. FilesKept(n)' /\ DiskKept(n)'
  <2>1. FilesKept(n)'
    BY <1>1, <1>2, <1>5, <1>6 DEF FilesKept
  <2>2. DiskKept(n)'
    <3>1. /\ op'[n].stage = "did" /\ op'[n].matching = {}
          /\ op'[n].files = op[n].files /\ op'[n].were = op[n].were
          /\ disk' = disk /\ kind' = kind
      BY <1>1, <1>5, <1>6
    <3>2. kind = "create" => \A p \in op[n].files : disk[p] = op[n].were[p]
      BY <1>1, <1>2 DEF DiskKept
    <3> QED
      BY <3>1, <3>2 DEF DiskKept
  <2> QED
    BY <2>1, <2>2
<1>13. Asked(n)' = Asked(n) /\ Slash(n)' = Slash(n) /\ FO!Caches' = FO!Caches
  BY <1>1, <1>5, <1>6, SameWanted DEF Asked, Slash, FO!Caches
<1>14. OperationKept(n)'
  <2> SUFFICES ASSUME op[n].undisturbed
               PROVE  MatchedExactly(n)' /\ (FO!Caches /\ op[n].trusted => MatchedByCache(n)')
    BY <1>5, <1>6, <1>13 DEF OperationKept
  <2>1. MatchedExactly(n) /\ (FO!Caches /\ op[n].trusted => MatchedByCache(n))
    BY DEF OperationInv, OperationKept
  <2>2. sent = op[n].matched \/ (sent = {} /\ Asked(n) = {})
    BY NothingAsked DEF sent
  <2>3. MatchedExactly(n)'
    <3>1. ASSUME kind = "create" PROVE op[n].matched = Asked(n)
      BY <1>1, <2>1, <3>1 DEF MatchedExactly
    <3> QED
      BY <1>1, <1>2, <1>5, <1>6, <1>13, <2>2, <3>1 DEF MatchedExactly
  <2>4. ASSUME FO!Caches, op[n].trusted PROVE MatchedByCache(n)'
    <3>1. op[n].matched \subseteq Asked(n) /\ Asked(n) \ Slash(n) \subseteq op[n].matched
      BY <1>1, <2>1, <2>4 DEF MatchedByCache
    <3>2. TypesRemembered(n)'
      BY <1>1, <1>5, <1>6 DEF TypesRemembered
    <3> QED
      BY <1>1, <1>5, <1>6, <1>13, <2>2, <3>1, <3>2 DEF MatchedByCache
  <2> QED
    BY <2>3, <2>4
<1>15. FO!ListensWhileNeeded'
  BY <1>1, ListensKept
<1> QED
  BY <1>9, <1>10, <1>11, <1>12, <1>14, <1>15 DEF OperationInv

-----------------------------------------------------------------------------
(* File operations: the invariant.                                          *)

\* The client starts again: nothing is registered yet.
LEMMA OperationStart ==
  ASSUME OperationInv, FO!Start
  PROVE  OperationInv'
<1>1. /\ running' = TRUE
      /\ UNCHANGED <<kind, role, disk, registered, listener, willListener, cache, op>>
  BY DEF FO!Start
<1>2. OperationTypeOK' /\ Apart'
  BY <1>1 DEF OperationInv, OperationTypeOK, Apart
<1>3. FO!ListensWhileNeeded'
  BY <1>1 DEF OperationInv, FO!ListensWhileNeeded, FO!InForce, FO!Caches
<1>4. ASSUME NEW n \in FO!Operations PROVE FilesKept(n)' /\ DiskKept(n)' /\ OperationKept(n)'
  <2>1. op[n] \in Operation
    BY DEF OperationInv, OperationTypeOK
  <2>2. Aside(n)
    BY <1>1, <2>1 DEF Aside, Operation
  <2> QED
    BY <1>1, <2>2, FilesAside, DiskAside, KeptAside
<1> QED
  BY <1>2, <1>3, <1>4 DEF OperationInv

\* Something appears where nothing is.
LEMMA OperationAppear ==
  ASSUME OperationInv, NEW p \in Paths, NEW type \in FO!Kinds, FO!Appear(p, type)
  PROVE  OperationInv'
<1> DEFINE looking == {n \in FO!Operations : p \in op[n].matching}
<1>1. /\ disk[p] = "none" /\ kind # "create" /\ disk' = [disk EXCEPT ![p] = type]
      /\ op' = FO!Disturb(looking)
      /\ UNCHANGED <<kind, role, registered, listener, willListener, cache, running>>
  BY DEF FO!Appear
<1>2. disk \in [Paths -> PathType] /\ disk' \in [Paths -> PathType] /\ kind = "remove"
  BY <1>1 DEF OperationInv, OperationTypeOK, PathType, FO!Kinds
<1>3. ASSUME NEW n \in FO!Operations
      PROVE  /\ op'[n] \in Operation /\ Aside(n)
             /\ op'[n].undisturbed => op[n].undisturbed /\ p \notin op[n].matching
  <2>1. op'[n] \in Operation /\ Aside(n)
        /\ (op'[n].undisturbed => op[n].undisturbed /\ n \notin looking)
    BY <1>1, Disturbed
  <2> QED
    BY <2>1
<1>4. op' \in [FO!Operations -> Operation]
  <2>1. op' = [n \in FO!Operations |-> op'[n]]
    BY <1>1 DEF FO!Disturb
  <2> QED
    BY <1>3, <2>1
<1> HIDE DEF looking
<1>5. OperationTypeOK'
  BY <1>1, <1>2, <1>4 DEF OperationInv, OperationTypeOK
<1>6. Apart'
  BY <1>3, SameOperation, ApartKept
<1>7. ASSUME NEW n \in FO!Operations PROVE FilesKept(n)' /\ DiskKept(n)' /\ OperationKept(n)'
  <2>1. Aside(n) /\ FilesKept(n) /\ DiskKept(n)
    BY <1>3 DEF OperationInv
  <2>2. ASSUME op[n].stage = "will", NEW q \in op[n].files PROVE disk'[q] = disk[q]
    <3>1. disk[q] # "none"
      BY <1>2, <2>1, <2>2 DEF FilesKept, DiskKept
    <3> QED
      BY <1>1, <1>2, <3>1
  <2>3. ASSUME op'[n].undisturbed, NEW q \in op[n].matching PROVE disk'[q] = disk[q]
    BY <1>1, <1>2, <1>3, <2>3
  <2>4. DiskKept(n)'
    BY <1>2, <2>1, <2>2, <2>3, DiskAside
  <2> QED
    BY <1>1, <2>1, <2>4, FilesAside, KeptAside
<1>8. FO!ListensWhileNeeded'
  BY <1>1, ListensKept
<1> QED
  BY <1>5, <1>6, <1>7, <1>8 DEF OperationInv

\* The invariant holds at first.
LEMMA OperationInit == FO!Init => OperationInv
<1> SUFFICES ASSUME FO!Init PROVE OperationInv
  OBVIOUS
<1>1. /\ FO!Idle \in Operation /\ FO!Idle.stage = "idle" /\ FO!Idle.files = {}
      /\ FO!Idle.matching = {} /\ FO!Idle.told = FALSE /\ FO!Idle.undisturbed = FALSE
  BY DEF FO!Idle, Operation, PathType
<1>2. op \in [FO!Operations -> Operation] /\ \A n \in FO!Operations : op[n] = FO!Idle
  BY <1>1 DEF FO!Init
<1>3. disk \in [Paths -> PathType] /\ cache \in [Paths -> PathType]
  BY DEF FO!Init, FO!Kinds, PathType
<1>4. registered \in [RegistrationIds -> Filters \cup {{}}] /\ FO!InForce = {}
  BY DEF FO!Init, FO!InForce
<1>5. OperationTypeOK
  BY <1>2, <1>3, <1>4 DEF FO!Init, OperationTypeOK
<1>6. FO!ListensWhileNeeded /\ Apart
  BY <1>1, <1>2, <1>4 DEF FO!Init, FO!ListensWhileNeeded, Apart
<1>7. ASSUME NEW n \in FO!Operations PROVE FilesKept(n) /\ DiskKept(n) /\ OperationKept(n)
  BY <1>1, <1>2 DEF FilesKept, DiskKept, OperationKept
<1> QED
  BY <1>5, <1>6, <1>7 DEF OperationInv

\* The invariant is kept.
LEMMA OperationStep == OperationInv /\ [FO!Next]_(FO!vars) => OperationInv'
<1> SUFFICES ASSUME OperationInv, [FO!Next]_(FO!vars) PROVE OperationInv'
  OBVIOUS
<1>1. CASE FO!Surroundings
  BY <1>1, ListensRegister, ListensUnregister, ListensClear, OperationStart, OperationAppear
     DEF FO!Surroundings
<1>2. ASSUME NEW n \in FO!Operations, FO!Operating(n) PROVE OperationInv'
  BY <1>2, OperationBegin, OperationCache, OperationMatch, OperationAsk, OperationCarry,
     OperationSend, OperationEnd DEF FO!Operating
<1>3. CASE UNCHANGED FO!vars
  <2>1. UNCHANGED <<kind, role, disk, registered, listener, willListener, cache, running, op>>
    BY <1>3 DEF FO!vars
  <2>2. OperationTypeOK' /\ Apart' /\ FO!ListensWhileNeeded'
    BY <2>1, ListensKept DEF OperationInv, OperationTypeOK, Apart
  <2>3. ASSUME NEW n \in FO!Operations PROVE FilesKept(n)' /\ DiskKept(n)' /\ OperationKept(n)'
    <3>1. op[n] \in Operation
      BY DEF OperationInv, OperationTypeOK
    <3>2. Aside(n)
      BY <2>1, <3>1 DEF Aside, Operation
    <3> QED
      BY <2>1, <3>2, FilesAside, DiskAside, KeptAside
  <2> QED
    BY <2>2, <2>3 DEF OperationInv
<1> QED
  BY <1>1, <1>2, <1>3 DEF FO!Next

\* The invariant gives what the server is told.
LEMMA OperationHolds ==
  ASSUME OperationInv
  PROVE  FO!ToldWithoutSlash /\ FO!ListensWhileNeeded
<1>1. ASSUME NEW n \in FO!Operations, FO!Told(n)
      PROVE  MatchedExactly(n) /\ (FO!Caches /\ op[n].trusted => MatchedByCache(n))
  BY <1>1 DEF OperationInv, OperationKept, FO!Told
<1>2. ASSUME NEW n \in FO!Operations, FO!Told(n), (role = "did") = (kind = "create")
      PROVE  op[n].sent = Asked(n)
  BY <1>1, <1>2 DEF MatchedExactly, FO!Told
<1>3. ASSUME NEW n \in FO!Operations, FO!Told(n), FO!Caches, op[n].trusted
      PROVE  op[n].sent \subseteq Asked(n) /\ Asked(n) \ Slash(n) \subseteq op[n].sent
  BY <1>1, <1>3 DEF MatchedByCache, FO!Told
<1>4. FO!ToldWithoutSlash
  BY <1>2, <1>3 DEF FO!ToldWithoutSlash, Asked, Slash
<1> QED
  BY <1>4 DEF OperationInv

-----------------------------------------------------------------------------
(* Workspace change: the invariant.                                         *)

Change == [of : {"edits", "create", "rename", "delete"}, uri : Documents, ids : SUBSET WC!Ids]

ChangeTypeOK ==
    /\ form \in {"undecided", "changes", "documentChanges"}
    /\ entries \in Seq(Change)
    /\ editsOf \in [Documents -> Nat]
    /\ defined \in [WC!Ids -> Annotations \cup {None}]
    /\ promised \in [WC!Ids -> Annotations \cup {None}]
    /\ counter \in Nat /\ size \in Nat /\ built \in Nat
    /\ counter <= built
    /\ begun \subseteq WC!Ids

\* Entries name what is defined.
NamesDefined == \A k \in DOMAIN entries : \A id \in entries[k].ids : defined[id] # None

\* What is defined was so at first or is as promised, and promises are counted.
PromisesKept ==
    /\ \A id \in WC!Ids : promised[id] # None => defined[id] = promised[id] /\ size > 0
    /\ \A id \in WC!Ids : defined[id] # None => id \in begun \/ promised[id] # None
    /\ \A id \in begun : defined[id] # None

\* What was read is still so.
ReadFits == read.fresh => read.annotations = IF size = 0 THEN WC!Nothing ELSE defined

\* The list of a document is where it was put, and there is no other.
ListsFound ==
    /\ \A d \in Documents : editsOf[d] <= Len(entries)
    /\ \A k \in DOMAIN entries : entries[k].of = "edits" => editsOf[entries[k].uri] = k

ChangeInv == ChangeTypeOK /\ NamesDefined /\ PromisesKept /\ ReadFits /\ ListsFound

-----------------------------------------------------------------------------
(* Workspace change: the steps.                                             *)

\* An entry that names other annotations.
Naming(e, names) == [e EXCEPT !.ids = names]

\* The parts of an entry.
LEMMA ChangeParts ==
  ASSUME NEW e \in Change
  PROVE  /\ e.of \in {"edits", "create", "rename", "delete"}
         /\ e.uri \in Documents /\ e.ids \subseteq WC!Ids
         /\ \A new \in SUBSET WC!Ids :
               /\ Naming(e, new) \in Change
               /\ Naming(e, new).of = e.of
               /\ Naming(e, new).uri = e.uri
               /\ Naming(e, new).ids = new
  BY DEF Change, Naming

\* The parts of the entries there are.
LEMMA ChangeEntries ==
  ASSUME ChangeInv
  PROVE  /\ entries \in Seq(Change) /\ Len(entries) \in Nat /\ DOMAIN entries = 1..Len(entries)
         /\ \A k \in DOMAIN entries :
               /\ entries[k] \in Change
               /\ entries[k].uri \in Documents /\ entries[k].ids \subseteq WC!Ids
<1>1. entries \in Seq(Change)
  BY DEF ChangeInv, ChangeTypeOK
<1>2. /\ Len(entries) \in Nat /\ DOMAIN entries = 1..Len(entries)
      /\ \A k \in DOMAIN entries : entries[k] \in Change
  BY <1>1
<1> QED
  BY <1>1, <1>2, ChangeParts

\* A change is begun over nothing or over one entry.
LEMMA ChangeInit == WC!Init => ChangeInv
<1> SUFFICES ASSUME WC!Init PROVE ChangeInv
  OBVIOUS
<1>1. 1 \in WC!Ids /\ None \notin Annotations
  BY ServicesAssumption DEF WC!Ids
<1>2. /\ counter = 0 /\ size = 0 /\ built = 0 /\ promised = WC!Nothing /\ read.fresh = FALSE
      /\ begun = {id \in WC!Ids : defined[id] # None}
  BY DEF WC!Init
<1>3. WC!Nothing \in [WC!Ids -> Annotations \cup {None}] /\ \A id \in WC!Ids : WC!Nothing[id] = None
  BY DEF WC!Nothing
<1>4. CASE /\ form = "undecided"
           /\ entries = <<>> /\ editsOf = [d \in Documents |-> 0]
           /\ defined = WC!Nothing
  <2>1. DOMAIN entries = {} /\ Len(entries) = 0 /\ entries \in Seq(Change)
    BY <1>4
  <2>2. ChangeTypeOK
    BY <1>2, <1>3, <1>4, <2>1 DEF ChangeTypeOK
  <2>3. PromisesKept
    BY <1>2, <1>3, <1>4 DEF PromisesKept
  <2> QED
    BY <1>2, <1>4, <2>1, <2>2, <2>3 DEF ChangeInv, NamesDefined, ReadFits, ListsFound
<1>5. ASSUME NEW d \in Documents, NEW a \in Annotations \cup {None},
             form \in {"changes", "documentChanges"},
             entries = <<WC!Entry("edits", d, IF a = None THEN {} ELSE {1})>>,
             editsOf = [e \in Documents |-> IF e = d THEN 1 ELSE 0],
             defined = [WC!Nothing EXCEPT ![1] = a]
      PROVE  ChangeInv
  <2> DEFINE e == WC!Entry("edits", d, IF a = None THEN {} ELSE {1})
  <2>1. e \in Change /\ e.of = "edits" /\ e.uri = d /\ e.ids = (IF a = None THEN {} ELSE {1})
    BY <1>1 DEF WC!Entry, Change
  <2> HIDE DEF e
  <2>2. entries = <<e>>
    BY <1>5 DEF e
  <2>3. DOMAIN entries = {1} /\ Len(entries) = 1 /\ entries[1] = e /\ entries \in Seq(Change)
    BY <2>1, <2>2
  <2>4. /\ defined \in [WC!Ids -> Annotations \cup {None}]
        /\ defined[1] = a /\ \A id \in WC!Ids : id # 1 => defined[id] = None
    BY <1>1, <1>3, <1>5
  <2>5. ChangeTypeOK
    BY <1>2, <1>3, <1>5, <2>3, <2>4 DEF ChangeTypeOK
  <2>6. NamesDefined
    BY <2>1, <2>3, <2>4 DEF NamesDefined
  <2>7. PromisesKept
    BY <1>2, <1>3 DEF PromisesKept
  <2>8. ListsFound
    BY <1>5, <2>1, <2>3 DEF ListsFound
  <2> QED
    BY <1>2, <2>5, <2>6, <2>7, <2>8 DEF ChangeInv, ReadFits
<1> QED
  BY <1>4, <1>5 DEF WC!Init

\* A call counts, and what was read before is old.
LEMMA ChangeCalled ==
  ASSUME ChangeInv, WC!Called
  PROVE  /\ built' \in Nat /\ built' = built + 1 /\ counter + 1 \in WC!Ids
         /\ begun' = begun /\ read'.fresh = FALSE
         /\ ReadFits'
<1>1. built < MaxCalls /\ built' = built + 1 /\ begun' = begun /\ read'.fresh = FALSE
  BY DEF WC!Called
<1>2. built \in Nat /\ counter \in Nat /\ counter <= built /\ MaxCalls \in Nat
  BY ServicesAssumption DEF ChangeInv, ChangeTypeOK
<1> QED
  BY <1>1, <1>2 DEF ReadFits, WC!Ids

\* What a call does to the annotations: what it names is defined after it, and
\* nothing that was defined changes.
Annotates(names) ==
    /\ names \subseteq WC!Ids
    /\ \A id \in names : defined'[id] # None
    /\ \A id \in WC!Ids : defined[id] # None => defined'[id] = defined[id]
    /\ defined' \in [WC!Ids -> Annotations \cup {None}]
    /\ promised' \in [WC!Ids -> Annotations \cup {None}]
    /\ counter' \in Nat /\ size' \in Nat /\ counter' <= counter + 1
    /\ PromisesKept'


\* An annotation left alone, managed or named.
LEMMA ChangeAnnotated ==
  ASSUME ChangeInv, WC!Called, NEW names, NEW put \in BOOLEAN, WC!Annotated(names, put)
  PROVE  /\ put => Annotates(names)
         /\ ~put => Annotates({})
<1>1. /\ counter + 1 \in WC!Ids /\ begun' = begun /\ None \notin Annotations
      /\ counter \in Nat /\ size \in Nat
      /\ defined \in [WC!Ids -> Annotations \cup {None}]
      /\ promised \in [WC!Ids -> Annotations \cup {None}]
  BY ChangeCalled, ServicesAssumption DEF ChangeInv, ChangeTypeOK
<1>2. /\ \A id \in WC!Ids : promised[id] # None => defined[id] = promised[id] /\ size > 0
      /\ \A id \in WC!Ids : defined[id] # None => id \in begun \/ promised[id] # None
      /\ \A id \in begun : defined[id] # None
      /\ begun \subseteq WC!Ids
  BY DEF ChangeInv, ChangeTypeOK, PromisesKept
<1>3. ASSUME UNCHANGED <<defined, counter, size, promised>>,
             names \subseteq WC!Ids, \A id \in names : defined[id] # None
      PROVE  Annotates(names) /\ Annotates({})
  <2>1. PromisesKept'
    BY <1>1, <1>2, <1>3 DEF PromisesKept
  <2> QED
    BY <1>1, <1>3, <2>1 DEF Annotates
<1>4. CASE names = {} /\ UNCHANGED <<defined, counter, size, promised>>
  BY <1>3, <1>4
<1>5. ASSUME NEW a \in Annotations, WC!Managed(a), names = {counter + 1}, put = WC!Free(counter + 1)
      PROVE  /\ put => Annotates(names)
             /\ ~put => Annotates({})
  <2>1. CASE defined[counter + 1] = None
    <3>1. /\ put /\ counter' = counter + 1 /\ size' = size + 1
          /\ defined' = [defined EXCEPT ![counter + 1] = a]
          /\ promised' = [promised EXCEPT ![counter + 1] = a]
      BY <1>5, <2>1 DEF WC!Managed, WC!Free
    <3>2. /\ defined' \in [WC!Ids -> Annotations \cup {None}]
          /\ promised' \in [WC!Ids -> Annotations \cup {None}]
          /\ defined'[counter + 1] = a /\ promised'[counter + 1] = a /\ a # None
          /\ \A id \in WC!Ids : id # counter + 1
                => defined'[id] = defined[id] /\ promised'[id] = promised[id]
          /\ counter' \in Nat /\ size' \in Nat /\ size' > 0 /\ counter' <= counter + 1
      BY <1>1, <1>5, <3>1
    <3>3. PromisesKept'
      BY <1>1, <1>2, <2>1, <3>2 DEF PromisesKept
    <3>4. Annotates({counter + 1})
      BY <1>1, <2>1, <3>2, <3>3 DEF Annotates
    <3> QED
      BY <1>5, <3>1, <3>4
  <2>2. CASE defined[counter + 1] # None
    <3>1. ~put /\ counter' = counter + 1 /\ UNCHANGED <<defined, size, promised>>
      BY <1>5, <2>2 DEF WC!Managed, WC!Free
    <3>2. PromisesKept'
      BY <1>1, <1>2, <3>1 DEF PromisesKept
    <3>3. Annotates({})
      BY <1>1, <3>1, <3>2 DEF Annotates
    <3> QED
      BY <3>1, <3>3
  <2> QED
    BY <2>1, <2>2
<1>6. ASSUME NEW id \in WC!Ids, promised[id] # None \/ id \in begun, names = {id},
             UNCHANGED <<defined, counter, size, promised>>
      PROVE  Annotates(names) /\ Annotates({})
  BY <1>2, <1>3, <1>6
<1> QED
  BY <1>4, <1>5, <1>6 DEF WC!Annotated

\* A call that leaves the annotations alone.
LEMMA ChangeUnannotated ==
  ASSUME ChangeInv, WC!Called, UNCHANGED <<defined, counter, size, promised>>
  PROVE  Annotates({})
<1>1. WC!Annotated({}, TRUE)
  BY DEF WC!Annotated
<1> QED
  BY <1>1, ChangeAnnotated

\* The types after a call, but for the lists.
LEMMA ChangeTypes ==
  ASSUME ChangeInv, WC!Called, NEW names, Annotates(names),
         form' \in {"undecided", "changes", "documentChanges"},
         entries' \in Seq(Change), editsOf' \in [Documents -> Nat]
  PROVE  ChangeTypeOK' /\ PromisesKept' /\ ReadFits'
<1>1. /\ built' \in Nat /\ built' = built + 1 /\ begun' = begun
      /\ ReadFits'
  BY ChangeCalled
<1>2. counter' <= built' /\ begun' \subseteq WC!Ids
  BY <1>1 DEF ChangeInv, ChangeTypeOK, Annotates
<1> QED
  BY <1>1, <1>2 DEF ChangeTypeOK, Annotates

\* The lists stay.
LEMMA ChangeListsStay ==
  ASSUME ChangeInv, WC!Called, Annotates({}), UNCHANGED <<entries, editsOf>>,
         form' \in {"undecided", "changes", "documentChanges"}
  PROVE  ChangeInv'
<1>1. ChangeTypeOK' /\ PromisesKept' /\ ReadFits'
  BY ChangeTypes DEF ChangeInv, ChangeTypeOK
<1>2. \A k \in DOMAIN entries : entries[k].ids \subseteq WC!Ids
  BY ChangeEntries
<1>3. NamesDefined'
  BY <1>2 DEF ChangeInv, NamesDefined, Annotates
<1>4. ListsFound'
  BY DEF ChangeInv, ListsFound
<1> QED
  BY <1>1, <1>3, <1>4 DEF ChangeInv

\* The list of a document names other annotations.
LEMMA ChangeListNames ==
  ASSUME ChangeInv, WC!Called, NEW names, Annotates(names), UNCHANGED <<form, editsOf>>,
         NEW d \in Documents, editsOf[d] > 0,
         NEW new \in SUBSET (entries[editsOf[d]].ids \cup names),
         entries' = [entries EXCEPT ![editsOf[d]] = Naming(entries[editsOf[d]], new)]
  PROVE  ChangeInv'
<1> DEFINE n == editsOf[d]
<1>1. n \in DOMAIN entries /\ DOMAIN entries = 1..Len(entries) /\ Len(entries) \in Nat
  BY ChangeEntries DEF ChangeInv, ChangeTypeOK, ListsFound
<1>2. /\ entries \in Seq(Change) /\ editsOf \in [Documents -> Nat]
      /\ form \in {"undecided", "changes", "documentChanges"}
  BY DEF ChangeInv, ChangeTypeOK
<1>3. entries[n] \in Change /\ \A k \in DOMAIN entries : entries[k].ids \subseteq WC!Ids
  BY <1>1, ChangeEntries
<1>4. new \in SUBSET WC!Ids
  <2>1. names \subseteq WC!Ids
    BY DEF Annotates
  <2> QED
    BY <1>1, <1>3, <2>1
<1> DEFINE e == Naming(entries[n], new)
<1>5. e \in Change /\ e.of = entries[n].of /\ e.uri = entries[n].uri /\ e.ids = new
  BY <1>3, <1>4, ChangeParts
<1>6. entries' = [entries EXCEPT ![n] = e]
  OBVIOUS
<1> HIDE DEF e, n
<1>7. /\ entries' \in Seq(Change) /\ Len(entries') = Len(entries)
      /\ DOMAIN entries' = DOMAIN entries /\ entries'[n] = e
      /\ \A k \in DOMAIN entries : k # n => entries'[k] = entries[k]
  <2> DEFINE changed == [entries EXCEPT ![n] = e]
  <2>1. n \in 1..Len(entries)
    BY <1>1
  <2>2. /\ changed \in Seq(Change) /\ Len(changed) = Len(entries)
        /\ DOMAIN changed = DOMAIN entries /\ changed[n] = e
        /\ \A k \in DOMAIN entries : k # n => changed[k] = entries[k]
    BY <1>2, <1>5, <2>1, ExceptElements
  <2> HIDE DEF changed
  <2>3. entries' = changed
    BY <1>6 DEF changed
  <2> QED
    BY <2>2, <2>3
<1>8. ChangeTypeOK' /\ PromisesKept' /\ ReadFits'
  BY <1>2, <1>7, ChangeTypes
<1>9. NamesDefined'
  <2>1. \A id \in new : defined'[id] # None
    BY <1>1, <1>3 DEF n, ChangeInv, NamesDefined, Annotates
  <2>2. \A k \in DOMAIN entries : \A id \in entries[k].ids : defined'[id] # None
    BY <1>3 DEF ChangeInv, NamesDefined, Annotates
  <2> QED
    BY <1>5, <1>7, <2>1, <2>2 DEF NamesDefined
<1>10. ListsFound'
  BY <1>5, <1>7 DEF ChangeInv, ListsFound
<1> QED
  BY <1>8, <1>9, <1>10 DEF ChangeInv

\* An entry is added: the list of a document that has none, or one of files.
LEMMA ChangeAppended ==
  ASSUME ChangeInv, WC!Called, NEW e \in Change, Annotates(e.ids),
         form' \in {"undecided", "changes", "documentChanges"},
         entries' = Append(entries, e),
         \/ e.of # "edits" /\ editsOf' = editsOf
         \/ editsOf[e.uri] = 0 /\ editsOf' = [editsOf EXCEPT ![e.uri] = Len(entries) + 1]
  PROVE  ChangeInv'
<1>1. entries \in Seq(Change) /\ editsOf \in [Documents -> Nat] /\ e.uri \in Documents
  BY ChangeParts DEF ChangeInv, ChangeTypeOK
<1>2. /\ entries' \in Seq(Change) /\ Len(entries) \in Nat /\ Len(entries') = Len(entries) + 1
      /\ \A k \in 1..Len(entries) : entries'[k] = entries[k]
      /\ entries'[Len(entries) + 1] = e
  BY <1>1, AppendElements
<1>3. DOMAIN entries = 1..Len(entries) /\ DOMAIN entries' = 1..(Len(entries) + 1)
  BY <1>1, <1>2
<1>4. editsOf' \in [Documents -> Nat]
  BY <1>1, <1>2
<1>5. ChangeTypeOK' /\ PromisesKept' /\ ReadFits'
  BY <1>2, <1>4, ChangeTypes
<1>6. \A k \in DOMAIN entries : entries[k].uri \in Documents /\ entries[k].ids \subseteq WC!Ids
  BY ChangeEntries
<1>7. NamesDefined'
  <2>1. \A k \in DOMAIN entries : \A id \in entries[k].ids : defined'[id] # None
    BY <1>6 DEF ChangeInv, NamesDefined, Annotates
  <2>2. \A id \in e.ids : defined'[id] # None
    BY DEF Annotates
  <2> QED
    BY <1>2, <1>3, <2>1, <2>2 DEF NamesDefined
<1>8. /\ \A d \in Documents : editsOf[d] <= Len(entries)
      /\ \A k \in DOMAIN entries : entries[k].of = "edits" => editsOf[entries[k].uri] = k
  BY DEF ChangeInv, ListsFound
<1>9. CASE e.of # "edits" /\ editsOf' = editsOf
  BY <1>1, <1>2, <1>3, <1>5, <1>7, <1>8, <1>9 DEF ChangeInv, ListsFound
<1>10. CASE editsOf[e.uri] = 0 /\ editsOf' = [editsOf EXCEPT ![e.uri] = Len(entries) + 1]
  <2>1. \A k \in DOMAIN entries : entries[k].of = "edits" => entries[k].uri # e.uri
    BY <1>3, <1>8, <1>10
  <2>2. /\ editsOf'[e.uri] = Len(entries) + 1
        /\ \A d \in Documents : d # e.uri => editsOf'[d] = editsOf[d]
    BY <1>1, <1>10
  <2>3. \A k \in DOMAIN entries : entries[k].of = "edits" => editsOf'[entries[k].uri] = k
    BY <1>6, <1>8, <2>1, <2>2
  <2>4. ListsFound'
    BY <1>1, <1>2, <1>3, <1>8, <2>2, <2>3 DEF ListsFound
  <2> QED
    BY <1>5, <1>7, <2>4 DEF ChangeInv
<1> QED
  BY <1>9, <1>10

\* What is read is what is there, and all of it unless nothing was counted.
LEMMA ChangeRead == ChangeInv /\ WC!ReadEdit => ChangeInv'
<1> SUFFICES ASSUME ChangeInv, WC!ReadEdit PROVE ChangeInv'
  OBVIOUS
<1>1. /\ UNCHANGED <<entries, editsOf, defined, counter, size, begun, promised, built>>
      /\ form' \in {form, "documentChanges"}
      /\ read'.fresh = TRUE /\ read'.annotations = IF size = 0 THEN WC!Nothing ELSE defined
  BY DEF WC!ReadEdit, WC!Decided
<1>2. ReadFits'
  BY <1>1 DEF ReadFits
<1>3. ChangeTypeOK'
  BY <1>1 DEF ChangeInv, ChangeTypeOK
<1>4. NamesDefined' /\ PromisesKept' /\ ListsFound'
  BY <1>1 DEF ChangeInv, NamesDefined, PromisesKept, ListsFound
<1> QED
  BY <1>2, <1>3, <1>4 DEF ChangeInv

\* Every call keeps the invariant.
LEMMA ChangeStep == ChangeInv /\ [WC!Next]_(WC!vars) => ChangeInv'
<1> SUFFICES ASSUME ChangeInv, [WC!Next]_(WC!vars) PROVE ChangeInv'
  OBVIOUS
<1>0. form \in {"undecided", "changes", "documentChanges"}
  BY DEF ChangeInv, ChangeTypeOK
<1>1. ASSUME NEW d \in Documents, NEW wanted \in {"changes", "documentChanges"},
             WC!GetTextEditChange(d, wanted)
      PROVE  ChangeInv'
  <2>1. WC!Called /\ UNCHANGED <<defined, counter, size, promised>>
    BY <1>1 DEF WC!GetTextEditChange
  <2>2. Annotates({})
    BY <2>1, ChangeUnannotated
  <2>3. form' \in {"undecided", "changes", "documentChanges"}
    BY <1>0, <1>1 DEF WC!GetTextEditChange, WC!Decided
  <2>4. CASE UNCHANGED <<entries, editsOf>>
    BY <2>1, <2>2, <2>3, <2>4, ChangeListsStay
  <2>5. CASE /\ editsOf[d] = 0
             /\ entries' = Append(entries, WC!Entry("edits", d, {}))
             /\ editsOf' = [editsOf EXCEPT ![d] = Len(entries) + 1]
    <3> DEFINE e == WC!Entry("edits", d, {})
    <3>1. e \in Change /\ e.uri = d /\ e.ids = {}
      BY DEF WC!Entry, Change
    <3> HIDE DEF e
    <3>2. entries' = Append(entries, e)
      BY <2>5 DEF e
    <3> QED
      BY <2>1, <2>2, <2>3, <2>5, <3>1, <3>2, ChangeAppended
  <2>6. editsOf[d] \in Nat
    BY DEF ChangeInv, ChangeTypeOK
  <2> QED
    BY <1>1, <2>4, <2>5, <2>6 DEF WC!GetTextEditChange
<1>2. ASSUME NEW d \in Documents, WC!Edit(d) PROVE ChangeInv'
  <2>1. WC!Called /\ editsOf[d] > 0 /\ UNCHANGED <<form, editsOf>>
    BY <1>2 DEF WC!Edit
  <2>2. CASE UNCHANGED <<entries, defined, counter, size, promised>>
    <3>1. Annotates({})
      BY <2>1, <2>2, ChangeUnannotated
    <3> QED
      BY <1>0, <2>1, <2>2, <3>1, ChangeListsStay
  <2>3. ASSUME NEW names \in WC!Named, NEW put \in BOOLEAN, WC!Annotated(names, put),
               entries' = IF put THEN WC!PutEdit(d, names) ELSE entries
        PROVE  ChangeInv'
    <3>1. CASE put
      <4>1. Annotates(names)
        BY <2>1, <2>3, <3>1, ChangeAnnotated
      <4> DEFINE new == entries[editsOf[d]].ids \cup names
      <4>2. entries' = [entries EXCEPT ![editsOf[d]] = Naming(entries[editsOf[d]], new)]
        BY <2>3, <3>1 DEF WC!PutEdit, Naming
      <4>3. new \in SUBSET (entries[editsOf[d]].ids \cup names)
        OBVIOUS
      <4> HIDE DEF new
      <4> QED
        BY <2>1, <4>1, <4>2, <4>3, ChangeListNames
    <3>2. CASE ~put
      <4>1. Annotates({}) /\ entries' = entries
        BY <2>1, <2>3, <3>2, ChangeAnnotated
      <4> QED
        BY <1>0, <2>1, <4>1, ChangeListsStay
    <3> QED
      BY <3>1, <3>2
  <2> QED
    BY <1>2, <2>2, <2>3 DEF WC!Edit
<1>3. ASSUME NEW d \in Documents, WC!Clear(d) PROVE ChangeInv'
  <2>1. /\ WC!Called /\ editsOf[d] > 0 /\ UNCHANGED <<form, editsOf>>
        /\ entries' = [entries EXCEPT ![editsOf[d]] = Naming(entries[editsOf[d]], {})]
        /\ UNCHANGED <<defined, counter, size, promised>>
    BY <1>3 DEF WC!Clear, Naming
  <2>2. Annotates({})
    BY <2>1, ChangeUnannotated
  <2>3. {} \in SUBSET (entries[editsOf[d]].ids \cup {})
    OBVIOUS
  <2> QED
    BY <2>1, <2>2, <2>3, ChangeListNames
<1>4. ASSUME NEW d \in Documents, NEW of \in {"create", "rename", "delete"},
             WC!FileOperation(of, d)
      PROVE  ChangeInv'
  <2>1. WC!Called /\ UNCHANGED editsOf
    BY <1>4 DEF WC!FileOperation
  <2>2. form' \in {"undecided", "changes", "documentChanges"}
    BY <1>0, <1>4 DEF WC!FileOperation, WC!Decided
  <2>3. CASE UNCHANGED <<entries, defined, counter, size, promised>>
    <3>1. Annotates({})
      BY <2>1, <2>3, ChangeUnannotated
    <3> QED
      BY <2>1, <2>2, <2>3, <3>1, ChangeListsStay
  <2>4. ASSUME NEW names \in WC!Named, NEW put \in BOOLEAN, WC!Annotated(names, put),
               entries' = IF put THEN Append(entries, WC!Entry(of, d, names)) ELSE entries
        PROVE  ChangeInv'
    <3>1. CASE put
      <4>1. Annotates(names)
        BY <2>1, <2>4, <3>1, ChangeAnnotated
      <4> DEFINE e == WC!Entry(of, d, names)
      <4>2. e \in Change /\ e.of # "edits" /\ e.ids = names
        BY <4>1 DEF WC!Entry, Change, Annotates
      <4>3. entries' = Append(entries, e)
        BY <2>4, <3>1
      <4> HIDE DEF e
      <4>4. Annotates(e.ids)
        BY <4>1, <4>2
      <4> QED
        BY <2>1, <2>2, <4>2, <4>3, <4>4, ChangeAppended
    <3>2. CASE ~put
      <4>1. Annotates({}) /\ entries' = entries
        BY <2>1, <2>4, <3>2, ChangeAnnotated
      <4> QED
        BY <2>1, <2>2, <4>1, ChangeListsStay
    <3> QED
      BY <3>1, <3>2
  <2> QED
    BY <1>4, <2>3, <2>4 DEF WC!FileOperation
<1>5. CASE WC!ReadEdit
  BY <1>5, ChangeRead
<1>6. CASE UNCHANGED WC!vars
  <2>1. UNCHANGED <<form, entries, editsOf, defined, counter, size, begun, promised, read, built>>
    BY <1>6 DEF WC!vars
  <2>2. ChangeTypeOK' /\ ReadFits'
    BY <2>1 DEF ChangeInv, ChangeTypeOK, ReadFits
  <2>3. NamesDefined' /\ PromisesKept' /\ ListsFound'
    BY <2>1 DEF ChangeInv, NamesDefined, PromisesKept, ListsFound
  <2> QED
    BY <2>2, <2>3 DEF ChangeInv
<1> QED
  BY <1>1, <1>2, <1>3, <1>4, <1>5, <1>6 DEF WC!Next

\* What is promised of the edit.
LEMMA ChangeHolds == ChangeInv => WC!AnnotationsDefined /\ WC!OneListPerDocument
<1> SUFFICES ASSUME ChangeInv PROVE WC!AnnotationsDefined /\ WC!OneListPerDocument
  OBVIOUS
<1>1. WC!AnnotationsDefined
  <2> SUFFICES ASSUME read.fresh, begun = {} \/ size > 0,
                      NEW k \in DOMAIN entries, NEW id \in entries[k].ids
               PROVE  /\ read.annotations[id] # None
                      /\ promised[id] # None => read.annotations[id] = promised[id]
    BY DEF WC!AnnotationsDefined
  <2>1. id \in WC!Ids /\ defined[id] # None
    BY ChangeEntries DEF ChangeInv, NamesDefined
  <2>2. size # 0
    BY <2>1 DEF ChangeInv, ChangeTypeOK, PromisesKept
  <2>3. read.annotations = defined
    BY <2>2 DEF ChangeInv, ReadFits
  <2> QED
    BY <2>1, <2>3 DEF ChangeInv, PromisesKept
<1>2. WC!OneListPerDocument
  BY DEF WC!OneListPerDocument, ChangeInv, ListsFound
<1> QED
  BY <1>1, <1>2

-----------------------------------------------------------------------------
(* The services together.                                                   *)

\* The invariant of the part that a behaviour is of.
ServicesInv ==
    /\ part \in Parts
    /\ part = "process" => ProcessInv
    /\ part = "edits" => EditsInv
    /\ part = "folders" => FoldersInv
    /\ part = "configuration" => SettingsInv
    /\ part = "progress" => ProgressInv
    /\ part = "fileOperations" => OperationInv
    /\ part = "change" => ChangeInv
    /\ part = "map" => MapInv

\* The invariant holds at first.
LEMMA ServicesInit == Init => ServicesInv
<1> SUFFICES ASSUME Init PROVE ServicesInv
  OBVIOUS
<1>1. part \in Parts
  BY DEF Init
<1>2. ASSUME part = "process" PROVE ProcessInv
  BY <1>2, ProcessInit DEF Init, PartsInit, ProcessInv
<1>3. ASSUME part = "edits" PROVE EditsInv
  BY <1>3, EditsInit DEF Init, PartsInit
<1>4. ASSUME part = "folders" PROVE FoldersInv
  BY <1>4, FoldersInit DEF Init, PartsInit
<1>5. ASSUME part = "configuration" PROVE SettingsInv
  BY <1>5, SettingsInit DEF Init, PartsInit
<1>6. ASSUME part = "progress" PROVE ProgressInv
  BY <1>6, ProgressInit DEF Init, PartsInit
<1>7. ASSUME part = "fileOperations" PROVE OperationInv
  BY <1>7, OperationInit DEF Init, PartsInit
<1>8. ASSUME part = "change" PROVE ChangeInv
  BY <1>8, ChangeInit DEF Init, PartsInit
<1>9. ASSUME part = "map" PROVE MapInv
  BY <1>9, MapInit DEF Init, PartsInit
<1> QED
  BY <1>1, <1>2, <1>3, <1>4, <1>5, <1>6, <1>7, <1>8, <1>9 DEF ServicesInv

\* A step is one of the part, for which the others do not matter.
LEMMA ServicesSteps ==
  ASSUME [Next]_vars
  PROVE  /\ part' = part
         /\ part = "process" => [SP!Next]_(SP!vars)
         /\ part = "edits" => [WE!Next]_(WE!vars)
         /\ part = "folders" => [WF!Next]_(WF!vars)
         /\ part = "configuration" => [CS!Next]_(CS!vars)
         /\ part = "progress" => [WP!Next]_(WP!vars)
         /\ part = "fileOperations" => [FO!Next]_(FO!vars)
         /\ part = "change" => [WC!Next]_(WC!vars)
         /\ part = "map" => [LM!Next]_(LM!vars)
<1>1. CASE UNCHANGED vars
  <2>1. UNCHANGED <<part, FOvars, WFvars, CSvars, WPvars, WEvars, SPvars, WCvars, LMvars>>
    BY <1>1 DEF vars
  <2>2. UNCHANGED SP!vars
    BY <2>1 DEF SP!vars, SPvars
  <2>3. UNCHANGED WE!vars
    BY <2>1 DEF WE!vars, WEvars
  <2>4. UNCHANGED WF!vars
    BY <2>1 DEF WF!vars, WFvars
  <2>5. UNCHANGED CS!vars
    BY <2>1 DEF CS!vars, CSvars
  <2>6. UNCHANGED WP!vars
    BY <2>1 DEF WP!vars, WPvars
  <2>7. UNCHANGED FO!vars
    BY <2>1 DEF FO!vars, FOvars
  <2>8. UNCHANGED WC!vars
    BY <2>1 DEF WC!vars, WCvars
  <2>9. UNCHANGED LM!vars
    BY <2>1 DEF LM!vars, LMvars
  <2> QED
    BY <2>1, <2>2, <2>3, <2>4, <2>5, <2>6, <2>7, <2>8, <2>9
<1>2. CASE Next
  BY <1>2 DEF Next
<1> QED
  BY <1>1, <1>2

\* The invariant is kept.
LEMMA ServicesStep == ServicesInv /\ [Next]_vars => ServicesInv'
<1> SUFFICES ASSUME ServicesInv, [Next]_vars PROVE ServicesInv'
  OBVIOUS
<1>1. part' = part
  BY ServicesSteps
<1>2. ASSUME part = "process" PROVE ProcessInv'
  <2>1. ProcessInv /\ [SP!Next]_(SP!vars)
    BY <1>2, ServicesSteps DEF ServicesInv
  <2> QED
    BY <2>1, ProcessTypeStep, ProcessStep, ForgottenStep DEF ProcessInv
<1>3. ASSUME part = "edits" PROVE EditsInv'
  <2>1. EditsInv /\ [WE!Next]_(WE!vars)
    BY <1>3, ServicesSteps DEF ServicesInv
  <2> QED
    BY <2>1, ServicesAssumption, EditsTypeStep, EditsOrderStep DEF EditsInv
<1>4. ASSUME part = "folders" PROVE FoldersInv'
  <2>1. FoldersInv /\ [WF!Next]_(WF!vars)
    BY <1>4, ServicesSteps DEF ServicesInv
  <2> QED
    BY <2>1, FoldersStep
<1>5. ASSUME part = "configuration" PROVE SettingsInv'
  <2>1. SettingsInv /\ [CS!Next]_(CS!vars)
    BY <1>5, ServicesSteps DEF ServicesInv
  <2> QED
    BY <2>1, SettingsStep
<1>6. ASSUME part = "progress" PROVE ProgressInv'
  <2>1. ProgressInv /\ [WP!Next]_(WP!vars)
    BY <1>6, ServicesSteps DEF ServicesInv
  <2> QED
    BY <2>1, ProgressStep
<1>7. ASSUME part = "fileOperations" PROVE OperationInv'
  <2>1. OperationInv /\ [FO!Next]_(FO!vars)
    BY <1>7, ServicesSteps DEF ServicesInv
  <2> QED
    BY <2>1, OperationStep
<1>8. ASSUME part = "change" PROVE ChangeInv'
  <2>1. ChangeInv /\ [WC!Next]_(WC!vars)
    BY <1>8, ServicesSteps DEF ServicesInv
  <2> QED
    BY <2>1, ChangeStep
<1>9. ASSUME part = "map" PROVE MapInv'
  <2>1. MapInv /\ [LM!Next]_(LM!vars)
    BY <1>9, ServicesSteps DEF ServicesInv
  <2> QED
    BY <2>1, MapStep
<1> QED
  BY <1>1, <1>2, <1>3, <1>4, <1>5, <1>6, <1>7, <1>8, <1>9 DEF ServicesInv

\* The invariant holds in every reachable state.
LEMMA ServicesHold == Spec => []ServicesInv
  BY ServicesInit, ServicesStep, PTL DEF Spec

\* A server that was shut down in time exits with code 0 however the end of its
\* input and the exit notification race, and a client that is off has no
\* process that nobody is going to look at: for any number of launches.
THEOREM ProcessesEndHolds == Spec => []ProcessesEnd
<1>1. ServicesInv => ProcessesEnd
  <2> SUFFICES ASSUME ProcessInv PROVE SP!ProcessesEnd
    BY DEF ServicesInv, ProcessesEnd
  <2>1. SP!StoppedCleanly
    BY DEF SP!StoppedCleanly, ProcessInv, ProcessTypeOK, CodeFits, ProcessFits
  <2>2. SP!NothingLeftRunning
    BY DEF SP!NothingLeftRunning, ProcessInv, NoneForgotten
  <2> QED
    BY <2>1, <2>2 DEF SP!ProcessesEnd
<1> QED
  BY <1>1, ServicesHold, PTL

\* For any finite set of documents, any bounds, and whatever the user types,
\* opens and closes meanwhile, edits are applied in the order they were sent,
\* and to the versions they were computed for.
THEOREM AppliedAsSentHolds == Spec => []AppliedAsSent
<1>1. ServicesInv => AppliedAsSent
  <2> SUFFICES ASSUME EditsInv PROVE WE!AppliedAsSent
    BY DEF ServicesInv, AppliedAsSent
  <2>1. DOMAIN applied = 1..Len(applied)
    BY DEF EditsInv, EditsTypeOK
  <2> QED
    BY <2>1 DEF EditsInv, EditsTypeOK, AppliedFirst, WE!AppliedAsSent
<1> QED
  BY <1>1, ServicesHold, PTL

\* For any folders, sections and values, and over any number of changes and
\* sessions: once all is told, the server has the folders of the editor, of
\* which one listener tells, and its program the settings of the sections it
\* asked for.
THEOREM WorkspaceAgreesHolds == Spec => []WorkspaceAgrees
<1>1. ServicesInv => WorkspaceAgrees
  BY FoldersHold, SettingsHold DEF ServicesInv, WorkspaceAgrees
<1> QED
  BY <1>1, ServicesHold, PTL

\* For any percentages, and any calls of the server's reporter: a part that is
\* finished has no window open, a window shows what was reported, and the
\* user's cancel is on its way until the reporter's token is cancelled.
THEOREM ProgressShownHolds == Spec => []ProgressShown
<1>1. ServicesInv => ProgressShown
  BY ProgressHolds DEF ServicesInv, ProgressShown
<1> QED
  BY <1>1, ServicesHold, PTL

\* For any paths and filters, and over any number of operations, which may
\* overlap: of one with which nothing interfered (no registration, no stop, no
\* appearance, no end of the editor's patience, and no notification of another
\* operation that cleared the cache under it) the server is asked about exactly
\* the existing things, and notified of exactly the created ones, that its
\* filters ask for.  Of what was renamed or deleted, if no earlier operation
\* left a wrong type in the cache, it is notified of nothing they do not ask
\* for, and of all they ask for but by a slash.  The feature listens while there
\* are filters, and not when the client is stopped.
THEOREM FilesToldHolds == Spec => []FilesTold
<1>1. ServicesInv => FilesTold
  BY OperationHolds DEF ServicesInv, FilesTold
<1> QED
  BY <1>1, ServicesHold, PTL

\* For any documents and annotations, and any number of calls in any order over
\* nothing or over an edit: the edit that is read defines the annotations its
\* entries name, as the callers gave them, and has one list for a document.
THEOREM ChangeBuildsHolds == Spec => []ChangeBuilds
<1>1. ServicesInv => ChangeBuilds
  BY ChangeHolds DEF ServicesInv, ChangeBuilds
<1> QED
  BY <1>1, ServicesHold, PTL

\* For any keys and limits, and any number of calls in any order: the links in
\* either direction, the map and the size tell the order the calls should make,
\* a cache keeps no more than its limit, and an iteration that was not told of
\* a change sees every key once and in that order.
THEOREM ListExactHolds == Spec => []ListExact
<1>1. ServicesInv => ListExact
  BY MapHolds DEF ServicesInv, ListExact
<1> QED
  BY <1>1, ServicesHold, PTL
=============================================================================

--------------------------- MODULE WatchPathsProofs ---------------------------
(***************************************************************************)
(* What the two paths of `tg watch` show, for any updates, queries, limits *)
(* and capacities.                                                         *)
(***************************************************************************)
EXTENDS WatchPaths, WellFoundedInduction, TLAPS

TypeOK ==
  /\ query \in Queries /\ log \in Seq(Updates)
  /\ localNext \in Nat \ {0} /\ localNext <= Len(log) + 1
  /\ localQ \in Seq(Nat) /\ localSeen \in Seq(Nat)
  /\ daemonNext \in Nat \ {0} /\ daemonNext <= Len(log) + 1
  /\ daemonQ \in Seq(Nat) /\ daemonSeen \in Seq(Nat) /\ dropped \in Nat

DaemonAccepted(n) == {i \in 1 .. n : DaemonAccepts(Filter, log[i])}

\* The daemon shows every update it accepts as long as it drops none.
DaemonShowsAll ==
  dropped = 0 => Lists(daemonSeen \o daemonQ, DaemonAccepted(daemonNext - 1))

-----------------------------------------------------------------------------
(* Numbers and sequences                                                   *)

LEMMA Least ==
  ASSUME NEW T, T \subseteq Nat, T # {}
  PROVE  \E x \in T : \A y \in T : x <= y
<1>1. PICK x \in T : \A y \in T : ~(<<y, x>> \in OpToRel(<, Nat))
  BY WFMin, NatLessThanWellFounded, Zenon
<1>2. OpToRel(<, Nat) = {p \in Nat \X Nat : p[1] < p[2]}
  BY DEF OpToRel
<1>3. ASSUME NEW y \in T PROVE x <= y
  <2>1. x \in Nat /\ y \in Nat
    OBVIOUS
  <2>2. ~(y < x)
    BY <1>1, <1>2, <2>1
  <2>3. QED
    BY <2>1, <2>2
<1>4. QED
  BY <1>3

\* The queue's head goes to the end of what is shown.
LEMMA Moved ==
  ASSUME NEW s \in Seq(Nat), NEW q \in Seq(Nat), q # <<>>
  PROVE  /\ Append(s, Head(q)) \in Seq(Nat) /\ Tail(q) \in Seq(Nat)
         /\ Append(s, Head(q)) \o Tail(q) = s \o q
OBVIOUS

LEMMA Queued ==
  ASSUME NEW s \in Seq(Nat), NEW q \in Seq(Nat), NEW x \in Nat
  PROVE  Append(q, x) \in Seq(Nat) /\ s \o Append(q, x) = Append(s \o q, x)
OBVIOUS

\* A number above all of a list is its last.
LEMMA ListsAppend ==
  ASSUME NEW s \in Seq(Nat), NEW S \in SUBSET Nat, NEW x \in Nat,
         Lists(s, S), \A y \in S : y < x
  PROVE  Lists(Append(s, x), S \cup {x})
<1> DEFINE t == Append(s, x)
<1>1. /\ Len(s) \in Nat /\ DOMAIN s = 1 .. Len(s) /\ DOMAIN t = 1 .. Len(s) + 1
      /\ \A i \in DOMAIN s : t[i] = s[i]
      /\ t[Len(s) + 1] = x
  OBVIOUS
<1> HIDE DEF t
<1>2. /\ \A i \in DOMAIN t : i \in DOMAIN s \/ i = Len(s) + 1
      /\ DOMAIN s \subseteq DOMAIN t /\ Len(s) + 1 \in DOMAIN t
  BY <1>1
<1>3. ToSet(t) = S \cup {x}
  BY <1>1, <1>2 DEF ToSet, Lists
<1>4. ASSUME NEW i \in DOMAIN t, NEW j \in DOMAIN t, i < j PROVE t[i] < t[j]
  <2>1. i \in DOMAIN s
    BY <1>1, <1>4
  <2>2. s[i] \in S
    BY <2>1 DEF Lists, ToSet
  <2>3. CASE j \in DOMAIN s
    BY <1>1, <1>4, <2>1, <2>3 DEF Lists
  <2>4. CASE j = Len(s) + 1
    BY <1>1, <2>1, <2>2, <2>4
  <2>5. QED
    BY <1>2, <2>3, <2>4
<1>5. QED
  BY <1>3, <1>4 DEF Lists, t

\* A set is listed in one way only.
LEMMA SameList ==
  ASSUME NEW s \in Seq(Nat), NEW t \in Seq(Nat), NEW S, Lists(s, S), Lists(t, S)
  PROVE  s = t
<1>1. /\ Len(s) \in Nat /\ DOMAIN s = 1 .. Len(s) /\ \A i \in DOMAIN s : s[i] \in Nat
      /\ Len(t) \in Nat /\ DOMAIN t = 1 .. Len(t) /\ \A i \in DOMAIN t : t[i] \in Nat
  OBVIOUS
<1>2. /\ \A i, j \in DOMAIN s : i < j => s[i] < s[j]
      /\ \A i, j \in DOMAIN t : i < j => t[i] < t[j]
      /\ \A i \in DOMAIN s : \E j \in DOMAIN t : t[j] = s[i]
      /\ \A i \in DOMAIN t : \E j \in DOMAIN s : s[j] = t[i]
  BY DEF Lists, ToSet
<1> DEFINE Differ == {i \in DOMAIN s \cap DOMAIN t : s[i] # t[i]}
<1>3. Differ = {}
  <2>1. SUFFICES ASSUME Differ # {} PROVE FALSE
    OBVIOUS
  <2>2. Differ \subseteq Nat
    BY <1>1
  <2>3. PICK k \in Differ : \A i \in Differ : k <= i
    BY <2>1, <2>2, Least
  <2>4. /\ k \in DOMAIN s /\ k \in DOMAIN t /\ k \in Nat /\ s[k] # t[k]
        /\ s[k] \in Nat /\ t[k] \in Nat
    BY <1>1, <2>3
  <2>5. \A i \in DOMAIN s \cap DOMAIN t : i < k => s[i] = t[i]
    BY <1>1, <2>3
  <2>6. t[k] <= s[k]
    <3>1. PICK j \in DOMAIN t : t[j] = s[k]
      BY <1>2, <2>4
    <3>2. CASE j < k
      <4>1. j \in DOMAIN s /\ s[j] = t[j]
        BY <1>1, <2>4, <2>5, <3>2
      <4>2. s[j] < s[k]
        BY <1>2, <2>4, <3>2, <4>1
      <4>3. QED
        BY <2>4, <3>1, <4>1, <4>2
    <3>3. CASE j >= k
      <4>1. j = k \/ k < j
        BY <1>1, <2>4, <3>3
      <4>2. t[k] = t[j] \/ t[k] < t[j]
        BY <1>2, <2>4, <4>1
      <4>3. QED
        BY <2>4, <3>1, <4>2
    <3>4. QED
      BY <1>1, <2>4, <3>2, <3>3
  <2>7. s[k] <= t[k]
    <3>1. PICK j \in DOMAIN s : s[j] = t[k]
      BY <1>2, <2>4
    <3>2. CASE j < k
      <4>1. j \in DOMAIN t /\ s[j] = t[j]
        BY <1>1, <2>4, <2>5, <3>2
      <4>2. t[j] < t[k]
        BY <1>2, <2>4, <3>2, <4>1
      <4>3. QED
        BY <2>4, <3>1, <4>1, <4>2
    <3>3. CASE j >= k
      <4>1. j = k \/ k < j
        BY <1>1, <2>4, <3>3
      <4>2. s[k] = s[j] \/ s[k] < s[j]
        BY <1>2, <2>4, <4>1
      <4>3. QED
        BY <2>4, <3>1, <4>2
    <3>4. QED
      BY <1>1, <2>4, <3>2, <3>3
  <2>8. QED
    BY <2>4, <2>6, <2>7
<1>4. \A i \in DOMAIN s \cap DOMAIN t : s[i] = t[i]
  BY <1>3
<1> HIDE DEF Differ
<1>5. ~(Len(s) < Len(t))
  <2>1. SUFFICES ASSUME Len(s) < Len(t) PROVE FALSE
    OBVIOUS
  <2>2. Len(s) + 1 \in DOMAIN t
    BY <1>1, <2>1
  <2>3. PICK j \in DOMAIN s : s[j] = t[Len(s) + 1]
    BY <1>2, <2>2
  <2>4. j \in DOMAIN t /\ j < Len(s) + 1
    BY <1>1, <2>1
  <2>5. t[j] < t[Len(s) + 1] /\ t[j] = s[j]
    BY <1>2, <1>4, <2>2, <2>4
  <2>6. QED
    BY <1>1, <2>3, <2>4, <2>5
<1>6. ~(Len(t) < Len(s))
  <2>1. SUFFICES ASSUME Len(t) < Len(s) PROVE FALSE
    OBVIOUS
  <2>2. Len(t) + 1 \in DOMAIN s
    BY <1>1, <2>1
  <2>3. PICK j \in DOMAIN t : t[j] = s[Len(t) + 1]
    BY <1>2, <2>2
  <2>4. j \in DOMAIN s /\ j < Len(t) + 1
    BY <1>1, <2>1
  <2>5. s[j] < s[Len(t) + 1] /\ t[j] = s[j]
    BY <1>2, <1>4, <2>2, <2>4
  <2>6. QED
    BY <1>1, <2>3, <2>4, <2>5
<1>7. Len(s) = Len(t)
  <2>1. Len(s) \in Nat /\ Len(t) \in Nat
    OBVIOUS
  <2>2. QED
    BY <1>5, <1>6, <2>1
<1>8. QED
  BY <1>1, <1>4, <1>7

-----------------------------------------------------------------------------
(* Type correctness                                                        *)

LEMMA Logged ==
  ASSUME NEW u \in Updates, log \in Seq(Updates)
  PROVE  /\ Append(log, u) \in Seq(Updates)
         /\ Len(log) \in Nat /\ Len(Append(log, u)) = Len(log) + 1
         /\ \A i \in 1 .. Len(log) : Append(log, u)[i] = log[i]
OBVIOUS

\* The two paths of a command are type correct, and neither handles an update
\* before it was pushed.
THEOREM PathsTypeCorrect == Spec => []TypeOK
<1>1. Init => TypeOK
  <2>1. SUFFICES ASSUME Init PROVE TypeOK
    OBVIOUS
  <2>2. <<>> \in Seq(Updates) /\ <<>> \in Seq(Nat) /\ Len(<<>>) = 0
    OBVIOUS
  <2>3. QED
    BY <2>1, <2>2 DEF Init, TypeOK
<1>2. ASSUME TypeOK, [Next]_vars PROVE TypeOK'
  <2>0. Len(log) \in Nat
    BY <1>2 DEF TypeOK
  <2>1. ASSUME NEW u \in Updates, Push(u) PROVE TypeOK'
    <3>1. /\ log' \in Seq(Updates) /\ Len(log') = Len(log) + 1
          /\ UNCHANGED <<query, local, daemon>>
      BY <1>2, <2>1, Logged DEF TypeOK, Push
    <3>2. localNext <= Len(log) + 1 + 1 /\ daemonNext <= Len(log) + 1 + 1
      BY <1>2, <2>0 DEF TypeOK
    <3>3. QED
      BY <1>2, <3>1, <3>2 DEF TypeOK, local, daemon
  <2>2. CASE LocalHandle
    <3>1. /\ localNext' = localNext + 1 /\ localNext <= Len(log)
          /\ localQ' = localQ \/ localQ' = Append(localQ, localNext)
          /\ UNCHANGED <<query, log, localSeen, daemon>>
      BY <2>2 DEF LocalHandle
    <3>2. localNext + 1 \in Nat \ {0} /\ localNext + 1 <= Len(log) + 1
      BY <1>2, <2>0, <3>1 DEF TypeOK
    <3>3. localQ' \in Seq(Nat)
      <4>1. localQ \in Seq(Nat) /\ localSeen \in Seq(Nat) /\ localNext \in Nat
        BY <1>2 DEF TypeOK
      <4>2. QED
        BY <3>1, <4>1, Queued
    <3>4. QED
      BY <1>2, <3>1, <3>2, <3>3 DEF TypeOK, daemon
  <2>3. CASE LocalShow
    <3>1. localSeen' \in Seq(Nat) /\ localQ' \in Seq(Nat)
      BY <1>2, <2>3, Moved DEF TypeOK, LocalShow
    <3>2. QED
      BY <1>2, <2>3, <3>1 DEF TypeOK, LocalShow, daemon
  <2>4. CASE DaemonPublish
    <3>1. /\ daemonNext' = daemonNext + 1 /\ daemonNext <= Len(log)
          /\ daemonQ' = daemonQ \/ daemonQ' = Append(daemonQ, daemonNext)
          /\ dropped' = dropped \/ dropped' = dropped + 1
          /\ UNCHANGED <<query, log, local, daemonSeen>>
      BY <2>4 DEF DaemonPublish
    <3>2. /\ daemonNext + 1 \in Nat \ {0} /\ daemonNext + 1 <= Len(log) + 1
          /\ dropped + 1 \in Nat
      BY <1>2, <2>0, <3>1 DEF TypeOK
    <3>3. daemonQ' \in Seq(Nat)
      <4>1. daemonQ \in Seq(Nat) /\ daemonSeen \in Seq(Nat) /\ daemonNext \in Nat
        BY <1>2 DEF TypeOK
      <4>2. QED
        BY <3>1, <4>1, Queued
    <3>4. QED
      BY <1>2, <3>1, <3>2, <3>3 DEF TypeOK, local
  <2>5. CASE DaemonShow
    <3>1. daemonSeen' \in Seq(Nat) /\ daemonQ' \in Seq(Nat)
      BY <1>2, <2>5, Moved DEF TypeOK, DaemonShow
    <3>2. QED
      BY <1>2, <2>5, <3>1 DEF TypeOK, DaemonShow, local
  <2>6. CASE UNCHANGED vars
    BY <1>2, <2>6 DEF TypeOK, vars, local, daemon
  <2>7. QED
    BY <1>2, <2>1, <2>2, <2>3, <2>4, <2>5, <2>6 DEF Next
<1>3. QED
  BY <1>1, <1>2, PTL DEF Spec

-----------------------------------------------------------------------------
(* What is shown                                                           *)

\* The accepted updates among those handled do not change when another is pushed,
\* and gain at most the next one when it is handled.
LEMMA AcceptedSoFar ==
  ASSUME TypeOK
  PROVE  /\ \A u \in Updates, n \in Nat : Push(u) /\ n <= Len(log) =>
              LocalAccepted(n)' = LocalAccepted(n) /\ DaemonAccepted(n)' = DaemonAccepted(n)
         /\ \A n \in Nat :
              /\ LocalAccepted(n) \subseteq 1 .. n
              /\ LocalAccepted(n + 1) = LocalAccepted(n)
                   \cup {i \in {n + 1} : LocalAccepts(Filter, log[i])}
              /\ DaemonAccepted(n) \subseteq 1 .. n
              /\ DaemonAccepted(n + 1) = DaemonAccepted(n)
                   \cup {i \in {n + 1} : DaemonAccepts(Filter, log[i])}
<1>1. ASSUME NEW u \in Updates, NEW n \in Nat, Push(u), n <= Len(log)
      PROVE  LocalAccepted(n)' = LocalAccepted(n) /\ DaemonAccepted(n)' = DaemonAccepted(n)
  <2>1. log' = Append(log, u) /\ Filter' = Filter
    BY <1>1 DEF Push, Filter
  <2>2. \A i \in 1 .. n : log'[i] = log[i]
    <3>1. 1 .. n \subseteq 1 .. Len(log)
      BY <1>1, Logged DEF TypeOK
    <3>2. QED
      BY <2>1, <3>1, Logged DEF TypeOK
  <2>3. QED
    BY <2>1, <2>2 DEF LocalAccepted, DaemonAccepted
<1>2. ASSUME NEW n \in Nat PROVE 1 .. n + 1 = (1 .. n) \cup {n + 1}
  OBVIOUS
<1>3. QED
  BY <1>1, <1>2 DEF LocalAccepted, DaemonAccepted

LEMMA LocalStep ==
  ASSUME TypeOK, LocalShowsAll, [Next]_vars
  PROVE  LocalShowsAll'
<1> DEFINE Shown == localSeen \o localQ
<1>0. /\ localNext \in Nat /\ localNext - 1 \in Nat /\ localNext - 1 <= Len(log)
      /\ localSeen \in Seq(Nat) /\ localQ \in Seq(Nat) /\ Shown \in Seq(Nat)
  <2>1. Len(log) \in Nat
    BY DEF TypeOK
  <2>2. QED
    BY <2>1 DEF TypeOK
<1>1. ASSUME NEW u \in Updates, Push(u) PROVE LocalShowsAll'
  <2>1. UNCHANGED <<localNext, localSeen, localQ>>
    BY <1>1 DEF Push, local
  <2>2. LocalAccepted(localNext - 1)' = LocalAccepted(localNext - 1)
    BY <1>0, <1>1, <2>1, AcceptedSoFar
  <2>3. QED
    BY <2>1, <2>2 DEF LocalShowsAll
<1>2. CASE LocalHandle
  <2>1. /\ localNext' = localNext + 1 /\ UNCHANGED <<query, log, localSeen>>
        /\ \/ LocalAccepts(Filter, log[localNext]) /\ localQ' = Append(localQ, localNext)
           \/ ~LocalAccepts(Filter, log[localNext]) /\ localQ' = localQ
    BY <1>2 DEF LocalHandle
  <2>2. localNext' - 1 = localNext /\ (localNext - 1) + 1 = localNext
    BY <1>0, <2>1
  <2>3. LocalAccepted(localNext - 1)' = LocalAccepted(localNext)
    BY <2>1, <2>2 DEF LocalAccepted, Filter
  <2>4. /\ LocalAccepted(localNext) = LocalAccepted(localNext - 1)
             \cup {i \in {localNext} : LocalAccepts(Filter, log[i])}
        /\ LocalAccepted(localNext - 1) \subseteq 1 .. localNext - 1
    BY <1>0, <2>2, AcceptedSoFar
  <2>5. CASE LocalAccepts(Filter, log[localNext]) /\ localQ' = Append(localQ, localNext)
    <3>1. localSeen' \o localQ' = Append(Shown, localNext)
      BY <1>0, <2>1, <2>5, Queued
    <3>2. LocalAccepted(localNext) = LocalAccepted(localNext - 1) \cup {localNext}
      BY <2>4, <2>5
    <3>3. \A y \in LocalAccepted(localNext - 1) : y \in Nat /\ y < localNext
      BY <1>0, <2>4
    <3>4. Lists(Append(Shown, localNext), LocalAccepted(localNext - 1) \cup {localNext})
      BY <1>0, <3>3, ListsAppend DEF LocalShowsAll
    <3>5. QED
      BY <2>3, <3>1, <3>2, <3>4 DEF LocalShowsAll
  <2>6. CASE ~LocalAccepts(Filter, log[localNext]) /\ localQ' = localQ
    <3>1. LocalAccepted(localNext) = LocalAccepted(localNext - 1)
      BY <2>4, <2>6
    <3>2. QED
      BY <2>1, <2>3, <2>6, <3>1 DEF LocalShowsAll
  <2>7. QED
    BY <2>1, <2>5, <2>6
<1>3. CASE LocalShow
  <2>1. localSeen' \o localQ' = localSeen \o localQ
    BY <1>0, <1>3, Moved DEF LocalShow
  <2>2. LocalAccepted(localNext - 1)' = LocalAccepted(localNext - 1)
    BY <1>3 DEF LocalShow, LocalAccepted, Filter
  <2>3. QED
    BY <2>1, <2>2 DEF LocalShowsAll
<1>4. CASE UNCHANGED <<query, log, local>>
  BY <1>4 DEF local, LocalShowsAll, LocalAccepted, Filter
<1>5. QED
  BY <1>1, <1>2, <1>3, <1>4 DEF Next, DaemonPublish, DaemonShow, vars

LEMMA DaemonStep ==
  ASSUME TypeOK, DaemonShowsAll, [Next]_vars
  PROVE  DaemonShowsAll'
<1> DEFINE Shown == daemonSeen \o daemonQ
<1>0. /\ daemonNext \in Nat /\ daemonNext - 1 \in Nat /\ daemonNext - 1 <= Len(log)
      /\ daemonSeen \in Seq(Nat) /\ daemonQ \in Seq(Nat) /\ Shown \in Seq(Nat)
  <2>1. Len(log) \in Nat
    BY DEF TypeOK
  <2>2. QED
    BY <2>1 DEF TypeOK
<1>1. ASSUME NEW u \in Updates, Push(u) PROVE DaemonShowsAll'
  <2>1. UNCHANGED <<daemonNext, daemonSeen, daemonQ, dropped>>
    BY <1>1 DEF Push, daemon
  <2>2. DaemonAccepted(daemonNext - 1)' = DaemonAccepted(daemonNext - 1)
    BY <1>0, <1>1, <2>1, AcceptedSoFar
  <2>3. QED
    BY <2>1, <2>2 DEF DaemonShowsAll
<1>2. CASE DaemonPublish
  <2>1. /\ daemonNext' = daemonNext + 1 /\ UNCHANGED <<query, log, daemonSeen>>
        /\ \/ /\ DaemonAccepts(Filter, log[daemonNext])
              /\ daemonQ' = Append(daemonQ, daemonNext) /\ dropped' = dropped
           \/ dropped' = dropped + 1
           \/ ~DaemonAccepts(Filter, log[daemonNext]) /\ daemonQ' = daemonQ /\ dropped' = dropped
    BY <1>2 DEF DaemonPublish
  <2>2. daemonNext' - 1 = daemonNext /\ (daemonNext - 1) + 1 = daemonNext
    BY <1>0, <2>1
  <2>3. DaemonAccepted(daemonNext - 1)' = DaemonAccepted(daemonNext)
    BY <2>1, <2>2 DEF DaemonAccepted, Filter
  <2>4. /\ DaemonAccepted(daemonNext) = DaemonAccepted(daemonNext - 1)
             \cup {i \in {daemonNext} : DaemonAccepts(Filter, log[i])}
        /\ DaemonAccepted(daemonNext - 1) \subseteq 1 .. daemonNext - 1
    BY <1>0, <2>2, AcceptedSoFar
  <2>5. CASE /\ DaemonAccepts(Filter, log[daemonNext])
             /\ daemonQ' = Append(daemonQ, daemonNext) /\ dropped' = dropped
    <3>1. daemonSeen' \o daemonQ' = Append(Shown, daemonNext)
      BY <1>0, <2>1, <2>5, Queued
    <3>2. DaemonAccepted(daemonNext) = DaemonAccepted(daemonNext - 1) \cup {daemonNext}
      BY <2>4, <2>5
    <3>3. \A y \in DaemonAccepted(daemonNext - 1) : y \in Nat /\ y < daemonNext
      BY <1>0, <2>4
    <3>4. dropped = 0 =>
            Lists(Append(Shown, daemonNext), DaemonAccepted(daemonNext - 1) \cup {daemonNext})
      BY <1>0, <3>3, ListsAppend DEF DaemonShowsAll
    <3>5. QED
      BY <2>3, <2>5, <3>1, <3>2, <3>4 DEF DaemonShowsAll
  <2>6. CASE ~DaemonAccepts(Filter, log[daemonNext]) /\ daemonQ' = daemonQ /\ dropped' = dropped
    <3>1. DaemonAccepted(daemonNext) = DaemonAccepted(daemonNext - 1)
      BY <2>4, <2>6
    <3>2. QED
      BY <2>1, <2>3, <2>6, <3>1 DEF DaemonShowsAll
  <2>7. CASE dropped' = dropped + 1
    <3>1. dropped' # 0
      BY <2>7 DEF TypeOK
    <3>2. QED
      BY <3>1 DEF DaemonShowsAll
  <2>8. QED
    BY <2>1, <2>5, <2>6, <2>7
<1>3. CASE DaemonShow
  <2>1. daemonSeen' \o daemonQ' = daemonSeen \o daemonQ
    BY <1>0, <1>3, Moved DEF DaemonShow
  <2>2. DaemonAccepted(daemonNext - 1)' = DaemonAccepted(daemonNext - 1) /\ dropped' = dropped
    BY <1>3 DEF DaemonShow, DaemonAccepted, Filter
  <2>3. QED
    BY <2>1, <2>2 DEF DaemonShowsAll
<1>4. CASE UNCHANGED <<query, log, daemon>>
  BY <1>4 DEF daemon, DaemonShowsAll, DaemonAccepted, Filter
<1>5. QED
  BY <1>1, <1>2, <1>3, <1>4 DEF Next, LocalHandle, LocalShow, vars

LEMMA NothingShown == Init => LocalShowsAll /\ DaemonShowsAll
<1>1. SUFFICES ASSUME Init PROVE LocalShowsAll /\ DaemonShowsAll
  OBVIOUS
<1>2. /\ localSeen \o localQ = <<>> /\ daemonSeen \o daemonQ = <<>>
      /\ localNext - 1 = 0 /\ daemonNext - 1 = 0
  BY <1>1 DEF Init
<1>3. LocalAccepted(0) = {} /\ DaemonAccepted(0) = {}
  BY DEF LocalAccepted, DaemonAccepted
<1>4. Lists(<<>>, {})
  BY DEF Lists, ToSet
<1>5. QED
  BY <1>2, <1>3, <1>4 DEF LocalShowsAll, DaemonShowsAll

\* The local path shows every accepted update, in order and once: its channel blocks
\* the dispatcher (telegram/watch.go, emit).
THEOREM LocalIsComplete == Spec => []LocalShowsAll
<1>1. TypeOK /\ LocalShowsAll /\ [Next]_vars => LocalShowsAll'
  BY LocalStep
<1>2. QED
  BY <1>1, NothingShown, PathsTypeCorrect, PTL DEF Spec

\* The daemon's path shows every update the daemon accepts, in order and once, until it
\* drops one (Publish).
THEOREM DaemonIsComplete == Spec => []DaemonShowsAll
<1>1. TypeOK /\ DaemonShowsAll /\ [Next]_vars => DaemonShowsAll'
  BY DaemonStep
<1>2. QED
  BY <1>1, NothingShown, PathsTypeCorrect, PTL DEF Spec

-----------------------------------------------------------------------------
(* The two paths                                                           *)

\* The two filters agree on an update attributed to its conversation.
LEMMA FiltersAgree ==
  ASSUME NEW q \in Queries, NEW u \in Updates,
         Unauthored(u), \A r \in q.refs : ~r.self
  PROVE  LocalAccepts(FilterOf(q), u) <=> DaemonAccepts(FilterOf(q), u)
<1> DEFINE f == FilterOf(q)
<1>1. /\ u.kind \in {"message", "edit", "delete"} /\ u.ids # 0
      /\ u.from \in {NoPeer, u.chat}
  BY PushedAssumption DEF Unauthored
<1>2. NoPeer \notin f.peers
  <2>1. \A r \in q.refs : NormalizeInputPeerID(r) = r.id /\ r.id # NoPeer
    BY PushedAssumption DEF NormalizeInputPeerID
  <2>2. f.peers = {NormalizeInputPeerID(r) : r \in q.refs}
    BY DEF FilterOf
  <2>3. QED
    BY <2>1, <2>2
<1> HIDE DEF f
<1>3. CASE IsMessage(u)
  <2>1. /\ EventOf(u).kind = u.kind /\ FromIDs(EventOf(u)) = {u.chat}
        /\ u.kind # "delete"
    BY <1>1, <1>3 DEF EventOf, FromIDs, RowFromID, IsMessage
  <2>2. QED
    BY <2>1 DEF LocalAccepts, DaemonAccepts, Matches, Restricts
<1>4. CASE ~IsMessage(u)
  <2>1. /\ EventOf(u).kind = u.kind /\ FromIDs(EventOf(u)) = {u.chat}
        /\ u.kind = "delete"
    BY <1>1, <1>4 DEF EventOf, FromIDs, IsMessage
  <2>2. FromIDs(EventOf(u)) \cap f.peers # {} <=> u.chat \in f.peers
    BY <2>1
  <2>3. CASE u.chat = NoPeer
    <3>1. LocalAccepts(f, u) <=> ~Restricts(f.kinds, u.kind) /\ f.peers = {}
      BY <2>1, <2>3 DEF LocalAccepts
    <3>2. DaemonAccepts(f, u) <=>
            ~Restricts(f.kinds, u.kind) /\ (f.peers # {} => u.chat \in f.peers)
      BY <2>1, <2>2, Zenon DEF DaemonAccepts, Matches
    <3>3. (f.peers # {} => u.chat \in f.peers) <=> f.peers = {}
      BY <1>2, <2>3
    <3>4. QED
      BY <3>1, <3>2, <3>3, Zenon DEF f
  <2>4. CASE u.chat # NoPeer
    BY <2>1, <2>2, <2>4 DEF LocalAccepts, DaemonAccepts, Matches, Restricts
  <2>5. QED
    BY <2>3, <2>4
<1>5. QED
  BY <1>3, <1>4 DEF f

\* The two paths show the same events when every update is attributed to its
\* conversation, `me` is not among the refs and the daemon dropped none
\* (RegisterWatchHandlers, matches).
THEOREM PathsAgree == Spec => []SameWhenUnauthored
<1>1. TypeOK /\ LocalShowsAll /\ DaemonShowsAll => SameWhenUnauthored
  <2>1. SUFFICES ASSUME TypeOK, LocalShowsAll, DaemonShowsAll, Drained,
                        \A i \in 1 .. Len(log) : Unauthored(log[i]),
                        \A r \in query.refs : ~r.self
                 PROVE  localSeen = daemonSeen
    BY DEF SameWhenUnauthored
  <2>2. localNext - 1 = Len(log) /\ daemonNext - 1 = Len(log)
    <3>1. Len(log) \in Nat
      BY <2>1 DEF TypeOK
    <3>2. QED
      BY <2>1, <3>1 DEF TypeOK, Drained
  <2>3. localSeen \o localQ = localSeen /\ daemonSeen \o daemonQ = daemonSeen
    BY <2>1 DEF TypeOK, Drained
  <2>4. LocalAccepted(Len(log)) = DaemonAccepted(Len(log))
    <3>1. \A i \in 1 .. Len(log) : log[i] \in Updates
      BY <2>1 DEF TypeOK
    <3>2. ASSUME NEW i \in 1 .. Len(log)
          PROVE  LocalAccepts(Filter, log[i]) <=> DaemonAccepts(Filter, log[i])
      BY <2>1, <3>1, FiltersAgree DEF TypeOK, Filter
    <3>3. QED
      BY <3>2 DEF LocalAccepted, DaemonAccepted
  <2>5. /\ Lists(localSeen, LocalAccepted(Len(log)))
        /\ Lists(daemonSeen, LocalAccepted(Len(log)))
    BY <2>1, <2>2, <2>3, <2>4 DEF LocalShowsAll, DaemonShowsAll, Drained
  <2>6. QED
    BY <2>1, <2>5, SameList DEF TypeOK
<1>2. QED
  BY <1>1, PathsTypeCorrect, LocalIsComplete, DaemonIsComplete, PTL
=============================================================================

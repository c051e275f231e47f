-------------------------- MODULE MessageSendProofs --------------------------
(***************************************************************************)
(* The promises of MessageSend, for every number of runs of the command, *)
(* floods, waits and losses.                                              *)
(***************************************************************************)
EXTENDS MessageSend, FiniteSetTheorems, TLAPS

\* The id an item has in every run with a key: the stream starts over.
Keyed == {<<i, <<Key, i>>>> : i \in Items}

\* With a key, and unless a reference was refreshed, every run draws the
\* same ids, so the server only ever saw those.
SameIds ==
  (send.key /\ ~renewed) =>
    /\ request \subseteq Keyed
    /\ stored \subseteq Keyed
    /\ pc \in {"route", "prepare", "draw"} => drawn = 0

\* What a run stored is followed by its success or by the unknown, and a
\* run that goes on has no result yet.
RanEnds ==
  /\ \/ ran = {}
     \/ pc = "answered" /\ answer.what = "stored"
     \/ pc = "idle" /\ result \in {"ok", "unknown"}
  /\ pc = "idle" \/ result = "none"

Full == \A i \in Items : \E m \in stored : m[1] = i

\* An id names an item: what is sent again is not taken for another item.
\* Only a handle, which is one item, is ever refreshed.
IdsNameItems ==
  /\ \A m \in stored \cup request : m[1] \in Items
  /\ send.kind # "handle" =>
       /\ media = "fresh" /\ answer.what # "expired"
       /\ pc \in {"route", "prepare", "draw"} => drawn = 0
       /\ \A m \in stored \cup request : m[2][2] = m[1]
  /\ pc \in {"sent", "answered"} => \A i \in Items : \E m \in request : m[1] = i
  /\ pc = "answered" /\ answer.what = "stored" => Full
  /\ result = "ok" => Full

-----------------------------------------------------------------------------
\* Repeating the command reproduces its ids (message_ops.go:41).
THEOREM SameIdsCorrect == Spec => []SameIds
<1>1. Init => SameIds
  BY DEF Init, SameIds, Keyed
<1>2. SameIds /\ [Next]_vars => SameIds'
  <2>0. SUFFICES ASSUME SameIds, [Next]_vars PROVE SameIds'
    OBVIOUS
  <2>1. CASE Run
    BY <2>0, <2>1 DEF SameIds, Keyed, Items, Key, Run, setting
  <2>2. CASE Route
    BY <2>0, <2>2 DEF SameIds, Keyed, Items, Key, Route, End, setting, chat
  <2>3. CASE Prepare
    BY <2>0, <2>3 DEF SameIds, Keyed, Items, Key, Prepare, End, setting, chat
  <2>4. CASE Draw
    <3>1. SUFFICES ASSUME send.key, ~renewed PROVE request' \subseteq Keyed'
      BY <2>0, <2>4, <3>1 DEF SameIds, Keyed, Items, Key, Draw, setting, chat
    <3>2. drawn = 0
      BY <2>0, <2>4, <3>1 DEF SameIds, Draw
    <3>3. \A i \in Items : Id(i) = <<Key, i>>
      <4>1. Items \subseteq Int
        BY DEF Items
      <4>2. QED BY <3>1, <3>2, <4>1 DEF Id
    <3>4. Keyed' = Keyed
      BY <2>4 DEF Keyed, Items, Key, Draw, setting
    <3>5. QED BY <2>4, <3>3, <3>4 DEF Draw, Keyed
  <2>5. CASE Accept
    BY <2>0, <2>5 DEF SameIds, Keyed, Items, Key, Accept, New, setting
  <2>6. CASE Refuse
    BY <2>0, <2>6 DEF SameIds, Keyed, Items, Key, Refuse, setting, chat
  <2>7. CASE Lose
    BY <2>0, <2>7 DEF SameIds, Keyed, Items, Key, Lose, End, setting, chat
  <2>8. CASE Expire
    BY <2>0, <2>8 DEF SameIds, Keyed, Items, Key, Expire, setting, chat
  <2>9. CASE Sent
    BY <2>0, <2>9 DEF SameIds, Keyed, Items, Key, Sent, End, setting, chat
  <2>10. CASE Refused
    BY <2>0, <2>10 DEF SameIds, Keyed, Items, Key, Refused, End, setting, chat
  <2>11. CASE FloodFails
    BY <2>0, <2>11 DEF SameIds, Keyed, Items, Key, FloodFails, End, setting, chat
  <2>12. CASE FloodWaits
    BY <2>0, <2>12 DEF SameIds, Keyed, Items, Key, FloodWaits, End, setting, chat
  <2>13. CASE Refresh
    BY <2>0, <2>13 DEF SameIds, Keyed, Items, Key, Refresh, End, setting, chat
  <2>14. CASE UNCHANGED vars
    BY <2>0, <2>14 DEF SameIds, Keyed, Items, Key, vars
  <2>15. QED
    BY <2>0, <2>1, <2>2, <2>3, <2>4, <2>5, <2>6, <2>7, <2>8, <2>9, <2>10,
       <2>11, <2>12, <2>13, <2>14 DEF Next
<1>3. QED BY <1>1, <1>2, PTL DEF Spec

\* A set with at most one member.
LEMMA OneAtMost ==
  ASSUME NEW S, NEW e, S \subseteq {e}
  PROVE  IsFiniteSet(S) /\ Cardinality(S) <= 1
<1>1. IsFiniteSet({e}) /\ Cardinality({e}) = 1
  BY FS_Singleton
<1>2. QED BY <1>1, FS_Subset, FS_CardinalityType

\* No item is in the chat twice, however often the command is repeated.
THEOREM SentOnce == Spec => []OncePerKey
<1>1. SameIds => OncePerKey
  <2>1. SUFFICES ASSUME SameIds, send.key, ~renewed, NEW i \in Items
                 PROVE  Copies(i) <= 1
    BY DEF OncePerKey
  <2>2. {m \in stored : m[1] = i} \subseteq {<<i, <<Key, i>>>>}
    BY <2>1 DEF SameIds, Keyed
  <2>3. QED BY <2>2, OneAtMost DEF Copies
<1>2. QED BY <1>1, SameIdsCorrect, PTL

\* A run that reports a refusal has stored nothing (floodwait.go:21, the
\* refusal of newSend and whatever the server refuses).
THEOREM RefusalIsClean == Spec => []RefusalStoresNothing
<1>1. Init => RanEnds
  BY DEF Init, RanEnds
<1>2. RanEnds /\ [Next]_vars => RanEnds'
  <2>0. SUFFICES ASSUME RanEnds, [Next]_vars PROVE RanEnds'
    OBVIOUS
  <2>1. CASE Run
    BY <2>1 DEF RanEnds, Run
  <2>2. CASE Route \/ Prepare \/ Draw
    BY <2>0, <2>2 DEF RanEnds, Route, Prepare, Draw, End, chat
  <2>3. CASE Accept
    BY <2>0, <2>3 DEF RanEnds, Accept, Told
  <2>4. CASE Refuse
    BY <2>0, <2>4 DEF RanEnds, Refuse, chat
  <2>5. CASE Lose
    BY <2>0, <2>5 DEF RanEnds, Lose, End, chat
  <2>6. CASE Expire
    BY <2>0, <2>6 DEF RanEnds, Expire, chat
  <2>7. CASE Sent
    BY <2>0, <2>7 DEF RanEnds, Sent, End, chat
  <2>8. CASE Refused \/ FloodFails \/ FloodWaits \/ Refresh
    BY <2>0, <2>8 DEF RanEnds, Refused, FloodFails, FloodWaits, Refresh, IsFlood, End, chat
  <2>9. CASE UNCHANGED vars
    BY <2>0, <2>9 DEF RanEnds, vars
  <2>10. QED
    BY <2>0, <2>1, <2>2, <2>3, <2>4, <2>5, <2>6, <2>7, <2>8, <2>9 DEF Next
<1>3. RanEnds => RefusalStoresNothing
  BY DEF RanEnds, RefusalStoresNothing
<1>4. QED BY <1>1, <1>2, <1>3, PTL DEF Spec

\* A command that succeeds has everything in the chat: an id the server has
\* already is the id of the same item.
THEOREM SuccessIsComplete == Spec => []SuccessIsStored
<1>1. Init => IdsNameItems
  BY DEF Init, IdsNameItems, Told
<1>2. IdsNameItems /\ [Next]_vars => IdsNameItems'
  <2>0. SUFFICES ASSUME IdsNameItems, [Next]_vars PROVE IdsNameItems'
    OBVIOUS
  <2>1. CASE Run
    BY <2>0, <2>1 DEF IdsNameItems, Items, Full, Run, setting
  <2>2. CASE Route
    BY <2>0, <2>2 DEF IdsNameItems, Items, Full, Route, End, setting, chat
  <2>3. CASE Prepare
    BY <2>0, <2>3 DEF IdsNameItems, Items, Full, Prepare, End, setting, chat
  <2>4. CASE Draw
    <3>1. /\ Items' = Items /\ stored' = stored /\ send' = send /\ media' = media
          /\ answer' = answer /\ result' = result /\ pc' = "sent"
      BY <2>4 DEF Draw, setting, chat, Items
    <3>2. \A m \in request' : m[1] \in Items'
      BY <2>4, <3>1 DEF Draw
    <3>3. \A i \in Items' : \E m \in request' : m[1] = i
      <4>1. SUFFICES ASSUME NEW i \in Items PROVE \E m \in request' : m[1] = i
        BY <3>1
      <4>2. <<i, Id(i)>> \in request' /\ <<i, Id(i)>>[1] = i
        BY <2>4 DEF Draw
      <4>3. QED BY <4>2
    <3>4. ASSUME send.kind # "handle", NEW m \in request' PROVE m[2][2] = m[1]
      <4>1. PICK i \in Items : m = <<i, Id(i)>>
        BY <2>4 DEF Draw
      <4>2. drawn = 0 /\ i \in Int
        BY <2>0, <2>4, <3>4 DEF IdsNameItems, Draw, Items
      <4>3. QED BY <4>1, <4>2 DEF Id
    <3>5. Full' = Full
      BY <3>1 DEF Full
    <3>6. QED
      BY <2>0, <3>1, <3>2, <3>3, <3>4, <3>5 DEF IdsNameItems
  <2>5. CASE Accept
    <3>1. /\ Items' = Items /\ request' = request /\ send' = send /\ media' = media
          /\ result' = result /\ drawn' = drawn /\ pc' = "answered"
          /\ answer'.what = "stored" /\ stored' = stored \cup New /\ New \subseteq request
      BY <2>5 DEF Accept, setting, Items, New, Told
    <3>2. Full'
      <4>1. SUFFICES ASSUME NEW i \in Items PROVE \E m \in stored' : m[1] = i
        BY <3>1 DEF Full
      <4>2. PICK m \in request : m[1] = i
        BY <2>0, <2>5, <4>1 DEF IdsNameItems, Accept
      <4>3. CASE m \in New
        BY <3>1, <4>2, <4>3
      <4>4. CASE m \notin New
        <5>1. PICK s \in stored : s[2] = m[2]
          BY <4>2, <4>4 DEF New
        <5>2. s[1] = i
          <6>1. CASE send.kind = "handle"
            BY <2>0, <4>1, <5>1, <6>1 DEF IdsNameItems, Items
          <6>2. CASE send.kind # "handle"
            BY <2>0, <4>2, <5>1, <6>2 DEF IdsNameItems
          <6>3. QED BY <6>1, <6>2
        <5>3. QED BY <3>1, <5>1, <5>2
      <4>5. QED BY <4>3, <4>4
    <3>3. \A m \in stored' \cup request' : m \in stored \cup request
      BY <3>1
    <3>4. QED
      BY <2>0, <2>5, <3>1, <3>2, <3>3 DEF IdsNameItems, Accept
  <2>6. CASE Refuse
    BY <2>0, <2>6 DEF IdsNameItems, Items, Full, Refuse, Told, setting, chat
  <2>7. CASE Lose
    BY <2>0, <2>7 DEF IdsNameItems, Items, Full, Lose, End, setting, chat
  <2>8. CASE Expire
    BY <2>0, <2>8 DEF IdsNameItems, Items, Full, Expire, setting, chat
  <2>9. CASE Sent
    BY <2>0, <2>9 DEF IdsNameItems, Items, Full, Sent, End, setting, chat
  <2>10. CASE Refused
    BY <2>0, <2>10 DEF IdsNameItems, Items, Full, Refused, End, setting, chat
  <2>11. CASE FloodFails
    BY <2>0, <2>11 DEF IdsNameItems, Items, Full, FloodFails, End, setting, chat
  <2>12. CASE FloodWaits
    BY <2>0, <2>12 DEF IdsNameItems, Items, Full, FloodWaits, End, setting, chat
  <2>13. CASE Refresh
    BY <2>0, <2>13 DEF IdsNameItems, Items, Full, Refresh, End, setting, chat
  <2>14. CASE UNCHANGED vars
    BY <2>0, <2>14 DEF IdsNameItems, Items, Full, vars
  <2>15. QED
    BY <2>0, <2>1, <2>2, <2>3, <2>4, <2>5, <2>6, <2>7, <2>8, <2>9, <2>10,
       <2>11, <2>12, <2>13, <2>14 DEF Next
<1>3. IdsNameItems => SuccessIsStored
  BY DEF IdsNameItems, SuccessIsStored, Full
<1>4. QED BY <1>1, <1>2, <1>3, PTL DEF Spec
=============================================================================

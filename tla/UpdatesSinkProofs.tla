-------------------------- MODULE UpdatesSinkProofs --------------------------
(***************************************************************************)
(* The promises of UpdatesSink, for any size of the file and the channel,  *)
(* any number of events, failing calls and runs.                           *)
(***************************************************************************)
EXTENDS UpdatesSink, FiniteSetTheorems, TLAPS

QueueOK   == arrived \in Nat /\ queue \in Seq(Nat) /\ hand \in Nat
DiskOK    == /\ cur \in Seq(Nat) \cup {NoFile} /\ bak \in Seq(Nat) \cup {NoFile}
             /\ torn \in BOOLEAN /\ written \in Nat
HistoryOK == published \in Seq(Nat) /\ wrote \in Seq(Nat)

\* The file is away only between its renaming and the opening of a new one.
FileOpen == pump \in Running \ {"rot open"} => cur # NoFile

TypeOK ==
  /\ pump \in {"down", "returned"} \cup Running
  /\ QueueOK /\ DiskOK /\ HistoryOK /\ overruns \in Nat
  /\ FileOpen

\* The write of the event in hand is done.
Done == {"publish"} \cup Rotating

\* Events go through the pump in the order they arrived in: what is queued is
\* later than what is in hand, and that than what was written and published.
Sequenced ==
  /\ Increasing(queue) /\ Increasing(wrote) /\ Increasing(published)
  /\ hand <= arrived
  /\ \A x \in ToSet(wrote) : x <= arrived
  /\ \A q \in ToSet(queue) :
       /\ 0 < q /\ q <= arrived
       /\ \A x \in ToSet(wrote) : x < q
       /\ pump \in {"write"} \cup Done => hand < q
  /\ pump = "write" => 0 < hand /\ \A x \in ToSet(wrote) : x < hand
  /\ pump \in Done => hand \in ToSet(wrote) /\ \A x \in ToSet(published) : x < hand
  /\ ToSet(published) \subseteq ToSet(wrote)

\* The events of a file are in order, whatever is garbled between them.
Ordered(f) == \A i, j \in EventsAt(f) : i < j => f[i] < f[j]

-----------------------------------------------------------------------------
(* Sequences                                                               *)

LEMMA Dequeue ==
  ASSUME NEW s \in Seq(Nat), s # <<>>
  PROVE  /\ Head(s) \in Nat /\ Tail(s) \in Seq(Nat)
         /\ Head(s) \in ToSet(s) /\ ToSet(Tail(s)) \subseteq ToSet(s)
         /\ Increasing(s) =>
              /\ Increasing(Tail(s))
              /\ \A x \in ToSet(Tail(s)) : Head(s) < x
<1> DEFINE t == Tail(s)
<1>1. /\ Head(s) = s[1] /\ s[1] \in Nat /\ Len(s) \in Nat \ {0} /\ t \in Seq(Nat)
      /\ DOMAIN s = 1 .. Len(s) /\ DOMAIN t = 1 .. Len(s) - 1
      /\ \A i \in DOMAIN t : t[i] = s[i + 1]
  OBVIOUS
<1> HIDE DEF t
<1>2. \A i \in DOMAIN t : i + 1 \in DOMAIN s /\ t[i] = s[i + 1] /\ i \in Nat /\ 1 < i + 1
  BY <1>1
<1>3. 1 \in DOMAIN s
  BY <1>1
<1>4. s[1] \in ToSet(s) /\ ToSet(t) \subseteq ToSet(s)
  BY <1>2, <1>3 DEF ToSet
<1>5. ASSUME Increasing(s) PROVE Increasing(t) /\ \A x \in ToSet(t) : s[1] < x
  <2>1. \A x \in ToSet(t) : s[1] < x
    BY <1>2, <1>3, <1>5 DEF Increasing, ToSet
  <2>2. ASSUME NEW i \in DOMAIN t, NEW j \in DOMAIN t, i < j PROVE t[i] < t[j]
    <3>1. i + 1 < j + 1
      BY <1>2, <2>2
    <3>2. QED
      BY <1>2, <1>5, <3>1 DEF Increasing
  <2>3. QED
    BY <2>1, <2>2 DEF Increasing
<1>6. QED
  BY <1>1, <1>4, <1>5 DEF t

LEMMA Enqueue ==
  ASSUME NEW s \in Seq(Nat), NEW x \in Nat
  PROVE  /\ Append(s, x) \in Seq(Nat)
         /\ ToSet(Append(s, x)) = ToSet(s) \cup {x}
         /\ Increasing(s) /\ (\A y \in ToSet(s) : y < x) => Increasing(Append(s, x))
<1> DEFINE t == Append(s, x)
<1>1. /\ t \in Seq(Nat) /\ Len(s) \in Nat
      /\ DOMAIN s = 1 .. Len(s) /\ DOMAIN t = 1 .. Len(s) + 1
      /\ \A i \in DOMAIN s : t[i] = s[i]
      /\ t[Len(s) + 1] = x
  OBVIOUS
<1> HIDE DEF t
<1>2. \A i \in DOMAIN t : i \in DOMAIN s \/ i = Len(s) + 1
  BY <1>1
<1>3. DOMAIN s \subseteq DOMAIN t /\ Len(s) + 1 \in DOMAIN t
  BY <1>1
<1>4. ToSet(t) = ToSet(s) \cup {x}
  BY <1>1, <1>2, <1>3 DEF ToSet
<1>5. ASSUME Increasing(s), \A y \in ToSet(s) : y < x PROVE Increasing(t)
  <2>1. SUFFICES ASSUME NEW i \in DOMAIN t, NEW j \in DOMAIN t, i < j PROVE t[i] < t[j]
    BY DEF Increasing
  <2>2. i \in DOMAIN s
    BY <1>1, <2>1
  <2>3. s[i] \in ToSet(s)
    BY <2>2 DEF ToSet
  <2>4. CASE j \in DOMAIN s
    BY <1>1, <1>5, <2>1, <2>2, <2>4 DEF Increasing
  <2>5. CASE j = Len(s) + 1
    BY <1>1, <1>5, <2>2, <2>3, <2>5
  <2>6. QED
    BY <1>2, <2>4, <2>5
<1>6. QED
  BY <1>1, <1>4, <1>5 DEF t

LEMMA Numbered == \A s \in Seq(Nat) : \A x \in ToSet(s) : x \in Nat
BY DEF ToSet

\* A piece at the end of a file.
LEMMA AppendPiece ==
  ASSUME NEW f \in Seq(Nat), NEW x \in Nat
  PROVE  /\ Append(f, x) \in Seq(Nat) /\ Append(f, x) # NoFile
         /\ Len(f) \in Nat /\ Len(Append(f, x)) = Len(f) + 1
         /\ EventsOf(Append(f, x)) = EventsOf(f) \cup ({x} \ {Garbled})
         /\ Ordered(f) /\ (x = Garbled \/ \A e \in EventsOf(f) : e < x)
              => Ordered(Append(f, x))
<1> DEFINE t == Append(f, x)
<1>1. /\ t \in Seq(Nat) /\ Len(f) \in Nat /\ Len(t) = Len(f) + 1
      /\ DOMAIN f = 1 .. Len(f) /\ DOMAIN t = 1 .. Len(f) + 1
      /\ \A i \in DOMAIN f : t[i] = f[i]
      /\ t[Len(f) + 1] = x
  OBVIOUS
<1> HIDE DEF t
<1>2. t # NoFile
  <2>1. NoFile \notin Seq(Nat)
    BY DEF NoFile
  <2>2. QED
    BY <1>1, <2>1
<1>3. /\ \A i \in EventsAt(f) : i \in EventsAt(t) /\ t[i] = f[i] /\ i \in 1 .. Len(f)
      /\ \A i \in EventsAt(t) :
           \/ i \in EventsAt(f) /\ t[i] = f[i]
           \/ i = Len(f) + 1 /\ t[i] = x /\ x # Garbled
      /\ x # Garbled => Len(f) + 1 \in EventsAt(t)
  BY <1>1 DEF EventsAt
<1>4. EventsOf(t) = EventsOf(f) \cup ({x} \ {Garbled})
  BY <1>1, <1>3 DEF EventsOf
<1>5. ASSUME Ordered(f),
             x = Garbled \/ \A e \in EventsOf(f) : e < x,
             NEW i \in EventsAt(t), NEW j \in EventsAt(t), i < j
      PROVE  t[i] < t[j]
  <2>1. i \in EventsAt(f)
    BY <1>1, <1>3, <1>5
  <2>2. f[i] \in EventsOf(f)
    BY <2>1 DEF EventsOf
  <2>3. QED
    BY <1>3, <1>5, <2>1, <2>2 DEF Ordered
<1>6. QED
  BY <1>1, <1>2, <1>4, <1>5 DEF t, Ordered

LEMMA AppendGarbled ==
  ASSUME NEW f \in Seq(Nat), Ordered(f)
  PROVE  /\ EventsOf(Append(f, Garbled)) = EventsOf(f) /\ Ordered(Append(f, Garbled))
         /\ Len(Append(f, Garbled)) = Len(f) + 1
<1>1. Garbled \in Nat
  BY DEF Garbled
<1>2. EventsOf(Append(f, Garbled)) = EventsOf(f) \cup ({Garbled} \ {Garbled})
  BY <1>1, AppendPiece
<1>3. EventsOf(Append(f, Garbled)) = EventsOf(f)
  BY <1>2
<1>4. QED
  BY <1>1, <1>3, AppendPiece

-----------------------------------------------------------------------------
LEMMA TypeStep ==
  ASSUME TypeOK, [Next]_vars
  PROVE  TypeOK'
<1>1. pump' \in {"down", "returned"} \cup Running
  <2>1. CASE UNCHANGED pump
    BY <2>1 DEF TypeOK
  <2>2. CASE pump' \in {"down", "returned", "select", "write", "publish"} \cup Rotating
    BY <2>2 DEF Running
  <2>3. CASE UNCHANGED vars \/ Cancel \/ Emit
    BY <2>1, <2>3 DEF vars, Cancel, Emit
  <2>4. CASE Start \/ Kill \/ Exit \/ PumpDone \/ PumpReceive \/ WriteFails \/ PublishEvent
    BY <2>2, <2>4 DEF Start, Kill, Exit, PumpDone, PumpReceive, WriteFails, PublishEvent
  <2>5. CASE WriteOK \/ RotClose \/ RotRemove \/ RotRename \/ RotOpen
    BY <2>2, <2>5 DEF WriteOK, RotClose, RotRemove, RotRename, RotOpen, Rotating
  <2>6. CASE RotCloseFails \/ RotRenameFails \/ RotOpenFails
    BY <2>2, <2>6 DEF RotCloseFails, RotRenameFails, RotOpenFails, GiveUp
  <2>7. QED
    BY <2>3, <2>4, <2>5, <2>6 DEF Next, PumpStep
<1>2. overruns' \in Nat
  <2>1. CASE Kill \/ WriteFails \/ RotCloseFails \/ RotRenameFails
    <3>1. overruns' = overruns \/ overruns' = overruns + 1
      BY <2>1 DEF Kill, WriteFails, RotCloseFails, RotRenameFails, GiveUp
    <3>2. QED
      BY <3>1 DEF TypeOK
  <2>2. CASE UNCHANGED overruns
    BY <2>2 DEF TypeOK
  <2>3. QED
    BY <2>1, <2>2 DEF Next, vars, Start, Cancel, Exit, Emit, PumpStep, PumpDone, PumpReceive,
       WriteOK, PublishEvent, RotClose, RotRemove, RotRename, RotOpen, RotOpenFails
<1>3. QueueOK'
  <2>1. CASE UNCHANGED <<arrived, queue, hand>>
    BY <2>1 DEF TypeOK, QueueOK
  <2>2. CASE Start \/ PublishEvent
    <3>1. <<>> \in Seq(Nat)
      OBVIOUS
    <3>2. QED
      <4>1. 0 \in Nat
        OBVIOUS
      <4>2. QED
        BY <2>2, <3>1, <4>1, Zenon DEF TypeOK, QueueOK, Start, PublishEvent
  <2>3. CASE Emit
    BY <2>3, Enqueue DEF TypeOK, QueueOK, Emit
  <2>4. CASE PumpReceive
    BY <2>4, Dequeue DEF TypeOK, QueueOK, PumpReceive
  <2>5. QED
    BY <2>1, <2>2, <2>3, <2>4 DEF Next, vars, Cancel, Kill, Exit, PumpStep, PumpDone, WriteOK,
       WriteFails, RotClose, RotCloseFails, RotRemove, RotRename, RotRenameFails, RotOpen,
       RotOpenFails, GiveUp
<1>4. HistoryOK'
  <2>1. CASE UNCHANGED history
    BY <2>1 DEF TypeOK, HistoryOK, history
  <2>2. CASE WriteOK
    BY <2>2, Enqueue DEF TypeOK, QueueOK, HistoryOK, WriteOK
  <2>3. CASE PublishEvent
    BY <2>3, Enqueue DEF TypeOK, QueueOK, HistoryOK, PublishEvent
  <2>4. QED
    BY <2>1, <2>2, <2>3 DEF Next, vars, history, Start, Cancel, Kill, Exit, Emit, PumpStep,
       PumpDone, PumpReceive, WriteFails, RotClose, RotCloseFails, RotRemove, RotRename,
       RotRenameFails, RotOpen, RotOpenFails, GiveUp
<1>5. DiskOK' /\ FileOpen'
  <2>1. CASE UNCHANGED disk /\ (pump' \in Running \ {"rot open"} => pump \in Running \ {"rot open"})
    BY <2>1 DEF TypeOK, DiskOK, FileOpen, disk
  <2>2. CASE Start
    <3>1. Lines(cur) \in Seq(Nat) /\ Len(Lines(cur)) \in Nat
      BY DEF TypeOK, DiskOK, Lines
    <3>2. Lines(cur) # NoFile
      BY <3>1 DEF NoFile
    <3>3. QED
      BY <2>2, <3>1, <3>2 DEF TypeOK, DiskOK, FileOpen, Start
  <2>3. CASE WriteOK \/ WriteFails
    <3>1. pump = "write" /\ cur # NoFile
      BY <2>3 DEF WriteOK, WriteFails, TypeOK, FileOpen, Running
    <3>2. cur \in Seq(Nat) /\ Garbled \in Nat /\ hand \in Nat
      BY <3>1 DEF TypeOK, DiskOK, QueueOK, Garbled
    <3>3. cur' \in Seq(Nat) /\ cur' # NoFile
      <4>1. cur' = cur \/ \E x \in Nat : cur' = Append(cur, x)
        BY <2>3, <3>2 DEF WriteOK, WriteFails
      <4>2. QED
        BY <3>1, <3>2, <4>1, AppendPiece
    <3>4. QED
      <4>1. torn' \in BOOLEAN /\ bak' = bak
        BY <2>3 DEF WriteOK, WriteFails, TypeOK, DiskOK
      <4>2. written' \in {written, written + 1}
        BY <2>3 DEF WriteOK, WriteFails
      <4>3. QED
        <5>1. written' \in Nat
          BY <4>2 DEF TypeOK, DiskOK
        <5>2. QED
          BY <3>3, <4>1, <5>1 DEF TypeOK, DiskOK, FileOpen
  <2>4. CASE RotRemove \/ RotRename
    BY <2>4 DEF RotRemove, RotRename, TypeOK, DiskOK, FileOpen, Running, Rotating
  <2>5. CASE RotOpen
    <3>1. <<>> # NoFile /\ <<>> \in Seq(Nat)
      BY DEF NoFile
    <3>2. QED
      BY <2>5, <3>1 DEF RotOpen, TypeOK, DiskOK, FileOpen
  <2>6. CASE RotCloseFails \/ RotRenameFails \/ RotOpenFails \/ PumpDone \/ Kill \/ Exit
    <3>1. UNCHANGED disk /\ pump' \notin Running
      BY <2>6 DEF RotCloseFails, RotRenameFails, RotOpenFails, PumpDone, Kill, Exit, GiveUp,
         disk, Running, Rotating
    <3>2. QED
      BY <2>1, <3>1
  <2>7. CASE Cancel \/ Emit \/ PumpReceive \/ PublishEvent \/ RotClose
    <3>1. pump \in Running \ {"rot open"} \/ UNCHANGED pump
      BY <2>7 DEF Cancel, Emit, PumpReceive, PublishEvent, RotClose, Running, Rotating
    <3>2. UNCHANGED disk
      BY <2>7 DEF Cancel, Emit, PumpReceive, PublishEvent, RotClose
    <3>3. QED
      BY <2>1, <3>1, <3>2
  <2>8. CASE UNCHANGED vars
    BY <2>1, <2>8 DEF vars, disk
  <2>9. QED
    BY <2>2, <2>3, <2>4, <2>5, <2>6, <2>7, <2>8 DEF Next, PumpStep
<1>6. QED
  BY <1>1, <1>2, <1>3, <1>4, <1>5 DEF TypeOK

\* The sink is type correct.
THEOREM SinkTypeCorrect == Spec => []TypeOK
<1>1. Init => TypeOK
  <2>1. Init => queue \in Seq(Nat) /\ published \in Seq(Nat) /\ wrote \in Seq(Nat)
    BY DEF Init
  <2>2. QED
    <3>1. Init => QueueOK /\ HistoryOK /\ overruns \in Nat
      BY <2>1 DEF Init, QueueOK, HistoryOK
    <3>2. Init => DiskOK
      <4>1. 0 \in Nat /\ FALSE \in BOOLEAN
        OBVIOUS
      <4>2. QED
        BY <4>1, Zenon DEF Init, DiskOK
    <3>3. Init => pump = "down" /\ FileOpen
      BY DEF Init, FileOpen, Running, Rotating
    <3>4. QED
      BY <3>1, <3>2, <3>3 DEF TypeOK
<1>2. TypeOK /\ [Next]_vars => TypeOK'
  BY TypeStep
<1>3. QED
  BY <1>1, <1>2, PTL DEF Spec

-----------------------------------------------------------------------------
(* Order                                                                   *)

LEMMA SequencedStep ==
  ASSUME TypeOK, Sequenced, [Next]_vars
  PROVE  Sequenced'
<1>0. /\ arrived \in Nat /\ hand \in Nat /\ queue \in Seq(Nat)
      /\ wrote \in Seq(Nat) /\ published \in Seq(Nat)
  BY DEF TypeOK, QueueOK, HistoryOK
<1>1. CASE UNCHANGED <<arrived, queue, hand, wrote, published>> /\
            (pump' \in {"write"} \cup Done => (pump \in Done /\ pump' \in Done) \/ pump' = pump)
  <2>1. "write" \notin Done
    BY DEF Done, Rotating
  <2>2. /\ pump' = "write" => pump = "write"
        /\ pump' \in Done => pump \in Done
        /\ pump' \in {"write"} \cup Done => pump \in {"write"} \cup Done
    BY <1>1, <2>1
  <2>3. QED
    BY <1>1, <2>2 DEF Sequenced
<1>2. CASE Start
  <2>1. ToSet(queue') = {} /\ Increasing(queue')
    BY <1>2 DEF Start, ToSet, Increasing
  <2>2. /\ pump' = "select" /\ hand' = 0 /\ UNCHANGED <<arrived, wrote, published>>
    BY <1>2 DEF Start, history
  <2>3. 0 <= arrived
    BY <1>0
  <2>4. QED
    BY <2>1, <2>2, <2>3 DEF Sequenced, Done, Rotating
<1>3. CASE Emit
  <2>1. /\ arrived' = arrived + 1 /\ UNCHANGED <<pump, hand, wrote, published>>
        /\ queue' = queue \/ queue' = Append(queue, arrived + 1)
    BY <1>3 DEF Emit, history
  <2>2. \A q \in ToSet(queue) : q \in Nat /\ q < arrived + 1
    <3>1. \A q \in ToSet(queue) : q \in Nat /\ q <= arrived
      BY <1>0, Numbered DEF Sequenced
    <3>2. QED
      BY <1>0, <3>1
  <2>3. /\ Increasing(queue')
        /\ \A q \in ToSet(queue') : q \in ToSet(queue) \/ q = arrived + 1
    <3>1. CASE queue' = queue
      BY <3>1 DEF Sequenced
    <3>2. CASE queue' = Append(queue, arrived + 1)
      <4>1. arrived + 1 \in Nat /\ Increasing(queue)
        BY <1>0 DEF Sequenced
      <4>2. QED
        BY <1>0, <2>2, <3>2, <4>1, Enqueue
    <3>3. QED
      BY <2>1, <3>1, <3>2
  <2>4. \A x \in ToSet(wrote) : x \in Nat /\ x < arrived + 1 /\ x <= arrived + 1
    <3>1. \A x \in ToSet(wrote) : x \in Nat /\ x <= arrived
      BY <1>0, Numbered DEF Sequenced
    <3>2. QED
      BY <1>0, <3>1
  <2>5. hand < arrived + 1 /\ hand <= arrived + 1
    BY <1>0 DEF Sequenced
  <2>6. ASSUME NEW q \in ToSet(queue')
        PROVE  /\ 0 < q /\ q <= arrived + 1
               /\ \A x \in ToSet(wrote) : x < q
               /\ pump \in {"write"} \cup Done => hand < q
    <3>1. CASE q \in ToSet(queue)
      <4>1. /\ 0 < q /\ q <= arrived + 1
        BY <1>0, <2>2, <3>1 DEF Sequenced
      <4>2. QED
        BY <3>1, <4>1 DEF Sequenced
    <3>2. CASE q = arrived + 1
      BY <1>0, <2>4, <2>5, <3>2
    <3>3. QED
      BY <2>3, <2>6, <3>1, <3>2
  <2>7. QED
    BY <2>1, <2>3, <2>4, <2>5, <2>6 DEF Sequenced
<1>4. CASE PumpReceive
  <2>1. /\ queue # <<>> /\ hand' = Head(queue) /\ queue' = Tail(queue) /\ pump' = "write"
        /\ UNCHANGED <<arrived, wrote, published>>
    BY <1>4 DEF PumpReceive, history
  <2>2. /\ hand' \in ToSet(queue) /\ ToSet(queue') \subseteq ToSet(queue)
        /\ Increasing(queue') /\ \A q \in ToSet(queue') : hand' < q
    BY <1>0, <2>1, Dequeue DEF Sequenced
  <2>3. pump' \notin Done
    BY <2>1 DEF Done, Rotating
  <2>4. QED
    BY <2>1, <2>2, <2>3 DEF Sequenced
<1>5. CASE WriteOK
  <2>1. /\ pump = "write" /\ wrote' = Append(wrote, hand) /\ pump' \in {"rot close", "publish"}
        /\ UNCHANGED <<arrived, queue, hand, published>>
    BY <1>5 DEF WriteOK
  <2>2. ToSet(wrote') = ToSet(wrote) \cup {hand} /\ Increasing(wrote')
    BY <1>0, <2>1, Enqueue DEF Sequenced
  <2>3. pump' # "write"
    BY <2>1
  <2>4. \A x \in ToSet(published) : x < hand
    BY <2>1 DEF Sequenced
  <2>5. QED
    BY <2>1, <2>2, <2>3, <2>4 DEF Sequenced
<1>6. CASE PublishEvent
  <2>1. /\ pump = "publish" /\ published' = Append(published, hand)
        /\ pump' = "select" /\ hand' = 0 /\ UNCHANGED <<arrived, queue, wrote>>
    BY <1>6 DEF PublishEvent
  <2>2. ToSet(published') = ToSet(published) \cup {hand} /\ Increasing(published')
    BY <1>0, <2>1, Enqueue DEF Sequenced, Done
  <2>3. hand \in ToSet(wrote)
    BY <2>1 DEF Sequenced, Done
  <2>4. pump' \notin {"write"} \cup Done /\ 0 <= arrived
    BY <1>0, <2>1 DEF Done, Rotating
  <2>5. QED
    BY <2>1, <2>2, <2>3, <2>4 DEF Sequenced
<1>7. CASE UNCHANGED vars
  BY <1>1, <1>7 DEF vars
<1>8. CASE Cancel \/ Kill \/ Exit \/ PumpDone
  BY <1>1, <1>8 DEF Cancel, Kill, Exit, PumpDone, history, Done, Rotating
<1>9. CASE WriteFails \/ RotCloseFails \/ RotRenameFails \/ RotOpenFails
  BY <1>1, <1>9 DEF WriteFails, RotCloseFails, RotRenameFails, RotOpenFails, GiveUp,
     history, Done, Rotating
<1>10. CASE RotClose \/ RotRemove \/ RotRename \/ RotOpen
  BY <1>1, <1>10 DEF RotClose, RotRemove, RotRename, RotOpen, history, Done, Rotating
<1>11. QED
  BY <1>2, <1>3, <1>4, <1>5, <1>6, <1>7, <1>8, <1>9, <1>10 DEF Next, PumpStep

LEMMA SequencedHolds == Spec => []Sequenced
<1>1. Init => Sequenced
  <2>1. SUFFICES ASSUME Init PROVE Sequenced
    OBVIOUS
  <2>2. /\ ToSet(queue) = {} /\ ToSet(wrote) = {} /\ ToSet(published) = {}
        /\ Increasing(queue) /\ Increasing(wrote) /\ Increasing(published)
    BY <2>1 DEF Init, ToSet, Increasing
  <2>3. hand <= arrived /\ pump \notin {"write"} \cup Done
    BY <2>1 DEF Init, Done, Rotating
  <2>4. QED
    BY <2>2, <2>3 DEF Sequenced
<1>2. TypeOK /\ Sequenced /\ [Next]_vars => Sequenced'
  BY SequencedStep
<1>3. QED
  BY <1>1, <1>2, SinkTypeCorrect, PTL DEF Spec

\* Clients are shown what was written, in its order (pumpEvents).
THEOREM PublishedAfterWrite == Spec => []PublishedWasWritten
<1>1. Sequenced => PublishedWasWritten
  BY DEF Sequenced, PublishedWasWritten
<1>2. QED
  BY <1>1, SequencedHolds, PTL

-----------------------------------------------------------------------------
(* Size                                                                    *)

Size == Len(Lines(cur))

\* The steps of a rotation that leave the full file in its place.
Full == Rotating \ {"rot open"}

\* In a run, the counter is the size of the file it counts; it is at the limit
\* when the file is rotated, and the file is away before a new one is opened.
CounterExact == pump \in Running \ {"rot open"} => Size = written
AtLimit      == pump \in Full => MaxSize <= written
FileAway     == pump = "rot open" => cur = NoFile
SizeKept     == Size < MaxSize + overruns \/ (pump \in Full /\ Size <= MaxSize + overruns)

Sized == CounterExact /\ AtLimit /\ FileAway /\ SizeKept

LEMMA LinesOf ==
  /\ Lines(NoFile) = <<>> /\ Len(<<>>) = 0
  /\ \A f \in Seq(Nat) : f # NoFile /\ Lines(f) = f /\ Len(f) \in Nat
BY DEF Lines, NoFile

LEMMA SizedStep ==
  ASSUME TypeOK, Sized, [Next]_vars
  PROVE  Sized'
<1>0. /\ Lines(cur) \in Seq(Nat) /\ Size \in Nat /\ written \in Nat
      /\ overruns \in Nat /\ MaxSize \in Nat /\ 0 < MaxSize
  BY SinkAssumption DEF TypeOK, DiskOK, Lines, Size
<1>1. CASE Start
  <2>1. cur' = Lines(cur) /\ written' = Size /\ pump' = "select"
    BY <1>1 DEF Start, Size
  <2>2. overruns' = overruns /\ pump = "down"
    BY <1>1 DEF Start
  <2>3. Size' = Size
    BY <1>0, <2>1, LinesOf DEF Size
  <2>4. pump \notin Full /\ pump' \notin Full /\ pump' # "rot open"
    BY <2>1, <2>2 DEF Full, Rotating
  <2>5. QED
    BY <2>1, <2>2, <2>3, <2>4 DEF Sized, CounterExact, AtLimit, FileAway, SizeKept
<1>2. CASE WriteOK
  <2>1. pump = "write" /\ pump \in Running \ {"rot open"} /\ pump \notin Full
    BY <1>2 DEF WriteOK, Running, Full, Rotating
  <2>2. cur \in Seq(Nat) /\ (IF torn THEN Garbled ELSE hand) \in Nat
    BY <2>1 DEF TypeOK, DiskOK, QueueOK, FileOpen, Garbled
  <2>3. Lines(cur') = Append(cur, IF torn THEN Garbled ELSE hand) /\ Lines(cur) = cur
    BY <1>2, <2>2, LinesOf, AppendPiece DEF WriteOK
  <2>4. Size' = Size + 1
    BY <2>2, <2>3, AppendPiece DEF Size
  <2>5. written' = written + 1 /\ overruns' = overruns
    BY <1>2 DEF WriteOK
  <2>6. Size = written /\ Size < MaxSize + overruns
    BY <2>1 DEF Sized, CounterExact, SizeKept
  <2>7. Size' = written' /\ Size' <= MaxSize + overruns'
    BY <1>0, <2>4, <2>5, <2>6
  <2>8. CASE pump' = "rot close" /\ MaxSize <= written'
    <3>1. pump' \in Full
      BY <2>8 DEF Full, Rotating
    <3>2. QED
      BY <2>7, <2>8, <3>1 DEF Sized, CounterExact, AtLimit, FileAway, SizeKept
  <2>9. CASE pump' = "publish" /\ written' < MaxSize
    <3>1. pump' \notin Full
      BY <2>9 DEF Full, Rotating
    <3>2. Size' < MaxSize + overruns'
      <4>1. written + 1 < MaxSize
        BY <2>5, <2>9
      <4>2. Size + 1 < MaxSize + overruns
        BY <1>0, <2>6, <4>1
      <4>3. QED
        BY <2>4, <2>5, <4>2
    <3>3. QED
      BY <2>7, <2>9, <3>1, <3>2 DEF Sized, CounterExact, AtLimit, FileAway, SizeKept
  <2>10. \/ pump' = "rot close" /\ MaxSize <= written'
         \/ pump' = "publish" /\ written' < MaxSize
    <3>1. CASE written + 1 >= MaxSize
      BY <1>2, <2>5, <3>1 DEF WriteOK
    <3>2. CASE ~(written + 1 >= MaxSize)
      <4>1. written + 1 < MaxSize
        BY <1>0, <3>2
      <4>2. QED
        BY <1>2, <2>5, <3>2, <4>1 DEF WriteOK
    <3>3. QED
      BY <3>1, <3>2
  <2>11. QED
    BY <2>8, <2>9, <2>10
<1>3. CASE WriteFails
  <2>1. pump = "write" /\ pump \notin Full
    BY <1>3 DEF WriteFails, Full, Rotating
  <2>2. pump \in Running \ {"rot open"}
    BY <2>1 DEF Running
  <2>3. cur \in Seq(Nat) /\ Garbled \in Nat
    BY <2>2 DEF TypeOK, DiskOK, FileOpen, Garbled
  <2>4. pump' \notin Running /\ pump' \notin Full /\ pump' # "rot open"
    BY <1>3 DEF WriteFails, Running, Rotating, Full
  <2>5. \/ Size' = Size /\ overruns' = overruns
        \/ Size' = Size + 1 /\ overruns' = overruns + 1
    <3>1. \/ cur' = cur /\ overruns' = overruns
          \/ cur' = Append(cur, Garbled) /\ overruns' = overruns + 1
      BY <1>3 DEF WriteFails
    <3>2. /\ Lines(cur) = cur /\ Lines(Append(cur, Garbled)) = Append(cur, Garbled)
          /\ Len(Append(cur, Garbled)) = Len(cur) + 1
      BY <2>3, LinesOf, AppendPiece
    <3>3. QED
      BY <3>1, <3>2 DEF Size
  <2>6. Size < MaxSize + overruns
    BY <2>1 DEF Sized, SizeKept
  <2>7. Size' < MaxSize + overruns'
    BY <1>0, <2>5, <2>6
  <2>8. QED
    BY <2>4, <2>7 DEF Sized, CounterExact, AtLimit, FileAway, SizeKept
<1>4. CASE RotRename \/ RotOpen
  <2>1. /\ \/ pump' = "rot open" /\ cur' = NoFile
           \/ pump' = "publish" /\ cur' = <<>> /\ written' = 0
        /\ overruns' = overruns
    BY <1>4, Zenon DEF RotRename, RotOpen
  <2>2. Size' = 0
    <3>1. <<>> \in Seq(Nat)
      OBVIOUS
    <3>2. QED
      BY <2>1, <3>1, LinesOf DEF Size
  <2>3. pump' \notin Full
    BY <2>1 DEF Full, Rotating
  <2>4. Size' < MaxSize + overruns'
    <3>1. 0 < MaxSize + overruns
      BY <1>0
    <3>2. QED
      BY <2>1, <2>2, <3>1
  <2>5. QED
    BY <2>1, <2>2, <2>3, <2>4 DEF Sized, CounterExact, AtLimit, FileAway, SizeKept
<1>5. CASE /\ UNCHANGED <<cur, written, overruns>>
           /\ pump' \in Full <=> pump \in Full
           /\ pump' \in Running \ {"rot open"} => pump \in Running \ {"rot open"}
           /\ pump' = "rot open" => pump = "rot open"
  <2>1. Size' = Size
    BY <1>5 DEF Size
  <2>2. CounterExact' /\ AtLimit' /\ FileAway' /\ SizeKept'
    BY <1>5, <2>1 DEF Sized, CounterExact, AtLimit, FileAway, SizeKept
  <2>3. QED
    BY <2>2 DEF Sized
<1>6. CASE UNCHANGED vars \/ Cancel \/ Emit
  BY <1>5, <1>6 DEF vars, Cancel, Emit, disk
<1>7. CASE Exit \/ PumpDone \/ PumpReceive \/ PublishEvent
  BY <1>5, <1>7 DEF Exit, PumpDone, PumpReceive, PublishEvent, disk, Running, Full, Rotating
<1>8. CASE RotClose \/ RotRemove \/ RotOpenFails
  BY <1>5, <1>8 DEF RotClose, RotRemove, RotOpenFails, disk, Running, Full, Rotating
<1>9. CASE Kill \/ RotCloseFails \/ RotRenameFails
  <2>1. UNCHANGED <<cur, written>> /\ pump' \notin Running
    BY <1>9 DEF Kill, RotCloseFails, RotRenameFails, GiveUp, disk, Running, Rotating
  <2>2. \/ pump \in Full /\ overruns' = overruns + 1
        \/ pump \notin Full /\ overruns' = overruns
    BY <1>9 DEF Kill, RotCloseFails, RotRenameFails, GiveUp, Full, Rotating
  <2>3. pump' \notin Full /\ pump' # "rot open"
    BY <2>1 DEF Running, Full, Rotating
  <2>4. Size' = Size
    BY <2>1 DEF Size
  <2>5. Size' < MaxSize + overruns'
    <3>1. CASE pump \in Full /\ overruns' = overruns + 1
      <4>1. Size <= MaxSize + overruns
        BY <1>0 DEF Sized, SizeKept
      <4>2. QED
        BY <1>0, <2>4, <3>1, <4>1
    <3>2. CASE pump \notin Full /\ overruns' = overruns
      BY <2>4, <3>2 DEF Sized, SizeKept
    <3>3. QED
      BY <2>2, <3>1, <3>2
  <2>6. QED
    BY <2>1, <2>3, <2>4, <2>5 DEF Sized, CounterExact, AtLimit, FileAway, SizeKept
<1>10. QED
  BY <1>1, <1>2, <1>3, <1>4, <1>6, <1>7, <1>8, <1>9 DEF Next, PumpStep

LEMMA SizedHolds == Spec => []Sized
<1>1. Init => Sized
  <2>1. SUFFICES ASSUME Init PROVE Sized
    OBVIOUS
  <2>2. cur = NoFile /\ pump = "down" /\ overruns = 0
    BY <2>1 DEF Init
  <2>3. Size = 0
    BY <2>2, LinesOf DEF Size
  <2>4. pump \notin Running /\ pump \notin Full /\ pump # "rot open"
    BY <2>2 DEF Running, Full, Rotating
  <2>5. Size < MaxSize + overruns
    BY <2>2, <2>3, SinkAssumption
  <2>6. QED
    BY <2>4, <2>5 DEF Sized, CounterExact, AtLimit, FileAway, SizeKept
<1>2. TypeOK /\ Sized /\ [Next]_vars => Sized'
  BY SizedStep
<1>3. QED
  BY <1>1, <1>2, SinkTypeCorrect, PTL DEF Spec

\* The file stays within its limit but for cut lines and rotations that were given
\* up (Write, openUpdatesSink).
THEOREM SizeIsBounded == Spec => []SizeBound
<1>1. TypeOK /\ Sized => SizeBound
  <2>1. SUFFICES ASSUME TypeOK, Sized, pump \in {"down", "select"}
                 PROVE  Len(Lines(cur)) <= MaxSize - 1 + overruns
    BY DEF SizeBound
  <2>2. pump \notin Full
    BY <2>1 DEF Full, Rotating
  <2>3. overruns \in Nat /\ MaxSize \in Nat /\ Len(Lines(cur)) \in Nat
    BY <2>1, SinkAssumption DEF TypeOK, DiskOK, Lines
  <2>4. Len(Lines(cur)) < MaxSize + overruns
    BY <2>1, <2>2 DEF Sized, SizeKept, Size
  <2>5. QED
    BY <2>3, <2>4
<1>2. QED
  BY <1>1, SinkTypeCorrect, SizedHolds, PTL
-----------------------------------------------------------------------------
(* Retention                                                               *)

Backup  == Lines(bak)
Current == Lines(cur)
Held    == EventsOf(Backup) \cup EventsOf(Current)

\* The backup precedes the current file, and the two hold the last of what was
\* written: all of it, unless they are as long as one full file.
InSequence == /\ Ordered(Backup) /\ Ordered(Current)
              /\ \A e \in EventsOf(Backup), f \in EventsOf(Current) : e < f
LastOnes   == Held \subseteq Written /\ \A e \in Written \ Held, f \in Held : e < f
Enough     == MaxSize <= Len(Backup) + Len(Current) \/ Held = Written

Kept == InSequence /\ LastOnes /\ Enough

\* Each event that continued a cut line is paid for by the call that cut it.
Cut    == IF torn THEN 1 ELSE 0
Spoilt == /\ merged \subseteq ToSet(wrote) /\ IsFiniteSet(merged)
          /\ Cardinality(merged) + Cut <= overruns

LEMMA SpoiltStep ==
  ASSUME TypeOK, Spoilt, [Next]_vars
  PROVE  Spoilt'
<1>0. /\ overruns \in Nat /\ wrote \in Seq(Nat) /\ hand \in Nat
      /\ Cardinality(merged) \in Nat
  BY FS_CardinalityType DEF TypeOK, QueueOK, HistoryOK, Spoilt
<1>1. CASE UNCHANGED <<merged, wrote, torn>> /\ overruns' \in {overruns, overruns + 1}
  <2>1. Cut' = Cut /\ Cut \in {0, 1}
    BY <1>1 DEF Cut
  <2>2. Cardinality(merged) + Cut <= overruns'
    BY <1>0, <1>1, <2>1 DEF Spoilt
  <2>3. QED
    BY <1>1, <2>1, <2>2 DEF Spoilt
<1>2. CASE WriteOK
  <2>1. /\ wrote' = Append(wrote, hand) /\ overruns' = overruns /\ torn' = FALSE
        /\ merged' = IF torn THEN merged \cup {hand} ELSE merged
    BY <1>2 DEF WriteOK
  <2>2. ToSet(wrote') = ToSet(wrote) \cup {hand}
    BY <1>0, <2>1, Enqueue
  <2>3. Cut' = 0
    BY <2>1 DEF Cut
  <2>4. merged' \subseteq ToSet(wrote') /\ IsFiniteSet(merged')
    BY <2>1, <2>2, FS_AddElement DEF Spoilt
  <2>5. Cardinality(merged') <= overruns
    <3>1. CASE torn
      <4>1. Cut = 1 /\ merged' = merged \cup {hand}
        BY <2>1, <3>1 DEF Cut
      <4>2. Cardinality(merged') = Cardinality(merged)
              \/ Cardinality(merged') = Cardinality(merged) + 1
        BY <4>1, FS_AddElement DEF Spoilt
      <4>3. QED
        BY <1>0, <4>1, <4>2 DEF Spoilt
    <3>2. CASE ~torn
      <4>1. Cut = 0 /\ merged' = merged
        BY <2>1, <3>2 DEF Cut
      <4>2. QED
        BY <1>0, <4>1 DEF Spoilt
    <3>3. QED
      BY <3>1, <3>2
  <2>6. Cardinality(merged') + 0 <= overruns
    <3>1. Cardinality(merged') \in Nat
      BY <2>4, FS_CardinalityType
    <3>2. QED
      BY <2>5, <3>1
  <2>7. QED
    BY <2>1, <2>3, <2>4, <2>6 DEF Spoilt
<1>3. CASE WriteFails
  <2>1. /\ UNCHANGED <<merged, wrote>>
        /\ \/ torn' = torn /\ overruns' = overruns
           \/ torn' = TRUE /\ overruns' = overruns + 1
    BY <1>3 DEF WriteFails, history
  <2>2. \/ Cut' = Cut /\ overruns' = overruns
        \/ Cut' = 1 /\ overruns' = overruns + 1
    BY <2>1 DEF Cut
  <2>3. Cut \in {0, 1}
    BY DEF Cut
  <2>4. Cardinality(merged) + Cut' <= overruns'
    BY <1>0, <2>2, <2>3 DEF Spoilt
  <2>5. QED
    BY <2>1, <2>4 DEF Spoilt
<1>4. CASE Start \/ Cancel \/ Kill \/ Exit \/ Emit \/ PumpDone \/ PumpReceive \/ PublishEvent
  BY <1>1, <1>4 DEF Start, Cancel, Kill, Exit, Emit, PumpDone, PumpReceive, PublishEvent,
     history, disk
<1>5. CASE RotClose \/ RotCloseFails \/ RotRemove \/ RotRename \/ RotRenameFails \/ RotOpen
             \/ RotOpenFails
  BY <1>1, <1>5 DEF RotClose, RotCloseFails, RotRemove, RotRename, RotRenameFails, RotOpen,
     RotOpenFails, GiveUp, history, disk
<1>6. CASE UNCHANGED vars
  BY <1>1, <1>6 DEF vars
<1>7. QED
  BY <1>2, <1>3, <1>4, <1>5, <1>6 DEF Next, PumpStep

LEMMA KeptStep ==
  ASSUME TypeOK, Sequenced, Sized, Spoilt, Kept, [Next]_vars
  PROVE  Kept'
<1>0. /\ Backup \in Seq(Nat) /\ Current \in Seq(Nat) /\ wrote \in Seq(Nat) /\ hand \in Nat
      /\ Len(Backup) \in Nat /\ Len(Current) \in Nat /\ MaxSize \in Nat
  BY SinkAssumption DEF TypeOK, DiskOK, QueueOK, HistoryOK, Lines, Backup, Current
<1>1. CASE UNCHANGED <<Backup, Current, wrote, merged>>
  <2>1. Held' = Held /\ Written' = Written
    BY <1>1 DEF Held, Written
  <2>2. InSequence' /\ LastOnes' /\ Enough'
    BY <1>1, <2>1 DEF Kept, InSequence, LastOnes, Enough
  <2>3. QED
    BY <2>2 DEF Kept
<1>2. CASE Start
  <2>1. Current' = Current
    BY <1>0, <1>2, LinesOf DEF Start, Current
  <2>2. QED
    BY <1>1, <1>2, <2>1 DEF Start, Backup, history
<1>3. CASE WriteOK
  <2>1. cur \in Seq(Nat) /\ Current = cur
    BY <1>3, LinesOf DEF WriteOK, TypeOK, FileOpen, DiskOK, Running, Current
  <2>2. ToSet(wrote') = ToSet(wrote) \cup {hand}
    BY <1>0, <1>3, Enqueue DEF WriteOK
  <2>3. 0 < hand /\ \A x \in ToSet(wrote) : x < hand
    BY <1>3 DEF WriteOK, Sequenced
  <2>4. hand \notin ToSet(wrote) /\ hand \notin merged
    BY <1>0, <2>3 DEF Spoilt
  <2>5. Backup' = Backup
    BY <1>3 DEF WriteOK, Backup
  <2>6. \A e \in Written : e < hand
    BY <2>3 DEF Written
  <2>7. CASE torn
    <3>1. cur' = Append(cur, Garbled) /\ merged' = merged \cup {hand}
      BY <1>3, <2>7 DEF WriteOK
    <3>2. Written' = Written
      BY <2>2, <2>4, <3>1 DEF Written
    <3>3. Garbled \in Nat
      BY DEF Garbled
    <3>4. /\ EventsOf(Current') = EventsOf(Current) /\ Ordered(Current')
          /\ Len(Current') = Len(Current) + 1
      <4>1. Current' = Append(cur, Garbled)
        BY <2>1, <3>1, <3>3, AppendPiece, LinesOf DEF Current
      <4>2. Ordered(cur)
        BY <2>1 DEF Kept, InSequence
      <4>3. QED
        BY <2>1, <4>1, <4>2, AppendGarbled
    <3>5. Held' = Held
      BY <2>5, <3>4 DEF Held
    <3>6. Enough'
      <4>1. MaxSize <= Len(Backup) + Len(Current) => MaxSize <= Len(Backup) + (Len(Current) + 1)
        BY <1>0
      <4>2. QED
        BY <2>5, <3>2, <3>4, <3>5, <4>1 DEF Kept, Enough
    <3>7. InSequence' /\ LastOnes'
      BY <2>5, <3>2, <3>4, <3>5 DEF Kept, InSequence, LastOnes
    <3>8. QED
      BY <3>6, <3>7 DEF Kept
  <2>8. CASE ~torn
    <3>1. cur' = Append(cur, hand) /\ merged' = merged
      BY <1>3, <2>8 DEF WriteOK
    <3>2. Written' = Written \cup {hand}
      BY <2>2, <2>4, <3>1 DEF Written
    <3>3. \A e \in Held : e < hand
      BY <2>6 DEF Kept, LastOnes
    <3>4. hand # Garbled
      BY <2>3 DEF Garbled
    <3>5. /\ EventsOf(Current') = EventsOf(Current) \cup {hand} /\ Ordered(Current')
          /\ Len(Current') = Len(Current) + 1
      <4>1. Current' = Append(cur, hand)
        BY <1>0, <2>1, <3>1, AppendPiece, LinesOf DEF Current
      <4>2. Ordered(cur) /\ \A e \in EventsOf(cur) : e < hand
        BY <2>1, <3>3 DEF Kept, InSequence, Held
      <4>3. QED
        BY <1>0, <2>1, <3>4, <4>1, <4>2, AppendPiece
    <3>6. Held' = Held \cup {hand}
      BY <2>5, <3>5 DEF Held
    <3>7. InSequence'
      BY <2>5, <3>3, <3>5 DEF Kept, InSequence, Held
    <3>8. LastOnes'
      BY <2>6, <3>2, <3>6 DEF Kept, LastOnes
    <3>9. Enough'
      <4>1. MaxSize <= Len(Backup) + Len(Current) => MaxSize <= Len(Backup) + (Len(Current) + 1)
        BY <1>0
      <4>2. QED
        BY <2>5, <3>2, <3>5, <3>6, <4>1 DEF Kept, Enough
    <3>10. QED
      BY <3>7, <3>8, <3>9 DEF Kept
  <2>9. QED
    BY <2>7, <2>8
<1>4. CASE WriteFails
  <2>1. cur \in Seq(Nat) /\ Current = cur /\ Garbled \in Nat
    BY <1>4, LinesOf DEF WriteFails, TypeOK, FileOpen, DiskOK, Running, Current, Garbled
  <2>2. Backup' = Backup /\ UNCHANGED <<wrote, merged>>
    BY <1>4 DEF WriteFails, Backup, history
  <2>3. CASE cur' = cur
    BY <1>1, <2>2, <2>3 DEF Current
  <2>4. CASE cur' = Append(cur, Garbled)
    <3>1. /\ EventsOf(Current') = EventsOf(Current) /\ Ordered(Current')
          /\ Len(Current') = Len(Current) + 1
      <4>1. Current' = Append(cur, Garbled)
        BY <2>1, <2>4, AppendPiece, LinesOf DEF Current
      <4>2. Ordered(cur)
        BY <2>1 DEF Kept, InSequence
      <4>3. QED
        BY <2>1, <4>1, <4>2, AppendGarbled
    <3>2. Held' = Held /\ Written' = Written
      BY <2>2, <3>1 DEF Held, Written
    <3>3. Enough'
      <4>1. MaxSize <= Len(Backup) + Len(Current) => MaxSize <= Len(Backup) + (Len(Current) + 1)
        BY <1>0
      <4>2. QED
        BY <2>2, <3>1, <3>2, <4>1 DEF Kept, Enough
    <3>4. InSequence' /\ LastOnes'
      BY <2>2, <3>1, <3>2 DEF Kept, InSequence, LastOnes
    <3>5. QED
      BY <3>3, <3>4 DEF Kept
  <2>5. QED
    BY <1>4, <2>3, <2>4 DEF WriteFails
<1>5. CASE RotRemove \/ RotRename
  <2>1. UNCHANGED <<wrote, merged>>
    BY <1>5 DEF RotRemove, RotRename, history
  <2>2. MaxSize <= Len(Current)
    <3>1. pump \in Full /\ pump \in Running \ {"rot open"}
      BY <1>5 DEF RotRemove, RotRename, Full, Running, Rotating
    <3>2. QED
      BY <3>1 DEF Sized, CounterExact, AtLimit, Size, Current
  <2>3. ASSUME \/ Backup' = <<>> /\ Current' = Current
               \/ Backup' = Current /\ Current' = <<>>
        PROVE  Kept'
    <3>1. /\ EventsOf(<<>>) = {} /\ Ordered(<<>>) /\ Len(<<>>) = 0
      BY DEF EventsOf, EventsAt, Ordered
    <3>2. Held' = EventsOf(Current) /\ Held' \subseteq Held /\ Written' = Written
      BY <2>1, <2>3, <3>1 DEF Held, Written
    <3>3. InSequence'
      BY <2>3, <3>1 DEF Kept, InSequence
    <3>4. LastOnes'
      <4>1. \A e \in Written \ Held', f \in Held' : e < f
        <5>1. \A e \in Held \ EventsOf(Current) : e \in EventsOf(Backup)
          BY DEF Held
        <5>2. QED
          BY <3>2, <5>1 DEF Kept, LastOnes, InSequence
      <4>2. QED
        BY <3>2, <4>1 DEF Kept, LastOnes
    <3>5. Enough'
      <4>1. Len(Backup') + Len(Current') = Len(Current)
        BY <1>0, <2>3, <3>1
      <4>2. QED
        BY <2>2, <4>1 DEF Enough
    <3>6. QED
      BY <3>3, <3>4, <3>5 DEF Kept
  <2>4. CASE RotRename
    BY <2>3, <2>4, LinesOf DEF RotRename, Backup, Current
  <2>5. CASE RotRemove
    <3>1. cur' = cur /\ (bak' = NoFile \/ bak' = bak)
      BY <2>5 DEF RotRemove
    <3>2. CASE bak' = bak
      BY <1>1, <2>1, <3>1, <3>2 DEF Backup, Current
    <3>3. CASE bak' = NoFile
      BY <2>3, <3>1, <3>3, LinesOf DEF Backup, Current
    <3>4. QED
      BY <3>1, <3>2, <3>3
  <2>6. QED
    BY <1>5, <2>4, <2>5
<1>6. CASE RotOpen
  <2>1. cur = NoFile /\ cur' = <<>> /\ UNCHANGED <<bak, wrote, merged>>
    BY <1>6 DEF RotOpen, Sized, FileAway, history
  <2>2. <<>> \in Seq(Nat)
    OBVIOUS
  <2>3. Current' = Current /\ Backup' = Backup
    BY <2>1, <2>2, LinesOf DEF Current, Backup
  <2>4. QED
    BY <1>1, <2>1, <2>3
<1>7. CASE UNCHANGED <<cur, bak, wrote, merged>>
  BY <1>1, <1>7 DEF Backup, Current
<1>8. CASE Cancel \/ Kill \/ Exit \/ Emit \/ PumpDone \/ PumpReceive \/ PublishEvent
             \/ UNCHANGED vars
  BY <1>7, <1>8 DEF Cancel, Kill, Exit, Emit, PumpDone, PumpReceive, PublishEvent,
     history, disk, vars
<1>9. CASE RotClose \/ RotCloseFails \/ RotRenameFails \/ RotOpenFails
  BY <1>7, <1>9 DEF RotClose, RotCloseFails, RotRenameFails, RotOpenFails, GiveUp, history, disk
<1>10. QED
  BY <1>2, <1>3, <1>4, <1>5, <1>6, <1>8, <1>9 DEF Next, PumpStep

LEMMA SpoiltHolds == Spec => []Spoilt
<1>1. Init => Spoilt
  <2>1. SUFFICES ASSUME Init PROVE Spoilt
    OBVIOUS
  <2>2. merged = {} /\ Cut = 0 /\ overruns = 0
    BY <2>1 DEF Init, Cut
  <2>3. IsFiniteSet({}) /\ Cardinality({}) = 0
    BY FS_EmptySet
  <2>4. QED
    BY <2>2, <2>3 DEF Spoilt
<1>2. TypeOK /\ Spoilt /\ [Next]_vars => Spoilt'
  BY SpoiltStep
<1>3. QED
  BY <1>1, <1>2, SinkTypeCorrect, PTL DEF Spec

LEMMA KeptHolds == Spec => []Kept
<1>1. Init => Kept
  <2>1. SUFFICES ASSUME Init PROVE Kept
    OBVIOUS
  <2>2. Backup = <<>> /\ Current = <<>> /\ Written = {}
    BY <2>1, LinesOf DEF Init, Backup, Current, Written, ToSet
  <2>3. EventsOf(<<>>) = {} /\ Ordered(<<>>)
    BY DEF EventsOf, EventsAt, Ordered
  <2>4. Held = {}
    BY <2>2, <2>3 DEF Held
  <2>5. QED
    BY <2>2, <2>3, <2>4 DEF Kept, InSequence, LastOnes, Enough
<1>2. TypeOK /\ Sequenced /\ Sized /\ Spoilt /\ Kept /\ [Next]_vars => Kept'
  BY KeptStep
<1>3. QED
  BY <1>1, <1>2, SinkTypeCorrect, SequencedHolds, SizedHolds, SpoiltHolds, PTL DEF Spec

\* Two files, one after the other.
LEMMA TwoFiles ==
  ASSUME NEW f \in Seq(Nat), NEW g \in Seq(Nat), Ordered(f), Ordered(g),
         \A d \in EventsOf(f), e \in EventsOf(g) : d < e
  PROVE  /\ Len(f \o g) = Len(f) + Len(g)
         /\ EventsOf(f \o g) = EventsOf(f) \cup EventsOf(g)
         /\ Ordered(f \o g)
<1> DEFINE t == f \o g
<1>1. /\ Len(f) \in Nat /\ Len(g) \in Nat /\ Len(t) = Len(f) + Len(g)
      /\ DOMAIN f = 1 .. Len(f) /\ DOMAIN g = 1 .. Len(g)
      /\ DOMAIN t = 1 .. Len(f) + Len(g)
      /\ \A i \in DOMAIN f : t[i] = f[i]
      /\ \A i \in DOMAIN g : t[Len(f) + i] = g[i]
  OBVIOUS
<1> HIDE DEF t
<1>2. /\ \A i \in DOMAIN f : i \in DOMAIN t
      /\ \A i \in DOMAIN g : Len(f) + i \in DOMAIN t
      /\ \A i \in DOMAIN t : i \in DOMAIN f \/ (i - Len(f) \in DOMAIN g /\ Len(f) + (i - Len(f)) = i)
  BY <1>1
<1>3. /\ \A i \in EventsAt(f) : i \in EventsAt(t) /\ t[i] = f[i]
      /\ \A i \in EventsAt(g) : Len(f) + i \in EventsAt(t) /\ t[Len(f) + i] = g[i]
  BY <1>1, <1>2 DEF EventsAt
<1>4. \A i \in EventsAt(t) :
        \/ i \in EventsAt(f) /\ t[i] = f[i]
        \/ i - Len(f) \in EventsAt(g) /\ t[i] = g[i - Len(f)] /\ i > Len(f)
  BY <1>1, <1>2 DEF EventsAt
<1>5. EventsOf(t) = EventsOf(f) \cup EventsOf(g)
  <2>1. ASSUME NEW e \in EventsOf(t) PROVE e \in EventsOf(f) \cup EventsOf(g)
    BY <1>4, <2>1, Zenon DEF EventsOf
  <2>2. ASSUME NEW e \in EventsOf(f) PROVE e \in EventsOf(t)
    <3>1. PICK i \in EventsAt(f) : e = f[i]
      BY <2>2 DEF EventsOf
    <3>2. QED
      BY <1>3, <3>1 DEF EventsOf
  <2>3. ASSUME NEW e \in EventsOf(g) PROVE e \in EventsOf(t)
    <3>1. PICK i \in EventsAt(g) : e = g[i]
      BY <2>3 DEF EventsOf
    <3>2. Len(f) + i \in EventsAt(t) /\ t[Len(f) + i] = e
      BY <1>3, <3>1
    <3>3. QED
      BY <3>2 DEF EventsOf
  <2>4. QED
    BY <2>1, <2>2, <2>3
<1>6. Ordered(t)
  <2>1. SUFFICES ASSUME NEW i \in EventsAt(t), NEW j \in EventsAt(t), i < j PROVE t[i] < t[j]
    BY DEF Ordered
  <2>0. i \in Nat /\ j \in Nat
    BY <1>1 DEF EventsAt
  <2>2. CASE i \in EventsAt(f) /\ j \in EventsAt(f)
    BY <1>3, <2>1, <2>2 DEF Ordered
  <2>3. CASE i \in EventsAt(f) /\ j - Len(f) \in EventsAt(g) /\ t[j] = g[j - Len(f)]
    <3>1. f[i] \in EventsOf(f) /\ g[j - Len(f)] \in EventsOf(g)
      BY <2>3 DEF EventsOf
    <3>2. QED
      BY <1>3, <2>3, <3>1
  <2>4. CASE /\ i - Len(f) \in EventsAt(g) /\ t[i] = g[i - Len(f)]
             /\ j - Len(f) \in EventsAt(g) /\ t[j] = g[j - Len(f)]
    <3>1. i - Len(f) < j - Len(f)
      BY <1>1, <2>0, <2>1
    <3>2. QED
      BY <2>4, <3>1 DEF Ordered
  <2>5. CASE i > Len(f) /\ j \in EventsAt(f)
    <3>1. j <= Len(f)
      BY <1>1, <2>5 DEF EventsAt
    <3>2. QED
      BY <1>1, <2>0, <2>1, <2>5, <3>1
  <2>6. QED
    BY <1>4, <2>2, <2>3, <2>4, <2>5
<1>7. QED
  BY <1>1, <1>5, <1>6 DEF t

\* The two files hold the last events written, in order, without a hole but for cut
\* lines, and at least one full file of them (rotateLocked, Write).
THEOREM LastEventsRetained == Spec => []Retention
<1>1. TypeOK /\ Sequenced /\ Spoilt /\ Kept => Retention
  <2>1. SUFFICES ASSUME TypeOK, Sequenced, Spoilt, Kept PROVE Retention
    OBVIOUS
  <2>2. Backup \in Seq(Nat) /\ Current \in Seq(Nat)
    BY <2>1 DEF TypeOK, DiskOK, Lines, Backup, Current
  <2>3. Pieces = Backup \o Current
    BY DEF Pieces, Backup, Current
  <2>4. /\ Len(Pieces) = Len(Backup) + Len(Current) /\ OnDisk = Held
        /\ Ordered(Pieces)
    BY <2>1, <2>2, <2>3, TwoFiles DEF Kept, InSequence, OnDisk, Held
  <2>5. Increasing(wrote)
    BY <2>1 DEF Sequenced
  <2>6. OnDisk \subseteq Written /\ \A e \in Written \ OnDisk, f \in OnDisk : e < f
    BY <2>1, <2>4 DEF Kept, LastOnes
  <2>7. Len(Pieces) >= MaxSize \/ OnDisk = Written
    <3>1. /\ MaxSize \in Nat /\ Len(Backup) \in Nat /\ Len(Current) \in Nat
      BY <2>2, SinkAssumption
    <3>2. MaxSize <= Len(Backup) + Len(Current) => Len(Backup) + Len(Current) >= MaxSize
      BY <3>1
    <3>3. QED
      BY <2>1, <2>4, <3>2 DEF Kept, Enough
  <2>8. Cardinality(merged) <= overruns
    <3>1. Cardinality(merged) \in Nat /\ Cut \in {0, 1} /\ overruns \in Nat
      BY <2>1, FS_CardinalityType DEF Spoilt, Cut, TypeOK
    <3>2. QED
      BY <2>1, <3>1 DEF Spoilt
  <2>9. QED
    BY <2>4, <2>5, <2>6, <2>7, <2>8 DEF Retention, Ordered
<1>2. QED
  BY <1>1, SinkTypeCorrect, SequencedHolds, SpoiltHolds, KeptHolds, PTL
-----------------------------------------------------------------------------
(* The log readers tail                                                    *)

\* What was written last is the event in hand until that is published.
Latest == /\ arrived <= MaxEvents
          /\ pump \in Done => wrote # <<>> /\ wrote[Len(wrote)] = hand

LEMMA LatestStep ==
  ASSUME TypeOK, Latest, [Next]_vars
  PROVE  Latest'
<1>0. arrived \in Nat /\ MaxEvents \in Nat /\ wrote \in Seq(Nat) /\ hand \in Nat
  BY SinkAssumption DEF TypeOK, QueueOK, HistoryOK
<1>1. CASE /\ arrived' = arrived
           /\ pump' \in Done => pump \in Done /\ UNCHANGED <<wrote, hand>>
  BY <1>1 DEF Latest
<1>2. CASE WriteOK
  <2>1. arrived' = arrived /\ wrote' = Append(wrote, hand) /\ hand' = hand
    BY <1>2 DEF WriteOK
  <2>2. wrote' # <<>> /\ wrote'[Len(wrote')] = hand
    BY <1>0, <2>1
  <2>3. QED
    BY <2>1, <2>2 DEF Latest
<1>3. CASE Emit
  <2>1. arrived < MaxEvents /\ arrived' = arrived + 1 /\ UNCHANGED <<pump, wrote, hand>>
    BY <1>3 DEF Emit, history
  <2>2. arrived' <= MaxEvents
    BY <1>0, <2>1
  <2>3. QED
    BY <2>1, <2>2 DEF Latest
<1>4. CASE UNCHANGED vars \/ Cancel
  BY <1>1, <1>4 DEF vars, Cancel, history
<1>5. CASE Start \/ Kill \/ Exit \/ PumpDone \/ PumpReceive \/ WriteFails \/ PublishEvent
             \/ RotCloseFails \/ RotRenameFails \/ RotOpenFails
  <2>1. arrived' = arrived /\ pump' \in {"down", "select", "write", "returned"}
    BY <1>5 DEF Start, Kill, Exit, PumpDone, PumpReceive, WriteFails, PublishEvent,
       RotCloseFails, RotRenameFails, RotOpenFails, GiveUp
  <2>2. pump' \notin Done
    BY <2>1 DEF Done, Rotating
  <2>3. QED
    BY <1>1, <2>1, <2>2
<1>6. CASE RotClose \/ RotRemove \/ RotRename \/ RotOpen
  BY <1>1, <1>6 DEF RotClose, RotRemove, RotRename, RotOpen, Done, Rotating, history
<1>7. QED
  BY <1>2, <1>3, <1>4, <1>5, <1>6 DEF Next, PumpStep

LEMMA LatestHolds == Spec => []Latest
<1>1. Init => Latest
  BY SinkAssumption DEF Init, Latest, Done, Rotating
<1>2. TypeOK /\ Latest /\ [Next]_vars => Latest'
  BY LatestStep
<1>3. QED
  BY <1>1, <1>2, SinkTypeCorrect, PTL DEF Spec

LEMMA SameSequence ==
  ASSUME NEW s \in Seq(Nat), NEW t \in Seq(Nat), Len(s) = Len(t),
         \A i \in 1 .. Len(s) : s[i] = t[i]
  PROVE  s = t
OBVIOUS

LEMMA Concatenation ==
  ASSUME NEW f \in Seq(Nat), NEW g \in Seq(Nat)
  PROVE  /\ f \o g \in Seq(Nat) /\ Len(f \o g) = Len(f) + Len(g)
         /\ \A i \in 1 .. Len(f) : (f \o g)[i] = f[i]
         /\ \A i \in 1 .. Len(g) : (f \o g)[Len(f) + i] = g[i]
OBVIOUS

\* A piece at the end of the second file is one at the end of both; without the
\* first file, the second is left.
LEMMA LastFile ==
  ASSUME NEW f \in Seq(Nat), NEW g \in Seq(Nat)
  PROVE  /\ f \o g \in Seq(Nat) /\ Len(f \o g) = Len(f) + Len(g)
         /\ <<>> \o g = g /\ g \o <<>> = g
         /\ \A x \in Nat : f \o Append(g, x) = Append(f \o g, x)
         /\ SubSeq(f \o g, Len(f) + 1, Len(f \o g)) = g
<1> DEFINE t == f \o g
           u == SubSeq(t, Len(f) + 1, Len(t))
<1>1. /\ Len(f) \in Nat /\ Len(g) \in Nat /\ Len(t) = Len(f) + Len(g) /\ t \in Seq(Nat)
      /\ \A i \in 1 .. Len(f) : t[i] = f[i]
      /\ \A i \in 1 .. Len(g) : t[Len(f) + i] = g[i]
  OBVIOUS
<1>2. <<>> \o g = g /\ g \o <<>> = g
  <2>1. /\ <<>> \o g \in Seq(Nat) /\ Len(<<>> \o g) = Len(g)
        /\ \A i \in 1 .. Len(g) : (<<>> \o g)[i] = g[i]
    OBVIOUS
  <2>2. /\ g \o <<>> \in Seq(Nat) /\ Len(g \o <<>>) = Len(g)
        /\ \A i \in 1 .. Len(g) : (g \o <<>>)[i] = g[i]
    OBVIOUS
  <2>3. QED
    BY <2>1, <2>2, SameSequence
<1>3. ASSUME NEW x \in Nat PROVE f \o Append(g, x) = Append(t, x)
  <2> DEFINE v == Append(g, x)
  <2>1. /\ v \in Seq(Nat) /\ Len(v) = Len(g) + 1
        /\ \A i \in 1 .. Len(g) : v[i] = g[i]
        /\ v[Len(g) + 1] = x
    OBVIOUS
  <2>2. /\ Append(t, x) \in Seq(Nat) /\ Len(Append(t, x)) = Len(t) + 1
        /\ \A i \in 1 .. Len(t) : Append(t, x)[i] = t[i]
        /\ Append(t, x)[Len(t) + 1] = x
    BY <1>1
  <2> HIDE DEF v, t
  <2>3. /\ f \o v \in Seq(Nat) /\ Len(f \o v) = Len(f) + Len(v)
        /\ \A i \in 1 .. Len(f) : (f \o v)[i] = f[i]
        /\ \A i \in 1 .. Len(v) : (f \o v)[Len(f) + i] = v[i]
    BY <2>1, Concatenation
  <2>4. ASSUME NEW i \in 1 .. Len(f \o v) PROVE (f \o v)[i] = Append(t, x)[i]
    <3>1. CASE i \in 1 .. Len(f)
      <4>1. i \in 1 .. Len(t)
        BY <1>1, <3>1
      <4>2. QED
        BY <1>1, <2>2, <2>3, <3>1, <4>1
    <3>2. CASE i - Len(f) \in 1 .. Len(g)
      <4>1. i \in 1 .. Len(t) /\ i - Len(f) \in 1 .. Len(v) /\ i = Len(f) + (i - Len(f))
        BY <1>1, <2>1, <3>2
      <4>2. (f \o v)[Len(f) + (i - Len(f))] = v[i - Len(f)]
        BY <2>3, <4>1
      <4>3. t[Len(f) + (i - Len(f))] = g[i - Len(f)]
        BY <1>1, <3>2
      <4>4. QED
        BY <2>1, <2>2, <3>2, <4>1, <4>2, <4>3
    <3>3. CASE i = Len(f) + Len(v)
      <4>1. Len(v) \in 1 .. Len(v) /\ i = Len(t) + 1
        BY <1>1, <2>1, <3>3
      <4>2. (f \o v)[i] = v[Len(v)]
        BY <2>3, <3>3, <4>1
      <4>3. QED
        BY <2>1, <2>2, <4>1, <4>2
    <3>4. \/ i \in 1 .. Len(f) \/ i - Len(f) \in 1 .. Len(g)
          \/ i = Len(f) + Len(v)
      <4>1. /\ i \in 1 .. Len(f) + (Len(g) + 1) /\ Len(v) = Len(g) + 1
            /\ Len(f) \in Nat /\ Len(g) \in Nat
        BY <1>1, <2>1, <2>3
      <4>2. CASE i <= Len(f)
        BY <4>1, <4>2
      <4>3. CASE i > Len(f) /\ i < Len(f) + (Len(g) + 1)
        BY <4>1, <4>3
      <4>4. CASE i = Len(f) + (Len(g) + 1)
        BY <4>1, <4>4
      <4>5. i <= Len(f) \/ (i > Len(f) /\ i < Len(f) + (Len(g) + 1)) \/ i = Len(f) + (Len(g) + 1)
        BY <4>1
      <4>6. QED
        BY <4>2, <4>3, <4>4, <4>5
    <3>5. QED
      BY <3>1, <3>2, <3>3, <3>4
  <2>5. Len(f \o v) = Len(Append(t, x))
    BY <1>1, <2>1, <2>2, <2>3
  <2>6. f \o v = Append(t, x)
    BY <2>2, <2>3, <2>4, <2>5, SameSequence
  <2>7. QED
    BY <2>6 DEF v
<1>4. u = g
  <2>1. /\ u \in Seq(Nat) /\ Len(u) = Len(t) - Len(f)
        /\ \A i \in 1 .. Len(u) : u[i] = t[Len(f) + i]
    BY <1>1
  <2> HIDE DEF u, t
  <2>2. Len(u) = Len(g)
    BY <1>1, <2>1
  <2>3. \A i \in 1 .. Len(u) : u[i] = g[i]
    BY <1>1, <2>1, <2>2
  <2>4. QED
    BY <2>1, <2>2, <2>3, SameSequence
<1>5. QED
  BY <1>1, <1>2, <1>3, <1>4

\* A step that leaves the files, what was written and what was shown alone.
LEMMA LogStutters ==
  ASSUME UNCHANGED <<Backup, Current, torn, wrote, published>>
  PROVE  UNCHANGED Tailed!log
BY DEF Tailed!log, Pieces, Backup, Current

\* A whole line.
LEMMA LogWrites ==
  ASSUME TypeOK, Sequenced, Latest, WriteOK
  PROVE  Tailed!Write(hand) /\ hand \in Numbers
<1>1. /\ pump = "write" /\ bak' = bak /\ torn' = FALSE /\ wrote' = Append(wrote, hand)
      /\ cur' = Append(cur, IF torn THEN Garbled ELSE hand) /\ published' = published
  BY DEF WriteOK
<1>2. /\ Backup \in Seq(Nat) /\ wrote \in Seq(Nat) /\ hand \in Nat /\ Garbled \in Nat
      /\ arrived \in Nat /\ MaxEvents \in Nat
  BY SinkAssumption DEF TypeOK, DiskOK, QueueOK, HistoryOK, Lines, Backup, Garbled
<1>3. cur \in Seq(Nat) /\ Current = cur
  BY <1>1, LinesOf DEF TypeOK, FileOpen, DiskOK, Running, Current
<1>4. 0 < hand /\ hand <= arrived /\ \A x \in ToSet(wrote) : x < hand
  BY <1>1 DEF Sequenced
<1>5. hand \in Numbers
  BY <1>2, <1>4 DEF Latest, Numbers
<1>6. wrote = <<>> \/ wrote[Len(wrote)] < hand
  <2>1. wrote # <<>> => wrote[Len(wrote)] \in ToSet(wrote)
    BY <1>2 DEF ToSet
  <2>2. QED
    BY <1>4, <2>1
<1>7. Pieces' = Append(Pieces, IF torn THEN Garbled ELSE hand)
  <2> DEFINE x == IF torn THEN Garbled ELSE hand
  <2>1. x \in Nat
    BY <1>2
  <2> HIDE DEF x
  <2>2. Lines(Append(cur, x)) = Append(cur, x)
    BY <1>3, <2>1, AppendPiece, LinesOf
  <2>3. cur' = Append(cur, x) /\ Pieces = Backup \o cur
    BY <1>1, <1>3 DEF x, Pieces, Backup, Current
  <2>4. Pieces' = Backup \o Append(cur, x)
    BY <1>1, <2>2, <2>3 DEF Pieces, Backup
  <2>5. QED
    BY <1>2, <1>3, <2>1, <2>3, <2>4, LastFile DEF x
<1>8. QED
  BY <1>1, <1>5, <1>6, <1>7 DEF Tailed!Write, Tailed!Newest, Tailed!Garbled, Garbled

\* A line that is cut, or nothing.
LEMMA LogIsCut ==
  ASSUME TypeOK, WriteFails
  PROVE  Tailed!Cut \/ UNCHANGED Tailed!log
<1>1. pump = "write" /\ bak' = bak /\ UNCHANGED <<wrote, published>>
  BY DEF WriteFails, history
<1>2. Backup \in Seq(Nat) /\ Garbled \in Nat
  BY DEF TypeOK, DiskOK, Lines, Backup, Garbled
<1>3. cur \in Seq(Nat) /\ Current = cur
  BY <1>1, LinesOf DEF TypeOK, FileOpen, DiskOK, Running, Current
<1>4. CASE cur' = Append(cur, Garbled) /\ torn' = TRUE
  <2>1. Lines(Append(cur, Garbled)) = Append(cur, Garbled)
    BY <1>2, <1>3, AppendPiece, LinesOf
  <2>2. Pieces' = Backup \o Append(cur, Garbled) /\ Pieces = Backup \o cur
    BY <1>1, <1>3, <1>4, <2>1 DEF Pieces, Backup, Current
  <2>3. Pieces' = Append(Pieces, Garbled)
    BY <1>2, <1>3, <2>2, LastFile
  <2>4. QED
    BY <1>1, <1>4, <2>3 DEF Tailed!Cut, Tailed!Garbled, Garbled
<1>5. CASE UNCHANGED <<cur, torn>>
  BY <1>1, <1>5, LogStutters DEF Backup, Current
<1>6. QED
  BY <1>4, <1>5 DEF WriteFails

\* The backup gives way to the full file: the log loses its front.
LEMMA LogIsTrimmed ==
  ASSUME TypeOK, Sized, RotRemove \/ RotRename
  PROVE  \/ \E n \in 1 .. Len(Pieces) : Tailed!Trim(n)
         \/ UNCHANGED Tailed!log
<1>1. UNCHANGED <<torn, wrote, published>>
  BY DEF RotRemove, RotRename, history
<1>2. /\ Backup \in Seq(Nat) /\ Current \in Seq(Nat) /\ MaxSize \in Nat
      /\ Len(Backup) \in Nat /\ Len(Current) \in Nat
  BY SinkAssumption DEF TypeOK, DiskOK, Lines, Backup, Current
<1>3. MaxSize <= Len(Current)
  <2>1. pump \in Full /\ pump \in Running \ {"rot open"}
    BY DEF RotRemove, RotRename, Full, Running, Rotating
  <2>2. QED
    BY <2>1 DEF Sized, CounterExact, AtLimit, Size, Current
<1>4. Pieces = Backup \o Current
  BY DEF Pieces, Backup, Current
<1>5. \/ UNCHANGED <<Backup, Current>>
      \/ Pieces' = Current
  <2>1. CASE RotRename
    <3>1. Lines(bak') = Current /\ Lines(cur') = <<>>
      BY <2>1, LinesOf DEF RotRename, Current
    <3>2. Pieces' = Current \o <<>>
      BY <3>1 DEF Pieces
    <3>3. QED
      BY <1>2, <3>2, LastFile
  <2>2. CASE RotRemove /\ bak' = NoFile
    <3>1. Lines(bak') = <<>> /\ Lines(cur') = Current
      BY <2>2, LinesOf DEF RotRemove, Current
    <3>2. Pieces' = <<>> \o Current
      BY <3>1 DEF Pieces
    <3>3. QED
      BY <1>2, <3>2, LastFile
  <2>3. CASE RotRemove /\ bak' = bak
    BY <2>3 DEF RotRemove, Backup, Current
  <2>4. QED
    BY <2>1, <2>2, <2>3 DEF RotRemove
<1>6. CASE UNCHANGED <<Backup, Current>>
  BY <1>1, <1>6, LogStutters
<1>7. CASE Pieces' = Current /\ Len(Backup) = 0
  <2>1. Backup = <<>>
    BY <1>2, <1>7
  <2>2. Pieces' = Pieces
    BY <1>2, <1>4, <1>7, <2>1, LastFile
  <2>3. QED
    BY <1>1, <2>2 DEF Tailed!log
<1>8. CASE Pieces' = Current /\ Len(Backup) # 0
  <2>1. /\ Len(Pieces) = Len(Backup) + Len(Current)
        /\ Pieces' = SubSeq(Pieces, Len(Backup) + 1, Len(Pieces))
    BY <1>2, <1>4, <1>8, LastFile
  <2>2. Len(Backup) \in 1 .. Len(Pieces) /\ Len(Pieces) - Len(Backup) >= MaxSize
    BY <1>2, <1>3, <1>8, <2>1
  <2>3. Tailed!Trim(Len(Backup))
    BY <1>1, <2>1, <2>2 DEF Tailed!Trim
  <2>4. QED
    BY <2>2, <2>3
<1>9. QED
  BY <1>5, <1>6, <1>7, <1>8

LEMMA LogShows ==
  ASSUME TypeOK, Sequenced, Latest, PublishEvent
  PROVE  Tailed!Publish
<1>1. /\ pump = "publish" /\ published' = Append(published, hand)
      /\ UNCHANGED <<cur, bak, torn, wrote>>
  BY DEF PublishEvent, disk
<1>2. published \in Seq(Nat) /\ wrote \in Seq(Nat)
  BY DEF TypeOK, HistoryOK
<1>3. /\ wrote # <<>> /\ wrote[Len(wrote)] = hand
      /\ \A x \in ToSet(published) : x < hand
  BY <1>1 DEF Latest, Sequenced, Done
<1>4. published = <<>> \/ published[Len(published)] < hand
  <2>1. published # <<>> => published[Len(published)] \in ToSet(published)
    BY <1>2 DEF ToSet
  <2>2. QED
    BY <1>3, <2>1
<1>5. Pieces' = Pieces
  BY <1>1 DEF Pieces
<1>6. QED
  BY <1>1, <1>3, <1>4, <1>5 DEF Tailed!Publish, Tailed!Newest

\* Step by step, whatever fails or is killed, the two files are a log that
\* readers can tail, and clients are shown its newest event (Write,
\* rotateLocked, pumpEvents).
THEOREM SinkIsTailedLog == Spec => ImplementsTailedLog
<1>1. Init => Tailed!Init
  <2>1. SUFFICES ASSUME Init PROVE Tailed!Init
    OBVIOUS
  <2>2. Lines(bak) = <<>> /\ Lines(cur) = <<>>
    BY <2>1, LinesOf DEF Init
  <2>3. <<>> \o <<>> = <<>>
    OBVIOUS
  <2>4. Pieces = <<>>
    BY <2>2, <2>3 DEF Pieces
  <2>5. QED
    BY <2>1, <2>4 DEF Init, Tailed!Init
<1>2. TypeOK /\ Sequenced /\ Sized /\ Latest /\ [Next]_vars => [Tailed!Next]_(Tailed!log)
  <2> SUFFICES ASSUME TypeOK, Sequenced, Sized, Latest, [Next]_vars
               PROVE  Tailed!Next \/ UNCHANGED Tailed!log
    OBVIOUS
  <2>1. CASE WriteOK
    BY <2>1, LogWrites DEF Tailed!Next
  <2>2. CASE WriteFails
    BY <2>2, LogIsCut DEF Tailed!Next
  <2>3. CASE RotRemove \/ RotRename
    BY <2>3, LogIsTrimmed DEF Tailed!Next
  <2>4. CASE PublishEvent
    BY <2>4, LogShows DEF Tailed!Next
  <2>5. CASE Start
    <3>1. Lines(cur) \in Seq(Nat)
      BY DEF TypeOK, DiskOK, Lines
    <3>2. Current' = Current
      BY <2>5, <3>1, LinesOf DEF Start, Current
    <3>3. QED
      BY <2>5, <3>2, LogStutters DEF Start, Backup, history
  <2>6. CASE RotOpen
    <3>1. cur = NoFile /\ cur' = <<>> /\ UNCHANGED <<bak, torn, wrote, published>>
      BY <2>6 DEF RotOpen, Sized, FileAway, history
    <3>2. <<>> \in Seq(Nat)
      OBVIOUS
    <3>3. Current' = Current /\ Backup' = Backup
      BY <3>1, <3>2, LinesOf DEF Current, Backup
    <3>4. QED
      BY <3>1, <3>3, LogStutters
  <2>7. CASE UNCHANGED <<cur, bak, torn, wrote, published>>
    BY <2>7, LogStutters DEF Backup, Current
  <2>8. CASE Cancel \/ Kill \/ Exit \/ Emit \/ PumpDone \/ PumpReceive \/ UNCHANGED vars
    BY <2>7, <2>8 DEF Cancel, Kill, Exit, Emit, PumpDone, PumpReceive, disk, history, vars
  <2>9. CASE RotClose \/ RotCloseFails \/ RotRenameFails \/ RotOpenFails
    BY <2>7, <2>9 DEF RotClose, RotCloseFails, RotRenameFails, RotOpenFails, GiveUp, disk,
       history
  <2>10. QED
    BY <2>1, <2>2, <2>3, <2>4, <2>5, <2>6, <2>8, <2>9 DEF Next, PumpStep
<1>3. QED
  BY <1>1, <1>2, SinkTypeCorrect, SequencedHolds, SizedHolds, LatestHolds, PTL
  DEF Spec, ImplementsTailedLog, Tailed!Spec
=============================================================================

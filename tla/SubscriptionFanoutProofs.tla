----------------------- MODULE SubscriptionFanoutProofs -----------------------
(***************************************************************************)
(* Theorems about SubscriptionFanout, for every set of connections, every  *)
(* filter and event, every channel capacity and every bound.               *)
(***************************************************************************)
EXTENDS SubscriptionFanout, TLAPS

-----------------------------------------------------------------------------
(* A channel, seen as a sequence of numbers                                *)

LEMMA Dequeue ==
  ASSUME NEW q \in Seq(Nat), q # <<>>
  PROVE  /\ Head(q) \in Nat /\ Head(q) = q[1]
         /\ Tail(q) \in Seq(Nat)
         /\ Len(Tail(q)) = Len(q) - 1
         /\ \A i \in 1 .. Len(Tail(q)) : Tail(q)[i] = q[i + 1]
OBVIOUS

LEMMA Enqueue ==
  ASSUME NEW q \in Seq(Nat), NEW k \in Nat
  PROVE  /\ Append(q, k) \in Seq(Nat) /\ Append(q, k) # <<>>
         /\ Len(Append(q, k)) = Len(q) + 1
         /\ \A i \in 1 .. Len(q) : Append(q, k)[i] = q[i]
         /\ Append(q, k)[Len(q) + 1] = k
OBVIOUS

LEMMA OrderedEnqueue ==
  ASSUME NEW q \in Seq(Nat), NEW l \in Nat, NEW h \in Nat, NEW m \in Nat,
         l <= m, h <= m, Ordered(q, l, h, m)
  PROVE  Ordered(Append(q, m + 1), l, h, m + 1)
<1> DEFINE n == Len(q)
           r == Append(q, m + 1)
<1>1. /\ n \in Nat /\ Len(r) = n + 1 /\ r[n + 1] = m + 1
      /\ \A i \in 1 .. n : r[i] = q[i]
  BY Enqueue
<1>2. \A i \in 1 .. n :
        /\ q[i] \in Nat /\ l < q[i] /\ h < q[i] /\ q[i] <= m - (n - i)
        /\ \A j \in 1 .. i - 1 : q[j] < q[i]
  BY DEF Ordered
<1> HIDE DEF n, r
<1>3. ASSUME NEW i \in 1 .. n + 1
      PROVE  /\ l < r[i] /\ h < r[i] /\ r[i] <= (m + 1) - ((n + 1) - i)
             /\ \A j \in 1 .. i - 1 : r[j] < r[i]
  <2>1. CASE i \in 1 .. n
    <3>1. PICK x \in Nat : x = q[i]
      BY <1>2, <2>1
    <3>2. l < x /\ h < x /\ x <= m - (n - i)
      BY <1>2, <2>1, <3>1
    <3>3. x <= (m + 1) - ((n + 1) - i)
      BY <1>1, <3>2
    <3>4. \A j \in 1 .. i - 1 : j \in 1 .. n /\ q[j] < x
      BY <1>1, <1>2, <2>1, <3>1
    <3>5. QED
      BY <1>1, <2>1, <3>1, <3>2, <3>3, <3>4
  <2>2. CASE i = n + 1
    <3>1. ASSUME NEW j \in 1 .. n PROVE r[j] < m + 1
      <4>1. PICK x \in Nat : x = q[j] /\ x <= m - (n - j)
        BY <1>2
      <4>2. x < m + 1
        BY <1>1, <4>1
      <4>3. QED
        BY <1>1, <4>1, <4>2
    <3>2. QED
      BY <1>1, <2>2, <3>1
  <2>3. QED
    BY <1>1, <2>1, <2>2
<1>4. QED
  BY <1>1, <1>3 DEF Ordered, r

LEMMA OrderedLater ==
  ASSUME NEW q \in Seq(Nat), NEW l \in Nat, NEW h \in Nat, NEW m \in Nat,
         Ordered(q, l, h, m)
  PROVE  Ordered(q, l, h, m + 1)
<1> SUFFICES ASSUME NEW i \in 1 .. Len(q)
             PROVE  q[i] <= (m + 1) - (Len(q) - i)
  BY DEF Ordered
<1>1. PICK x \in Nat : x = q[i] /\ x <= m - (Len(q) - i)
  BY DEF Ordered
<1>2. QED
  BY <1>1

LEMMA OrderedShown ==
  ASSUME NEW q \in Seq(Nat), NEW l \in Nat, NEW h \in Nat, NEW m \in Nat,
         Ordered(q, l, h, m)
  PROVE  Ordered(q, h, 0, m)
<1>1. ASSUME NEW i \in 1 .. Len(q) PROVE 0 < q[i]
  <2>1. q[i] \in Nat /\ l < q[i]
    BY DEF Ordered
  <2>2. QED
    BY <2>1
<1>2. QED
  BY <1>1 DEF Ordered

LEMMA OrderedDequeue ==
  ASSUME NEW q \in Seq(Nat), q # <<>>, NEW l \in Nat, NEW h \in Nat,
         NEW m \in Nat, Ordered(q, l, h, m)
  PROVE  /\ Ordered(Tail(q), l, Head(q), m)
         /\ l < Head(q) /\ Head(q) \in Nat /\ Head(q) + Len(q) <= m + 1
<1> DEFINE n == Len(q)
           r == Tail(q)
<1>1. /\ n \in Nat /\ n > 0 /\ Len(r) = n - 1 /\ Head(q) = q[1]
      /\ \A i \in 1 .. n - 1 : r[i] = q[i + 1]
  BY Dequeue
<1>2. \A i \in 1 .. n :
        /\ q[i] \in Nat /\ l < q[i] /\ q[i] <= m - (n - i)
        /\ \A j \in 1 .. i - 1 : q[j] < q[i]
  BY DEF Ordered
<1> HIDE DEF n, r
<1>3. ASSUME NEW i \in 1 .. n - 1
      PROVE  /\ l < r[i] /\ q[1] < r[i] /\ r[i] <= m - ((n - 1) - i)
             /\ \A j \in 1 .. i - 1 : r[j] < r[i]
  <2>1. i + 1 \in 1 .. n /\ 1 \in 1 .. (i + 1) - 1
    BY <1>1
  <2>2. PICK x \in Nat : x = q[i + 1]
    BY <1>2, <2>1
  <2>3. l < x /\ q[1] < x /\ x <= m - (n - (i + 1))
    BY <1>2, <2>1, <2>2
  <2>4. x <= m - ((n - 1) - i)
    BY <1>1, <2>3
  <2>5. ASSUME NEW j \in 1 .. i - 1 PROVE r[j] < x
    <3>1. j \in 1 .. n - 1 /\ j + 1 \in 1 .. (i + 1) - 1
      BY <1>1
    <3>2. q[j + 1] < x
      BY <1>2, <2>1, <2>2, <3>1
    <3>3. QED
      BY <1>1, <3>1, <3>2
  <2>6. r[i] = x
    BY <1>1, <2>2
  <2>7. QED
    BY <2>3, <2>4, <2>5, <2>6
<1>4. Ordered(r, l, q[1], m)
  BY <1>1, <1>3 DEF Ordered
<1>5. 1 \in 1 .. n
  BY <1>1
<1>6. PICK x \in Nat : x = q[1] /\ l < x /\ x <= m - (n - 1)
  BY <1>2, <1>5
<1>7. x + n <= m + 1
  BY <1>1, <1>6
<1>8. QED
  BY <1>1, <1>4, <1>6, <1>7 DEF n, r

-----------------------------------------------------------------------------
(* Type correctness                                                        *)

LEMMA TypeInit == Init => TypeOK
<1> SUFFICES ASSUME Init PROVE TypeOK
  OBVIOUS
<1> USE FanoutAssumption DEF Init
<1>1. TypeManager
  <2>1. nextID \in 0 .. MaxSubs
    BY SMT
  <2>2. registered \in SUBSET Ids /\ mgrClosed \in BOOLEAN
    BY Zenon
  <2>3. QED
    BY <2>1, <2>2 DEF TypeManager
<1>2. TypeSubscription
  BY DEF TypeSubscription
<1>3. TypeStreamer
  BY DEF TypeStreamer
<1>4. TypeConnection
  BY DEF TypeConnection
<1>5. TypeWorker
  BY DEF TypeWorker
<1>6. TypeSeen
  BY DEF TypeSeen
<1>7. QED
  BY <1>1, <1>2, <1>3, <1>4, <1>5, <1>6 DEF TypeOK

\* A group of variables that does not change keeps its types.
LEMMA Keep ==
  /\ TypeManager /\ UNCHANGED mgr => TypeManager'
  /\ TypeSubscription /\ UNCHANGED sub => TypeSubscription'
  /\ TypeStreamer /\ UNCHANGED strm => TypeStreamer'
  /\ TypeConnection /\ UNCHANGED conn => TypeConnection'
  /\ TypeWorker /\ UNCHANGED worker => TypeWorker'
  /\ TypeSeen /\ UNCHANGED seen => TypeSeen'
<1>1. TypeManager /\ UNCHANGED mgr => TypeManager'
  BY DEF TypeManager, mgr
<1>2. TypeSubscription /\ UNCHANGED sub => TypeSubscription'
  BY DEF TypeSubscription, sub
<1>3. TypeStreamer /\ UNCHANGED strm => TypeStreamer'
  BY DEF TypeStreamer, strm
<1>4. TypeConnection /\ UNCHANGED conn => TypeConnection'
  BY DEF TypeConnection, conn
<1>5. TypeWorker /\ UNCHANGED worker => TypeWorker'
  BY DEF TypeWorker, worker
<1>6. TypeSeen /\ UNCHANGED seen => TypeSeen'
  BY DEF TypeSeen, seen
<1>7. QED
  BY <1>1, <1>2, <1>3, <1>4, <1>5, <1>6

LEMMA TypePump == TypeOK /\ PumpStep => TypeOK'
<1> SUFFICES ASSUME TypeOK, PumpStep PROVE TypeOK'
  OBVIOUS
<1> USE DEF TypeOK
<1>1. ASSUME NEW ev \in Events, PublishBegin(ev) PROVE TypeOK'
  <2>1. TypeWorker'
    <3>1. pump' = "publish" /\ UNCHANGED <<updates, cancelled, srvClosed>>
      BY <1>1 DEF PublishBegin
    <3>2. todo' \subseteq registered
      BY <1>1 DEF PublishBegin
    <3>3. QED
      BY <3>1, <3>2 DEF TypeWorker, TypeManager
  <2>2. QED
    BY <1>1, <2>1, Keep DEF PublishBegin
<1>2. ASSUME NEW s \in Ids, PublishSend(s) PROVE TypeOK'
  <2>1. ASSUME HasRoom(s) PROVE TypeSubscription'
    <3> DEFINE q == Append(C[s], matched[s] + 1)
    <3>1. C[s] \in Seq(Nat) /\ matched[s] + 1 \in Nat /\ Len(C[s]) < BufSize
      BY <2>1 DEF HasRoom, Queued, TypeSubscription, TypeSeen
    <3>2. q \in Seq(Nat) /\ Len(q) <= BufSize
      BY <3>1, Enqueue, FanoutAssumption
    <3>3. C' = [C EXCEPT ![s] = q] /\ UNCHANGED <<filter, chanClosed, dropped>>
      BY <1>2, <2>1 DEF PublishSend
    <3> HIDE DEF q
    <3>4. QED
      BY <3>2, <3>3 DEF TypeSubscription
  <2>2. ASSUME ~HasRoom(s) PROVE TypeSubscription'
    <3>1. dropped' = [dropped EXCEPT ![s] = @ + 1] /\ UNCHANGED <<filter, chanClosed, C>>
      BY <1>2, <2>2 DEF PublishSend
    <3>2. QED
      BY <3>1 DEF TypeSubscription
  <2>3. TypeSubscription'
    BY <2>1, <2>2
  <2>4. TypeWorker'
    BY <1>2 DEF PublishSend, TypeWorker
  <2>5. TypeSeen'
    BY <1>2 DEF PublishSend, TypeSeen
  <2>6. QED
    BY <1>2, <2>3, <2>4, <2>5, Keep DEF PublishSend
<1>3. CASE PublishEnd
  <2>1. TypeWorker'
    BY <1>3 DEF PublishEnd, TypeWorker
  <2>2. QED
    BY <1>3, <2>1, Keep DEF PublishEnd
<1>4. CASE PumpReturn
  <2>1. TypeWorker'
    BY <1>4 DEF PumpReturn, TypeWorker
  <2>2. QED
    BY <1>4, <2>1, Keep DEF PumpReturn
<1>5. QED
  BY <1>1, <1>2, <1>3, <1>4 DEF PumpStep

LEMMA TypeShutdown == TypeOK /\ ShutdownStep => TypeOK'
<1> SUFFICES ASSUME TypeOK, ShutdownStep PROVE TypeOK'
  OBVIOUS
<1> USE DEF TypeOK
<1>1. CASE Cancel
  <2>1. TypeWorker'
    BY <1>1 DEF Cancel, TypeWorker
  <2>2. QED
    BY <1>1, <2>1, Keep DEF Cancel
<1>2. CASE ServerClose
  <2>1. TypeWorker'
    BY <1>2 DEF ServerClose, TypeWorker
  <2>2. TypeConnection'
    BY <1>2 DEF ServerClose, TypeConnection
  <2>3. QED
    BY <1>2, <2>1, <2>2, Keep DEF ServerClose
<1>3. CASE ManagerClose
  <2>1. TypeManager'
    BY <1>3 DEF ManagerClose, TypeManager
  <2>2. TypeSubscription'
    BY <1>3 DEF ManagerClose, TypeSubscription, TypeManager
  <2>3. QED
    BY <1>3, <2>1, <2>2, Keep DEF ManagerClose
<1>4. QED
  BY <1>1, <1>2, <1>3 DEF ShutdownStep

LEMMA TypeConn ==
  ASSUME TypeOK, NEW c \in Conns, ConnStep(c) PROVE TypeOK'
<1> USE DEF TypeOK
<1>1. CASE Accept(c)
  <2>1. TypeConnection'
    BY <1>1 DEF Accept, TypeConnection
  <2>2. QED
    BY <1>1, <2>1, Keep DEF Accept
<1>2. CASE Disconnect(c)
  <2>1. TypeConnection'
    BY <1>2 DEF Disconnect, TypeConnection
  <2>2. QED
    BY <1>2, <2>1, Keep DEF Disconnect
<1>3. ASSUME NEW f \in Filters, SubscribeRPC(c, f) PROVE TypeOK'
  <2>a. nextID \in 0 .. MaxSubs /\ nextID < MaxSubs /\ nextID' = nextID + 1
    BY <1>3 DEF SubscribeRPC, AddSubscription, TypeManager
  <2>1. nextID + 1 \in Ids /\ nextID' \in 0 .. MaxSubs
    BY <2>a, FanoutAssumption DEF Ids
  <2> USE <1>3 DEF SubscribeRPC, AddSubscription
  <2>2. TypeManager'
    <3>1. registered' \subseteq registered \cup {nextID + 1}
      OBVIOUS
    <3>2. mgrClosed' = mgrClosed
      OBVIOUS
    <3>3. QED
      BY <2>1, <3>1, <3>2 DEF TypeManager
  <2>3. TypeSubscription'
    <3>1. filter' \in [Ids -> Filters \cup {ZeroFilter}]
      BY DEF TypeSubscription
    <3>2. chanClosed' \in [Ids -> BOOLEAN]
      BY DEF TypeSubscription, TypeManager
    <3>3. QED
      BY <3>1, <3>2 DEF TypeSubscription
  <2>4. TypeConnection'
    BY <2>1 DEF TypeConnection
  <2>5. QED
    BY <2>2, <2>3, <2>4, Keep
<1>4. CASE SubscribeReply(c)
  <2> USE <1>4 DEF SubscribeReply
  <2>1. TypeConnection'
    BY DEF TypeConnection
  <2>2. TypeStreamer'
    BY DEF TypeStreamer
  <2>3. TypeSeen'
    <3>1. acked' \in [Ids -> BOOLEAN]
      BY DEF TypeSeen, TypeConnection
    <3>2. QED
      BY <3>1 DEF TypeSeen
  <2>4. QED
    BY <2>1, <2>2, <2>3, Keep
<1>5. ASSUME NEW id \in Ids, UnsubscribeRPC(c, id) PROVE TypeOK'
  <2>1. TypeManager'
    BY <1>5 DEF UnsubscribeRPC, TypeManager
  <2>2. TypeConnection'
    <3>1. CASE id \in registered
      BY <1>5, <3>1 DEF UnsubscribeRPC, TypeConnection
    <3>2. CASE id \notin registered
      BY <1>5, <3>2 DEF UnsubscribeRPC, TypeConnection
    <3>3. QED
      BY <3>1, <3>2
  <2>3. QED
    BY <1>5, <2>1, <2>2, Keep DEF UnsubscribeRPC
<1>6. CASE UnsubscribeClose(c)
  <2>1. TypeSubscription'
    BY <1>6 DEF UnsubscribeClose, TypeSubscription
  <2>2. TypeConnection'
    BY <1>6 DEF UnsubscribeClose, TypeConnection
  <2>3. QED
    BY <1>6, <2>1, <2>2, Keep DEF UnsubscribeClose
<1>7. CASE UnsubscribeReply(c)
  <2>1. TypeConnection'
    BY <1>7 DEF UnsubscribeReply, TypeConnection
  <2>2. QED
    BY <1>7, <2>1, Keep DEF UnsubscribeReply
<1>8. CASE ScanEnd(c)
  <2>1. TypeConnection'
    BY <1>8 DEF ScanEnd, TypeConnection
  <2>2. QED
    BY <1>8, <2>1, Keep DEF ScanEnd
<1>9. ASSUME NEW id \in Ids, CloseAllNext(c, id) PROVE TypeOK'
  <2>1. TypeManager'
    BY <1>9 DEF CloseAllNext, TypeManager
  <2>2. TypeConnection'
    <3>1. CASE id \in registered
      BY <1>9, <3>1 DEF CloseAllNext, TypeConnection
    <3>2. CASE id \notin registered
      BY <1>9, <3>2 DEF CloseAllNext, TypeConnection
    <3>3. QED
      BY <3>1, <3>2
  <2>3. QED
    BY <1>9, <2>1, <2>2, Keep DEF CloseAllNext
<1>10. CASE CloseAllClose(c)
  <2>1. TypeSubscription'
    BY <1>10 DEF CloseAllClose, TypeSubscription
  <2>2. TypeConnection'
    BY <1>10 DEF CloseAllClose, TypeConnection
  <2>3. QED
    BY <1>10, <2>1, <2>2, Keep DEF CloseAllClose
<1>11. CASE Hangup(c)
  <2>1. TypeConnection'
    BY <1>11 DEF Hangup, TypeConnection
  <2>2. QED
    BY <1>11, <2>1, Keep DEF Hangup
<1>12. QED
  BY <1>1, <1>2, <1>3, <1>4, <1>5, <1>6, <1>7, <1>8, <1>9, <1>10, <1>11
  DEF ConnStep

LEMMA TypeStream ==
  ASSUME TypeOK, NEW s \in Ids, StreamStep(s) PROVE TypeOK'
<1> USE DEF TypeOK
<1>1. CASE Receive(s)
  <2>1. C[s] \in Seq(Nat) /\ C[s] # <<>> /\ Len(C[s]) <= BufSize
    BY <1>1 DEF Receive, TypeSubscription
  <2>2. /\ Head(C[s]) \in Nat
        /\ Tail(C[s]) \in Seq(Nat) /\ Len(Tail(C[s])) <= BufSize
    BY <2>1, Dequeue, FanoutAssumption
  <2>3. TypeSubscription'
    BY <1>1, <2>2 DEF Receive, TypeSubscription
  <2>4. TypeStreamer'
    BY <1>1, <2>2 DEF Receive, TypeStreamer
  <2>5. QED
    BY <1>1, <2>3, <2>4, Keep DEF Receive
<1>2. CASE ReceiveClosed(s)
  <2>1. TypeStreamer'
    BY <1>2 DEF ReceiveClosed, TypeStreamer
  <2>2. QED
    BY <1>2, <2>1, Keep DEF ReceiveClosed
<1>3. CASE ReceiveDone(s)
  <2>1. TypeStreamer'
    BY <1>3 DEF ReceiveDone, TypeStreamer
  <2>2. QED
    BY <1>3, <2>1, Keep DEF ReceiveDone
<1>4. CASE ResetDropped(s)
  <2>1. TypeStreamer'
    BY <1>4 DEF ResetDropped, TypeStreamer, TypeSubscription
  <2>2. TypeSubscription'
    BY <1>4 DEF ResetDropped, TypeSubscription
  <2>3. QED
    BY <1>4, <2>1, <2>2, Keep DEF ResetDropped
<1>5. CASE WriteLag(s)
  <2>1. TypeStreamer'
    BY <1>5 DEF WriteLag, TypeStreamer
  <2>2. TypeSeen'
    BY <1>5 DEF WriteLag, TypeStreamer, TypeSeen
  <2>3. QED
    BY <1>5, <2>1, <2>2, Keep DEF WriteLag
<1>6. CASE WriteUpdate(s)
  <2>1. TypeStreamer'
    BY <1>6 DEF WriteUpdate, TypeStreamer
  <2>2. TypeSeen'
    BY <1>6 DEF WriteUpdate, TypeStreamer, TypeSeen
  <2>3. QED
    BY <1>6, <2>1, <2>2, Keep DEF WriteUpdate
<1>7. QED
  BY <1>1, <1>2, <1>3, <1>4, <1>5, <1>6 DEF StreamStep

LEMMA TypeStep == TypeOK /\ [Next]_vars => TypeOK'
<1> SUFFICES ASSUME TypeOK, [Next]_vars PROVE TypeOK'
  OBVIOUS
<1>1. CASE UNCHANGED vars
  BY <1>1, Keep DEF vars, TypeOK
<1>2. CASE Next
  BY <1>2, TypePump, TypeShutdown, TypeConn, TypeStream DEF Next
<1>3. QED
  BY <1>1, <1>2

\* Type correctness: every variable keeps its type, and a subscription's
\* channel never holds more than its capacity.
THEOREM TypeCorrect == Spec => []TypeOK
  BY TypeInit, TypeStep, PTL DEF Spec

-----------------------------------------------------------------------------
(* The life of a subscription                                              *)

Life == TypeOK /\ Lifecycle

LEMMA LifeInit == Init => Lifecycle
<1> SUFFICES ASSUME Init PROVE Lifecycle
  OBVIOUS
<1> USE FanoutAssumption DEF Init
<1>1. PumpLife
  BY DEF PumpLife
<1>2. ASSUME NEW s \in Ids PROVE SubLife(s)
  BY DEF SubLife
<1>3. ASSUME NEW c \in Conns PROVE ConnLife(c)
  BY DEF ConnLife
<1>4. NoOrphan /\ ResponseFirst
  BY DEF NoOrphan, ResponseFirst
<1>5. QED
  BY <1>1, <1>2, <1>3, <1>4 DEF Lifecycle

\* The pump only moves inside its own state and the channels.
LEMMA LifePump ==
  ASSUME Life, PumpStep PROVE Lifecycle'
<1> USE DEF Life, Lifecycle
<1>1. UNCHANGED <<mgr, chanClosed, strm, conn, acked, delivered, last, told>>
  BY DEF PumpStep, PublishBegin, PublishSend, PublishEnd, PumpReturn,
         sub, worker, seen
<1>2. PumpLife'
  BY DEF PumpStep, PublishBegin, PublishSend, PublishEnd, PumpReturn, mgr, PumpLife
<1>3. ASSUME NEW s \in Ids PROVE SubLife(s)'
  BY <1>1 DEF SubLife, mgr, strm, conn
<1>4. ASSUME NEW c \in Conns PROVE ConnLife(c)'
  BY <1>1 DEF ConnLife, mgr, strm, conn
<1>5. NoOrphan' /\ ResponseFirst'
  BY <1>1 DEF NoOrphan, ResponseFirst, mgr, conn
<1>6. QED
  BY <1>2, <1>3, <1>4, <1>5

LEMMA LifeShutdown ==
  ASSUME Life, ShutdownStep PROVE Lifecycle'
<1> USE DEF Life, Lifecycle, TypeOK
<1>1. CASE Cancel
  <2>1. UNCHANGED <<mgr, sub, strm, conn, pump, todo, seen>>
    BY <1>1 DEF Cancel
  <2>2. PumpLife'
    BY <2>1 DEF PumpLife, mgr
  <2>3. ASSUME NEW s \in Ids PROVE SubLife(s)'
    BY <2>1 DEF SubLife, mgr, sub, strm, conn, seen
  <2>4. ASSUME NEW c \in Conns PROVE ConnLife(c)'
    BY <2>1 DEF ConnLife, mgr, strm, conn
  <2>5. NoOrphan' /\ ResponseFirst'
    BY <2>1 DEF NoOrphan, ResponseFirst, mgr, conn, seen
  <2>6. QED
    BY <2>2, <2>3, <2>4, <2>5
<1>2. CASE ServerClose
  <2>1. /\ UNCHANGED <<mgr, sub, strm, pc, cur, owned, left, owner, pump, todo, seen>>
        /\ \A c \in Conns : ~open'[c]
    BY <1>2 DEF ServerClose
  <2>2. PumpLife'
    BY <2>1 DEF PumpLife, mgr
  <2>3. ASSUME NEW s \in Ids PROVE SubLife(s)'
    BY <2>1 DEF SubLife, mgr, sub, strm, seen
  <2>4. ASSUME NEW c \in Conns PROVE ConnLife(c)'
    BY <2>1 DEF ConnLife, mgr, strm
  <2>5. NoOrphan' /\ ResponseFirst'
    BY <2>1 DEF NoOrphan, ResponseFirst, mgr, seen
  <2>6. QED
    BY <2>2, <2>3, <2>4, <2>5
<1>3. CASE ManagerClose
  <2>1. /\ UNCHANGED <<nextID, strm, conn, pump, todo, seen>>
        /\ registered' = {} /\ pump = "returned"
    BY <1>3 DEF ManagerClose, worker
  <2>2. PumpLife'
    BY <2>1 DEF PumpLife
  <2>3. ASSUME NEW s \in Ids PROVE SubLife(s)'
    BY <2>1 DEF SubLife, strm, conn, seen
  <2>4. ASSUME NEW c \in Conns PROVE ConnLife(c)'
    BY <2>1 DEF ConnLife, strm, conn
  <2>5. NoOrphan' /\ ResponseFirst'
    BY <2>1 DEF NoOrphan, ResponseFirst, conn, seen
  <2>6. QED
    BY <2>2, <2>3, <2>4, <2>5
<1>4. QED
  BY <1>1, <1>2, <1>3 DEF ShutdownStep

\* A streamer never changes the map or a connection, starts no streamer, and
\* shows or tells nothing on a socket that is closed.
LEMMA LifeStream ==
  ASSUME Life, NEW t \in Ids, StreamStep(t) PROVE Lifecycle'
<1> USE DEF Life, Lifecycle, TypeOK
<1>1. UNCHANGED <<mgr, chanClosed, conn, pump, todo, acked>>
  BY DEF StreamStep, Receive, ReceiveClosed, ReceiveDone, ResetDropped,
         WriteLag, WriteUpdate, sub, worker, seen
<1>2. /\ stream[t] # "none" /\ stream'[t] # "none"
      /\ \A s \in Ids : s # t => stream'[s] = stream[s]
  BY DEF StreamStep, Receive, ReceiveClosed, ReceiveDone, ResetDropped,
         WriteLag, WriteUpdate, TypeStreamer
<1>3. \/ UNCHANGED <<delivered, told>>
      \/ /\ open[owner[t]]
         /\ \A s \in Ids : s # t => delivered'[s] = delivered[s] /\ told'[s] = told[s]
  BY DEF StreamStep, Receive, ReceiveClosed, ReceiveDone, ResetDropped,
         WriteLag, WriteUpdate, TypeSeen, seen
<1>4. PumpLife'
  BY <1>1 DEF PumpLife, mgr
<1>5. ASSUME NEW s \in Ids PROVE SubLife(s)'
  BY <1>1, <1>2, <1>3 DEF SubLife, mgr, conn
<1>6. ASSUME NEW c \in Conns PROVE ConnLife(c)'
  <2>1. pc[c] = "reply" => cur[c] # t /\ cur[c] \in Ids
    BY <1>2 DEF ConnLife, TypeConnection
  <2>2. QED
    BY <1>1, <1>2, <2>1 DEF ConnLife, mgr, conn
<1>7. NoOrphan'
  BY <1>1 DEF NoOrphan, mgr, conn
<1>8. ResponseFirst'
  <2>1. acked[t] \/ ~open[owner[t]]
    BY <1>2 DEF SubLife
  <2>2. QED
    BY <1>1, <1>3, <2>1 DEF ResponseFirst
<1>9. QED
  BY <1>4, <1>5, <1>6, <1>7, <1>8

LEMMA LifeConn ==
  ASSUME Life, NEW d \in Conns, ConnStep(d) PROVE Lifecycle'
<1> USE DEF Life, Lifecycle, TypeOK
<1> DEFINE Owners == NoOrphan' /\ ResponseFirst'
<1>1. CASE Accept(d)
  <2> USE <1>1 DEF Accept
  <2>1. PumpLife'
    BY DEF PumpLife, mgr, worker
  <2>2. ASSUME NEW s \in Ids PROVE SubLife(s)'
    BY DEF SubLife, TypeConnection, mgr, sub, strm, seen
  <2>3. ASSUME NEW c \in Conns PROVE ConnLife(c)'
    BY DEF ConnLife, TypeConnection, mgr, strm
  <2>4. Owners
    BY DEF NoOrphan, ResponseFirst, TypeConnection, SubLife, mgr, seen
  <2>5. QED
    BY <2>1, <2>2, <2>3, <2>4
<1>2. CASE Disconnect(d)
  <2> USE <1>2 DEF Disconnect
  <2>1. PumpLife'
    BY DEF PumpLife, mgr, worker
  <2>2. ASSUME NEW s \in Ids PROVE SubLife(s)'
    BY DEF SubLife, TypeConnection, mgr, sub, strm, seen
  <2>3. ASSUME NEW c \in Conns PROVE ConnLife(c)'
    BY DEF ConnLife, mgr, strm
  <2>4. Owners
    BY DEF NoOrphan, ResponseFirst, mgr, seen
  <2>5. QED
    BY <2>1, <2>2, <2>3, <2>4
<1>3. ASSUME NEW f \in Filters, SubscribeRPC(d, f) PROVE Lifecycle'
  <2> DEFINE id == nextID + 1
  <2>a. nextID \in 0 .. MaxSubs /\ nextID < MaxSubs
    BY <1>3 DEF SubscribeRPC, AddSubscription, TypeManager
  <2>b. id \in Ids
    BY <2>a, FanoutAssumption DEF Ids
  <2>c. id \notin registered /\ stream[id] = "none"
    BY <2>a, <2>b DEF SubLife
  <2> USE <1>3, <2>a, <2>b, <2>c DEF SubscribeRPC, AddSubscription
  <2>1. PumpLife'
    BY DEF PumpLife, worker
  <2>2. ASSUME NEW s \in Ids PROVE SubLife(s)'
    <3>1. CASE s = id
      BY <3>1 DEF SubLife, TypeConnection, TypeSubscription, TypeManager, strm, seen
    <3>2. CASE s # id
      BY <3>2 DEF SubLife, TypeConnection, TypeManager, Ids, strm, seen
    <3>3. QED
      BY <3>1, <3>2
  <2>3. ASSUME NEW c \in Conns PROVE ConnLife(c)'
    BY DEF ConnLife, TypeConnection, TypeManager, Ids, strm
  <2>4. NoOrphan'
    <3> SUFFICES ASSUME NEW s \in registered'
                 PROVE  /\ owner'[s] \in Conns /\ pc'[owner'[s]] # "gone"
                        /\ s \in owned'[owner'[s]] \cup left'[owner'[s]]
      BY DEF NoOrphan
    <3>1. CASE s = id
      BY <3>1 DEF TypeConnection
    <3>2. CASE s # id
      BY <3>2 DEF NoOrphan, TypeConnection, TypeManager
    <3>3. QED
      BY <3>1, <3>2
  <2>5. ResponseFirst'
    BY DEF ResponseFirst, seen
  <2>6. QED
    BY <2>1, <2>2, <2>3, <2>4, <2>5
<1>4. CASE SubscribeReply(d)
  <2> DEFINE id == cur[d]
  <2>a. /\ id \in 1 .. nextID /\ id \in Ids
        /\ owner[id] = d /\ stream[id] = "none" /\ delivered[id] + told[id] = 0
    BY <1>4 DEF SubscribeReply, ConnLife, SubLife, TypeManager, TypeConnection, Ids
  <2> USE <1>4, <2>a DEF SubscribeReply
  <2>1. PumpLife'
    BY DEF PumpLife, mgr, worker
  <2>2. ASSUME NEW s \in Ids PROVE SubLife(s)'
    <3>1. CASE s = id
      BY <3>1 DEF SubLife, TypeConnection, TypeStreamer, TypeSeen, TypeManager, mgr, sub
    <3>2. CASE s # id
      BY <3>2 DEF SubLife, TypeConnection, TypeStreamer, TypeSeen, mgr, sub
    <3>3. QED
      BY <3>1, <3>2
  <2>3. ASSUME NEW c \in Conns PROVE ConnLife(c)'
    BY DEF ConnLife, TypeConnection, TypeStreamer, mgr
  <2>4. NoOrphan'
    BY DEF NoOrphan, TypeConnection, mgr
  <2>5. ResponseFirst'
    BY DEF ResponseFirst, TypeSeen
  <2>6. QED
    BY <2>1, <2>2, <2>3, <2>4, <2>5
<1>5. ASSUME NEW id \in Ids, UnsubscribeRPC(d, id) PROVE Lifecycle'
  <2>a. /\ pc[d] = "scan" /\ registered' \subseteq registered /\ todo = {}
        /\ \A c \in Conns : c # d => /\ pc'[c] = pc[c] /\ cur'[c] = cur[c]
                                     /\ owned'[c] = owned[c]
        /\ pc'[d] \in {"close", "unsubscribed"}
        /\ UNCHANGED <<nextID, mgrClosed, sub, strm, left, open, owner, worker, seen>>
    BY <1>5 DEF UnsubscribeRPC, Unlocked, PumpLife, TypeConnection
  <2>1. PumpLife'
    BY <2>a DEF PumpLife, worker
  <2>2. ASSUME NEW s \in Ids PROVE SubLife(s)'
    BY <2>a DEF SubLife, sub, strm, seen
  <2>3. ASSUME NEW c \in Conns PROVE ConnLife(c)'
    <3>1. CASE c = d /\ id \in registered
      BY <1>5, <3>1 DEF UnsubscribeRPC, ConnLife, SubLife, TypeConnection, TypeManager, Ids
    <3>2. CASE c = d /\ id \notin registered
      BY <1>5, <3>2 DEF UnsubscribeRPC, ConnLife, TypeConnection
    <3>3. CASE c # d
      BY <2>a, <3>3 DEF ConnLife, strm
    <3>4. QED
      BY <3>1, <3>2, <3>3
  <2>4. NoOrphan'
    <3>1. CASE id \in registered
      BY <1>5, <3>1 DEF UnsubscribeRPC, NoOrphan, TypeConnection
    <3>2. CASE id \notin registered
      BY <1>5, <3>2 DEF UnsubscribeRPC, NoOrphan, TypeConnection
    <3>3. QED
      BY <3>1, <3>2
  <2>5. ResponseFirst'
    BY <2>a DEF ResponseFirst, seen
  <2>6. QED
    BY <2>1, <2>2, <2>3, <2>4, <2>5
<1>6. CASE UnsubscribeClose(d)
  <2>a. cur[d] \notin registered
    BY <1>6 DEF UnsubscribeClose, ConnLife
  <2> USE <1>6, <2>a DEF UnsubscribeClose
  <2>1. PumpLife'
    BY DEF PumpLife, mgr, worker
  <2>2. ASSUME NEW s \in Ids PROVE SubLife(s)'
    BY DEF SubLife, TypeConnection, TypeSubscription, mgr, strm, seen
  <2>3. ASSUME NEW c \in Conns PROVE ConnLife(c)'
    BY DEF ConnLife, TypeConnection, mgr, strm
  <2>4. Owners
    BY DEF NoOrphan, ResponseFirst, TypeConnection, mgr, seen
  <2>5. QED
    BY <2>1, <2>2, <2>3, <2>4
<1>7. CASE UnsubscribeReply(d)
  <2> USE <1>7 DEF UnsubscribeReply
  <2>1. PumpLife'
    BY DEF PumpLife, mgr, worker
  <2>2. ASSUME NEW s \in Ids PROVE SubLife(s)'
    BY DEF SubLife, TypeConnection, mgr, sub, strm, seen
  <2>3. ASSUME NEW c \in Conns PROVE ConnLife(c)'
    BY DEF ConnLife, TypeConnection, mgr, strm
  <2>4. Owners
    BY DEF NoOrphan, ResponseFirst, TypeConnection, mgr, seen
  <2>5. QED
    BY <2>1, <2>2, <2>3, <2>4
<1>8. CASE ScanEnd(d)
  <2> USE <1>8 DEF ScanEnd
  <2>1. PumpLife'
    BY DEF PumpLife, mgr, worker
  <2>2. ASSUME NEW s \in Ids PROVE SubLife(s)'
    BY DEF SubLife, TypeConnection, mgr, sub, strm, seen
  <2>3. ASSUME NEW c \in Conns PROVE ConnLife(c)'
    BY DEF ConnLife, TypeConnection, mgr, strm
  <2>4. Owners
    BY DEF NoOrphan, ResponseFirst, ConnLife, TypeConnection, mgr, seen
  <2>5. QED
    BY <2>1, <2>2, <2>3, <2>4
<1>9. ASSUME NEW id \in Ids, CloseAllNext(d, id) PROVE Lifecycle'
  <2>a. /\ pc[d] = "closeall" /\ registered' \subseteq registered /\ todo = {}
        /\ registered' = registered \ {id}
        /\ pc'[d] \in {"closeall", "closing"} /\ left'[d] = left[d] \ {id}
        /\ \A c \in Conns : c # d => /\ pc'[c] = pc[c] /\ cur'[c] = cur[c]
                                     /\ left'[c] = left[c]
        /\ UNCHANGED <<nextID, mgrClosed, sub, strm, owned, open, owner, worker, seen>>
    BY <1>9 DEF CloseAllNext, Unlocked, PumpLife, TypeConnection
  <2>1. PumpLife'
    BY <2>a DEF PumpLife, worker
  <2>2. ASSUME NEW s \in Ids PROVE SubLife(s)'
    BY <2>a DEF SubLife, sub, strm, seen
  <2>3. ASSUME NEW c \in Conns PROVE ConnLife(c)'
    <3>1. CASE c = d /\ id \in registered
      BY <1>9, <3>1 DEF CloseAllNext, ConnLife, SubLife, TypeConnection, TypeManager, Ids
    <3>2. CASE c = d /\ id \notin registered
      BY <1>9, <3>2 DEF CloseAllNext, ConnLife, TypeConnection
    <3>3. CASE c # d
      BY <2>a, <3>3 DEF ConnLife, strm
    <3>4. QED
      BY <3>1, <3>2, <3>3
  <2>4. NoOrphan'
    BY <2>a DEF NoOrphan
  <2>5. ResponseFirst'
    BY <2>a DEF ResponseFirst, seen
  <2>6. QED
    BY <2>1, <2>2, <2>3, <2>4, <2>5
<1>10. CASE CloseAllClose(d)
  <2>a. cur[d] \notin registered
    BY <1>10 DEF CloseAllClose, ConnLife
  <2> USE <1>10, <2>a DEF CloseAllClose
  <2>1. PumpLife'
    BY DEF PumpLife, mgr, worker
  <2>2. ASSUME NEW s \in Ids PROVE SubLife(s)'
    BY DEF SubLife, TypeConnection, TypeSubscription, mgr, strm, seen
  <2>3. ASSUME NEW c \in Conns PROVE ConnLife(c)'
    BY DEF ConnLife, TypeConnection, mgr, strm
  <2>4. Owners
    BY DEF NoOrphan, ResponseFirst, TypeConnection, mgr, seen
  <2>5. QED
    BY <2>1, <2>2, <2>3, <2>4
<1>11. CASE Hangup(d)
  <2> USE <1>11 DEF Hangup
  <2>1. PumpLife'
    BY DEF PumpLife, mgr, worker
  <2>2. ASSUME NEW s \in Ids PROVE SubLife(s)'
    BY DEF SubLife, TypeConnection, mgr, sub, strm, seen
  <2>3. ASSUME NEW c \in Conns PROVE ConnLife(c)'
    BY DEF ConnLife, TypeConnection, mgr, strm
  <2>4. Owners
    BY DEF NoOrphan, ResponseFirst, ConnLife, TypeConnection, mgr, seen
  <2>5. QED
    BY <2>1, <2>2, <2>3, <2>4
<1>12. QED
  BY <1>1, <1>2, <1>3, <1>4, <1>5, <1>6, <1>7, <1>8, <1>9, <1>10, <1>11
  DEF ConnStep

\* The life of every subscription: it belongs to the connection that asked for
\* it, is unregistered and closed once, and starts with its response.
THEOREM LifeCorrect == Spec => []Life
<1>1. Init => Life
  BY TypeInit, LifeInit DEF Life
<1>2. Life /\ [Next]_vars => Life'
  <2> SUFFICES ASSUME Life, [Next]_vars PROVE Life'
    OBVIOUS
  <2>1. TypeOK'
    BY TypeStep DEF Life
  <2>2. CASE UNCHANGED vars
    <3> USE <2>2 DEF vars, mgr, sub, strm, conn, worker, seen, Life, Lifecycle
    <3>1. PumpLife' /\ NoOrphan' /\ ResponseFirst'
      BY DEF PumpLife, NoOrphan, ResponseFirst
    <3>2. ASSUME NEW s \in Ids PROVE SubLife(s)'
      BY DEF SubLife
    <3>3. ASSUME NEW c \in Conns PROVE ConnLife(c)'
      BY DEF ConnLife
    <3>4. QED
      BY <2>1, <3>1, <3>2, <3>3
  <2>3. CASE Next
    BY <2>1, <2>3, LifePump, LifeShutdown, LifeConn, LifeStream DEF Next, Life
  <2>4. QED
    BY <2>2, <2>3
<1>3. QED
  BY <1>1, <1>2, PTL DEF Spec

\* The manager's maps, the subscriptions, their writers and the connections agree at
\* every moment (SubscriptionManager).
THEOREM LifecycleHolds == Spec => []Lifecycle
<1>1. Life => Lifecycle
  BY DEF Life
<1>2. QED
  BY <1>1, LifeCorrect, PTL

\* No send on a closed channel: the subscriptions Publish ranges over stay in
\* the map until it returns, and only what left the map is closed.
THEOREM NoPanic == Spec => []NoSendOnClosed
<1>1. Life => NoSendOnClosed
  BY DEF Life, Lifecycle, PumpLife, SubLife, NoSendOnClosed, TypeOK, TypeManager
<1>2. QED
  BY <1>1, LifeCorrect, PTL

\* Every registered subscription has a live handler that will unregister it.
THEOREM NoSubscriptionOrphaned == Spec => []NoOrphan
<1>1. Life => NoOrphan
  BY DEF Life, Lifecycle
<1>2. QED
  BY <1>1, LifeCorrect, PTL

\* The response to "subscribe" comes before every frame of its stream.
THEOREM ResponseBeforeStream == Spec => []ResponseFirst
<1>1. Life => ResponseFirst
  BY DEF Life, Lifecycle
<1>2. QED
  BY <1>1, LifeCorrect, PTL

-----------------------------------------------------------------------------
(* The feed                                                                *)

\* What FeedInvOf(s) is about.
FeedVars(s) == <<C[s], dropped[s], stream[s], held[s], heldLag[s],
                 matched[s], delivered[s], last[s], told[s]>>

LEMMA FeedKeep ==
  ASSUME NEW s \in Ids, FeedInvOf(s), UNCHANGED FeedVars(s)
  PROVE  FeedInvOf(s)'
BY DEF FeedInvOf, FeedVars, Accounted, InHand, Carried, QueueOrder, HandFits,
       HandOrder, Pending, Queued

\* The types of what FeedInvOf(s) is about.
FeedTypes(s) ==
  /\ Queued(s) \in Nat /\ dropped[s] \in Nat /\ held[s] \in Nat /\ heldLag[s] \in Nat
  /\ matched[s] \in Nat /\ delivered[s] \in Nat /\ last[s] \in Nat
  /\ told[s] \in Nat

LEMMA FeedTyped ==
  ASSUME TypeOK, NEW s \in Ids PROVE FeedTypes(s)
<1>1. C[s] \in Seq(Nat)
  BY DEF TypeOK, TypeSubscription
<1>2. Queued(s) \in Nat
  BY <1>1 DEF Queued
<1>3. dropped[s] \in Nat /\ held[s] \in Nat /\ heldLag[s] \in Nat
  BY DEF TypeOK, TypeSubscription, TypeStreamer
<1>4. /\ matched[s] \in Nat /\ delivered[s] \in Nat /\ last[s] \in Nat
      /\ told[s] \in Nat
  BY DEF TypeOK, TypeSeen
<1>5. QED
  BY <1>1, <1>2, <1>3, <1>4 DEF FeedTypes

LEMMA FeedInit == Init => FeedInv
<1> SUFFICES ASSUME Init, NEW s \in Ids PROVE FeedInvOf(s)
  BY DEF FeedInv
<1>1. /\ C[s] = <<>> /\ dropped[s] = 0 /\ stream[s] = "none"
      /\ held[s] = 0 /\ heldLag[s] = 0 /\ matched[s] = 0
      /\ delivered[s] = 0 /\ last[s] = 0 /\ told[s] = 0
  BY DEF Init
<1>2. QED
  BY <1>1 DEF FeedInvOf, Accounted, InHand, Carried, QueueOrder, Ordered,
              HandFits, HandOrder, Pending, Queued

\* The event is queued or counted.
LEMMA FeedPublishSend ==
  ASSUME Life, FeedInv, NEW s \in Ids, PublishSend(s) PROVE FeedInvOf(s)'
<1>1. Accounted(s) /\ Carried(s) /\ QueueOrder(s) /\ HandFits(s) /\ HandOrder(s)
  BY DEF FeedInv, FeedInvOf
<1>2. /\ matched[s]' = matched[s] + 1
      /\ UNCHANGED <<stream[s], held[s], heldLag[s], delivered[s], last[s], told[s]>>
  BY DEF PublishSend, strm, Life, TypeOK, TypeSeen
<1>t. FeedTypes(s)
  BY FeedTyped DEF Life
<1>q. C[s] \in Seq(Nat)
  BY DEF Life, TypeOK, TypeSubscription
<1>i. InHand(s)' = InHand(s) /\ InHand(s) \in Nat
  BY <1>2 DEF InHand
<1> USE <1>t DEF FeedTypes
<1>3. HandFits(s)'
  BY <1>1, <1>2 DEF HandFits
<1>h. last[s] <= matched[s] /\ held[s] <= matched[s]
  BY <1>1 DEF HandOrder
<1>4. CASE HasRoom(s)
  <2>1. C[s]' = Append(C[s], matched[s] + 1) /\ dropped[s]' = dropped[s]
    BY <1>4 DEF PublishSend, Life, TypeOK, TypeSubscription
  <2>2. Queued(s)' = Queued(s) + 1 /\ C[s]' # <<>>
    <3> DEFINE q == Append(C[s], matched[s] + 1)
    <3>1. matched[s] + 1 \in Nat
      OBVIOUS
    <3>2. Len(q) = Len(C[s]) + 1 /\ q # <<>>
      BY <1>q, <3>1, Enqueue
    <3>3. C[s]' = q
      BY <2>1
    <3> HIDE DEF q
    <3>4. QED
      BY <3>2, <3>3 DEF Queued
  <2>d. dropped[s]' = dropped[s]
    BY <2>1
  <2>n. Queued(s)' = Queued(s) + 1
    BY <2>2
  <2>3. Accounted(s)'
    BY <1>1, <1>2, <1>i, <2>d, <2>n DEF Accounted
  <2>4. Carried(s)'
    BY <2>2 DEF Carried
  <2>5. HandOrder(s)'
    BY <1>1, <1>2, <1>h, <2>d DEF HandOrder, Pending
  <2>6. QueueOrder(s)'
    BY <1>1, <1>2, <1>h, <1>q, <2>1, OrderedEnqueue DEF QueueOrder
  <2>7. QED
    BY <1>3, <2>3, <2>4, <2>5, <2>6 DEF FeedInvOf
<1>5. CASE ~HasRoom(s)
  <2>1. C[s]' = C[s] /\ dropped[s]' = dropped[s] + 1
    BY <1>5 DEF PublishSend, Life, TypeOK, TypeSubscription
  <2>2. Queued(s)' = Queued(s) /\ Queued(s) > 0
    BY <1>5, <2>1, FanoutAssumption DEF HasRoom, Queued
  <2>d. dropped[s]' = dropped[s] + 1
    BY <2>1
  <2>3. Accounted(s)'
    BY <1>1, <1>2, <1>i, <2>d, <2>2 DEF Accounted
  <2>4. Carried(s)'
    BY <1>q, <2>1, <2>2 DEF Carried, Queued
  <2>5. HandOrder(s)'
    <3>1. Pending(s) \in Nat /\ Pending(s)' \in Nat /\ Pending(s) <= Pending(s)'
      BY <1>2, <2>d DEF Pending
    <3>2. last[s] <= matched[s] + 1 /\ held[s] <= matched[s] + 1
      BY <1>h
    <3>3. QED
      BY <1>1, <1>2, <3>1, <3>2 DEF HandOrder
  <2>6. QueueOrder(s)'
    <3>1. Ordered(C[s], last[s], held[s], matched[s] + 1)
      BY <1>1, <1>q, OrderedLater DEF QueueOrder
    <3>2. QED
      BY <1>2, <2>1, <3>1 DEF QueueOrder
  <2>7. QED
    BY <1>3, <2>3, <2>4, <2>5, <2>6 DEF FeedInvOf
<1>6. QED
  BY <1>4, <1>5

\* The head of the queue moves into the streamer's hand: the drops counted so
\* far cover the gap before it.
LEMMA FeedReceive ==
  ASSUME Life, FeedInv, NEW s \in Ids, Receive(s) PROVE FeedInvOf(s)'
<1>1. Accounted(s) /\ Carried(s) /\ QueueOrder(s) /\ HandFits(s) /\ HandOrder(s)
  BY DEF FeedInv, FeedInvOf
<1>t. FeedTypes(s)
  BY FeedTyped DEF Life
<1>q. C[s] \in Seq(Nat)
  BY DEF Life, TypeOK, TypeSubscription
<1>2. /\ stream[s] = "select" /\ stream[s]' = "received"
      /\ UNCHANGED <<dropped[s], heldLag[s], matched[s], delivered[s], last[s], told[s]>>
  BY DEF Receive, Life, TypeOK, TypeStreamer, seen
<1>3. C[s] # <<>> /\ C[s]' = Tail(C[s]) /\ held[s]' = Head(C[s])
  BY DEF Receive, Life, TypeOK, TypeSubscription, TypeStreamer
<1>4. PICK k \in Nat : k = Head(C[s])
  BY <1>3, <1>q, Dequeue
<1> USE <1>t DEF FeedTypes
<1>5. /\ last[s] < k /\ k + Queued(s) <= matched[s] + 1
      /\ Ordered(Tail(C[s]), last[s], k, matched[s])
  BY <1>1, <1>3, <1>4, <1>q, OrderedDequeue DEF QueueOrder, Queued
<1>6. Queued(s)' = Queued(s) - 1 /\ Queued(s) > 0
  BY <1>3, <1>q, Dequeue DEF Queued
<1>7. held[s]' = k /\ k # 0 /\ held[s] = 0 /\ heldLag[s] = 0
  BY <1>1, <1>2, <1>3, <1>4, <1>5 DEF HandFits
<1>8. matched[s] = delivered[s] + told[s] + Queued(s) + dropped[s]
  BY <1>1, <1>7 DEF Accounted, InHand
<1>9. Accounted(s)'
  <2>1. InHand(s)' = 1
    BY <1>7 DEF InHand
  <2>2. QED
    BY <1>2, <1>6, <1>7, <1>8, <2>1 DEF Accounted
<1>10. Carried(s)' /\ HandFits(s)'
  BY <1>2, <1>7 DEF Carried, HandFits
<1>11. HandOrder(s)'
  <2>1. k <= matched[s]
    BY <1>5, <1>6
  <2>2. k - 1 - delivered[s] <= told[s] + dropped[s]
    BY <1>5, <1>8
  <2>3. Pending(s)' = dropped[s]
    BY <1>2, <1>7 DEF Pending
  <2>4. last[s] <= matched[s]
    BY <1>1 DEF HandOrder
  <2>5. QED
    BY <1>2, <1>5, <1>7, <2>1, <2>2, <2>3, <2>4 DEF HandOrder
<1>12. QueueOrder(s)'
  BY <1>2, <1>3, <1>5, <1>7 DEF QueueOrder
<1>13. QED
  BY <1>9, <1>10, <1>11, <1>12 DEF FeedInvOf

\* The rest of the streamer: the queue is not touched.
LEMMA FeedStream ==
  ASSUME Life, FeedInv, NEW s \in Ids, StreamStep(s), ~Receive(s)
  PROVE  FeedInvOf(s)'
<1>1. Accounted(s) /\ Carried(s) /\ QueueOrder(s) /\ HandFits(s) /\ HandOrder(s)
  BY DEF FeedInv, FeedInvOf
<1>t. FeedTypes(s)
  BY FeedTyped DEF Life
<1> USE <1>t DEF FeedTypes
<1> DEFINE Parts == Accounted(s)' /\ Carried(s)' /\ HandFits(s)' /\ HandOrder(s)'
<1>2. CASE ReceiveClosed(s) \/ ReceiveDone(s)
  <2>1. /\ stream[s] = "select" /\ stream[s]' = "done"
        /\ UNCHANGED <<C[s], dropped[s], held[s], heldLag[s], matched[s],
                       delivered[s], last[s], told[s]>>
    BY <1>2 DEF Life, TypeOK, ReceiveClosed, ReceiveDone, TypeStreamer, sub, seen
  <2>q. Queued(s)' = Queued(s)
    BY <2>1 DEF Queued
  <2>2. Parts
    <3>1. Accounted(s)'
      BY <1>1, <2>1, <2>q DEF Accounted, InHand, HandFits
    <3>2. Carried(s)'
      BY <1>1, <2>1, <2>q DEF Carried
    <3>3. HandFits(s)'
      BY <1>1, <2>1, <2>q DEF HandFits
    <3>4. HandOrder(s)'
      BY <1>1, <2>1, <2>q DEF HandOrder, HandFits, Pending
    <3>5. QED
      BY <3>1, <3>2, <3>3, <3>4
  <2>3. QueueOrder(s)'
    BY <1>1, <2>1 DEF QueueOrder
  <2>4. QED
    BY <2>2, <2>3 DEF FeedInvOf
<1>3. CASE ResetDropped(s)
  <2>1. /\ stream[s] = "received"
        /\ stream[s]' = IF dropped[s] > 0 THEN "lag" ELSE "update"
        /\ heldLag[s]' = dropped[s] /\ dropped[s]' = 0
        /\ UNCHANGED <<C[s], held[s], matched[s], delivered[s], last[s], told[s]>>
    BY <1>3 DEF Life, TypeOK, ResetDropped, TypeStreamer, TypeSubscription, seen
  <2>q. Queued(s)' = Queued(s)
    BY <2>1 DEF Queued
  <2>2. Parts
    <3>1. Accounted(s)'
      BY <1>1, <2>1, <2>q DEF Accounted, InHand, HandFits
    <3>2. Carried(s)'
      BY <1>1, <2>1, <2>q DEF Carried
    <3>3. HandFits(s)'
      BY <1>1, <2>1, <2>q DEF HandFits
    <3>4. HandOrder(s)'
      BY <1>1, <2>1, <2>q DEF HandOrder, HandFits, Pending
    <3>5. QED
      BY <3>1, <3>2, <3>3, <3>4
  <2>3. QueueOrder(s)'
    BY <1>1, <2>1 DEF QueueOrder
  <2>4. QED
    BY <2>2, <2>3 DEF FeedInvOf
<1>4. CASE WriteLag(s)
  <2>1. /\ stream[s] = "lag"
        /\ UNCHANGED <<C[s], dropped[s], held[s], matched[s], delivered[s], last[s]>>
        /\ \/ /\ stream[s]' = "update" /\ told[s]' = told[s] + heldLag[s]
              /\ heldLag[s]' = 0
           \/ stream[s]' = "done" /\ UNCHANGED <<told[s], heldLag[s]>>
    BY <1>4 DEF Life, TypeOK, WriteLag, TypeStreamer, TypeSeen, sub
  <2>q. Queued(s)' = Queued(s)
    BY <2>1 DEF Queued
  <2>2. Parts
    <3>1. Accounted(s)'
      BY <1>1, <2>1, <2>q DEF Accounted, InHand, HandFits
    <3>2. Carried(s)'
      BY <1>1, <2>1, <2>q DEF Carried
    <3>3. HandFits(s)'
      BY <1>1, <2>1, <2>q DEF HandFits
    <3>4. HandOrder(s)'
      BY <1>1, <2>1, <2>q DEF HandOrder, HandFits, Pending
    <3>5. QED
      BY <3>1, <3>2, <3>3, <3>4
  <2>3. QueueOrder(s)'
    BY <1>1, <2>1 DEF QueueOrder
  <2>4. QED
    BY <2>2, <2>3 DEF FeedInvOf
<1>5. CASE WriteUpdate(s)
  <2>1. /\ stream[s] = "update"
        /\ UNCHANGED <<C[s], dropped[s], heldLag[s], matched[s], told[s]>>
        /\ \/ /\ stream[s]' = "select" /\ delivered[s]' = delivered[s] + 1
              /\ last[s]' = held[s] /\ held[s]' = 0
           \/ stream[s]' = "done" /\ UNCHANGED <<delivered[s], last[s], held[s]>>
    BY <1>5 DEF Life, TypeOK, WriteUpdate, TypeStreamer, TypeSeen, sub
  <2>q. Queued(s)' = Queued(s)
    BY <2>1 DEF Queued
  <2>2. Parts
    <3>1. Accounted(s)'
      BY <1>1, <2>1, <2>q DEF Accounted, InHand, HandFits
    <3>2. Carried(s)'
      BY <1>1, <2>1, <2>q DEF Carried
    <3>3. HandFits(s)'
      BY <1>1, <2>1, <2>q DEF HandFits
    <3>4. HandOrder(s)'
      BY <1>1, <2>1, <2>q DEF HandOrder, HandFits, Pending
    <3>5. QED
      BY <3>1, <3>2, <3>3, <3>4
  <2>3. QueueOrder(s)'
    <3>1. C[s] \in Seq(Nat)
      BY DEF Life, TypeOK, TypeSubscription
    <3>2. Ordered(C[s], held[s], 0, matched[s])
      BY <1>1, <3>1, OrderedShown DEF QueueOrder
    <3>3. QED
      BY <1>1, <2>1, <3>2 DEF QueueOrder
  <2>4. QED
    BY <2>2, <2>3 DEF FeedInvOf
<1>6. QED
  BY <1>2, <1>3, <1>4, <1>5 DEF StreamStep

\* Every other step leaves the feed of every subscription alone; a response
\* starts a streamer that has nothing in hand.
LEMMA FeedOther ==
  ASSUME Life, FeedInv, NEW s \in Ids,
         ShutdownStep \/ (\E c \in Conns : ConnStep(c)) \/ PumpStep
           \/ (\E t \in Ids : StreamStep(t)),
         ~PublishSend(s), ~StreamStep(s)
  PROVE  FeedInvOf(s)'
<1>1. FeedInvOf(s)
  BY DEF FeedInv
<1>2. CASE ShutdownStep
  <2>1. UNCHANGED FeedVars(s)
    BY <1>2 DEF ShutdownStep, Cancel, ServerClose, ManagerClose, FeedVars, sub,
                strm, seen
  <2>2. QED
    BY <1>1, <2>1, FeedKeep
<1>3. ASSUME NEW c \in Conns, SubscribeReply(c) PROVE FeedInvOf(s)'
  <2>1. /\ cur[c] \in Ids /\ stream[cur[c]] = "none"
        /\ stream' = [stream EXCEPT ![cur[c]] = "select"]
        /\ UNCHANGED <<C, dropped, held, heldLag, matched, delivered, last, told>>
    BY <1>3 DEF SubscribeReply, Life, Lifecycle, ConnLife, TypeOK, TypeConnection,
                TypeManager, Ids, sub
  <2>2. CASE s # cur[c]
    <3>1. UNCHANGED FeedVars(s)
      BY <2>1, <2>2 DEF FeedVars, Life, TypeOK, TypeStreamer
    <3>2. QED
      BY <1>1, <3>1, FeedKeep
  <2>3. CASE s = cur[c]
    <3>1. /\ stream[s] = "none" /\ stream[s]' = "select"
          /\ UNCHANGED <<C[s], dropped[s], held[s], heldLag[s], matched[s],
                         delivered[s], last[s], told[s]>>
      BY <2>1, <2>3 DEF Life, TypeOK, TypeStreamer
    <3>2. Queued(s)' = Queued(s) /\ InHand(s)' = InHand(s) /\ Pending(s)' = Pending(s)
      BY <3>1 DEF Queued, InHand, Pending
    <3>3. Accounted(s)' /\ HandOrder(s)'
      BY <1>1, <3>1, <3>2 DEF FeedInvOf, Accounted, HandOrder
    <3>4. Carried(s)' /\ HandFits(s)' /\ QueueOrder(s)'
      BY <1>1, <3>1 DEF FeedInvOf, Carried, HandFits, QueueOrder
    <3>5. QED
      BY <3>3, <3>4 DEF FeedInvOf
  <2>4. QED
    BY <2>2, <2>3
<1>4. ASSUME NEW c \in Conns, ConnStep(c), ~SubscribeReply(c) PROVE FeedInvOf(s)'
  <2>1. UNCHANGED FeedVars(s)
    BY <1>4 DEF ConnStep, Accept, Disconnect, SubscribeRPC, AddSubscription,
                UnsubscribeRPC, UnsubscribeClose, UnsubscribeReply, ScanEnd,
                CloseAllNext, CloseAllClose, Hangup, FeedVars, sub, strm, seen
  <2>2. QED
    BY <1>1, <2>1, FeedKeep
<1>5. CASE PumpStep
  <2>1. UNCHANGED FeedVars(s)
    <3>1. ASSUME NEW t \in Ids, t # s, PublishSend(t) PROVE UNCHANGED FeedVars(s)
      <4>1. C'[s] = C[s] /\ dropped'[s] = dropped[s] /\ matched'[s] = matched[s]
        BY <3>1 DEF PublishSend, Life, TypeOK, TypeSubscription, TypeSeen
      <4>2. QED
        BY <3>1, <4>1 DEF PublishSend, FeedVars, strm
    <3>2. QED
      BY <1>5, <3>1 DEF PumpStep, PublishBegin, PublishEnd, PumpReturn, FeedVars,
                        sub, strm, seen
  <2>2. QED
    BY <1>1, <2>1, FeedKeep
<1>6. ASSUME NEW t \in Ids, t # s, StreamStep(t) PROVE FeedInvOf(s)'
  <2>1. C'[s] = C[s] /\ dropped'[s] = dropped[s]
    BY <1>6 DEF StreamStep, Receive, ReceiveClosed, ReceiveDone, ResetDropped,
                WriteLag, WriteUpdate, Life, TypeOK, TypeSubscription, sub
  <2>2. stream'[s] = stream[s] /\ held'[s] = held[s] /\ heldLag'[s] = heldLag[s]
    BY <1>6 DEF StreamStep, Receive, ReceiveClosed, ReceiveDone, ResetDropped,
                WriteLag, WriteUpdate, Life, TypeOK, TypeStreamer
  <2>3. /\ matched'[s] = matched[s] /\ delivered'[s] = delivered[s]
        /\ last'[s] = last[s] /\ told'[s] = told[s]
    BY <1>6 DEF StreamStep, Receive, ReceiveClosed, ReceiveDone, ResetDropped,
                WriteLag, WriteUpdate, Life, TypeOK, TypeSeen, seen
  <2>4. QED
    BY <1>1, <2>1, <2>2, <2>3, FeedKeep DEF FeedVars
<1>7. QED
  BY <1>2, <1>3, <1>4, <1>5, <1>6

\* The invariant of the feed holds.
THEOREM FeedCorrect == Spec => []FeedInv
<1>1. Life /\ FeedInv /\ [Next]_vars => FeedInv'
  <2> SUFFICES ASSUME Life, FeedInv, [Next]_vars, NEW s \in Ids PROVE FeedInvOf(s)'
    BY DEF FeedInv
  <2>1. CASE PublishSend(s)
    BY <2>1, FeedPublishSend
  <2>2. CASE StreamStep(s)
    BY <2>2, FeedReceive, FeedStream
  <2>3. CASE UNCHANGED vars
    <3>1. FeedInvOf(s) /\ UNCHANGED FeedVars(s)
      BY <2>3 DEF FeedInv, FeedVars, vars, sub, strm, seen
    <3>2. QED
      BY <3>1, FeedKeep
  <2>4. CASE Next /\ ~PublishSend(s) /\ ~StreamStep(s)
    BY <2>4, FeedOther DEF Next
  <2>5. QED
    BY <2>1, <2>2, <2>3, <2>4
<1>2. QED
  BY FeedInit, LifeCorrect, <1>1, PTL DEF Spec

\* Every event that matched a subscription is accounted for, at every moment.
THEOREM NothingUnaccounted == Spec => []Accounting
<1>1. FeedInv => Accounting
  BY DEF FeedInv, FeedInvOf, Accounting
<1>2. QED
  BY <1>1, FeedCorrect, PTL

\* A drop is never stranded without an event that will carry its report.
THEOREM NoStrandedDrop == Spec => []DropHasCarrier
<1>1. FeedInv => DropHasCarrier
  BY DEF FeedInv, FeedInvOf, DropHasCarrier
<1>2. QED
  BY <1>1, FeedCorrect, PTL

-----------------------------------------------------------------------------
(* Every subscription is a lossy feed                                      *)

\* A lag frame on an open socket tells of losses there are.
LEMMA LagTells ==
  ASSUME Life, FeedInv, NEW s \in Ids, WriteLag(s), open[owner[s]]
  PROVE  Feed!Next
<1>1. Accounted(s) /\ HandFits(s)
  BY DEF FeedInv, FeedInvOf
<1>t. FeedTypes(s) /\ InHand(s) \in Nat
  BY FeedTyped DEF Life, InHand
<1> USE <1>t DEF FeedTypes
<1>2. /\ stream[s] = "lag"
      /\ told' = [told EXCEPT ![s] = @ + heldLag[s]]
      /\ UNCHANGED <<matched, delivered, last>>
  BY DEF WriteLag
<1>3. heldLag[s] > 0
  BY <1>1, <1>2 DEF HandFits
<1>4. /\ heldLag[s] <= matched[s] - delivered[s] - told[s]
      /\ heldLag[s] \in 1 .. matched[s]
  BY <1>1, <1>3 DEF Accounted
<1>5. Feed!Tell(s, heldLag[s])
  BY <1>2, <1>3, <1>4 DEF Feed!Tell, Feed!Unsettled
<1>6. QED
  BY <1>4, <1>5 DEF Feed!Next

\* An update frame on an open socket shows the next event in order, with no
\* untold gap before it.
LEMMA UpdateShows ==
  ASSUME Life, FeedInv, NEW s \in Ids, WriteUpdate(s), open[owner[s]]
  PROVE  Feed!Next
<1>1. Accounted(s) /\ HandFits(s) /\ HandOrder(s)
  BY DEF FeedInv, FeedInvOf
<1>t. FeedTypes(s)
  BY FeedTyped DEF Life
<1> USE <1>t DEF FeedTypes
<1>2. stream[s] = "update"
  BY DEF WriteUpdate
<1>3. held[s] # 0 /\ heldLag[s] = 0 /\ InHand(s) = 1 /\ Pending(s) = 0
  BY <1>1, <1>2 DEF HandFits, InHand, Pending
<1>4. /\ last[s] < held[s] /\ held[s] <= matched[s]
      /\ held[s] - 1 - delivered[s] <= told[s]
  BY <1>1, <1>3 DEF HandOrder
<1>5. matched[s] - delivered[s] - told[s] > 0 /\ held[s] \in 1 .. matched[s]
  BY <1>1, <1>3, <1>4 DEF Accounted
<1>6. /\ delivered' = [delivered EXCEPT ![s] = @ + 1]
      /\ last' = [last EXCEPT ![s] = held[s]]
      /\ UNCHANGED <<matched, told>>
  BY DEF WriteUpdate
<1>7. Feed!Show(s, held[s])
  BY <1>4, <1>5, <1>6 DEF Feed!Show, Feed!Unsettled
<1>8. QED
  BY <1>5, <1>7 DEF Feed!Next

\* Whatever connections, disconnections, cancellations and overflows there
\* are, each client sees its events in order, none twice, and nothing beyond a
\* gap it was not told about.
THEOREM FanoutIsLossyFeed == Spec => ImplementsLossyFeed
<1>1. Init => Feed!Init
  BY DEF Init, Feed!Init
<1>2. Life /\ FeedInv /\ [Next]_vars => [Feed!Next]_(Feed!feed)
  <2> SUFFICES ASSUME Life, FeedInv, [Next]_vars
               PROVE  Feed!Next \/ UNCHANGED <<matched, delivered, last, told>>
    BY DEF Feed!feed
  <2>1. CASE UNCHANGED vars
    BY <2>1 DEF vars, seen
  <2>2. ASSUME NEW s \in Ids, PublishSend(s) PROVE Feed!Next
    BY <2>2 DEF PublishSend, Feed!Next, Feed!Match
  <2>3. ASSUME NEW s \in Ids, WriteLag(s)
        PROVE  Feed!Next \/ UNCHANGED <<matched, delivered, last, told>>
    <3>1. CASE open[owner[s]]
      BY <2>3, <3>1, LagTells
    <3>2. CASE ~open[owner[s]]
      BY <2>3, <3>2 DEF WriteLag
    <3>3. QED
      BY <3>1, <3>2
  <2>4. ASSUME NEW s \in Ids, WriteUpdate(s)
        PROVE  Feed!Next \/ UNCHANGED <<matched, delivered, last, told>>
    <3>1. CASE open[owner[s]]
      BY <2>4, <3>1, UpdateShows
    <3>2. CASE ~open[owner[s]]
      BY <2>4, <3>2 DEF WriteUpdate
    <3>3. QED
      BY <3>1, <3>2
  <2>5. CASE ShutdownStep
    BY <2>5 DEF ShutdownStep, Cancel, ServerClose, ManagerClose, seen
  <2>6. ASSUME NEW c \in Conns, ConnStep(c)
        PROVE  UNCHANGED <<matched, delivered, last, told>>
    BY <2>6 DEF ConnStep, Accept, Disconnect, SubscribeRPC, AddSubscription,
                SubscribeReply, UnsubscribeRPC, UnsubscribeClose, UnsubscribeReply,
                ScanEnd, CloseAllNext, CloseAllClose, Hangup, seen
  <2>7. QED
    BY <2>1, <2>2, <2>3, <2>4, <2>5, <2>6
    DEF Next, PumpStep, PublishBegin, PublishEnd, PumpReturn, StreamStep, Receive,
        ReceiveClosed, ReceiveDone, ResetDropped, seen
<1>3. QED
  BY <1>1, <1>2, LifeCorrect, FeedCorrect, PTL DEF Spec, ImplementsLossyFeed, Feed!Spec

\* A stream that ends because its subscription was closed owes the client
\* nothing: every event that matched was shown or told lost.
THEOREM CleanEndHolds == Spec => CleanEnd
<1> DEFINE A == \A s \in Ids :
                  (stream[s] = "select" /\ stream'[s] = "done" /\ ~CtxDone(owner[s]))
                    => matched[s] = delivered[s] + told[s]
<1>1. Life /\ FeedInv /\ [Next]_vars => [A]_vars
  <2> SUFFICES ASSUME Life, FeedInv, Next, NEW s \in Ids,
                      stream[s] = "select", stream'[s] = "done", ~CtxDone(owner[s])
               PROVE  matched[s] = delivered[s] + told[s]
    OBVIOUS
  <2>1. stream \in [Ids -> {"none", "select", "received", "lag", "update", "done"}]
    BY DEF Life, TypeOK, TypeStreamer
  <2>2. ReceiveClosed(s)
    <3>1. ~PumpStep
      BY DEF PumpStep, PublishBegin, PublishSend, PublishEnd, PumpReturn, strm
    <3>2. ~ShutdownStep
      BY DEF ShutdownStep, Cancel, ServerClose, ManagerClose, strm
    <3>3. ASSUME NEW c \in Conns, ConnStep(c) PROVE FALSE
      BY <2>1, <3>3 DEF ConnStep, Accept, Disconnect, SubscribeRPC, AddSubscription,
                  SubscribeReply, UnsubscribeRPC, UnsubscribeClose, UnsubscribeReply,
                  ScanEnd, CloseAllNext, CloseAllClose, Hangup, strm
    <3>4. ASSUME NEW t \in Ids, t # s, StreamStep(t) PROVE FALSE
      BY <2>1, <3>4 DEF StreamStep, Receive, ReceiveClosed, ReceiveDone,
                  ResetDropped, WriteLag, WriteUpdate
    <3>5. StreamStep(s)
      BY <3>1, <3>2, <3>3, <3>4 DEF Next
    <3>6. QED
      BY <2>1, <3>5 DEF StreamStep, Receive, ReceiveDone, ResetDropped, WriteLag,
                        WriteUpdate
  <2>3. Queued(s) = 0
    BY <2>2 DEF ReceiveClosed, Queued
  <2>4. Accounted(s) /\ Carried(s) /\ HandFits(s)
    BY DEF FeedInv, FeedInvOf
  <2>5. FeedTypes(s)
    BY FeedTyped DEF Life
  <2>6. dropped[s] = 0
    BY <2>2, <2>4, <2>5 DEF ReceiveClosed, Carried, FeedTypes
  <2>7. heldLag[s] = 0 /\ InHand(s) = 0
    BY <2>4 DEF HandFits, InHand
  <2>8. QED
    BY <2>3, <2>4, <2>5, <2>6, <2>7 DEF Accounted, FeedTypes
<1>2. QED
  BY <1>1, LifeCorrect, FeedCorrect, PTL DEF Spec, CleanEnd
=============================================================================

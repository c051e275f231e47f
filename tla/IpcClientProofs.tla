--------------------------- MODULE IpcClientProofs ---------------------------
(***************************************************************************)
(* The promises of IpcClient, for any number of callers, calls, updates    *)
(* and capacities.                                                         *)
(***************************************************************************)
EXTENDS IpcClient, TLAPS

\* What the daemon writes, and what a goroutine may hold.
Wire   == [kind : {"hello", "response", "update"}, n : Nat]
Frames == [kind : {"none", "hello", "response", "update"}, n : Nat]

CallsOK ==
  /\ pc \in [Callers -> {"idle", "write", "wait", "cleanup"}]
  /\ call \in [Callers -> Nat]
  /\ \A c \in Callers : pc[c] # "idle" => call[c] \in Ids
  /\ nextID \in Nat /\ pending \subseteq Ids /\ shut \subseteq Ids /\ subs \subseteq Ids
  /\ box \in [Ids -> Nat] /\ got \in [Ids -> Nat]

ReaderOK ==
  /\ reader \in {"scan", "lookup", "send", "push", "close", "gone"}
  /\ hand \in Frames /\ readFailed \in BOOLEAN

DaemonOK ==
  /\ daemon \in {"accepted", "serving", "gone"}
  /\ toServer \in Seq(Ids) /\ toClient \in Seq(Wire)
  /\ taken \subseteq Ids /\ ran \subseteq Ids /\ answered \subseteq Ids
  /\ pushed \in Nat

MainOK ==
  /\ main \in {"dial", "use", "give up", "local", "close", "done"}
  /\ consumed \in Seq(Nat) /\ localRan \in BOOLEAN /\ cancelled \in BOOLEAN

TypeOK ==
  /\ CallsOK /\ ReaderOK /\ DaemonOK /\ MainOK
  /\ events \in Seq(Frames) /\ closeAt \in 0 .. 4

\* The reader holds a frame as long as it hands it over, of the kind it
\* hands over there.
HandKind ==
  /\ reader \in {"scan", "close", "gone"} => hand = NoFrame
  /\ reader \in {"lookup", "send"} => hand.kind = "response"
  /\ reader = "push" => hand.kind \notin {"none", "response"}

-----------------------------------------------------------------------------
(* Sequences                                                               *)

LEMMA Dequeue ==
  ASSUME NEW S, NEW q \in Seq(S), q # <<>>
  PROVE  /\ Head(q) \in S /\ Head(q) = q[1] /\ 1 \in DOMAIN q
         /\ Tail(q) \in Seq(S) /\ Len(q) \in Nat \ {0}
         /\ Len(Tail(q)) = Len(q) - 1
         /\ DOMAIN q = 1 .. Len(q) /\ DOMAIN Tail(q) = 1 .. Len(q) - 1
         /\ \A i \in DOMAIN Tail(q) : i + 1 \in DOMAIN q /\ Tail(q)[i] = q[i + 1]
OBVIOUS

LEMMA Enqueue ==
  ASSUME NEW S, NEW q \in Seq(S), NEW x \in S
  PROVE  /\ Append(q, x) \in Seq(S) /\ Len(q) \in Nat
         /\ Len(Append(q, x)) = Len(q) + 1
         /\ DOMAIN q = 1 .. Len(q) /\ DOMAIN Append(q, x) = 1 .. Len(q) + 1
         /\ \A i \in DOMAIN q : Append(q, x)[i] = q[i]
         /\ Append(q, x)[Len(q) + 1] = x
OBVIOUS

LEMMA Concatenate ==
  ASSUME NEW S, NEW s \in Seq(S), NEW t \in Seq(S)
  PROVE  /\ s \o t \in Seq(S) /\ Len(s) \in Nat /\ Len(t) \in Nat
         /\ DOMAIN s = 1 .. Len(s) /\ DOMAIN t = 1 .. Len(t)
         /\ DOMAIN (s \o t) = 1 .. Len(s) + Len(t)
         /\ \A i \in 1 .. Len(s) : (s \o t)[i] = s[i]
         /\ \A i \in 1 .. Len(t) : (s \o t)[Len(s) + i] = t[i]
OBVIOUS

-----------------------------------------------------------------------------
(* Type correctness                                                        *)

LEMMA TypeInit == Init => TypeOK /\ HandKind
<1> SUFFICES ASSUME Init PROVE TypeOK /\ HandKind
  OBVIOUS
<1>1. CallsOK
  <2>1. /\ pc \in [Callers -> {"idle"}] /\ call \in [Callers -> Nat]
        /\ \A c \in Callers : pc[c] = "idle"
        /\ box \in [Ids -> Nat] /\ got \in [Ids -> Nat]
    BY DEF Init
  <2>2. pending \subseteq Ids /\ shut \subseteq Ids /\ subs \subseteq Ids
    BY DEF Init
  <2>3. nextID \in Nat
    BY DEF Init
  <2>4. QED
    BY <2>1, <2>2, <2>3 DEF CallsOK
<1>2. ReaderOK
  BY DEF Init, ReaderOK, NoFrame, Frame, Frames
<1>3. DaemonOK
  <2>1. taken \subseteq Ids /\ ran \subseteq Ids /\ answered \subseteq Ids
    BY DEF Init
  <2>2. toServer \in Seq(Ids) /\ toClient \in Seq(Wire)
    BY DEF Init
  <2>3. QED
    BY <2>1, <2>2 DEF Init, DaemonOK
<1>4. MainOK /\ HandKind
  <2>1. consumed \in Seq(Nat)
    BY DEF Init
  <2>2. MainOK
    BY <2>1 DEF Init, MainOK
  <2>3. QED
    BY <2>2 DEF Init, HandKind
<1>5. events \in Seq(Frames) /\ closeAt \in 0 .. 4
  BY DEF Init
<1>6. QED
  BY <1>1, <1>2, <1>3, <1>4, <1>5 DEF TypeOK

\* What is left alone keeps its type.
LEMMA TypeKept ==
  /\ TypeOK /\ UNCHANGED callVars => CallsOK'
  /\ TypeOK /\ UNCHANGED readerVars => ReaderOK'
  /\ TypeOK /\ UNCHANGED daemonVars => DaemonOK'
  /\ TypeOK /\ UNCHANGED mainVars => MainOK'
  /\ TypeOK /\ UNCHANGED events => events' \in Seq(Frames)
  /\ TypeOK /\ UNCHANGED closeAt => closeAt' \in 0 .. 4
<1>1. TypeOK /\ UNCHANGED callVars => CallsOK'
  BY DEF TypeOK, CallsOK, callVars
<1>2. TypeOK /\ UNCHANGED readerVars => ReaderOK'
  BY DEF TypeOK, ReaderOK, readerVars
<1>3. TypeOK /\ UNCHANGED daemonVars => DaemonOK'
  BY DEF TypeOK, DaemonOK, daemonVars
<1>4. TypeOK /\ UNCHANGED mainVars => MainOK'
  BY DEF TypeOK, MainOK, mainVars
<1>5. QED
  BY <1>1, <1>2, <1>3, <1>4 DEF TypeOK

LEMMA TypeMain ==
  ASSUME TypeOK,
         MainStep \/ Timer \/ ConsumeStep \/ CloseStep \/ (Alive /\ (Interrupt \/ Finish))
  PROVE  TypeOK'
<1>1. CASE MainStep \/ Timer
  <2>1. events # <<>> => Tail(events) \in Seq(Frames)
    BY Dequeue DEF TypeOK
  <2>2. MainOK'
    BY <1>1 DEF TypeOK, MainOK, MainStep, Timer, HelloOK, HelloRefused, FallBack,
       RunLocally, Exit, HelloTimeout
  <2>3. events' \in Seq(Frames)
    BY <1>1, <2>1 DEF TypeOK, MainStep, Timer, HelloOK, HelloRefused, FallBack,
       RunLocally, Exit, HelloTimeout
  <2>4. QED
    BY <1>1, <2>2, <2>3, TypeKept DEF TypeOK, MainStep, Timer, HelloOK, HelloRefused,
       FallBack, RunLocally, Exit, HelloTimeout
<1>2. CASE ConsumeStep
  <2>1. events # <<>> /\ Tail(events) \in Seq(Frames) /\ Head(events) \in Frames
    BY <1>2, Dequeue DEF TypeOK, ConsumeStep, Consume
  <2>2. Head(events).n \in Nat
    BY <2>1 DEF Frames
  <2>3. Append(consumed, Head(events).n) \in Seq(Nat)
    BY <2>2, Enqueue DEF TypeOK, MainOK
  <2>4. MainOK'
    BY <1>2, <2>3 DEF TypeOK, MainOK, ConsumeStep, Consume
  <2>5. QED
    BY <1>2, <2>1, <2>4, TypeKept DEF TypeOK, ConsumeStep, Consume
<1>3. CASE CloseStep
  <2>1. closeAt' \in 0 .. 4
    BY <1>3 DEF TypeOK, CloseStep, CloseFlag, CloseConn, FailPending, CloseEvents
  <2>2. CallsOK'
    <3>1. CASE FailPending
      BY <3>1 DEF TypeOK, CallsOK, FailPending
    <3>2. QED
      BY <1>3, <3>1, TypeKept DEF CloseStep, CloseFlag, CloseConn, CloseEvents
  <2>3. QED
    BY <1>3, <2>1, <2>2, TypeKept DEF TypeOK, CloseStep, CloseFlag, CloseConn, FailPending,
       CloseEvents
<1>4. CASE Alive /\ (Interrupt \/ Finish)
  <2>1. MainOK'
    BY <1>4 DEF TypeOK, MainOK, Interrupt, Finish
  <2>2. QED
    BY <1>4, <2>1, TypeKept DEF TypeOK, Interrupt, Finish
<1>5. QED
  BY <1>1, <1>2, <1>3, <1>4

LEMMA TypeCall ==
  ASSUME TypeOK, NEW c \in Callers, CallStep(c) \/ (Alive /\ CallRegister(c))
  PROVE  TypeOK'
<1>1. CASE Alive /\ CallRegister(c)
  <2>1. nextID + 1 \in Ids
    <3>1. nextID \in Nat /\ nextID < MaxCalls
      BY <1>1 DEF TypeOK, CallsOK, CallRegister
    <3>2. QED
      BY <3>1, ClientAssumption DEF Ids
  <2>2. nextID' \in Nat /\ call' \in [Callers -> Nat] /\ call'[c] \in Ids
    <3>1. nextID + 1 \in Nat
      BY DEF TypeOK, CallsOK
    <3>2. nextID' = nextID + 1 /\ call' = [call EXCEPT ![c] = nextID + 1]
      BY <1>1 DEF CallRegister
    <3>3. QED
      BY <2>1, <3>1, <3>2 DEF TypeOK, CallsOK
  <2>3. /\ pc' \in [Callers -> {"idle", "write", "wait", "cleanup"}]
        /\ pending' \subseteq Ids /\ subs' \subseteq Ids
    BY <1>1, <2>1 DEF TypeOK, CallsOK, CallRegister
  <2>4. \A b \in Callers : b # c => pc'[b] = pc[b] /\ call'[b] = call[b]
    BY <1>1 DEF TypeOK, CallsOK, CallRegister
  <2>5. \A b \in Callers : pc'[b] # "idle" => call'[b] \in Ids
    BY <2>2, <2>4 DEF TypeOK, CallsOK
  <2>6. CallsOK'
    BY <1>1, <2>2, <2>3, <2>5 DEF TypeOK, CallsOK, CallRegister
  <2>7. QED
    BY <1>1, <2>6, TypeKept DEF TypeOK, CallRegister
<1>2. CASE CallWrite(c)
  <2>1. Append(toServer, call[c]) \in Seq(Ids)
    BY <1>2, Enqueue DEF TypeOK, CallsOK, DaemonOK, CallWrite
  <2>2. DaemonOK'
    BY <1>2, <2>1 DEF TypeOK, DaemonOK, CallWrite
  <2>3. CallsOK'
    BY <1>2 DEF TypeOK, CallsOK, CallWrite
  <2>4. QED
    BY <1>2, <2>2, <2>3, TypeKept DEF TypeOK, CallWrite
<1>3. CASE CallEnds(c)
  <2>1. call[c] \in Ids
    BY <1>3 DEF TypeOK, CallsOK, CallEnds
  <2>2. box' \in [Ids -> Nat] /\ got' \in [Ids -> Nat]
    <3>1. box[call[c]] \in Nat /\ 0 \in Nat
      BY <2>1 DEF TypeOK, CallsOK
    <3>2. \/ UNCHANGED <<got, box>>
          \/ /\ got' = [got EXCEPT ![call[c]] = box[call[c]]]
             /\ box' = [box EXCEPT ![call[c]] = 0]
      BY <1>3 DEF CallEnds
    <3>3. QED
      BY <3>1, <3>2 DEF TypeOK, CallsOK
  <2>3. CallsOK'
    BY <1>3, <2>2 DEF TypeOK, CallsOK, CallEnds
  <2>4. QED
    BY <1>3, <2>3, TypeKept DEF TypeOK, CallEnds
<1>4. CASE CallCleanup(c)
  <2>1. CallsOK'
    BY <1>4 DEF TypeOK, CallsOK, CallCleanup
  <2>2. QED
    BY <1>4, <2>1, TypeKept DEF TypeOK, CallCleanup
<1>5. QED
  BY <1>1, <1>2, <1>3, <1>4 DEF CallStep

LEMMA TypeReader ==
  ASSUME TypeOK, ReaderStep \/ (Alive /\ ReadFails)
  PROVE  TypeOK'
<1>1. NoFrame \in Frames
  BY DEF NoFrame, Frame, Frames
<1>2. CASE ReadFrame
  <2>0. Head(toClient) \in Wire /\ Tail(toClient) \in Seq(Wire)
    BY <1>2, Dequeue DEF TypeOK, DaemonOK, ReadFrame
  <2>1. Head(toClient) \in Frames /\ Tail(toClient) \in Seq(Wire)
    BY <2>0 DEF Frames, Wire
  <2>2. ReaderOK' /\ DaemonOK'
    BY <1>2, <2>1 DEF TypeOK, ReaderOK, DaemonOK, ReadFrame
  <2>3. QED
    BY <1>2, <2>2, TypeKept DEF TypeOK, ReadFrame
<1>3. CASE Push
  <2>1. Append(events, hand) \in Seq(Frames)
    BY Enqueue DEF TypeOK, ReaderOK
  <2>2. ReaderOK' /\ events' \in Seq(Frames)
    BY <1>1, <1>3, <2>1 DEF TypeOK, ReaderOK, Push
  <2>3. QED
    BY <1>3, <2>2, TypeKept DEF TypeOK, Push
<1>4. CASE Lookup
  <2>1. ReaderOK'
    BY <1>1, <1>4 DEF TypeOK, ReaderOK, Lookup
  <2>2. QED
    BY <1>4, <2>1, TypeKept DEF TypeOK, Lookup
<1>5. CASE Send
  <2>1. hand.n \in Nat
    BY DEF TypeOK, ReaderOK, Frames
  <2>2. ReaderOK' /\ CallsOK'
    BY <1>1, <1>5, <2>1 DEF TypeOK, ReaderOK, CallsOK, Send
  <2>3. QED
    BY <1>5, <2>2, TypeKept DEF TypeOK, Send
<1>6. CASE ReadEnds \/ ReaderExits \/ ReadFails
  <2>1. ReaderOK'
    BY <1>6 DEF TypeOK, ReaderOK, ReadEnds, ReaderExits, ReadFails
  <2>2. QED
    BY <1>6, <2>1, TypeKept DEF TypeOK, ReadEnds, ReaderExits, ReadFails
<1>7. QED
  BY <1>2, <1>3, <1>4, <1>5, <1>6 DEF ReaderStep

LEMMA TypeDaemon ==
  ASSUME TypeOK, DaemonStep
  PROVE  TypeOK'
<1>1. Frame("hello", 0) \in Wire /\ Frame("update", pushed + 1) \in Wire
  BY DEF TypeOK, DaemonOK, Frame, Wire
<1>2. ASSUME NEW f \in Wire PROVE Append(toClient, f) \in Seq(Wire)
  BY Enqueue DEF TypeOK, DaemonOK
<1>3. DaemonOK'
  <2>1. CASE Greet
    BY <1>1, <1>2, <2>1 DEF TypeOK, DaemonOK, Greet
  <2>2. CASE TakeRequest
    <3>1. Head(toServer) \in Ids /\ Tail(toServer) \in Seq(Ids)
      BY <2>2, Dequeue DEF TypeOK, DaemonOK, TakeRequest
    <3>2. QED
      BY <2>2, <3>1 DEF TypeOK, DaemonOK, TakeRequest
  <2>3. CASE PushUpdate
    BY <1>1, <1>2, <2>3 DEF TypeOK, DaemonOK, PushUpdate
  <2>4. CASE DaemonGone
    BY <2>4 DEF TypeOK, DaemonOK, DaemonGone
  <2>5. ASSUME NEW id \in Ids, RunRequest(id) PROVE DaemonOK'
    BY <2>5 DEF TypeOK, DaemonOK, RunRequest
  <2>6. ASSUME NEW id \in Ids, Answer(id) PROVE DaemonOK'
    <3>1. Frame("response", id) \in Wire
      BY DEF Ids, Frame, Wire
    <3>2. QED
      BY <1>2, <2>6, <3>1 DEF TypeOK, DaemonOK, Answer
  <2>7. QED
    BY <2>1, <2>2, <2>3, <2>4, <2>5, <2>6 DEF DaemonStep
<1>4. UNCHANGED clientVars
  BY DEF DaemonStep, Greet, TakeRequest, PushUpdate, DaemonGone, RunRequest, Answer
<1>5. QED
  BY <1>3, <1>4, TypeKept DEF TypeOK, clientVars

\* The connection is type correct.
THEOREM ClientTypeCorrect == Spec => []TypeOK
<1>1. Init => TypeOK
  BY TypeInit
<1>2. TypeOK /\ [Next]_vars => TypeOK'
  <2>1. SUFFICES ASSUME TypeOK, [Next]_vars PROVE TypeOK'
    OBVIOUS
  <2>2. CASE UNCHANGED vars
    BY <2>1, <2>2, TypeKept DEF vars, TypeOK
  <2>3. QED
    BY <2>1, <2>2, TypeMain, TypeCall, TypeReader, TypeDaemon DEF Next
<1>3. QED
  BY <1>1, <1>2, PTL DEF Spec

-----------------------------------------------------------------------------
(* Who writes what                                                         *)

\* Only the reader's steps change what the reader holds.
LEMMA ReaderAlone ==
  ASSUME Next, ~(ReaderStep \/ (Alive /\ ReadFails))
  PROVE  UNCHANGED readerVars
<1>1. CASE MainStep \/ Timer \/ ConsumeStep \/ CloseStep \/ (Alive /\ (Interrupt \/ Finish))
  BY <1>1 DEF MainStep, Timer, ConsumeStep, CloseStep, HelloOK, HelloRefused, FallBack,
     RunLocally, Exit, HelloTimeout, Consume, CloseFlag, CloseConn, FailPending,
     CloseEvents, Interrupt, Finish
<1>2. ASSUME NEW c \in Callers, CallStep(c) \/ (Alive /\ CallRegister(c))
      PROVE  UNCHANGED readerVars
  BY <1>2 DEF CallStep, CallWrite, CallEnds, CallCleanup, CallRegister
<1>3. CASE DaemonStep
  BY <1>3 DEF DaemonStep, Greet, TakeRequest, PushUpdate, DaemonGone, RunRequest, Answer,
     clientVars
<1>4. QED
  BY <1>1, <1>2, <1>3 DEF Next

LEMMA HandKindHolds == Spec => []HandKind
<1>1. Init => HandKind
  BY TypeInit
<1>2. TypeOK /\ HandKind /\ [Next]_vars => HandKind'
  <2>1. SUFFICES ASSUME TypeOK, HandKind, [Next]_vars PROVE HandKind'
    OBVIOUS
  <2>2. CASE UNCHANGED readerVars
    BY <2>1, <2>2 DEF HandKind, readerVars
  <2>3. CASE ReaderStep \/ (Alive /\ ReadFails)
    <3>1. CASE ReadFrame
      <4>1. Head(toClient).kind \in {"hello", "response", "update"}
        <5>1. toClient \in Seq(Wire) /\ toClient # <<>>
          BY <2>1, <3>1 DEF ReadFrame, TypeOK, DaemonOK
        <5>2. Head(toClient) \in Wire
          BY <5>1, Dequeue
        <5>3. QED
          BY <5>2 DEF Wire
      <4>2. QED
        BY <3>1, <4>1 DEF ReadFrame, HandKind
    <3>2. CASE Push
      BY <2>1, <3>2 DEF Push, HandKind
    <3>3. CASE Lookup
      BY <2>1, <3>3 DEF Lookup, HandKind
    <3>4. CASE Send
      BY <2>1, <3>4 DEF Send, HandKind
    <3>5. CASE ReadEnds \/ ReaderExits \/ ReadFails
      BY <2>1, <3>5 DEF ReadEnds, ReaderExits, ReadFails, HandKind
    <3>6. QED
      BY <2>3, <3>1, <3>2, <3>3, <3>4, <3>5 DEF ReaderStep
  <2>4. QED
    BY <2>1, <2>2, <2>3, ReaderAlone DEF vars
<1>3. QED
  BY <1>1, <1>2, ClientTypeCorrect, PTL DEF Spec

-----------------------------------------------------------------------------
(* The local path                                                          *)

\* A client that has not got its Hello, or gave it up, has asked for nothing,
\* and one that has it never takes the local path.
OnePath ==
  /\ main \in {"dial", "give up", "local"} => nextID = 0
  /\ localRan # FALSE => nextID = 0 /\ main = "done"

LEMMA OnePathHolds == Spec => []OnePath
<1>1. Init => OnePath
  BY DEF Init, OnePath
<1>2. TypeOK /\ OnePath /\ [Next]_vars => OnePath'
  <2>1. SUFFICES ASSUME TypeOK, OnePath, [Next]_vars PROVE OnePath'
    OBVIOUS
  <2>2. CASE UNCHANGED <<main, localRan, nextID>>
    BY <2>1, <2>2 DEF OnePath
  <2>3. CASE MainStep \/ Timer
    <3>1. UNCHANGED nextID
      BY <2>3 DEF MainStep, Timer, HelloOK, HelloRefused, FallBack, RunLocally, Exit,
         HelloTimeout, callVars
    <3>2. CASE HelloOK \/ HelloRefused \/ HelloTimeout
      BY <2>1, <3>1, <3>2 DEF OnePath, TypeOK, MainOK, HelloOK, HelloRefused, HelloTimeout
    <3>3. CASE FallBack \/ RunLocally \/ Exit
      BY <2>1, <3>1, <3>3 DEF OnePath, TypeOK, MainOK, FallBack, RunLocally, Exit
    <3>4. QED
      BY <2>3, <3>2, <3>3 DEF MainStep, Timer
  <2>8. CASE ConsumeStep \/ CloseStep \/ (Alive /\ (Interrupt \/ Finish))
    <3>1. UNCHANGED <<nextID, localRan>>
      BY <2>8 DEF ConsumeStep, CloseStep, Consume, CloseFlag, CloseConn, FailPending,
         CloseEvents, Interrupt, Finish, callVars, mainVars
    <3>2. main' = main \/ (main = "use" /\ main' = "close")
      BY <2>8 DEF ConsumeStep, CloseStep, Consume, CloseFlag, CloseConn, FailPending,
         CloseEvents, Interrupt, Finish, mainVars
    <3>3. QED
      BY <2>1, <3>1, <3>2 DEF OnePath
  <2>4. ASSUME NEW c \in Callers, CallStep(c) \/ (Alive /\ CallRegister(c)) PROVE OnePath'
    <3>1. UNCHANGED <<main, localRan>>
      BY <2>4 DEF CallStep, CallWrite, CallEnds, CallCleanup, CallRegister, mainVars
    <3>2. nextID' = nextID \/ main \in {"use", "close"}
      BY <2>4 DEF CallStep, CallWrite, CallEnds, CallCleanup, CallRegister
    <3>3. QED
      BY <2>1, <3>1, <3>2 DEF OnePath
  <2>5. CASE ReaderStep \/ (Alive /\ ReadFails)
    BY <2>2, <2>5 DEF ReaderStep, ReadFrame, ReadEnds, Push, Lookup, Send, ReaderExits,
       ReadFails, callVars, mainVars
  <2>6. CASE DaemonStep
    BY <2>2, <2>6 DEF DaemonStep, Greet, TakeRequest, PushUpdate, DaemonGone, RunRequest,
       Answer, clientVars, callVars, mainVars
  <2>7. QED
    BY <2>1, <2>2, <2>3, <2>4, <2>5, <2>6, <2>8 DEF Next, vars, callVars, mainVars
<1>3. QED
  BY <1>1, <1>2, ClientTypeCorrect, PTL DEF Spec

\* No operation is carried out both by the daemon and by the command
\* (MaybeDialDaemon and the commands).
THEOREM OneExecution == Spec => []ExecutedOnce
<1>1. OnePath => ExecutedOnce
  BY DEF OnePath, ExecutedOnce
<1>2. QED
  BY <1>1, OnePathHolds, PTL

-----------------------------------------------------------------------------
(* Responses                                                               *)

Responses(s) == {i \in DOMAIN s : s[i].kind = "response"}

\* A request carried out has one response, and it is in one place: on the wire,
\* in the reader's hand, in the call's channel, or with the call.
OneAnswer ==
  /\ answered \subseteq ran
  /\ \A i \in Responses(toClient) : toClient[i].n \in answered /\ box[toClient[i].n] = 0
  /\ \A i, j \in Responses(toClient) : toClient[i].n = toClient[j].n => i = j
  /\ hand.kind = "response" =>
       /\ hand.n \in answered /\ box[hand.n] = 0
       /\ \A i \in Responses(toClient) : toClient[i].n # hand.n
  /\ \A id \in Ids :
       /\ box[id] \in {0, id} /\ (box[id] = id => id \in answered)
       /\ got[id] \in {0, id} /\ (got[id] = id => id \in answered)

\* A frame leaves the wire.
LEMMA ResponseTaken ==
  ASSUME TypeOK, OneAnswer, toClient # <<>>
  PROVE  /\ \A i \in Responses(Tail(toClient)) :
              i + 1 \in Responses(toClient) /\ Tail(toClient)[i] = toClient[i + 1]
         /\ Head(toClient).kind = "response" =>
              1 \in Responses(toClient) /\ Head(toClient) = toClient[1]
         /\ \A i \in Responses(Tail(toClient)) : i \in Nat \ {0}
<1>1. toClient \in Seq(Wire)
  BY DEF TypeOK, DaemonOK
<1>2. QED
  BY <1>1, Dequeue DEF Responses

\* A frame joins the wire.
LEMMA ResponseSent ==
  ASSUME TypeOK, NEW f \in Wire
  PROVE  \A i \in Responses(Append(toClient, f)) :
           \/ i \in Responses(toClient) /\ Append(toClient, f)[i] = toClient[i]
           \/ i = Len(toClient) + 1 /\ Append(toClient, f)[i] = f /\ f.kind = "response"
<1>1. toClient \in Seq(Wire)
  BY DEF TypeOK, DaemonOK
<1>2. QED
  BY <1>1, Enqueue DEF Responses

LEMMA AnswerReader ==
  ASSUME TypeOK, HandKind, OneAnswer, ReaderStep \/ (Alive /\ ReadFails)
  PROVE  OneAnswer'
<1>1. CASE ReadFrame
  <2>1. /\ hand' = Head(toClient) /\ toClient' = Tail(toClient) /\ toClient # <<>>
        /\ UNCHANGED <<box, got, answered, ran>>
    BY <1>1 DEF ReadFrame, callVars
  <2>2. /\ \A i \in Responses(toClient') :
             i + 1 \in Responses(toClient) /\ toClient'[i] = toClient[i + 1]
        /\ hand'.kind = "response" => 1 \in Responses(toClient) /\ hand' = toClient[1]
        /\ \A i \in Responses(toClient') : i \in Nat \ {0}
    BY <2>1, ResponseTaken, Zenon
  <2>3. ASSUME hand'.kind = "response"
        PROVE  /\ hand'.n \in answered /\ box[hand'.n] = 0
               /\ \A i \in Responses(toClient') : toClient'[i].n # hand'.n
    <3>1. ASSUME NEW i \in Responses(toClient') PROVE toClient'[i].n # hand'.n
      <4>1. /\ i + 1 \in Responses(toClient) /\ toClient'[i] = toClient[i + 1]
            /\ i + 1 # 1 /\ 1 \in Responses(toClient) /\ hand' = toClient[1]
        BY <2>2, <2>3
      <4>2. QED
        BY <4>1 DEF OneAnswer
    <3>2. QED
      BY <2>2, <2>3, <3>1 DEF OneAnswer
  <2>4. ASSUME NEW i \in Responses(toClient')
        PROVE  toClient'[i].n \in answered /\ box[toClient'[i].n] = 0
    BY <2>2 DEF OneAnswer
  <2>5. ASSUME NEW i \in Responses(toClient'), NEW j \in Responses(toClient'),
               toClient'[i].n = toClient'[j].n
        PROVE  i = j
    <3>1. i + 1 = j + 1
      BY <2>2, <2>5 DEF OneAnswer
    <3>2. i \in Nat /\ j \in Nat
      BY <2>2
    <3>3. QED
      BY <3>1, <3>2
  <2>6. QED
    BY <2>1, <2>3, <2>4, <2>5 DEF OneAnswer
<1>2. CASE Push \/ Lookup
  <2>1. /\ UNCHANGED <<box, got, answered, ran, toClient>>
        /\ hand' = hand \/ hand' = NoFrame
    BY <1>2 DEF Push, Lookup, callVars, daemonVars
  <2>2. NoFrame.kind # "response"
    BY DEF NoFrame, Frame
  <2>3. QED
    BY <2>1, <2>2 DEF OneAnswer
<1>3. CASE Send
  <2>1. CASE hand.n \in shut
    BY <1>3, <2>1 DEF Send, OneAnswer, daemonVars
  <2>2. CASE hand.n \notin shut
    <3>1. /\ hand.kind = "response" /\ hand' = NoFrame
          /\ box' = [box EXCEPT ![hand.n] = hand.n]
          /\ UNCHANGED <<got, answered, ran, toClient>>
      BY <1>3, <2>2 DEF Send, HandKind, daemonVars
    <3>2. hand'.kind # "response"
      BY <3>1 DEF NoFrame, Frame
    <3>3. /\ hand.n \in answered /\ hand.n \in Ids /\ box \in [Ids -> Nat]
          /\ \A i \in Responses(toClient) : toClient[i].n # hand.n
      BY <3>1 DEF OneAnswer, TypeOK, CallsOK, DaemonOK
    <3>4. \A i \in Responses(toClient) : toClient[i].n \in Ids
      BY DEF OneAnswer, TypeOK, DaemonOK
    <3>5. \A id \in Ids : box'[id] = IF id = hand.n THEN id ELSE box[id]
      BY <3>1, <3>3
    <3>6. QED
      BY <3>1, <3>2, <3>3, <3>4, <3>5 DEF OneAnswer
  <2>3. QED
    BY <2>1, <2>2
<1>4. CASE ReadEnds \/ ReaderExits \/ ReadFails
  BY <1>4 DEF ReadEnds, ReaderExits, ReadFails, OneAnswer, callVars, daemonVars
<1>5. QED
  BY <1>1, <1>2, <1>3, <1>4 DEF ReaderStep

LEMMA AnswerCall ==
  ASSUME TypeOK, OneAnswer, NEW c \in Callers, CallStep(c) \/ (Alive /\ CallRegister(c))
  PROVE  OneAnswer'
<1>1. CASE CallEnds(c)
  <2>1. UNCHANGED <<answered, ran, toClient, hand>>
    BY <1>1 DEF CallEnds, readerVars, daemonVars
  <2>2. call[c] \in Ids
    BY <1>1 DEF CallEnds, TypeOK, CallsOK
  <2>3. \/ UNCHANGED <<got, box>>
        \/ /\ got' = [got EXCEPT ![call[c]] = box[call[c]]]
           /\ box' = [box EXCEPT ![call[c]] = 0]
    BY <1>1 DEF CallEnds
  <2>4. \A id \in Ids :
          /\ box'[id] \in {0, box[id]}
          /\ got'[id] \in {got[id], box[id]}
    BY <2>2, <2>3 DEF TypeOK, CallsOK
  <2>5. answered \subseteq Ids
    BY DEF TypeOK, DaemonOK
  <2>6. /\ \A i \in Responses(toClient) : box'[toClient[i].n] = 0
        /\ hand.kind = "response" => box'[hand.n] = 0
    BY <2>4, <2>5 DEF OneAnswer
  <2>7. QED
    BY <2>1, <2>4, <2>6 DEF OneAnswer
<1>2. CASE CallWrite(c) \/ CallCleanup(c) \/ CallRegister(c)
  BY <1>2 DEF CallWrite, CallCleanup, CallRegister, OneAnswer, callVars, readerVars, daemonVars
<1>3. QED
  BY <1>1, <1>2 DEF CallStep

LEMMA AnswerDaemon ==
  ASSUME TypeOK, OneAnswer, DaemonStep
  PROVE  OneAnswer'
<1>0. UNCHANGED <<hand, box, got>>
  BY DEF DaemonStep, Greet, TakeRequest, PushUpdate, DaemonGone, RunRequest, Answer,
     clientVars, callVars, readerVars
<1>1. CASE Greet \/ PushUpdate
  <2>1. PICK f \in Wire : f.kind # "response" /\ toClient' = Append(toClient, f)
    <3>1. /\ Frame("hello", 0) \in Wire /\ Frame("update", pushed + 1) \in Wire
          /\ Frame("hello", 0).kind # "response" /\ Frame("update", pushed + 1).kind # "response"
      BY DEF Frame, Wire, TypeOK, DaemonOK
    <3>2. QED
      BY <1>1, <3>1 DEF Greet, PushUpdate
  <2>2. UNCHANGED <<answered, ran>>
    BY <1>1 DEF Greet, PushUpdate
  <2>3. QED
    <3>1. \A i \in Responses(toClient') :
            i \in Responses(toClient) /\ toClient'[i] = toClient[i]
      BY <2>1, ResponseSent
    <3>2. QED
      BY <1>0, <2>2, <3>1 DEF OneAnswer
<1>2. ASSUME NEW id \in Ids, Answer(id) PROVE OneAnswer'
  <2>1. /\ id \in ran \ answered /\ answered' = answered \cup {id} /\ ran' = ran
        /\ toClient' = Append(toClient, Frame("response", id))
    BY <1>2 DEF Answer
  <2>2. Frame("response", id) \in Wire /\ Frame("response", id).n = id
    BY DEF Frame, Wire, Ids
  <2>3. /\ box[id] = 0
        /\ \A i \in Responses(toClient) : toClient[i].n # id
        /\ hand.kind = "response" => hand.n # id
    BY <2>1 DEF OneAnswer
  <2>4. \A i \in Responses(toClient') :
          \/ i \in Responses(toClient) /\ toClient'[i] = toClient[i]
          \/ i = Len(toClient) + 1 /\ toClient'[i].n = id
    BY <2>1, <2>2, ResponseSent
  <2>5. QED
    <3>1. \A i, j \in Responses(toClient') : toClient'[i].n = toClient'[j].n => i = j
      BY <2>3, <2>4 DEF OneAnswer
    <3>2. ASSUME NEW i \in Responses(toClient')
          PROVE  toClient'[i].n \in answered' /\ box[toClient'[i].n] = 0
      <4>1. CASE i \in Responses(toClient) /\ toClient'[i] = toClient[i]
        BY <2>1, <4>1 DEF OneAnswer
      <4>2. CASE toClient'[i].n = id
        BY <2>1, <2>3, <4>2
      <4>3. QED
        BY <2>4, <4>1, <4>2
    <3>3. hand.kind = "response" => \A i \in Responses(toClient') : toClient'[i].n # hand.n
      BY <2>3, <2>4 DEF OneAnswer
    <3>4. QED
      BY <1>0, <2>1, <3>1, <3>2, <3>3 DEF OneAnswer
<1>3. CASE TakeRequest \/ DaemonGone \/ \E id \in Ids : RunRequest(id)
  BY <1>0, <1>3 DEF TakeRequest, DaemonGone, RunRequest, OneAnswer
<1>4. QED
  BY <1>1, <1>2, <1>3 DEF DaemonStep

LEMMA OneAnswerHolds == Spec => []OneAnswer
<1>1. Init => OneAnswer
  <2>1. SUFFICES ASSUME Init PROVE OneAnswer
    OBVIOUS
  <2>2. Responses(toClient) = {}
    BY <2>1 DEF Init, Responses
  <2>3. hand.kind # "response"
    BY <2>1 DEF Init, NoFrame, Frame
  <2>4. \A id \in Ids : box[id] = 0 /\ got[id] = 0 /\ id # 0
    BY <2>1 DEF Init, Ids
  <2>5. answered \subseteq ran
    BY <2>1 DEF Init
  <2>6. QED
    BY <2>2, <2>3, <2>4, <2>5 DEF OneAnswer
<1>2. TypeOK /\ HandKind /\ OneAnswer /\ [Next]_vars => OneAnswer'
  <2>1. SUFFICES ASSUME TypeOK, HandKind, OneAnswer, [Next]_vars PROVE OneAnswer'
    OBVIOUS
  <2>2. CASE UNCHANGED <<hand, box, got, answered, ran, toClient>>
    BY <2>1, <2>2 DEF OneAnswer
  <2>3. CASE MainStep \/ Timer \/ ConsumeStep \/ CloseStep \/ (Alive /\ (Interrupt \/ Finish))
    BY <2>2, <2>3 DEF MainStep, Timer, ConsumeStep, CloseStep, HelloOK, HelloRefused, FallBack,
       RunLocally, Exit, HelloTimeout, Consume, CloseFlag, CloseConn, FailPending,
       CloseEvents, Interrupt, Finish, callVars, readerVars, daemonVars
  <2>4. QED
    BY <2>1, <2>2, <2>3, AnswerReader, AnswerCall, AnswerDaemon
       DEF Next, vars, callVars, readerVars, daemonVars
<1>3. QED
  BY <1>1, <1>2, ClientTypeCorrect, HandKindHolds, PTL DEF Spec

\* A call gets the response of its own request (Call, readLoop, dispatch).
THEOREM AnswersMatch == Spec => []AnswerIsOwn
<1>1. TypeOK /\ OneAnswer => AnswerIsOwn
  BY DEF OneAnswer, AnswerIsOwn
<1>2. QED
  BY <1>1, ClientTypeCorrect, OneAnswerHolds, PTL

\* The reader finds the slot of a call empty (readLoop, dispatch).
THEOREM ReaderMovesOn == Spec => []ReaderNeverStuck
<1>1. HandKind /\ OneAnswer => ReaderNeverStuck
  BY DEF HandKind, OneAnswer, ReaderNeverStuck
<1>2. QED
  BY <1>1, HandKindHolds, OneAnswerHolds, PTL

-----------------------------------------------------------------------------
(* The order of updates                                                    *)

LEMMA InOrderEmpty == ASSUME NEW a \in Nat PROVE InOrder(<<>>, a, a)
BY DEF InOrder, Updates

\* The first of the updates after a is a + 1; the others come after it.
LEMMA InOrderTail ==
  ASSUME NEW s \in Seq(Frames), s # <<>>, NEW a \in Nat, NEW b \in Nat, InOrder(s, a, b)
  PROVE  /\ Head(s).kind = "update" =>
              Head(s).n = a + 1 /\ a + 1 <= b /\ InOrder(Tail(s), a + 1, b)
         /\ Head(s).kind # "update" => InOrder(Tail(s), a, b)
<1> DEFINE t == Tail(s)
           h == Head(s)
<1>1. /\ h = s[1] /\ 1 \in DOMAIN s /\ DOMAIN s = 1 .. Len(s) /\ Len(s) \in Nat
      /\ DOMAIN t = 1 .. Len(s) - 1
      /\ \A i \in DOMAIN t : t[i] = s[i + 1]
  BY Dequeue
<1>2. \A i \in DOMAIN s : s[i].n \in Nat
  <2>1. \A i \in DOMAIN s : s[i] \in Frames
    OBVIOUS
  <2>2. QED
    BY <2>1 DEF Frames
<1> HIDE DEF t, h
<1>3. /\ \A i \in Updates(t) : /\ i + 1 \in Updates(s) /\ t[i] = s[i + 1]
                              /\ i \in Nat /\ i > 0
      /\ \A i \in Updates(s) : i # 1 => i - 1 \in Updates(t) /\ t[i - 1] = s[i]
      /\ \A i \in Updates(s) : i \in Nat /\ i > 0
  BY <1>1 DEF Updates
<1>4. \A i, j \in Updates(t) : i < j => t[i].n < t[j].n
  <2>1. SUFFICES ASSUME NEW i \in Updates(t), NEW j \in Updates(t), i < j
                 PROVE  t[i].n < t[j].n
    OBVIOUS
  <2>2. i + 1 < j + 1
    BY <1>3, <2>1
  <2>3. QED
    BY <1>3, <2>2 DEF InOrder
<1>5. ASSUME h.kind # "update" PROVE InOrder(t, a, b)
  <2>1. 1 \notin Updates(s)
    BY <1>1, <1>5 DEF Updates
  <2>2. {t[i].n : i \in Updates(t)} = {s[i].n : i \in Updates(s)}
    BY <1>3, <2>1
  <2>3. QED
    BY <1>4, <2>2 DEF InOrder
<1>6. ASSUME h.kind = "update" PROVE h.n = a + 1 /\ a + 1 <= b /\ InOrder(t, a + 1, b)
  <2>1. 1 \in Updates(s)
    BY <1>1, <1>6 DEF Updates
  <2>2. \A i \in Updates(s) : s[i].n \in a + 1 .. b
    BY DEF InOrder
  <2>3. \A i \in Updates(s) : i # 1 => s[1].n < s[i].n
    BY <1>3, <2>1 DEF InOrder
  <2>4. s[1].n \in a + 1 .. b
    BY <2>1, <2>2
  <2>5. PICK k \in Updates(s) : s[k].n = a + 1
    <3>1. a + 1 \in a + 1 .. b
      BY <2>4
    <3>2. QED
      BY <3>1 DEF InOrder
  <2>6. s[1].n = a + 1
    BY <2>3, <2>4, <2>5
  <2>7. ASSUME NEW i \in Updates(t) PROVE t[i].n \in a + 2 .. b
    <3>1. i + 1 \in Updates(s) /\ t[i] = s[i + 1] /\ i + 1 # 1
      BY <1>3
    <3>2. s[i + 1].n \in a + 1 .. b /\ a + 1 < s[i + 1].n
      BY <2>2, <2>3, <2>6, <3>1
    <3>3. QED
      BY <3>1, <3>2
  <2>8. ASSUME NEW m \in a + 2 .. b PROVE \E i \in Updates(t) : t[i].n = m
    <3>0. m \in a + 1 .. b
      OBVIOUS
    <3>1. PICK i \in Updates(s) : s[i].n = m
      BY <3>0 DEF InOrder
    <3>2. i # 1
      BY <2>6, <3>1
    <3>3. QED
      BY <1>3, <3>1, <3>2
  <2>9. {t[i].n : i \in Updates(t)} = (a + 1) + 1 .. b
    BY <2>7, <2>8
  <2>10. QED
    BY <1>1, <1>4, <2>4, <2>6, <2>9 DEF InOrder
<1>7. QED
  BY <1>5, <1>6 DEF t, h

\* A later update goes to the end; another frame there changes nothing.
LEMMA InOrderAppend ==
  ASSUME NEW s \in Seq(Frames), NEW f \in Frames, NEW a \in Nat, NEW b \in Nat, a <= b,
         InOrder(s, a, b)
  PROVE  /\ f.kind # "update" => InOrder(Append(s, f), a, b)
         /\ f.kind = "update" /\ f.n = b + 1 => InOrder(Append(s, f), a, b + 1)
<1> DEFINE t == Append(s, f)
<1>1. /\ DOMAIN s = 1 .. Len(s) /\ DOMAIN t = 1 .. Len(s) + 1 /\ Len(s) \in Nat
      /\ \A i \in DOMAIN s : t[i] = s[i]
      /\ t[Len(s) + 1] = f
  BY Enqueue
<1> HIDE DEF t
<1>2. \A i \in Updates(s) : i \in Updates(t) /\ t[i] = s[i] /\ i \in Nat /\ i < Len(s) + 1
  BY <1>1 DEF Updates
<1>3. \A i \in Updates(s) : s[i].n \in a + 1 .. b
  BY DEF InOrder
<1>4. ASSUME f.kind # "update" PROVE InOrder(t, a, b)
  <2>1. \A i \in Updates(t) : i \in Updates(s) /\ t[i] = s[i]
    BY <1>1, <1>4 DEF Updates
  <2>2. Updates(t) = Updates(s)
    BY <1>2, <2>1
  <2>3. {t[i].n : i \in Updates(t)} = {s[i].n : i \in Updates(s)}
    BY <2>1, <2>2
  <2>4. QED
    BY <2>1, <2>3 DEF InOrder
<1>5. ASSUME f.kind = "update", f.n = b + 1 PROVE InOrder(t, a, b + 1)
  <2>1. Len(s) + 1 \in Updates(t)
    BY <1>1, <1>5 DEF Updates
  <2>2. \A i \in Updates(t) : i \in Updates(s) \/ i = Len(s) + 1
    BY <1>1 DEF Updates
  <2>3. {t[i].n : i \in Updates(t)} = a + 1 .. b + 1
    <3>1. ASSUME NEW i \in Updates(t) PROVE t[i].n \in a + 1 .. b + 1
      BY <1>1, <1>2, <1>3, <1>5, <2>2
    <3>2. ASSUME NEW m \in a + 1 .. b + 1 PROVE \E i \in Updates(t) : t[i].n = m
      <4>1. CASE m = b + 1
        BY <1>1, <1>5, <2>1, <4>1
      <4>2. CASE m \in a + 1 .. b
        <5>1. PICK i \in Updates(s) : s[i].n = m
          BY <4>2 DEF InOrder
        <5>2. QED
          BY <1>2, <5>1
      <4>3. QED
        BY <4>1, <4>2
    <3>3. QED
      BY <3>1, <3>2
  <2>4. ASSUME NEW i \in Updates(t), NEW j \in Updates(t), i < j PROVE t[i].n < t[j].n
    <3>1. i \in Updates(s)
      BY <1>1, <1>2, <2>2, <2>4
    <3>2. CASE j \in Updates(s)
      BY <1>2, <2>4, <3>1, <3>2 DEF InOrder
    <3>3. CASE j = Len(s) + 1
      <4>1. t[i].n \in a + 1 .. b /\ t[j].n = b + 1
        BY <1>1, <1>2, <1>3, <1>5, <3>1, <3>3
      <4>2. QED
        BY <4>1
    <3>4. QED
      BY <2>2, <3>2, <3>3
  <2>5. QED
    BY <2>3, <2>4 DEF InOrder
<1>6. QED
  BY <1>4, <1>5 DEF t

\* What follows what.
LEMMA InOrderConcat ==
  ASSUME NEW s \in Seq(Frames), NEW t \in Seq(Frames),
         NEW a \in Nat, NEW b \in Nat, NEW c \in Nat, a <= b, b <= c,
         InOrder(s, a, b), InOrder(t, b, c)
  PROVE  InOrder(s \o t, a, c)
<1> DEFINE r == s \o t
           l == Len(s)
<1>1. /\ l \in Nat /\ Len(t) \in Nat /\ DOMAIN s = 1 .. l /\ DOMAIN t = 1 .. Len(t)
      /\ DOMAIN r = 1 .. l + Len(t)
      /\ \A i \in 1 .. l : r[i] = s[i]
      /\ \A i \in 1 .. Len(t) : r[l + i] = t[i]
  BY Concatenate
<1> HIDE DEF r, l
<1>2. ASSUME NEW i \in Updates(r)
      PROVE  \/ i \in Updates(s) /\ r[i] = s[i] /\ i <= l
             \/ i - l \in Updates(t) /\ r[i] = t[i - l] /\ l < i
  <2>1. i \in 1 .. l + Len(t) /\ r[i].kind = "update"
    BY <1>1 DEF Updates
  <2>2. CASE i \in 1 .. l
    BY <1>1, <2>1, <2>2 DEF Updates
  <2>3. CASE i \notin 1 .. l
    <3>1. i - l \in 1 .. Len(t) /\ l + (i - l) = i
      BY <1>1, <2>1, <2>3
    <3>2. r[i] = t[i - l]
      BY <1>1, <3>1
    <3>3. QED
      BY <1>1, <2>1, <2>3, <3>1, <3>2 DEF Updates
  <2>4. QED
    BY <2>2, <2>3
<1>3. /\ \A i \in Updates(s) : i \in Updates(r) /\ r[i] = s[i]
      /\ \A i \in Updates(t) : l + i \in Updates(r) /\ r[l + i] = t[i]
  BY <1>1 DEF Updates
<1>4. /\ \A i \in Updates(s) : s[i].n \in a + 1 .. b
      /\ \A i \in Updates(t) : t[i].n \in b + 1 .. c
  BY DEF InOrder
<1>5. {r[i].n : i \in Updates(r)} = a + 1 .. c
  <2>1. ASSUME NEW i \in Updates(r) PROVE r[i].n \in a + 1 .. c
    BY <1>2, <1>4
  <2>2. ASSUME NEW m \in a + 1 .. c PROVE \E i \in Updates(r) : r[i].n = m
    <3>1. CASE m \in a + 1 .. b
      <4>1. PICK i \in Updates(s) : s[i].n = m
        BY <3>1 DEF InOrder
      <4>2. QED
        BY <1>3, <4>1
    <3>2. CASE m \in b + 1 .. c
      <4>1. PICK i \in Updates(t) : t[i].n = m
        BY <3>2 DEF InOrder
      <4>2. QED
        BY <1>3, <4>1
    <3>3. QED
      BY <3>1, <3>2
  <2>3. QED
    BY <2>1, <2>2
<1>6. ASSUME NEW i \in Updates(r), NEW j \in Updates(r), i < j PROVE r[i].n < r[j].n
  <2>0. i \in Nat /\ j \in Nat
    BY <1>1 DEF Updates
  <2>1. CASE i <= l /\ j <= l
    BY <1>1, <1>2, <1>6, <2>0, <2>1 DEF InOrder
  <2>2. CASE i <= l /\ l < j
    <3>1. r[i].n \in a + 1 .. b /\ r[j].n \in b + 1 .. c
      <4>1. i \in Updates(s) /\ r[i] = s[i]
        BY <1>1, <1>2, <2>0, <2>2
      <4>2. j - l \in Updates(t) /\ r[j] = t[j - l]
        BY <1>1, <1>2, <2>0, <2>2
      <4>3. QED
        BY <1>4, <4>1, <4>2
    <3>2. QED
      BY <3>1
  <2>3. CASE l < i /\ l < j
    <3>1. /\ i - l \in Updates(t) /\ r[i] = t[i - l]
          /\ j - l \in Updates(t) /\ r[j] = t[j - l]
          /\ i - l < j - l
      BY <1>1, <1>2, <1>6, <2>0, <2>3
    <3>2. QED
      BY <3>1 DEF InOrder
  <2>4. QED
    BY <1>1, <1>6, <2>0, <2>1, <2>2, <2>3
<1>7. QED
  BY <1>5, <1>6 DEF InOrder, r

LEMMA WireIsFrames == TypeOK => toClient \in Seq(Frames)
<1>1. SUFFICES ASSUME TypeOK PROVE toClient \in Seq(Frames)
  OBVIOUS
<1>2. toClient \in Seq(Wire)
  BY <1>1 DEF TypeOK, DaemonOK
<1>3. \A i \in 1 .. Len(toClient) : toClient[i] \in Wire
  BY <1>2
<1>4. \A f \in Wire : f \in Frames
  BY DEF Wire, Frames
<1>5. Len(toClient) \in Nat /\ toClient = [i \in 1 .. Len(toClient) |-> toClient[i]]
  BY <1>2
<1>6. QED
  BY <1>3, <1>4, <1>5

Hello == Frame("hello", 0)

\* The connection before the command has its Hello: there is nothing on it
\* but that, and nothing has been asked.
Greeting ==
  /\ nextID = 0 /\ subs = {} /\ taken = {} /\ ran = {} /\ toServer = <<>>
  /\ \A c \in Callers : pc[c] = "idle"
  /\ consumed = <<>> /\ pushed = 0
  /\ \/ events = <<>> /\ hand = NoFrame /\ toClient = <<>>
     \/ /\ daemon # "accepted"
        /\ \/ events = <<Hello>> /\ hand = NoFrame /\ toClient = <<>>
           \/ events = <<>> /\ hand = Hello /\ toClient = <<>>
           \/ events = <<>> /\ hand = NoFrame /\ toClient = <<Hello>>

\* How many updates are consumed or in Events, and with the one in hand.
Delivered == Len(consumed) + Len(events)
Read      == IF hand.kind = "update" THEN Delivered + 1 ELSE Delivered

\* The connection in use: Events holds nothing but updates, the reader's hand
\* the next one, and the wire the rest.
InUse ==
  /\ daemon # "accepted"
  /\ \A i \in DOMAIN events :
       events[i].kind = "update" /\ events[i].n = Len(consumed) + i
  /\ hand.kind # "hello"
  /\ hand.kind = "update" => hand.n = Delivered + 1
  /\ Read <= pushed
  /\ InOrder(toClient, Read, pushed)
  /\ \A i \in DOMAIN toClient : toClient[i].kind # "hello"

\* Until the command closes the connection, only the reader's end closes it.
NotClosed == main \in {"dial", "use"} /\ reader \notin {"close", "gone"} => closeAt = 0

Flow ==
  /\ Len(consumed) <= pushed
  /\ \A i \in 1 .. Len(consumed) : consumed[i] = i
  /\ main = "dial" => Greeting
  /\ main = "use" => InUse

LEMMA NotClosedHolds == Spec => []NotClosed
<1>1. Init => NotClosed
  BY DEF Init, NotClosed
<1>2. NotClosed /\ [Next]_vars => NotClosed'
  <2>1. SUFFICES ASSUME NotClosed, [Next]_vars PROVE NotClosed'
    OBVIOUS
  <2>2. CASE UNCHANGED <<main, closeAt, reader>>
    BY <2>1, <2>2 DEF NotClosed
  <2>3. CASE MainStep \/ Timer \/ ConsumeStep \/ (Alive /\ (Interrupt \/ Finish))
    <3>1. UNCHANGED <<closeAt, reader>>
      BY <2>3 DEF MainStep, Timer, ConsumeStep, HelloOK, HelloRefused, FallBack,
         RunLocally, Exit, HelloTimeout, Consume, Interrupt, Finish, readerVars
    <3>2. main' = main \/ main' \in {"give up", "local", "close", "done"} \/ main = "dial"
      BY <2>3 DEF MainStep, Timer, ConsumeStep, HelloOK, HelloRefused, FallBack,
         RunLocally, Exit, HelloTimeout, Consume, Interrupt, Finish, mainVars
    <3>3. QED
      BY <2>1, <3>1, <3>2 DEF NotClosed
  <2>4. CASE CloseStep
    <3>1. /\ UNCHANGED <<main, reader>>
          /\ main \in {"close", "give up"} \/ reader = "close"
      BY <2>4 DEF CloseStep, CloseFlag, CloseConn, FailPending, CloseEvents, Closing,
         mainVars, readerVars
    <3>2. QED
      BY <3>1 DEF NotClosed
  <2>5. ASSUME NEW c \in Callers, CallStep(c) \/ (Alive /\ CallRegister(c)) PROVE NotClosed'
    BY <2>2, <2>5 DEF CallStep, CallWrite, CallEnds, CallCleanup, CallRegister, mainVars,
       readerVars
  <2>6. CASE ReaderStep \/ (Alive /\ ReadFails)
    <3>1. UNCHANGED <<main, closeAt>>
      BY <2>6 DEF ReaderStep, ReadFrame, ReadEnds, Push, Lookup, Send, ReaderExits,
         ReadFails, mainVars
    <3>2. reader \notin {"close", "gone"} \/ reader' \in {"close", "gone"}
      BY <2>6 DEF ReaderStep, ReadFrame, ReadEnds, Push, Lookup, Send, ReaderExits, ReadFails
    <3>3. QED
      BY <2>1, <3>1, <3>2 DEF NotClosed
  <2>7. CASE DaemonStep
    BY <2>2, <2>7 DEF DaemonStep, Greet, TakeRequest, PushUpdate, DaemonGone, RunRequest,
       Answer, clientVars, mainVars, readerVars
  <2>8. QED
    BY <2>1, <2>2, <2>3, <2>4, <2>5, <2>6, <2>7 DEF Next, vars, mainVars, readerVars
<1>3. QED
  BY <1>1, <1>2, PTL DEF Spec

\* The steps of the command's own goroutine and of Close.
LEMMA FlowMain ==
  ASSUME TypeOK, HandKind, Flow,
         MainStep \/ Timer \/ ConsumeStep \/ CloseStep \/ (Alive /\ (Interrupt \/ Finish))
  PROVE  Flow'
<1>1. CASE HelloOK
  <2>1. Greeting /\ events # <<>> /\ main' = "use" /\ events' = Tail(events)
    BY <1>1 DEF HelloOK, Flow
  <2>2. UNCHANGED <<consumed, hand, toClient, pushed, daemon>>
    BY <1>1 DEF HelloOK, readerVars, daemonVars
  <2>3. /\ events = <<Hello>> /\ hand = NoFrame /\ toClient = <<>> /\ daemon # "accepted"
        /\ consumed = <<>> /\ pushed = 0
    BY <2>1 DEF Greeting
  <2>4. events' = <<>>
    BY <2>1, <2>3
  <2>5. Delivered' = 0 /\ Read' = 0
    BY <2>2, <2>3, <2>4 DEF Delivered, Read, NoFrame, Frame
  <2>6. InUse'
    BY <2>2, <2>3, <2>4, <2>5, InOrderEmpty DEF InUse, NoFrame, Frame
  <2>7. QED
    BY <2>1, <2>2, <2>3, <2>6 DEF Flow
<1>2. CASE Consume
  <2>1. /\ InUse /\ main' = main /\ main = "use" /\ events # <<>> /\ events' = Tail(events)
        /\ consumed' = Append(consumed, Head(events).n)
        /\ UNCHANGED <<hand, toClient, pushed, daemon>>
    BY <1>2 DEF Consume, Flow, readerVars, daemonVars
  <2>2. /\ events \in Seq(Frames) /\ consumed \in Seq(Nat) /\ pushed \in Nat
    BY DEF TypeOK, MainOK, DaemonOK
  <2>3. /\ Head(events) = events[1] /\ 1 \in DOMAIN events /\ Len(events) \in Nat \ {0}
        /\ DOMAIN events = 1 .. Len(events)
        /\ Len(events') = Len(events) - 1 /\ DOMAIN events' = 1 .. Len(events) - 1
        /\ \A i \in DOMAIN events' : i + 1 \in DOMAIN events /\ events'[i] = events[i + 1]
    BY <2>1, <2>2, Dequeue
  <2>4. Head(events).n = Len(consumed) + 1
    BY <2>1, <2>3 DEF InUse
  <2>5. /\ Len(consumed) \in Nat /\ Len(consumed') = Len(consumed) + 1
        /\ \A i \in 1 .. Len(consumed) : consumed'[i] = consumed[i]
        /\ consumed'[Len(consumed) + 1] = Len(consumed) + 1
    <3>1. Len(consumed) + 1 \in Nat
      BY <2>2
    <3>2. QED
      BY <2>1, <2>2, <2>4, <3>1, Enqueue
  <2>6. Delivered' = Delivered /\ Delivered \in Nat /\ Len(consumed) + 1 <= Delivered
    BY <2>3, <2>5 DEF Delivered
  <2>7. Read' = Read /\ Delivered <= Read /\ Read \in Nat
    BY <2>1, <2>6 DEF Read
  <2>8. ASSUME NEW i \in DOMAIN events'
        PROVE  events'[i].kind = "update" /\ events'[i].n = Len(consumed') + i
    <3>1. /\ i + 1 \in DOMAIN events /\ events'[i] = events[i + 1] /\ i \in Nat
      BY <2>3
    <3>2. events[i + 1].kind = "update" /\ events[i + 1].n = Len(consumed) + (i + 1)
      BY <2>1, <3>1 DEF InUse
    <3>3. QED
      BY <2>5, <3>1, <3>2
  <2>9. InUse'
    BY <2>1, <2>6, <2>7, <2>8 DEF InUse
  <2>10. Len(consumed') <= pushed'
    BY <2>1, <2>2, <2>5, <2>6, <2>7 DEF InUse
  <2>11. \A i \in 1 .. Len(consumed') : consumed'[i] = i
    BY <2>5 DEF Flow
  <2>12. QED
    BY <2>1, <2>9, <2>10, <2>11 DEF Flow
<1>3. CASE CloseStep \/ Interrupt
  <2>1. UNCHANGED <<main, events, consumed, hand, toClient, pushed, daemon, nextID, subs, taken,
                    ran, toServer, pc>>
    BY <1>3 DEF CloseStep, CloseFlag, CloseConn, FailPending, CloseEvents, Interrupt,
       callVars, readerVars, daemonVars, mainVars
  <2>2. QED
    BY <2>1 DEF Flow, Greeting, InUse, Delivered, Read
<1>4. CASE HelloRefused \/ FallBack \/ RunLocally \/ Exit \/ HelloTimeout \/ Finish
  <2>1. UNCHANGED <<consumed, pushed>> /\ main' \notin {"dial", "use"}
    BY <1>4 DEF HelloRefused, FallBack, RunLocally, Exit, HelloTimeout, Finish, daemonVars
  <2>2. QED
    BY <2>1 DEF Flow
<1>5. QED
  BY <1>1, <1>2, <1>3, <1>4 DEF MainStep, Timer, ConsumeStep

LEMMA FlowCall ==
  ASSUME Flow, NEW c \in Callers, CallStep(c) \/ (Alive /\ CallRegister(c))
  PROVE  Flow'
<1>1. UNCHANGED <<main, events, consumed, hand, toClient, pushed, daemon>>
  BY DEF CallStep, CallWrite, CallEnds, CallCleanup, CallRegister, readerVars, daemonVars,
     mainVars
<1>2. main = "dial" => FALSE
  BY DEF CallStep, CallWrite, CallEnds, CallCleanup, CallRegister, Flow, Greeting
<1>3. QED
  BY <1>1, <1>2 DEF Flow, InUse, Delivered, Read

\* The reader takes the frames from the wire to Events.
LEMMA FlowReader ==
  ASSUME TypeOK, HandKind, NotClosed, Flow, ReaderStep \/ (Alive /\ ReadFails)
  PROVE  Flow'
<1>0. UNCHANGED <<main, consumed, pushed, daemon, nextID, subs, taken, ran, toServer, pc>>
  BY DEF ReaderStep, ReadFrame, ReadEnds, Push, Lookup, Send, ReaderExits, ReadFails,
     callVars, daemonVars, mainVars
<1>1. ASSUME main = "dial" PROVE Greeting'
  <2>1. Greeting
    BY <1>1 DEF Flow
  <2>2. hand.kind # "response"
    BY <2>1 DEF Greeting, Hello, NoFrame, Frame
  <2>3. CASE ReadFrame
    BY <1>0, <2>1, <2>3 DEF ReadFrame, Greeting, HandKind, NoFrame, Hello, Frame
  <2>4. CASE Push
    <3>1. events = <<>> /\ hand = Hello /\ toClient = <<>> /\ daemon # "accepted"
      <4>1. hand.kind # "none" /\ NoFrame.kind = "none"
        BY <2>4 DEF Push, HandKind, NoFrame, Frame
      <4>2. hand # NoFrame
        BY <4>1
      <4>3. QED
        BY <2>1, <4>2 DEF Greeting
    <3>2. Append(<<>>, Hello) = <<Hello>>
      OBVIOUS
    <3>3. UNCHANGED toClient
      BY <2>4 DEF Push, daemonVars
    <3>4. \/ UNCHANGED <<events, hand>>
          \/ UNCHANGED events /\ hand' = NoFrame
          \/ events' = Append(events, hand) /\ hand' = NoFrame
      BY <2>4 DEF Push
    <3>5. QED
      BY <1>0, <2>1, <3>1, <3>2, <3>3, <3>4 DEF Greeting
  <2>5. CASE Lookup \/ Send
    BY <2>2, <2>5 DEF Lookup, Send, HandKind
  <2>6. CASE ReadEnds \/ ReaderExits \/ ReadFails
    BY <1>0, <2>1, <2>6 DEF ReadEnds, ReaderExits, ReadFails, Greeting, daemonVars
  <2>7. QED
    BY <2>3, <2>4, <2>5, <2>6 DEF ReaderStep
<1>2. ASSUME main = "use" PROVE InUse'
  <2>1. InUse
    BY <1>2 DEF Flow
  <2>2. /\ events \in Seq(Frames) /\ toClient \in Seq(Wire) /\ toClient \in Seq(Frames)
        /\ hand \in Frames /\ pushed \in Nat /\ consumed \in Seq(Nat)
    BY WireIsFrames DEF TypeOK, ReaderOK, DaemonOK, MainOK
  <2>3. Delivered \in Nat /\ Read \in Nat /\ Len(events) \in Nat /\ Len(consumed) \in Nat
    BY <2>2 DEF Delivered, Read
  <2>4. NoFrame.kind = "none"
    BY DEF NoFrame, Frame
  <2>5. CASE ReadFrame
    <3>1. /\ toClient # <<>> /\ hand' = Head(toClient) /\ toClient' = Tail(toClient)
          /\ hand = NoFrame /\ events' = events
      BY <2>5 DEF ReadFrame, HandKind
    <3>2. Delivered' = Delivered /\ Read = Delivered
      BY <1>0, <2>4, <3>1 DEF Delivered, Read
    <3>3. /\ hand'.kind = "update" =>
               hand'.n = Read + 1 /\ Read + 1 <= pushed /\ InOrder(toClient', Read + 1, pushed)
          /\ hand'.kind # "update" => InOrder(toClient', Read, pushed)
      BY <2>1, <2>2, <2>3, <3>1, InOrderTail, Zenon DEF InUse
    <3>4. /\ hand'.kind # "hello"
          /\ \A i \in DOMAIN toClient' : toClient'[i].kind # "hello"
      <4>1. /\ hand' = toClient[1] /\ 1 \in DOMAIN toClient
            /\ \A i \in DOMAIN toClient' : i + 1 \in DOMAIN toClient /\ toClient'[i] = toClient[i + 1]
        BY <2>2, <3>1, Dequeue
      <4>2. QED
        BY <2>1, <4>1 DEF InUse
    <3>5. Read' = IF hand'.kind = "update" THEN Read + 1 ELSE Read
      BY <3>2 DEF Read
    <3>6. InOrder(toClient', Read', pushed) /\ Read' <= pushed
      BY <2>1, <3>3, <3>5 DEF InUse
    <3>7. QED
      BY <1>0, <2>1, <3>1, <3>2, <3>3, <3>4, <3>6 DEF InUse
  <2>6. CASE Push
    <3>1. hand.kind = "update"
      BY <2>1, <2>2, <2>6 DEF Push, HandKind, InUse, Frames
    <3>2. /\ events' = Append(events, hand) /\ hand' = NoFrame /\ toClient' = toClient
      BY <1>2, <2>6 DEF Push, NotClosed, Closed, EventsClosed, daemonVars
    <3>3. /\ Len(events') = Len(events) + 1
          /\ DOMAIN events = 1 .. Len(events) /\ DOMAIN events' = 1 .. Len(events) + 1
          /\ \A i \in DOMAIN events : events'[i] = events[i]
          /\ events'[Len(events) + 1] = hand
      BY <2>2, <3>2, Enqueue
    <3>4. hand.n = Len(consumed) + (Len(events) + 1)
      BY <2>1, <2>3, <3>1 DEF InUse, Delivered
    <3>5. ASSUME NEW i \in DOMAIN events'
          PROVE  events'[i].kind = "update" /\ events'[i].n = Len(consumed) + i
      <4>1. CASE i \in DOMAIN events
        BY <2>1, <3>3, <4>1 DEF InUse
      <4>2. CASE i = Len(events) + 1
        BY <3>1, <3>3, <3>4, <4>2
      <4>3. QED
        BY <2>3, <3>3, <4>1, <4>2
    <3>6. Read = Delivered + 1 /\ Delivered' = Delivered + 1 /\ Read' = Delivered + 1
      BY <1>0, <2>3, <2>4, <3>1, <3>2, <3>3 DEF Delivered, Read
    <3>7. QED
      BY <1>0, <2>1, <2>4, <3>2, <3>5, <3>6 DEF InUse
  <2>7. CASE Lookup \/ Send
    <3>1. /\ UNCHANGED <<events, toClient>> /\ hand' \in {hand, NoFrame}
          /\ hand.kind = "response"
      BY <2>7 DEF Lookup, Send, HandKind, daemonVars
    <3>2. hand'.kind \notin {"update", "hello"}
      BY <2>4, <3>1
    <3>3. Delivered' = Delivered /\ Read' = Read
      BY <1>0, <3>1, <3>2 DEF Delivered, Read
    <3>4. QED
      BY <1>0, <2>1, <3>1, <3>2, <3>3 DEF InUse
  <2>8. CASE ReadEnds \/ ReaderExits \/ ReadFails
    <3>1. UNCHANGED <<events, toClient, hand>>
      BY <2>8 DEF ReadEnds, ReaderExits, ReadFails, daemonVars
    <3>2. QED
      BY <1>0, <2>1, <3>1 DEF InUse, Delivered, Read
  <2>9. QED
    BY <2>5, <2>6, <2>7, <2>8 DEF ReaderStep
<1>3. QED
  BY <1>0, <1>1, <1>2 DEF Flow

LEMMA FlowDaemon ==
  ASSUME TypeOK, Flow, DaemonStep
  PROVE  Flow'
<1>0. UNCHANGED <<main, events, consumed, hand, nextID, subs, pc>>
  BY DEF DaemonStep, Greet, TakeRequest, PushUpdate, DaemonGone, RunRequest, Answer,
     clientVars, callVars, readerVars, mainVars
<1>1. ASSUME main = "dial" PROVE Greeting' /\ pushed' = pushed
  <2>1. Greeting
    BY <1>1 DEF Flow
  <2>2. CASE Greet
    <3>1. events = <<>> /\ hand = NoFrame /\ toClient = <<>>
      BY <2>1, <2>2 DEF Greet, Greeting
    <3>2. /\ toClient' = <<Hello>> /\ daemon' = "serving"
          /\ UNCHANGED <<toServer, taken, ran, pushed>>
      BY <2>2, <3>1 DEF Greet, Hello
    <3>3. QED
      BY <1>0, <2>1, <3>1, <3>2 DEF Greeting
  <2>3. CASE DaemonGone
    BY <1>0, <2>1, <2>3 DEF DaemonGone, Greeting
  <2>4. CASE TakeRequest \/ PushUpdate \/ \E id \in Ids : RunRequest(id) \/ Answer(id)
    BY <2>1, <2>4 DEF TakeRequest, PushUpdate, RunRequest, Answer, Greeting
  <2>5. QED
    BY <2>2, <2>3, <2>4 DEF DaemonStep
<1>2. pushed \in Nat /\ pushed' \in {pushed, pushed + 1}
  BY DEF DaemonStep, Greet, TakeRequest, PushUpdate, DaemonGone, RunRequest, Answer, TypeOK,
     DaemonOK
<1>3. ASSUME main = "use" PROVE InUse'
  <2>1. InUse
    BY <1>3 DEF Flow
  <2>2. /\ toClient \in Seq(Wire) /\ toClient \in Seq(Frames) /\ events \in Seq(Frames)
        /\ consumed \in Seq(Nat)
    BY WireIsFrames DEF TypeOK, DaemonOK, MainOK
  <2>3. /\ Delivered' = Delivered /\ Read' = Read /\ Read \in Nat /\ Read <= pushed
    BY <1>0, <2>1, <2>2 DEF Delivered, Read, InUse
  <2>4. daemon' # "accepted"
    BY <2>1 DEF InUse, DaemonStep, Greet, TakeRequest, PushUpdate, DaemonGone, RunRequest, Answer
  <2>5. ASSUME NEW f \in Wire, f.kind # "hello", toClient' = Append(toClient, f),
               \/ f.kind # "update" /\ pushed' = pushed
               \/ f.kind = "update" /\ f.n = pushed + 1 /\ pushed' = pushed + 1
        PROVE  InUse'
    <3>1. InOrder(toClient', Read, pushed')
      <4>1. f \in Frames
        BY DEF Wire, Frames
      <4>2. InOrder(toClient, Read, pushed)
        BY <2>1 DEF InUse
      <4>3. QED
        BY <1>2, <2>2, <2>3, <2>5, <4>1, <4>2, InOrderAppend, Zenon
    <3>2. \A i \in DOMAIN toClient' : toClient'[i].kind # "hello"
      <4>1. /\ DOMAIN toClient = 1 .. Len(toClient) /\ Len(toClient) \in Nat
            /\ DOMAIN toClient' = 1 .. Len(toClient) + 1
            /\ \A i \in DOMAIN toClient : toClient'[i] = toClient[i]
            /\ toClient'[Len(toClient) + 1] = f
        BY <2>2, <2>5, Enqueue
      <4>2. \A i \in DOMAIN toClient' : i \in DOMAIN toClient \/ i = Len(toClient) + 1
        BY <4>1
      <4>3. QED
        BY <2>1, <2>5, <4>1, <4>2 DEF InUse
    <3>3. Read <= pushed'
      BY <1>2, <2>3
    <3>4. QED
      BY <1>0, <2>1, <2>3, <2>4, <3>1, <3>2, <3>3 DEF InUse
  <2>6. CASE Greet
    BY <2>1, <2>6 DEF Greet, InUse
  <2>7. CASE PushUpdate
    <3>1. /\ Frame("update", pushed + 1) \in Wire
          /\ Frame("update", pushed + 1).kind = "update"
          /\ Frame("update", pushed + 1).n = pushed + 1
      BY <1>2 DEF Frame, Wire
    <3>2. QED
      BY <2>5, <2>7, <3>1 DEF PushUpdate
  <2>8. ASSUME NEW id \in Ids, Answer(id) PROVE InUse'
    <3>1. Frame("response", id) \in Wire /\ Frame("response", id).kind = "response"
      BY DEF Frame, Wire, Ids
    <3>2. QED
      BY <2>5, <2>8, <3>1 DEF Answer
  <2>9. CASE TakeRequest \/ DaemonGone \/ \E id \in Ids : RunRequest(id)
    <3>1. UNCHANGED <<toClient, pushed>>
      BY <2>9 DEF TakeRequest, DaemonGone, RunRequest
    <3>2. QED
      BY <1>0, <2>1, <2>3, <2>4, <3>1 DEF InUse
  <2>10. QED
    BY <2>6, <2>7, <2>8, <2>9 DEF DaemonStep
<1>4. Len(consumed) \in Nat
  <2>1. consumed \in Seq(Nat)
    BY DEF TypeOK, MainOK
  <2>2. QED
    BY <2>1
<1>5. Len(consumed) <= pushed'
  BY <1>2, <1>4 DEF Flow
<1>6. QED
  BY <1>0, <1>1, <1>3, <1>5 DEF Flow

\* The updates that are on the socket, in the reader's hand and on Events continue what
\* the command consumed, without a gap (readLoop, Events), and no frame precedes Hello.
THEOREM FlowHolds == Spec => []Flow
<1>1. Init => Flow
  <2>1. SUFFICES ASSUME Init PROVE Flow
    OBVIOUS
  <2>2. Greeting
    BY <2>1 DEF Init, Greeting
  <2>3. consumed = <<>> /\ pushed = 0 /\ main = "dial"
    BY <2>1 DEF Init
  <2>4. QED
    BY <2>2, <2>3 DEF Flow
<1>2. TypeOK /\ HandKind /\ NotClosed /\ Flow /\ [Next]_vars => Flow'
  <2>1. SUFFICES ASSUME TypeOK, HandKind, NotClosed, Flow, [Next]_vars PROVE Flow'
    OBVIOUS
  <2>2. CASE UNCHANGED vars
    BY <2>1, <2>2 DEF Flow, Greeting, InUse, Delivered, Read, vars, callVars, readerVars,
       daemonVars, mainVars
  <2>3. QED
    BY <2>1, <2>2, FlowMain, FlowCall, FlowReader, FlowDaemon DEF Next
<1>3. QED
  BY <1>1, <1>2, ClientTypeCorrect, HandKindHolds, NotClosedHolds, PTL DEF Spec

\* The consumer gets the updates in order, without a hole, and what it has not got
\* is on its way (readLoop, Close).
THEOREM UpdatesInOrder == Spec => []EventsInOrder
<1>1. TypeOK /\ Flow => EventsInOrder
  <2>1. SUFFICES ASSUME TypeOK, Flow PROVE EventsInOrder
    OBVIOUS
  <2>2. /\ events \in Seq(Frames) /\ toClient \in Seq(Frames) /\ hand \in Frames
        /\ pushed \in Nat /\ consumed \in Seq(Nat)
    BY <2>1, WireIsFrames DEF TypeOK, ReaderOK, DaemonOK, MainOK
  <2>3. IsPrefix(consumed, Numbered(pushed))
    <3>1. Numbered(pushed) \in Seq(Nat) /\ Len(Numbered(pushed)) = pushed
      BY <2>2 DEF Numbered
    <3>2. Len(consumed) \in Nat /\ Len(consumed) <= pushed
      BY <2>1, <2>2 DEF Flow
    <3>3. \A i \in 1 .. Len(consumed) : consumed[i] = i /\ Numbered(pushed)[i] = i
      BY <2>1, <2>2, <3>2 DEF Flow, Numbered
    <3>4. /\ SubSeq(consumed, 1, Len(consumed)) = [i \in 1 .. Len(consumed) |-> i]
          /\ SubSeq(Numbered(pushed), 1, Len(consumed)) = [i \in 1 .. Len(consumed) |-> i]
      BY <2>2, <3>1, <3>2, <3>3
    <3>5. QED
      BY <3>1, <3>2, <3>4 DEF IsPrefix
  <2>4. ASSUME main = "use" PROVE InOrder(events \o <<hand>> \o toClient, Len(consumed), pushed)
    <3>1. InUse
      BY <2>1, <2>4 DEF Flow
    <3>2. /\ Len(consumed) \in Nat /\ Delivered \in Nat /\ Read \in Nat
          /\ Len(consumed) <= Delivered /\ Delivered <= Read /\ Read <= pushed
      BY <2>2, <3>1 DEF Delivered, Read, InUse
    <3>3. InOrder(events, Len(consumed), Delivered)
      <4>1. /\ DOMAIN events = 1 .. Len(events) /\ Len(events) \in Nat
        BY <2>2
      <4>2. Updates(events) = 1 .. Len(events)
        BY <3>1, <4>1 DEF InUse, Updates
      <4>3. ASSUME NEW i \in 1 .. Len(events) PROVE events[i].n = Len(consumed) + i
        BY <3>1, <4>1 DEF InUse
      <4>4. ASSUME NEW m \in Len(consumed) + 1 .. Delivered
            PROVE  \E i \in 1 .. Len(events) : events[i].n = m
        <5>1. m - Len(consumed) \in 1 .. Len(events)
          BY <3>2, <4>1 DEF Delivered
        <5>2. events[m - Len(consumed)].n = m
          BY <3>2, <4>3, <5>1
        <5>3. QED
          BY <5>1, <5>2
      <4>5. ASSUME NEW i \in 1 .. Len(events) PROVE events[i].n \in Len(consumed) + 1 .. Delivered
        BY <3>2, <4>1, <4>3 DEF Delivered
      <4>6. {events[i].n : i \in Updates(events)} = Len(consumed) + 1 .. Delivered
        BY <4>2, <4>4, <4>5
      <4>7. \A i, j \in Updates(events) : i < j => events[i].n < events[j].n
        BY <3>2, <4>2, <4>3
      <4>8. QED
        BY <4>6, <4>7 DEF InOrder
    <3>4. InOrder(<<hand>>, Delivered, Read)
      <4>1. InOrder(<<>>, Delivered, Delivered)
        BY <3>2, InOrderEmpty
      <4>2. Append(<<>>, hand) = <<hand>> /\ <<>> \in Seq(Frames)
        OBVIOUS
      <4>6. Delivered <= Delivered
        BY <3>2
      <4>3. CASE hand.kind = "update"
        <5>1. hand.n = Delivered + 1 /\ Read = Delivered + 1
          BY <3>1, <4>3 DEF InUse, Read
        <5>2. QED
          <6>1. InOrder(Append(<<>>, hand), Delivered, Delivered + 1)
            BY <2>2, <3>2, <4>1, <4>2, <4>3, <4>6, <5>1, InOrderAppend, Zenon
          <6>2. QED
            BY <4>2, <5>1, <6>1
      <4>4. CASE hand.kind # "update"
        <5>1. Read = Delivered
          BY <4>4 DEF Read
        <5>2. QED
          BY <2>2, <3>2, <4>1, <4>2, <4>4, <5>1, InOrderAppend
      <4>5. QED
        BY <4>3, <4>4
    <3>5. <<hand>> \in Seq(Frames) /\ events \o <<hand>> \in Seq(Frames)
      BY <2>2
    <3>6. InOrder(events \o <<hand>>, Len(consumed), Read)
      BY <2>2, <3>2, <3>3, <3>4, <3>5, InOrderConcat
    <3>7. InOrder(toClient, Read, pushed)
      BY <3>1 DEF InUse
    <3>8. Len(consumed) <= Read
      BY <3>2
    <3>9. QED
      BY <2>2, <3>2, <3>5, <3>6, <3>7, <3>8, InOrderConcat, Zenon
  <2>5. QED
    BY <2>3, <2>4 DEF EventsInOrder
<1>2. QED
  BY <1>1, ClientTypeCorrect, FlowHolds, PTL
-----------------------------------------------------------------------------
(* The calls of a command, as it may rely on them                          *)

\* What the daemon has of the command, and what a call waits for, was asked.
Asked ==
  /\ \A i \in DOMAIN toServer : toServer[i] <= nextID
  /\ \A id \in taken : id <= nextID
  /\ \A c \in Callers : pc[c] # "idle" => call[c] <= nextID

\* Updates are pushed once a subscription was carried out.
Streams == pushed # 0 => subs \cap ran # {}

\* A response that is on its way is one no call has returned.
Fresh ==
  /\ \A i \in Responses(toClient) : got[toClient[i].n] = 0
  /\ hand.kind = "response" => got[hand.n] = 0
  /\ \A id \in Ids : box[id] # 0 => got[id] = 0

\* The steps that leave the calls to themselves.
LEMMA Aside ==
  ASSUME MainStep \/ Timer \/ ConsumeStep \/ CloseStep \/ (Alive /\ (Interrupt \/ Finish))
  PROVE  /\ UNCHANGED <<nextID, subs, got, box, pc, call>>
         /\ UNCHANGED <<hand, toServer, toClient, taken, ran, answered, pushed>>
BY DEF MainStep, Timer, ConsumeStep, CloseStep, HelloOK, HelloRefused, FallBack,
   RunLocally, Exit, HelloTimeout, Consume, CloseFlag, CloseConn, FailPending,
   CloseEvents, Interrupt, Finish, callVars, readerVars, daemonVars

LEMMA ReaderAside ==
  ASSUME ReaderStep \/ (Alive /\ ReadFails)
  PROVE  /\ UNCHANGED <<nextID, subs, got, pc, call, localRan, consumed>>
         /\ UNCHANGED <<toServer, taken, ran, answered, pushed>>
BY DEF ReaderStep, ReadFrame, ReadEnds, Push, Lookup, Send, ReaderExits, ReadFails,
   callVars, daemonVars, mainVars

LEMMA DaemonAside ==
  ASSUME DaemonStep
  PROVE  UNCHANGED <<nextID, subs, got, box, pc, call, hand, localRan, consumed>>
BY DEF DaemonStep, Greet, TakeRequest, PushUpdate, DaemonGone, RunRequest, Answer,
   clientVars, callVars, readerVars, mainVars

LEMMA AskedStep ==
  ASSUME TypeOK, Asked, [Next]_vars
  PROVE  Asked'
<1>0. /\ toServer \in Seq(Ids) /\ taken \subseteq Ids /\ nextID \in Nat
      /\ \A id \in Ids : id \in Nat
      /\ pc \in [Callers -> {"idle", "write", "wait", "cleanup"}]
      /\ call \in [Callers -> Nat]
  BY DEF TypeOK, CallsOK, DaemonOK, Ids
<1>1. CASE UNCHANGED <<toServer, taken, nextID, pc, call>>
  BY <1>1 DEF Asked
<1>2. ASSUME NEW c \in Callers, CallRegister(c) PROVE Asked'
  <2>1. /\ nextID' = nextID + 1 /\ call' = [call EXCEPT ![c] = nextID + 1]
        /\ UNCHANGED <<toServer, taken>>
        /\ pc' = pc \/ pc' = [pc EXCEPT ![c] = "write"]
    BY <1>2 DEF CallRegister, daemonVars
  <2>2. \A b \in Callers : b # c => pc'[b] = pc[b] /\ call'[b] = call[b]
    BY <1>0, <2>1
  <2>3. call'[c] = nextID + 1
    BY <1>0, <2>1
  <2>4. \A x \in Nat : x <= nextID => x <= nextID + 1
    BY <1>0
  <2>5. \A i \in DOMAIN toServer : toServer[i] \in Nat
    BY <1>0
  <2>6. \A b \in Callers : pc'[b] # "idle" => call'[b] <= nextID'
    <3>1. SUFFICES ASSUME NEW b \in Callers, pc'[b] # "idle" PROVE call'[b] <= nextID + 1
      BY <2>1
    <3>2. CASE b = c
      BY <1>0, <2>3, <3>2
    <3>3. CASE b # c
      BY <1>0, <2>2, <2>4, <3>1, <3>3 DEF Asked
    <3>4. QED
      BY <3>2, <3>3
  <2>7. QED
    BY <1>0, <2>1, <2>4, <2>5, <2>6 DEF Asked
<1>3. ASSUME NEW c \in Callers, CallWrite(c) PROVE Asked'
  <2>1. /\ pc[c] = "write" /\ UNCHANGED <<nextID, call, taken>>
        /\ toServer' = toServer \/ toServer' = Append(toServer, call[c])
        /\ pc' = [pc EXCEPT ![c] = "cleanup"] \/ pc' = [pc EXCEPT ![c] = "wait"]
    BY <1>3 DEF CallWrite
  <2>2. call[c] <= nextID /\ call[c] \in Ids
    BY <2>1 DEF Asked, TypeOK, CallsOK
  <2>3. \A i \in DOMAIN toServer' : toServer'[i] <= nextID
    <3>1. CASE toServer' = Append(toServer, call[c])
      <4>1. /\ Len(toServer) \in Nat /\ DOMAIN toServer = 1 .. Len(toServer)
            /\ DOMAIN toServer' = 1 .. Len(toServer) + 1
            /\ \A i \in DOMAIN toServer : toServer'[i] = toServer[i]
            /\ toServer'[Len(toServer) + 1] = call[c]
        BY <1>0, <2>2, <3>1, Enqueue
      <4>2. \A i \in DOMAIN toServer' : i \in DOMAIN toServer \/ i = Len(toServer) + 1
        BY <4>1
      <4>3. QED
        BY <2>2, <4>1, <4>2 DEF Asked
    <3>2. QED
      BY <2>1, <3>1 DEF Asked
  <2>4. \A b \in Callers : pc'[b] # "idle" => pc[b] # "idle"
    BY <1>0, <2>1
  <2>5. QED
    BY <2>1, <2>3, <2>4 DEF Asked
<1>4. ASSUME NEW c \in Callers, CallEnds(c) \/ CallCleanup(c) PROVE Asked'
  <2>1. UNCHANGED <<nextID, toServer, taken>>
    BY <1>4 DEF CallEnds, CallCleanup, daemonVars
  <2>2. ASSUME NEW b \in Callers, pc'[b] # "idle"
        PROVE  pc[b] # "idle" /\ call'[b] = call[b]
    BY <1>0, <1>4, <2>2 DEF CallEnds, CallCleanup
  <2>3. QED
    BY <2>1, <2>2 DEF Asked
<1>5. CASE TakeRequest
  <2>1. /\ toServer # <<>> /\ toServer' = Tail(toServer) /\ taken' = taken \cup {Head(toServer)}
        /\ UNCHANGED <<nextID, pc, call>>
    BY <1>5 DEF TakeRequest, clientVars, callVars
  <2>2. /\ Head(toServer) = toServer[1] /\ 1 \in DOMAIN toServer
        /\ \A i \in DOMAIN toServer' : i + 1 \in DOMAIN toServer /\ toServer'[i] = toServer[i + 1]
    BY <1>0, <2>1, Dequeue
  <2>3. QED
    BY <2>1, <2>2 DEF Asked
<1>6. CASE Greet \/ PushUpdate \/ DaemonGone \/ \E id \in Ids : RunRequest(id) \/ Answer(id)
  BY <1>1, <1>6 DEF Greet, PushUpdate, DaemonGone, RunRequest, Answer, clientVars, callVars
<1>7. QED
  BY <1>1, <1>2, <1>3, <1>4, <1>5, <1>6, Aside, ReaderAside
  DEF Next, CallStep, DaemonStep, vars, callVars, daemonVars

LEMMA StreamsStep ==
  ASSUME OneAnswer, Streams, [Next]_vars
  PROVE  Streams'
<1>1. CASE UNCHANGED <<pushed, subs>> /\ ran \subseteq ran'
  BY <1>1 DEF Streams
<1>2. ASSUME NEW c \in Callers, CallStep(c) \/ (Alive /\ CallRegister(c)) PROVE Streams'
  <2>1. UNCHANGED <<pushed, ran>>
    BY <1>2 DEF CallStep, CallWrite, CallEnds, CallCleanup, CallRegister, daemonVars
  <2>2. subs' = subs \/ subs = {}
    BY <1>2 DEF CallStep, CallWrite, CallEnds, CallCleanup, CallRegister
  <2>3. QED
    BY <2>1, <2>2 DEF Streams
<1>3. CASE DaemonStep
  <2>1. subs' = subs
    BY <1>3, DaemonAside
  <2>2. CASE PushUpdate
    BY <2>1, <2>2 DEF PushUpdate, Streams, OneAnswer
  <2>3. CASE Greet \/ TakeRequest \/ DaemonGone \/ \E id \in Ids : RunRequest(id) \/ Answer(id)
    BY <1>1, <2>1, <2>3 DEF Greet, TakeRequest, DaemonGone, RunRequest, Answer
  <2>4. QED
    BY <1>3, <2>2, <2>3 DEF DaemonStep
<1>4. QED
  BY <1>1, <1>2, <1>3, Aside, ReaderAside DEF Next, vars, callVars, daemonVars

LEMMA FreshStep ==
  ASSUME TypeOK, HandKind, OneAnswer, Fresh, [Next]_vars
  PROVE  Fresh'
<1>1. CASE UNCHANGED <<toClient, hand, box, got>>
  BY <1>1 DEF Fresh
<1>2. CASE ReaderStep \/ (Alive /\ ReadFails)
  <2>1. got' = got
    BY <1>2, ReaderAside
  <2>2. NoFrame.kind # "response"
    BY DEF NoFrame, Frame
  <2>3. CASE ReadFrame
    <3>1. /\ hand' = Head(toClient) /\ toClient' = Tail(toClient) /\ toClient # <<>>
          /\ box' = box
      BY <2>3 DEF ReadFrame, callVars
    <3>2. /\ \A i \in Responses(toClient') :
               i + 1 \in Responses(toClient) /\ toClient'[i] = toClient[i + 1]
          /\ hand'.kind = "response" => 1 \in Responses(toClient) /\ hand' = toClient[1]
      BY <3>1, ResponseTaken, Zenon
    <3>3. QED
      BY <2>1, <3>1, <3>2 DEF Fresh
  <2>4. CASE Push \/ Lookup
    <3>1. UNCHANGED <<box, toClient>> /\ (hand' = hand \/ hand' = NoFrame)
      BY <2>4 DEF Push, Lookup, callVars, daemonVars
    <3>2. QED
      BY <2>1, <2>2, <3>1 DEF Fresh
  <2>5. CASE Send
    <3>1. CASE hand.n \in shut
      BY <2>1, <2>5, <3>1 DEF Send, Fresh, daemonVars
    <3>2. CASE hand.n \notin shut
      <4>1. /\ hand.kind = "response" /\ hand' = NoFrame /\ toClient' = toClient
            /\ box' = [box EXCEPT ![hand.n] = hand.n]
        BY <2>5, <3>2 DEF Send, HandKind, daemonVars
      <4>2. \A id \in Ids : id # hand.n => box'[id] = box[id]
        BY <4>1 DEF TypeOK, CallsOK
      <4>3. QED
        BY <2>1, <2>2, <4>1, <4>2 DEF Fresh
    <3>3. QED
      BY <3>1, <3>2
  <2>6. CASE ReadEnds \/ ReaderExits \/ ReadFails
    BY <2>1, <2>6 DEF ReadEnds, ReaderExits, ReadFails, Fresh, callVars, daemonVars
  <2>7. QED
    BY <1>2, <2>3, <2>4, <2>5, <2>6 DEF ReaderStep
<1>3. ASSUME NEW c \in Callers, CallEnds(c) PROVE Fresh'
  <2>1. UNCHANGED <<toClient, hand>>
    BY <1>3 DEF CallEnds, readerVars, daemonVars
  <2>2. CASE UNCHANGED <<got, box>>
    BY <1>1, <2>1, <2>2
  <2>3. CASE /\ box[call[c]] # 0
             /\ got' = [got EXCEPT ![call[c]] = box[call[c]]]
             /\ box' = [box EXCEPT ![call[c]] = 0]
    <3>1. call[c] \in Ids
      BY <1>3 DEF CallEnds, TypeOK, CallsOK
    <3>2. /\ \A id \in Ids : id # call[c] => got'[id] = got[id] /\ box'[id] = box[id]
          /\ box'[call[c]] = 0
      BY <2>3, <3>1 DEF TypeOK, CallsOK
    <3>3. answered \subseteq Ids
      BY DEF TypeOK, DaemonOK
    <3>4. /\ \A i \in Responses(toClient) : toClient[i].n \in Ids /\ toClient[i].n # call[c]
          /\ hand.kind = "response" => hand.n \in Ids /\ hand.n # call[c]
      BY <2>3, <3>3 DEF OneAnswer
    <3>5. QED
      BY <2>1, <3>2, <3>4 DEF Fresh
  <2>4. QED
    BY <1>3, <2>2, <2>3 DEF CallEnds
<1>4. ASSUME NEW c \in Callers, CallWrite(c) \/ CallCleanup(c) \/ CallRegister(c) PROVE Fresh'
  BY <1>1, <1>4 DEF CallWrite, CallCleanup, CallRegister, readerVars, daemonVars
<1>5. CASE DaemonStep
  <2>1. UNCHANGED <<hand, box, got>>
    BY <1>5, DaemonAside
  <2>2. CASE Greet \/ PushUpdate
    <3>1. PICK f \in Wire : f.kind # "response" /\ toClient' = Append(toClient, f)
      <4>1. /\ Frame("hello", 0) \in Wire /\ Frame("update", pushed + 1) \in Wire
            /\ Frame("hello", 0).kind # "response"
            /\ Frame("update", pushed + 1).kind # "response"
        BY DEF Frame, Wire, TypeOK, DaemonOK
      <4>2. QED
        BY <2>2, <4>1 DEF Greet, PushUpdate
    <3>2. \A i \in Responses(toClient') : i \in Responses(toClient) /\ toClient'[i] = toClient[i]
      BY <3>1, ResponseSent
    <3>3. QED
      BY <2>1, <3>2 DEF Fresh
  <2>3. ASSUME NEW id \in Ids, Answer(id) PROVE Fresh'
    <3>1. id \notin answered /\ toClient' = Append(toClient, Frame("response", id))
      BY <2>3 DEF Answer
    <3>2. Frame("response", id) \in Wire /\ Frame("response", id).n = id
      BY DEF Frame, Wire, Ids
    <3>3. got[id] = 0
      BY <3>1 DEF OneAnswer
    <3>4. \A i \in Responses(toClient') :
            \/ i \in Responses(toClient) /\ toClient'[i] = toClient[i]
            \/ toClient'[i].n = id
      BY <3>1, <3>2, ResponseSent
    <3>5. QED
      BY <2>1, <3>3, <3>4 DEF Fresh
  <2>4. CASE TakeRequest \/ DaemonGone \/ \E id \in Ids : RunRequest(id)
    BY <2>1, <2>4 DEF TakeRequest, DaemonGone, RunRequest, Fresh
  <2>5. QED
    BY <1>5, <2>2, <2>3, <2>4 DEF DaemonStep
<1>6. QED
  BY <1>1, <1>2, <1>3, <1>4, <1>5, Aside
  DEF Next, CallStep, vars, callVars, readerVars, daemonVars

Ledger == Asked /\ Streams /\ Fresh

LEMMA LedgerHolds == Spec => []Ledger
<1>1. Init => Ledger
  <2>1. SUFFICES ASSUME Init PROVE Ledger
    OBVIOUS
  <2>2. DOMAIN toServer = {} /\ Responses(toClient) = {}
    BY <2>1 DEF Init, Responses
  <2>3. hand.kind # "response"
    BY <2>1 DEF Init, NoFrame, Frame
  <2>4. QED
    BY <2>1, <2>2, <2>3 DEF Init, Ledger, Asked, Streams, Fresh
<1>2. TypeOK /\ HandKind /\ OneAnswer /\ Ledger /\ [Next]_vars => Ledger'
  BY AskedStep, StreamsStep, FreshStep DEF Ledger
<1>3. QED
  BY <1>1, <1>2, ClientTypeCorrect, HandKindHolds, OneAnswerHolds, PTL DEF Spec

\* The command's own goroutine shows updates and takes the local path.
LEMMA RemoteMain ==
  ASSUME TypeOK, HandKind, OnePath, Flow, Ledger,
         MainStep \/ Timer \/ ConsumeStep \/ CloseStep \/ (Alive /\ (Interrupt \/ Finish))
  PROVE  Remote!Next \/ UNCHANGED Remote!calls
<1>0. UNCHANGED <<nextID, subs, ran, got>>
  BY Aside
<1>1. CASE RunLocally
  <2>1. main = "local" /\ localRan' = TRUE /\ consumed' = consumed
    BY <1>1 DEF RunLocally
  <2>2. Remote!CarryHere
    BY <1>0, <2>1 DEF OnePath, Remote!CarryHere
  <2>3. QED
    BY <2>2 DEF Remote!Next
<1>2. CASE Consume
  <2>1. /\ main = "use" /\ events # <<>> /\ consumed' = Append(consumed, Head(events).n)
        /\ UNCHANGED <<localRan, pushed>>
    BY <1>2 DEF Consume, daemonVars
  <2>2. events \in Seq(Frames) /\ consumed \in Seq(Nat) /\ pushed \in Nat
    BY DEF TypeOK, MainOK, DaemonOK
  <2>3. Head(events).n = Len(consumed) + 1
    <3>1. Head(events) = events[1] /\ 1 \in DOMAIN events
      BY <2>1, <2>2, Dequeue
    <3>2. QED
      BY <2>1, <3>1 DEF Flow, InUse
  <2>4. pushed # 0
    <3>1. Len(consumed') <= pushed
      BY <2>1, FlowMain DEF Flow
    <3>2. Len(consumed) \in Nat /\ Len(consumed') = Len(consumed) + 1
      <4>1. Len(consumed) + 1 \in Nat
        BY <2>2
      <4>2. QED
        BY <2>1, <2>2, <2>3, <4>1, Enqueue
    <3>3. QED
      BY <2>2, <3>1, <3>2
  <2>5. Remote!Show
    BY <1>0, <2>1, <2>3, <2>4 DEF Ledger, Streams, Remote!Show
  <2>6. QED
    BY <2>5 DEF Remote!Next
<1>3. CASE UNCHANGED <<localRan, consumed>>
  BY <1>0, <1>3 DEF Remote!calls
<1>4. CASE HelloOK \/ HelloRefused \/ FallBack \/ Exit \/ HelloTimeout \/ CloseStep
             \/ Interrupt \/ Finish
  BY <1>3, <1>4 DEF HelloOK, HelloRefused, FallBack, Exit, HelloTimeout, CloseStep,
     CloseFlag, CloseConn, FailPending, CloseEvents, Interrupt, Finish, mainVars
<1>5. QED
  BY <1>1, <1>2, <1>4 DEF MainStep, Timer, ConsumeStep

\* A call is asked and returns.
LEMMA RemoteCall ==
  ASSUME TypeOK, OnePath, OneAnswer, Ledger,
         NEW c \in Callers, CallStep(c) \/ (Alive /\ CallRegister(c))
  PROVE  Remote!Next \/ UNCHANGED Remote!calls
<1>0. UNCHANGED <<ran, localRan, consumed>>
  BY DEF CallStep, CallWrite, CallEnds, CallCleanup, CallRegister, daemonVars, mainVars
<1>1. CASE CallRegister(c)
  <2>1. /\ nextID' = nextID + 1 /\ got' = got /\ main \in {"use", "close"}
        /\ subs = {} /\ (subs' = subs \/ subs' = {nextID + 1})
    BY <1>1 DEF CallRegister
  <2>2. ~localRan
    BY <2>1 DEF OnePath, TypeOK, MainOK
  <2>3. Remote!Ask
    BY <1>0, <2>1, <2>2 DEF Remote!Ask
  <2>4. QED
    BY <2>3 DEF Remote!Next
<1>2. CASE CallEnds(c)
  <2>1. UNCHANGED <<nextID, subs>> /\ call[c] \in Ids
    BY <1>2 DEF CallEnds, TypeOK, CallsOK
  <2>2. CASE got' = got
    BY <1>0, <2>1, <2>2 DEF Remote!calls
  <2>3. CASE box[call[c]] # 0 /\ got' = [got EXCEPT ![call[c]] = box[call[c]]]
    <3>1. box[call[c]] = call[c] /\ call[c] \in ran /\ got[call[c]] = 0
      BY <2>1, <2>3 DEF OneAnswer, Ledger, Fresh
    <3>2. Remote!Return(call[c])
      BY <1>0, <2>1, <2>3, <3>1 DEF Remote!Return
    <3>3. QED
      BY <2>1, <3>2 DEF Remote!Next
  <2>4. QED
    BY <1>2, <2>2, <2>3 DEF CallEnds
<1>3. CASE CallWrite(c) \/ CallCleanup(c)
  BY <1>0, <1>3 DEF CallWrite, CallCleanup, Remote!calls
<1>4. QED
  BY <1>1, <1>2, <1>3 DEF CallStep

\* The daemon carries a request out.
LEMMA RemoteDaemon ==
  ASSUME Ledger, DaemonStep
  PROVE  Remote!Next \/ UNCHANGED Remote!calls
<1>0. UNCHANGED <<nextID, subs, got, localRan, consumed>>
  BY DaemonAside
<1>1. ASSUME NEW id \in Ids, RunRequest(id) PROVE Remote!Next
  <2>1. Remote!Carry(id)
    BY <1>0, <1>1 DEF RunRequest, Ledger, Asked, Remote!Carry
  <2>2. QED
    BY <2>1 DEF Remote!Next
<1>2. CASE Greet \/ TakeRequest \/ PushUpdate \/ DaemonGone \/ \E id \in Ids : Answer(id)
  BY <1>0, <1>2 DEF Greet, TakeRequest, PushUpdate, DaemonGone, Answer, Remote!calls
<1>3. QED
  BY <1>1, <1>2 DEF DaemonStep

\* Step by step, whatever is lost, a command's operations are carried out once, by the
\* daemon or by the command, its calls return their own answers, and its updates come
\* in order (MaybeDialDaemon, Call, readLoop, streamViaDaemon).
THEOREM ClientIsRemoteCalls == Spec => ImplementsRemoteCalls
<1>1. Init => Remote!Init
  BY DEF Init, Remote!Init
<1>2. TypeOK /\ HandKind /\ OnePath /\ OneAnswer /\ Flow /\ Ledger /\ [Next]_vars
        => [Remote!Next]_(Remote!calls)
  <2> SUFFICES ASSUME TypeOK, HandKind, OnePath, OneAnswer, Flow, Ledger, [Next]_vars
               PROVE  Remote!Next \/ UNCHANGED Remote!calls
    OBVIOUS
  <2>1. CASE ReaderStep \/ (Alive /\ ReadFails)
    BY <2>1, ReaderAside DEF Remote!calls
  <2>2. CASE UNCHANGED vars
    BY <2>2 DEF vars, callVars, daemonVars, mainVars, Remote!calls
  <2>3. QED
    BY <2>1, <2>2, RemoteMain, RemoteCall, RemoteDaemon DEF Next
<1>3. QED
  BY <1>1, <1>2, ClientTypeCorrect, HandKindHolds, OnePathHolds, OneAnswerHolds, FlowHolds,
     LedgerHolds, PTL DEF Spec, ImplementsRemoteCalls, Remote!Spec
=============================================================================

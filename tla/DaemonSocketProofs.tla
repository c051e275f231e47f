-------------------------- MODULE DaemonSocketProofs --------------------------
(***************************************************************************)
(* The promises of DaemonSocket, for any number of workers, commands and   *)
(* binds.                                                                  *)
(***************************************************************************)
EXTENDS DaemonSocket, TLAPS

TypeOK ==
  /\ dpc \in [Daemons -> {"off", "stat", "remove", "bind", "chmod", "serving", "closing",
                       "refused"}]
  /\ seen \in [Daemons -> BOOLEAN]
  /\ bound \in [Daemons -> Nat] /\ sock \in Nat /\ binds \in Nat
  /\ cpc \in [Commands -> {"start", "local", "daemon"} \cup Choosing]
  /\ conn \in [Commands -> Nat]
  /\ warned \subseteq Commands /\ late \subseteq Commands /\ excused \subseteq Commands
  /\ overlap \in BOOLEAN

\* What a worker that is alone knows of the path at each point of Listen: what
\* Stat saw is still so, what Remove removed is gone, what it bound is there.
Alone(d) ==
  /\ dpc[d] = "remove" => (seen[d] <=> sock # NoSocket)
  /\ dpc[d] = "bind" => sock = NoSocket
  /\ dpc[d] \in {"chmod", "serving"} => sock = bound[d] /\ bound[d] # NoSocket
  /\ dpc[d] # "refused"

\* Workers that follow one another: one at a time is there.
OneAtATime ==
  /\ \A d, e \in Daemons : dpc[d] # "off" /\ dpc[e] # "off" => d = e
  /\ \A d \in Daemons : Alone(d)

\* A choice that met neither a moment without a worker nor an overlap has its
\* worker, and once it has dialled, a connection to it; it ends on the local path
\* only with the warning of a command that gave up waiting.
Served(c) ==
  \E d \in Daemons : Serving(d) /\ (cpc[c] = "hello" => conn[c] = bound[d])

ChoiceIsServed ==
  \A c \in Commands : c \notin excused =>
    /\ cpc[c] \in Choosing => ~overlap /\ Served(c)
    /\ cpc[c] = "local" => c \in late /\ c \in warned

-----------------------------------------------------------------------------
\* The socket protocol is type correct.
THEOREM SocketTypeCorrect == Spec => []TypeOK
<1>1. Init => TypeOK
  <2>1. Init => /\ dpc \in [Daemons -> {"off"}] /\ seen \in [Daemons -> BOOLEAN]
                /\ bound \in [Daemons -> Nat] /\ sock \in Nat /\ binds \in Nat
    BY DEF Init, NoSocket
  <2>2. Init => cpc \in [Commands -> {"start"}] /\ conn \in [Commands -> Nat]
    BY DEF Init, NoSocket
  <2>3. Init => /\ warned \subseteq Commands /\ late \subseteq Commands
                /\ excused \subseteq Commands /\ overlap \in BOOLEAN
    BY DEF Init
  <2>4. QED BY <2>1, <2>2, <2>3 DEF TypeOK
<1>2. TypeOK /\ [Next]_vars => TypeOK'
  <2>1. SUFFICES ASSUME TypeOK, [Next]_vars PROVE TypeOK'
    OBVIOUS
  <2>2. CASE UNCHANGED vars
    BY <2>1, <2>2 DEF TypeOK, vars
  <2>3. ASSUME NEW d \in Daemons, WorkerStep(d) PROVE TypeOK'
    <3>1. dpc' \in [Daemons -> {"off", "stat", "remove", "bind", "chmod", "serving", "closing",
                               "refused"}]
      BY <2>1, <2>3 DEF TypeOK, WorkerStep, Start, ListenStat, ListenRemove, ListenBind,
         ListenBindFails, Refused, ListenChmod, ListenChmodFails, CloseListener,
         CloseRemove, Kill, At
    <3>2. /\ seen' \in [Daemons -> BOOLEAN] /\ overlap' \in BOOLEAN
          /\ UNCHANGED commandVars
      <4>1. (sock # NoSocket) \in BOOLEAN /\ (\E e \in Daemons : dpc[e] # "off") \in BOOLEAN
        OBVIOUS
      <4>2. CASE ListenStat(d)
        BY <2>1, <4>1, <4>2 DEF TypeOK, ListenStat
      <4>3. CASE Start(d)
        BY <2>1, <4>1, <4>3 DEF TypeOK, Start
      <4>4. QED
        BY <2>1, <2>3, <4>2, <4>3 DEF TypeOK, WorkerStep, ListenRemove, ListenBind,
           ListenBindFails, Refused, ListenChmod, ListenChmodFails, CloseListener,
           CloseRemove, Kill
    <3>3. bound' \in [Daemons -> Nat] /\ sock' \in Nat /\ binds' \in Nat
      <4>1. NoSocket \in Nat /\ binds + 1 \in Nat
        BY <2>1 DEF TypeOK, NoSocket
      <4>2. CASE ListenBind(d)
        BY <2>1, <4>1, <4>2 DEF TypeOK, ListenBind
      <4>3. QED
        BY <2>1, <2>3, <4>1, <4>2 DEF TypeOK, WorkerStep, Start, ListenStat, ListenRemove,
           ListenBindFails, Refused, ListenChmod, ListenChmodFails, CloseListener, CloseRemove,
           Kill
    <3>4. excused' \subseteq Commands
      BY <2>1, <2>3 DEF TypeOK, WorkerStep, Start, ListenStat, ListenRemove, ListenBind,
         ListenBindFails, Refused, ListenChmod, ListenChmodFails, CloseListener,
         CloseRemove, Kill, NoteAbsence, Deciding
    <3>5. QED
      BY <2>1, <3>1, <3>2, <3>3, <3>4 DEF TypeOK, commandVars
  <2>4. ASSUME NEW c \in Commands, CommandStep(c) PROVE TypeOK'
    BY <2>1, <2>4 DEF TypeOK, CommandStep, CommandStart, ProbeStat, ProbeDial, Dial, Hello,
       GiveUp, Unreachable, CommandEnds, Go, NoSocket, Choosing, workerVars
  <2>5. QED BY <2>1, <2>2, <2>3, <2>4 DEF Next
<1>3. QED BY <1>1, <1>2, PTL DEF Spec

-----------------------------------------------------------------------------
\* A step of a worker keeps workers apart, or notes that they overlap; a worker
\* that starts when the others are gone is alone again.
LEMMA WorkerKeepsApart ==
  ASSUME TypeOK, overlap \/ OneAtATime, NEW d \in Daemons, WorkerStep(d)
  PROVE  (overlap \/ OneAtATime)'
<1> SUFFICES ASSUME ~overlap' PROVE OneAtATime'
  OBVIOUS
<1>1. CASE Start(d)
  <2>1. \A e \in Daemons : dpc[e] = "off"
    BY <1>1 DEF Start
  <2>2. dpc' = [dpc EXCEPT ![d] = "stat"]
    BY <1>1 DEF Start, At
  <2>3. QED
    BY <2>1, <2>2 DEF TypeOK, OneAtATime, Alone
<1>2. CASE ~Start(d)
  <2>1. ~overlap /\ OneAtATime
    BY <1>2 DEF WorkerStep, ListenStat, ListenRemove, ListenBind, ListenBindFails,
       Refused, ListenChmod, ListenChmodFails, CloseListener, CloseRemove, Kill
  <2>2. \A e \in Daemons \ {d} : dpc'[e] = "off" /\ dpc[e] = "off"
    BY <1>2, <2>1 DEF OneAtATime, TypeOK, WorkerStep, ListenStat, ListenRemove, ListenBind,
       ListenBindFails, Refused, ListenChmod, ListenChmodFails, CloseListener, CloseRemove,
       Kill, At
  <2>3. Alone(d)'
    <3>0. binds + 1 # NoSocket
      BY DEF TypeOK, NoSocket
    <3>1. Alone(d)
      BY <2>1 DEF OneAtATime
    <3>2. CASE ListenStat(d)
      BY <3>2 DEF TypeOK, ListenStat, At, Alone
    <3>3. CASE ListenRemove(d)
      BY <3>1, <3>3 DEF TypeOK, ListenRemove, At, Alone
    <3>4. CASE ListenBind(d)
      BY <3>0, <3>4 DEF TypeOK, ListenBind, At, Alone
    <3>5. CASE ListenBindFails(d)
      BY <3>1, <3>5 DEF TypeOK, ListenBindFails, At, Alone
    <3>6. CASE Refused(d)
      BY <3>6 DEF TypeOK, Refused, At, Alone
    <3>7. CASE ListenChmod(d)
      BY <3>1, <3>7 DEF TypeOK, ListenChmod, At, Alone
    <3>8. CASE ListenChmodFails(d)
      BY <3>8 DEF TypeOK, ListenChmodFails, At, Alone
    <3>9. CASE CloseListener(d)
      BY <3>9 DEF TypeOK, CloseListener, At, Alone
    <3>10. CASE CloseRemove(d)
      BY <3>10 DEF TypeOK, CloseRemove, At, Alone
    <3>11. CASE Kill(d)
      BY <3>11 DEF TypeOK, Kill, Alone
    <3>12. QED
      BY <1>2, <3>2, <3>3, <3>4, <3>5, <3>6, <3>7, <3>8, <3>9, <3>10, <3>11 DEF WorkerStep
  <2>4. QED
    BY <2>2, <2>3 DEF OneAtATime, Alone
<1>3. QED BY <1>1, <1>2

\* A step of a command changes nothing a worker looks at.
LEMMA CommandLeavesWorkers ==
  ASSUME NEW c \in Commands, CommandStep(c)
  PROVE  UNCHANGED <<dpc, seen, bound, sock, binds, overlap>>
BY DEF CommandStep, CommandStart, ProbeStat, ProbeDial, Dial, Hello, GiveUp, CommandEnds,
   workerVars

\* Once the workers that overlapped are gone, and until others do, each worker
\* finds the path as its own steps left it.
THEOREM Sequential == Spec => [](overlap \/ OneAtATime)
<1>1. Init => OneAtATime
  BY DEF Init, OneAtATime, Alone
<1>2. TypeOK /\ (overlap \/ OneAtATime) /\ [Next]_vars => (overlap \/ OneAtATime)'
  <2>1. SUFFICES ASSUME TypeOK, overlap \/ OneAtATime, [Next]_vars
                 PROVE  (overlap \/ OneAtATime)'
    OBVIOUS
  <2>2. CASE UNCHANGED vars
    BY <2>1, <2>2 DEF vars, OneAtATime, Alone
  <2>3. ASSUME NEW d \in Daemons, WorkerStep(d) PROVE (overlap \/ OneAtATime)'
    BY <2>1, <2>3, WorkerKeepsApart
  <2>4. ASSUME NEW c \in Commands, CommandStep(c) PROVE (overlap \/ OneAtATime)'
    BY <2>1, <2>4, CommandLeavesWorkers DEF OneAtATime, Alone
  <2>5. QED BY <2>1, <2>2, <2>3, <2>4 DEF Next
<1>3. QED BY <1>1, <1>2, SocketTypeCorrect, PTL DEF Spec

\* A worker that serves alone is reached (Listen, Close), whatever crashes,
\* restarts and overlaps there were before.
THEOREM ServingIsReached == Spec => []ServingReachable
<1>1. (overlap \/ OneAtATime) => ServingReachable
  BY DEF OneAtATime, Alone, ServingReachable, Serving
<1>2. QED BY <1>1, Sequential, PTL

\* What crashed workers left at the path does not stop the next (Listen).
THEOREM CrashesAreSurvived == Spec => []RestartsAfterCrash
<1>1. (overlap \/ OneAtATime) => RestartsAfterCrash
  BY DEF OneAtATime, Alone, RestartsAfterCrash
<1>2. QED BY <1>1, Sequential, PTL

-----------------------------------------------------------------------------
\* A step of a worker keeps the choices under way served, or they note that it
\* stopped or that another joined it.
LEMMA WorkerServesChoices ==
  ASSUME TypeOK, overlap \/ OneAtATime, ChoiceIsServed, NEW d \in Daemons, WorkerStep(d)
  PROVE  ChoiceIsServed'
<1>1. /\ UNCHANGED <<cpc, conn, warned, late>> /\ excused \subseteq excused'
      /\ ~Start(d) => UNCHANGED overlap
  BY DEF WorkerStep, Start, ListenStat, ListenRemove, ListenBind, ListenBindFails, Refused,
     ListenChmod, ListenChmodFails, CloseListener, CloseRemove, Kill, NoteAbsence, commandVars
<1>2. ASSUME NEW c \in Commands, cpc'[c] \in Choosing, c \notin excused'
      PROVE  ~overlap' /\ Served(c)'
  <2>1. c \notin excused /\ cpc[c] \in Choosing
    BY <1>1, <1>2
  <2>2. ~overlap /\ Served(c)
    BY <2>1 DEF ChoiceIsServed
  <2>3. PICK e \in Daemons : Serving(e) /\ (cpc[c] = "hello" => conn[c] = bound[e])
    BY <2>2 DEF Served
  <2>4. ~Start(d)
    BY <1>2, <2>1, <2>3 DEF Start, Serving, Deciding
  <2>5. \A f \in Daemons : f # e => dpc[f] = "off"
    BY <2>2, <2>3 DEF OneAtATime, Serving
  <2>6. d = e
    BY <2>4, <2>5 DEF WorkerStep, ListenStat, ListenRemove, ListenBind, ListenBindFails,
       Refused, ListenChmod, ListenChmodFails, CloseListener, CloseRemove, Kill, At
  <2>7. CloseListener(d) \/ Kill(d)
    BY <2>3, <2>4, <2>6 DEF WorkerStep, ListenStat, ListenRemove, ListenBind, ListenBindFails,
       Refused, ListenChmod, ListenChmodFails, CloseRemove, At, Serving
  <2>8. \A f \in Daemons : dpc'[f] # "serving"
    BY <2>5, <2>6, <2>7 DEF CloseListener, Kill, At, TypeOK
  <2>9. c \in excused'
    BY <2>1, <2>7, <2>8 DEF CloseListener, Kill, NoteAbsence, Deciding
  <2>10. QED BY <2>9, <1>2
<1>3. QED
  BY <1>1, <1>2 DEF ChoiceIsServed

\* A step of a command keeps its choice served: what it finds at the path is
\* the worker's socket, and what it dialled is still listened on. Only giving up
\* takes it past the worker, and that is noted and said.
LEMMA CommandServesChoices ==
  ASSUME TypeOK, overlap \/ OneAtATime, ChoiceIsServed, NEW c \in Commands, CommandStep(c)
  PROVE  ChoiceIsServed'
<1>0. UNCHANGED <<dpc, bound, sock, overlap>>
  BY CommandLeavesWorkers
<1>1. ASSUME NEW b \in Commands, b # c
      PROVE  /\ cpc'[b] = cpc[b] /\ conn'[b] = conn[b]
             /\ b \in excused' <=> b \in excused
             /\ b \in late' <=> b \in late
             /\ b \in warned' <=> b \in warned
  BY <1>1 DEF TypeOK, CommandStep, CommandStart, ProbeStat, ProbeDial, Dial, Hello, GiveUp,
     Unreachable, CommandEnds, Go
<1>2. ASSUME ~overlap, NEW d \in Daemons, Serving(d)
      PROVE  Listening(sock) /\ sock = bound[d] /\ sock # NoSocket
  BY <1>2 DEF OneAtATime, Alone, Serving, Listening
<1>3. ASSUME c \notin excused'
      PROVE  /\ cpc'[c] \in Choosing => ~overlap' /\ Served(c)'
             /\ cpc'[c] = "local" => c \in late' /\ c \in warned'
  <2>0. ~CommandEnds(c) /\ ~CommandStart(c) => /\ cpc[c] \in Choosing /\ c \notin excused
                                               /\ ~overlap /\ Served(c)
    BY <1>3 DEF CommandStep, ProbeStat, ProbeDial, Dial, Hello, GiveUp, Unreachable, Go,
       Choosing, ChoiceIsServed
  <2>1. CASE CommandStart(c)
    BY <1>0, <1>3, <2>1 DEF CommandStart, Go, TypeOK, Served, Serving
  <2>2. CASE CommandEnds(c)
    BY <2>2 DEF CommandEnds, TypeOK, Choosing
  <2>3. CASE GiveUp(c)
    BY <2>3 DEF GiveUp, Unreachable, Go, TypeOK, Choosing
  <2>4. CASE ProbeStat(c)
    BY <1>0, <1>2, <2>0, <2>4 DEF ProbeStat, Go, TypeOK, Served, Serving, Choosing,
       CommandStart, CommandEnds
  <2>5. CASE ProbeDial(c)
    <3>1. cpc[c] = "probe" /\ ~overlap /\ Served(c)
      BY <2>0, <2>5 DEF ProbeDial, Unreachable, Go, CommandStart, CommandEnds
    <3>2. Listening(sock) /\ sock # NoSocket
      BY <3>1, <1>2 DEF Served
    <3>3. cpc'[c] = "dial"
      BY <2>5, <3>2 DEF ProbeDial, Go, TypeOK
    <3>4. QED
      BY <1>0, <3>1, <3>3 DEF Served, Serving
  <2>6. CASE Dial(c)
    <3>1. cpc[c] = "dial" /\ ~overlap /\ Served(c)
      BY <2>0, <2>6 DEF Dial, Unreachable, Go, CommandStart, CommandEnds
    <3>2. PICK d \in Daemons : Serving(d) /\ sock = bound[d] /\ sock # NoSocket /\ Listening(sock)
      BY <3>1, <1>2 DEF Served
    <3>3. cpc'[c] = "hello" /\ conn'[c] = bound[d]
      BY <2>6, <3>2 DEF Dial, Go, TypeOK
    <3>4. QED
      BY <1>0, <3>1, <3>2, <3>3 DEF Served, Serving
  <2>7. CASE Hello(c)
    <3>1. cpc[c] = "hello" /\ ~overlap /\ Served(c)
      BY <2>0, <2>7 DEF Hello, Unreachable, Go, CommandStart, CommandEnds
    <3>2. Listening(conn[c])
      BY <3>1 DEF Served, Listening
    <3>3. cpc'[c] = "daemon"
      BY <2>7, <3>2 DEF Hello, Go, TypeOK
    <3>4. QED BY <3>3 DEF Choosing
  <2>8. QED
    BY <2>1, <2>2, <2>3, <2>4, <2>5, <2>6, <2>7 DEF CommandStep
<1>4. QED
  BY <1>0, <1>1, <1>3 DEF ChoiceIsServed, Served, Serving

\* A choice that met neither a moment without a worker nor an overlap always has
\* a worker, and ends at it or with the warning of a command that gave up.
THEOREM ChoicesAreServed == Spec => []ChoiceIsServed
<1>1. Init => ChoiceIsServed
  BY DEF Init, ChoiceIsServed, Choosing
<1>2. TypeOK /\ (overlap \/ OneAtATime) /\ ChoiceIsServed /\ [Next]_vars => ChoiceIsServed'
  <2>1. SUFFICES ASSUME TypeOK, overlap \/ OneAtATime, ChoiceIsServed, [Next]_vars
                 PROVE  ChoiceIsServed'
    OBVIOUS
  <2>2. CASE UNCHANGED vars
    BY <2>1, <2>2 DEF vars, ChoiceIsServed, Served, Serving
  <2>3. ASSUME NEW d \in Daemons, WorkerStep(d) PROVE ChoiceIsServed'
    BY <2>1, <2>3, WorkerServesChoices
  <2>4. ASSUME NEW c \in Commands, CommandStep(c) PROVE ChoiceIsServed'
    BY <2>1, <2>4, CommandServesChoices
  <2>5. QED BY <2>1, <2>2, <2>3, <2>4 DEF Next
<1>3. QED BY <1>1, <1>2, SocketTypeCorrect, Sequential, PTL DEF Spec

\* The local path without a worker's silence has a cause, and a worker that does
\* not answer in time is passed over with a warning (DaemonProbe, Dial,
\* MaybeDialDaemon).
THEOREM LocalPathHasCause == Spec => []FallbackHasCause
<1>1. ChoiceIsServed => FallbackHasCause
  BY DEF ChoiceIsServed, FallbackHasCause
<1>2. QED BY <1>1, ChoicesAreServed, PTL
=============================================================================

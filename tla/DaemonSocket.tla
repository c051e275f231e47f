----------------------------- MODULE DaemonSocket -----------------------------
(***************************************************************************)
(* The socket file of an account: daemons that bind it and remove it       *)
(* (Server.Listen and Close in internal/daemon/server.go, run by the       *)
(* worker), and commands that probe it, dial it and choose between the     *)
(* daemon and the local path (DaemonProbe and Dial in                      *)
(* internal/daemon/client.go, MaybeDialDaemon in                           *)
(* internal/runtime/daemon_client.go).                                     *)
(*                                                                         *)
(* Every bind makes a new socket file; the file outlives the listener that *)
(* made it. A closed unix listener removes the path, whatever is there.    *)
(*                                                                         *)
(* A definition introduced by "Fault:" is not part of the specification:   *)
(* it is a bug this code could have had in the definition that follows,    *)
(* kept to confirm that a property notices it.                             *)
(***************************************************************************)
EXTENDS Integers

CONSTANTS
  Daemons,   \* worker processes of the account
  Commands,  \* command processes
  MaxBinds   \* bound: sockets bound

ASSUME SocketAssumption == MaxBinds \in Nat

VARIABLES
  dpc,      \* where each worker is
  seen,     \* what its Stat told Listen: a socket file exists
  bound,    \* the socket a worker listens on, or 0
  sock,     \* the socket file at the path, or 0
  binds,    \* counter of sockets
  cpc,      \* where each command is
  conn,     \* the socket a command's connection goes to, or 0
  warned,   \* commands that warned of a stale socket
  late,     \* history: commands that gave up waiting for a worker
  excused,  \* history: commands during whose choice, at some moment, no worker
            \* served or workers overlapped
  overlap   \* history: workers are there that overlap, or did since one of
            \* them was last started

vars == <<dpc, seen, bound, sock, binds, cpc, conn, warned, late, excused, overlap>>
commandVars == <<cpc, conn, warned, late>>
workerVars == <<dpc, seen, bound, sock, binds, overlap>>

NoSocket == 0
Choosing == {"stat", "probe", "dial", "hello"}
Listening(s) == \E d \in Daemons : bound[d] = s

\* A worker accepts connections from the bind on, and answers them once Listen
\* has returned, until it closes or is killed.
Serving(d) == dpc[d] = "serving"

Init ==
  /\ dpc = [d \in Daemons |-> "off"] /\ seen = [d \in Daemons |-> FALSE]
  /\ bound = [d \in Daemons |-> NoSocket]
  /\ sock = NoSocket /\ binds = 0
  /\ cpc = [c \in Commands |-> "start"] /\ conn = [c \in Commands |-> NoSocket]
  /\ warned = {} /\ late = {} /\ excused = {} /\ overlap = FALSE

At(d, from, to) == dpc[d] = from /\ dpc' = [dpc EXCEPT ![d] = to]

\* Every choice under way sees the moment in which nothing serves.
Deciding == {c \in Commands : cpc[c] \in Choosing}
NoteAbsence ==
  excused' = IF \A d \in Daemons : dpc'[d] # "serving" THEN excused \cup Deciding
                                                       ELSE excused

-----------------------------------------------------------------------------
(* The worker: Run, Listen, Close                                          *)

\* By the service manager, once the last worker is gone, or by hand (tg daemon
\* run), whoever is there.
Start(d) ==
  /\ At(d, "off", "stat")
  /\ overlap' = \E e \in Daemons : dpc[e] # "off"
  /\ excused' = IF overlap' THEN excused \cup Deciding ELSE excused
  /\ UNCHANGED <<seen, bound, sock, binds, commandVars>>

ListenStat(d) ==
  /\ At(d, "stat", "remove")
  /\ seen' = [seen EXCEPT ![d] = sock # NoSocket]
  /\ UNCHANGED <<bound, sock, binds, commandVars, excused, overlap>>

\* Fault: Listen leaves the socket file it found.
ListenKeep(d) ==
  /\ At(d, "remove", "bind")
  /\ UNCHANGED <<seen, bound, sock, binds, commandVars, excused, overlap>>

\* The file found is removed; if that fails, as it does once the file is gone,
\* the worker ends.
ListenRemove(d) ==
  /\ \/ At(d, "remove", "bind") /\ ~seen[d] /\ UNCHANGED sock
     \/ At(d, "remove", "bind") /\ seen[d] /\ sock # NoSocket /\ sock' = NoSocket
     \/ At(d, "remove", "off") /\ seen[d] /\ UNCHANGED sock
  /\ UNCHANGED <<seen, bound, binds, commandVars, excused, overlap>>

\* Fault: the listener is bound to another path than the one clients use.
ListenElsewhere(d) ==
  /\ At(d, "bind", "chmod") /\ binds < MaxBinds
  /\ binds' = binds + 1
  /\ bound' = [bound EXCEPT ![d] = binds + 1]
  /\ UNCHANGED <<seen, sock, commandVars, excused, overlap>>

ListenBind(d) ==
  /\ sock = NoSocket /\ binds < MaxBinds
  /\ At(d, "bind", "chmod")
  /\ binds' = binds + 1
  /\ sock' = binds + 1
  /\ bound' = [bound EXCEPT ![d] = binds + 1]
  /\ UNCHANGED <<seen, commandVars, excused, overlap>>

\* The path is in use, or cannot be made.
ListenBindFails(d) ==
  /\ IF sock # NoSocket THEN At(d, "bind", "refused") ELSE At(d, "bind", "off")
  /\ UNCHANGED <<seen, bound, sock, binds, commandVars, excused, overlap>>

\* Run returns the bind error.
Refused(d) ==
  /\ At(d, "refused", "off")
  /\ UNCHANGED <<seen, bound, sock, binds, commandVars, excused, overlap>>

\* The mode is set and Serve starts; when that fails the listener is closed.
ListenChmod(d) ==
  /\ At(d, "chmod", "serving")
  /\ UNCHANGED <<seen, bound, sock, binds, commandVars, excused, overlap>>

ListenChmodFails(d) ==
  /\ At(d, "chmod", "off")
  /\ sock' = NoSocket
  /\ bound' = [bound EXCEPT ![d] = NoSocket]
  /\ UNCHANGED <<seen, binds, commandVars, excused, overlap>>

\* Close: the listener unlinks the path and stops listening, ...
CloseListener(d) ==
  /\ At(d, "serving", "closing")
  /\ sock' = NoSocket
  /\ bound' = [bound EXCEPT ![d] = NoSocket]
  /\ NoteAbsence
  /\ UNCHANGED <<seen, binds, commandVars, overlap>>

\* ... and the path is removed again once the connections are closed.
CloseRemove(d) ==
  /\ At(d, "closing", "off")
  /\ sock' = NoSocket
  /\ UNCHANGED <<seen, bound, binds, commandVars, excused, overlap>>

\* The worker is killed at any point; the file stays.
Kill(d) ==
  /\ dpc[d] # "off"
  /\ dpc' = [dpc EXCEPT ![d] = "off"]
  /\ bound' = [bound EXCEPT ![d] = NoSocket]
  /\ NoteAbsence
  /\ UNCHANGED <<seen, sock, binds, commandVars, overlap>>

-----------------------------------------------------------------------------
(* The command: DaemonProbe, Dial, MaybeDialDaemon                         *)

Go(c, from, to) == cpc[c] = from /\ cpc' = [cpc EXCEPT ![c] = to]

CommandStart(c) ==
  /\ Go(c, "start", "stat")
  /\ excused' = IF overlap \/ \A d \in Daemons : ~Serving(d)
                THEN excused \cup {c} ELSE excused
  /\ UNCHANGED <<workerVars, conn, warned, late>>

\* No socket file: the local path, without a word.
ProbeStat(c) ==
  /\ IF sock = NoSocket THEN Go(c, "stat", "local") ELSE Go(c, "stat", "probe")
  /\ UNCHANGED <<workerVars, conn, warned, late, excused>>

\* A failure in the choice: a warning, and the local path.
Unreachable(c, from) ==
  /\ Go(c, from, "local") /\ warned' = warned \cup {c}
  /\ conn' = [conn EXCEPT ![c] = NoSocket]

\* A file nobody listens on is stale.
ProbeDial(c) ==
  /\ IF Listening(sock) /\ sock # NoSocket
     THEN Go(c, "probe", "dial") /\ UNCHANGED <<conn, warned>>
     ELSE Unreachable(c, "probe")
  /\ UNCHANGED <<workerVars, late, excused>>

\* The second dial, of what is at the path now.
Dial(c) ==
  /\ IF Listening(sock) /\ sock # NoSocket
     THEN Go(c, "dial", "hello") /\ conn' = [conn EXCEPT ![c] = sock] /\ UNCHANGED warned
     ELSE Unreachable(c, "dial")
  /\ UNCHANGED <<workerVars, late, excused>>

\* The worker writes Hello, or is gone before it did.
Hello(c) ==
  /\ \/ /\ \E d \in Daemons : Serving(d) /\ bound[d] = conn[c]
        /\ Go(c, "hello", "daemon") /\ UNCHANGED <<conn, warned>>
     \/ ~Listening(conn[c]) /\ Unreachable(c, "hello")
  /\ UNCHANGED <<workerVars, late, excused>>

\* Fault: a worker that is slow to answer is treated like one that is not there.
GiveUpSilently(c) ==
  /\ \E from \in {"probe", "dial", "hello"} : Go(c, from, "local")
  /\ late' = late \cup {c} /\ conn' = [conn EXCEPT ![c] = NoSocket]
  /\ UNCHANGED <<workerVars, warned, excused>>

\* The worker is there, and does not accept within 200 ms or has no room for
\* another connection, does not send Hello within three seconds, or sends one
\* of another schema.
GiveUp(c) ==
  /\ \E from \in {"probe", "dial", "hello"} : Unreachable(c, from)
  /\ late' = late \cup {c}
  /\ UNCHANGED <<workerVars, excused>>

\* The command ends, and another is typed.
CommandEnds(c) ==
  /\ cpc[c] \in {"local", "daemon"}
  /\ cpc' = [cpc EXCEPT ![c] = "start"]
  /\ conn' = [conn EXCEPT ![c] = NoSocket]
  /\ warned' = warned \ {c} /\ late' = late \ {c} /\ excused' = excused \ {c}
  /\ UNCHANGED workerVars

-----------------------------------------------------------------------------
WorkerStep(d) ==
  \/ Start(d) \/ ListenStat(d) \/ ListenRemove(d) \/ ListenBind(d)
  \/ ListenBindFails(d) \/ Refused(d) \/ ListenChmod(d) \/ ListenChmodFails(d)
  \/ CloseListener(d) \/ CloseRemove(d) \/ Kill(d)

CommandStep(c) ==
  \/ CommandStart(c) \/ ProbeStat(c) \/ ProbeDial(c) \/ Dial(c) \/ Hello(c)
  \/ GiveUp(c) \/ CommandEnds(c)

Next == (\E d \in Daemons : WorkerStep(d)) \/ (\E c \in Commands : CommandStep(c))

Spec == Init /\ [][Next]_vars

-----------------------------------------------------------------------------
(* Properties                                                              *)

\* A worker that was started while no other was there is reached once it serves:
\* the file at the path is its socket, whatever crashes, restarts and overlaps
\* there were before, as long as none joins it (Listen, Close).
ServingReachable == ~overlap => \A d \in Daemons : Serving(d) => sock = bound[d]

\* What a crash or an overlap left at the path does not keep a worker from
\* starting once the others are gone (Listen).
RestartsAfterCrash == ~overlap => \A d \in Daemons : dpc[d] # "refused"

\* A worker that served alone throughout a command's choice is passed over only
\* because it did not answer in time, and never in silence: a command takes the
\* local path without a warning only if, at some moment of its choice, no worker
\* served or workers overlapped (DaemonProbe, MaybeDialDaemon).
FallbackHasCause ==
  \A c \in Commands : cpc[c] = "local" /\ c \notin excused => c \in late /\ c \in warned
=============================================================================

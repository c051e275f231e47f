----------------------------- MODULE CommandRun -----------------------------
(***************************************************************************)
(* One run of the program: cobra's argument check, the root's gate, the   *)
(* body of the command and the requests it makes, in this process or in   *)
(* the account's daemon, and the exit code.                               *)
(*                                                                         *)
(* The commands are data (module CommandSteps): Scripts has the steps of  *)
(* each, Handlers those the daemon takes for each method.  What the user, *)
(* the disk and the server answer is chosen step by step.                 *)
(***************************************************************************)
EXTENDS DaemonHandlers, FiniteSets

CONSTANT RpcErrors      \* what the server may answer besides a result

ASSUME RpcErrorsAssumption ==
    RpcErrors \subseteq {"flood", "rpc_usage", "rpc_forbidden", "rpc"}

\* The command tree.  What of "auth" changes a slot is in AccountSlots,
\* "watch" in WatchPaths.
Scripts == ChatScripts @@ MessageScripts @@ AccountScripts
Handlers == RegisteredHandlers

-----------------------------------------------------------------------------
(* Where a command may be: for a script, the positions of its steps.      *)

Changes(step) == step.op \in {"put", "try", "save"}

\* The positions a step may lead to.
Onward(s, i) ==
    IF s[i].op = "refuse" THEN {}
    ELSE (IF s[i].op = "skip" THEN {} ELSE {i + 1})
         \cup (IF s[i].op \in {"maybe", "skip", "call"} THEN {i + (1 + s[i].hop)} ELSE {})

\* Those reached from some positions, and not through a step of those kinds.
\* All jumps are forward, so that the steps of a script are passed once, in order.
Reached(s, from, stops) ==
    LET through[i, j \in DOMAIN s, p \in SUBSET Nat] ==
          IF i = j
          THEN IF i \in p /\ s[i].op \notin stops THEN p \cup Onward(s, i) ELSE p
          ELSE LET m == (i + j) \div 2
               IN  through[m + 1, j, through[i, m, p]]
    IN  IF from = {} THEN {} ELSE through[1, Len(s), from]

AfterChange(s) == Reached(s, {i + 1 : i \in {j \in DOMAIN s : Changes(s[j])}}, {})
Calls(s)       == {i \in DOMAIN s : s[i].op = "call"}
AfterCall(s, i) == i + 1 + s[i].hop

\* Where the client may be before the user agreed, once it changed something,
\* and once a call that may change something was answered; and where the
\* handler of a method may be once it changed something.
Calm  == [c \in DOMAIN Scripts |-> Reached(Scripts[c], {1}, {"ask"})]
Mine  == [c \in DOMAIN Scripts |-> AfterChange(Scripts[c])]
Later == [m \in DOMAIN Handlers |-> AfterChange(Handlers[m])]
Theirs ==
    [c \in DOMAIN Scripts |->
       LET s == Scripts[c]
       IN  Reached(s, {AfterCall(s, i) : i \in {j \in Calls(s) : Later[s[j].arg] # {}}}, {})]

\* The command announced itself as destructive.
Declared(c) == \E i \in DOMAIN Scripts[c] : Scripts[c][i].op = "yes_flag"

\* The step may end with an exit code that says that nothing was done.
Refusals == {"usage", "unknown_method", "busy", "not_confirmed"}
Refuses(step) == step.op \in {"gate", "ask"} \/ step.alt \in Refusals

Closed(s, p, stops) ==
    \A i \in p \cap DOMAIN s : s[i].op \in stops \/ Onward(s, i) \subseteq p

\* No command calls the daemon after a change of its own, changes something
\* after the daemon may have, or refuses after either.
OneSided(s, mine, theirs) ==
    /\ Closed(s, mine, {}) /\ Closed(s, theirs, {})
    /\ \A i \in DOMAIN s :
         /\ Changes(s[i]) => i + 1 \in mine /\ i \notin theirs
         /\ Refuses(s[i]) => i \notin mine \cup theirs
    /\ \A i \in Calls(s) :
         /\ s[i].arg \in DOMAIN Handlers /\ i \notin mine \cup theirs
         /\ Later[s[i].arg] # {} => AfterCall(s, i) \in theirs

\* A destructive command asks before its first change and before any call.
AsksFirst(s, calm) ==
    /\ Closed(s, calm, {"ask"}) /\ 1 \in calm
    /\ \A i \in DOMAIN s : Changes(s[i]) \/ s[i].op = "call" => i \notin calm

\* A handler asks nobody, and does not refuse after a change.
Serves(s, later) ==
    /\ Closed(s, later, {}) /\ 1 \notin later
    /\ \A i \in DOMAIN s :
         /\ s[i].op \notin {"gate", "ask", "call"}
         /\ Changes(s[i]) => i + 1 \in later
         /\ Refuses(s[i]) => i \notin later

ASSUME TreeAssumption ==
    /\ \A c \in DOMAIN Scripts :
         /\ OneSided(Scripts[c], Mine[c], Theirs[c])
         /\ Declared(c) => AsksFirst(Scripts[c], Calm[c])
    /\ \A m \in DOMAIN Handlers : Serves(Handlers[m], Later[m])

VARIABLES
    cmd,        \* the command
    pc,         \* the next step of its script
    at,         \* who takes steps: "client", "daemon", or "end"
    called,     \* the method called, "" when the daemon was not used
    hpc,        \* the next step of the method's handler
    waiting,    \* the client waits for the daemon's answer
    slot,       \* State in account.json
    seen,       \* State in the Account loaded last
    live,       \* the server still honours the account's session
    agreed,     \* the user said yes, or --yes was given
    applied,    \* where changes were made: "client", "daemon"
    result      \* the error the command ended with, "" while it runs

answer == <<agreed, applied>>
store  == <<slot, seen, live>>
vars == <<cmd, pc, at, called, hpc, waiting, slot, seen, live, agreed, applied, result>>

SlotStates == {"missing", "NEW", "AUTHED", "EXPIRED"}

-----------------------------------------------------------------------------
(* MapExitCode: the error the command ended with to the exit code.        *)
ExitCode(e) ==
    CASE e \in {"none", "no_results"}                      -> 0
      [] e = "cancel"                                      -> 130
      [] e \in {"usage", "rpc_usage"}                      -> 2
      [] e = "auth"                                        -> 3
      [] e = "notfound"                                    -> 4
      [] e \in {"forbidden", "rpc_forbidden"}              -> 5
      [] e = "flood"                                       -> 6
      [] e \in {"revoke_required", "current", "invalid_invite",
                "bad_password"}                            -> 8
      [] e \in {"precondition", "unsupported"}             -> 9
      [] e = "unknown_method"                              -> 64
      [] e = "busy"                                        -> 72
      [] e = "not_confirmed"                               -> 73
      [] OTHER                                             -> 1

-----------------------------------------------------------------------------
(* Who takes the next step, and which.                                    *)

Script == IF at = "daemon" THEN Handlers[called] ELSE Scripts[cmd]
Ip     == IF at = "daemon" THEN hpc ELSE pc
Step1  == Script[Ip]
Is(op) == at # "end" /\ Ip \in DOMAIN Script /\ Step1.op = op
Ended  == at # "end" /\ Ip \notin DOMAIN Script

Go(n) ==
    /\ IF at = "daemon" THEN hpc' = hpc + n /\ pc' = pc
                        ELSE pc' = pc + n /\ hpc' = hpc
    /\ UNCHANGED <<at, waiting, result>>

\* Fault: the client runs the operation itself when the daemon fails it.
FailFallback(e) ==
    /\ IF at = "daemon" /\ waiting
         THEN at' = "client" /\ pc' = pc + 1 /\ result' = result
         ELSE at' = "end" /\ pc' = pc /\ result' = (IF at = "daemon" THEN result ELSE e)
    /\ waiting' = FALSE
    /\ UNCHANGED hpc

(* An error ends the command.  The daemon's travels in an error frame     *)
(* with its exit code, to a client that still waits.                      *)
Fail(e) ==
    /\ at' = "end"
    /\ result' = IF at = "daemon" /\ ~waiting THEN result ELSE e
    /\ waiting' = FALSE
    /\ UNCHANGED <<pc, hpc>>

Same == UNCHANGED <<cmd, called>>
Still == UNCHANGED store

-----------------------------------------------------------------------------
Init ==
    /\ cmd \in DOMAIN Scripts
    /\ pc = 1 /\ hpc = 1 /\ at = "client" /\ called = "" /\ waiting = FALSE
    /\ slot \in SlotStates /\ seen = slot
    /\ live \in BOOLEAN /\ (slot = "missing" => ~live)
    /\ agreed = FALSE /\ applied = {} /\ result = ""

(* cobra counts the arguments before anything else runs.                  *)
CountArgs ==
    /\ Is("args")
    /\ Go(1) \/ Fail("plain")
    /\ Same /\ Still /\ UNCHANGED answer

Loaded == slot # "missing"

(* newRootPreRun: contradictory flags, then the account and its state.    *)
PreRun ==
    /\ Is("gate")
    /\ \/ Fail("usage")
       \/ /\ Step1.arg \in {"open", "arg"}
          /\ Go(1)
       \/ /\ Step1.arg \in {"account", "authed"}
          /\ IF ~Loaded THEN Fail("account")
             ELSE IF Step1.arg = "authed" /\ slot # "AUTHED" THEN Fail("auth")
             ELSE Go(1)
    /\ Same /\ Still /\ UNCHANGED answer

LoadAccount ==
    /\ Is("load")
    /\ IF Loaded THEN Go(1) ELSE Fail("account")
    /\ seen' = slot
    /\ Same /\ UNCHANGED <<slot, live>> /\ UNCHANGED answer

DeclareYes ==
    /\ Is("yes_flag")
    /\ Go(1)
    /\ Same /\ Still /\ UNCHANGED answer

Validate ==
    /\ \/ Is("check") /\ (Go(1) \/ Fail(Step1.alt))
       \/ Is("refuse") /\ Fail(Step1.alt)
    /\ Same /\ Still /\ UNCHANGED answer

\* Fault: the command goes on whatever was answered.
ConfirmUnheard ==
    /\ Is("ask")
    /\ Go(1) /\ agreed' \in BOOLEAN
    /\ Same /\ Still /\ UNCHANGED applied

(* ConfirmDestructive: --yes or a yes; no prompter; its error; a no.      *)
ConfirmDestructive ==
    /\ Is("ask")
    /\ \/ Go(1) /\ agreed' = TRUE
       \/ \E e \in {"precondition", "cancel", "not_confirmed"} :
            Fail(e) /\ agreed' = agreed
    /\ Same /\ Still /\ UNCHANGED applied

Choose ==
    /\ \/ Is("maybe") /\ (Go(1) \/ Go(1 + Step1.hop))
       \/ Is("skip") /\ Go(1 + Step1.hop)
    /\ Same /\ Still /\ UNCHANGED answer

-----------------------------------------------------------------------------
(* session.Run: a slot read as expired is not dialled; the dial or the    *)
(* recent-peers file may fail; the Self probe finds a session the server  *)
(* no longer honours.                                                     *)

\* maybeFlipExpired: the slot becomes EXPIRED, unless the write fails.
Flip ==
    /\ slot' \in {slot, "EXPIRED"}
    /\ UNCHANGED <<seen, live>>

Run ==
    /\ Is("session")
    /\ \/ seen = "EXPIRED" /\ Fail("auth") /\ Still
       \/ seen # "EXPIRED" /\ Fail("plain") /\ Still
       \/ seen # "EXPIRED" /\ ~live /\ Fail("auth") /\ Flip
       \/ seen # "EXPIRED" /\ live /\ Go(1) /\ Still
    /\ Same /\ UNCHANGED answer

(* auth status --probe: only a slot read as logged in is dialled, and the *)
(* error goes into the row.                                               *)
ProbeSession ==
    /\ Is("probe")
    /\ Go(1)
    /\ Still \/ (seen = "AUTHED" /\ ~live /\ Flip)
    /\ Same /\ UNCHANGED answer

(* MaybeDialDaemon: no daemon, a stale socket, --no-daemon and a failed   *)
(* dial all mean the local path.                                          *)
DialDaemon ==
    /\ Is("call")
    /\ \/ /\ at' = "daemon" /\ called' = Step1.arg /\ waiting' = TRUE
          /\ UNCHANGED <<pc, hpc, result>>
       \/ Go(1) /\ called' = called
    /\ Still /\ UNCHANGED <<cmd, agreed, applied>>

(* dispatch of an older daemon: the method is not registered.             *)
UnknownMethod ==
    /\ at = "daemon" /\ hpc = 1 /\ waiting
    /\ Fail("unknown_method")
    /\ Same /\ Still /\ UNCHANGED answer

(* The handler is done and the client, if it still waits, passes over its *)
(* own copy of the operation, unless it cannot read the answer.           *)
Answer ==
    /\ at = "daemon" /\ Ended
    /\ \/ /\ waiting
          /\ at' = "client" /\ pc' = pc + 1 + Scripts[cmd][pc].hop
          /\ waiting' = FALSE /\ UNCHANGED <<hpc, result>>
       \/ Fail("plain")
    /\ Same /\ Still /\ UNCHANGED answer

\* Fault: the lost answer is reported as a daemon that was busy.
HangUpBusy ==
    /\ waiting
    /\ waiting' = FALSE /\ result' = "busy"
    /\ at' \in {"daemon", "end"}
    /\ Same /\ Still /\ UNCHANGED answer /\ UNCHANGED <<pc, hpc>>

(* Call returns because the connection closed or the user interrupted it; *)
(* the handler may be anywhere, and goes on unless the daemon died.       *)
HangUp ==
    /\ waiting
    /\ waiting' = FALSE /\ result' = "lost"
    /\ at' \in {"daemon", "end"}
    /\ Same /\ Still /\ UNCHANGED answer /\ UNCHANGED <<pc, hpc>>

-----------------------------------------------------------------------------
(* Requests.  A refused session fails them all; here that also flips the  *)
(* slot, in the daemon it does not.                                       *)

Refused(e) ==
    IF e = "unauthorized" /\ at = "client"
      THEN Fail("auth") /\ Flip
      ELSE Fail(e) /\ Still

Errors == IF live THEN RpcErrors \cup {"plain"} ELSE {"unauthorized"}

\* The server answered with the one error the code knows.
SingledOut == live /\ Step1.alt # ""

Read ==
    /\ \/ Is("get") /\ live /\ Go(1) /\ Still
       \/ Is("get") /\ \E e \in Errors : Refused(e)
       \/ Is("get") /\ SingledOut /\ Fail(Step1.alt) /\ Still
       \/ Is("peek") /\ Go(1) /\ Still
    /\ Same /\ UNCHANGED answer

(* A change is made and answered, made with its answer lost, or refused.  *)
(* What is so already may be so because of an earlier attempt.            *)
Made == applied' = applied \cup {at}

Change ==
    /\ Is("put")
    /\ \/ live /\ (Go(1) \/ Fail("plain")) /\ Made /\ Still
       \/ \E e \in Errors : Refused(e) /\ applied' = applied
       \/ SingledOut /\ Still /\ applied' = applied
          /\ IF Step1.alt = "already" THEN Go(1) ELSE Fail(Step1.alt)
    /\ Same /\ UNCHANGED agreed

Attempt ==
    /\ Is("try")
    /\ Go(1) /\ Still
    /\ applied' = applied \/ (live /\ Made)
    /\ Same /\ UNCHANGED agreed

Store ==
    /\ Is("save")
    /\ \/ Go(1) /\ Made
       \/ (IF Step1.alt = "" THEN Go(1) ELSE Fail(Step1.alt)) /\ applied' = applied
    /\ Same /\ Still /\ UNCHANGED agreed

-----------------------------------------------------------------------------
(* Execute returns nil.                                                   *)
Finish ==
    /\ at = "client" /\ Ended
    /\ at' = "end" /\ result' = "none"
    /\ Same /\ Still /\ UNCHANGED answer /\ UNCHANGED <<pc, hpc, waiting>>

(* Meanwhile: the session is terminated from another device, or another   *)
(* command finds it expired.                                              *)
Elsewhere ==
    /\ at # "end"
    /\ \/ live /\ live' = FALSE /\ UNCHANGED <<slot, seen>>
       \/ ~live /\ slot = "AUTHED" /\ slot' = "EXPIRED" /\ UNCHANGED <<seen, live>>
    /\ Same /\ UNCHANGED answer /\ UNCHANGED <<pc, at, hpc, waiting, result>>

Next ==
    \/ CountArgs \/ PreRun \/ LoadAccount \/ DeclareYes \/ Validate
    \/ ConfirmDestructive \/ Choose \/ Run \/ ProbeSession \/ DialDaemon \/ UnknownMethod
    \/ Answer \/ HangUp \/ Read \/ Change \/ Attempt \/ Store \/ Finish
    \/ Elsewhere

Spec == Init /\ [][Next]_vars

-----------------------------------------------------------------------------
Destructive == Declared(cmd)

\* A command with a --yes flag (delete, leave, ban, revoke, disable, ...)
\* changes nothing, here or in the daemon, before it has been agreed to.
ConfirmedFirst == [][Destructive /\ applied' # applied => agreed]_vars

\* A command whose request went to the daemon is never run again by the
\* client: whatever the answer, or its absence, the change is not made on
\* both paths.
OnceAcrossPaths == applied # {"client", "daemon"}

\* Exit codes 2, 64, 72 and 73 mean that nothing was done and the command can
\* be corrected and run again; only the server's own usage errors may come
\* after a change.
RefusalChangesNothing ==
    result \notin {"", "rpc_usage"} /\ ExitCode(result) \in {2, 64, 72, 73} => applied = {}

\* The exit code is the last word: after it nothing changes any more, except
\* when the connection to the daemon was lost (exit code 1).
ErrorIsFinal == [][result \notin {"", "lost"} => applied' = applied]_vars

\* The report says that nothing was done.
Denies(e) == e # "rpc_usage" /\ ExitCode(e) \in {2, 64, 72, 73}
Outcome(e) == CASE e = ""     -> "open"
                [] e = "lost" -> "lost"
                [] Denies(e)  -> "refused"
                [] OTHER      -> "ended"

\* Step by step, a run of a command keeps all of these promises together
\* (ConfirmDestructive, MaybeDialDaemon, MapExitCode).
Promise == INSTANCE CommandPromise WITH Sides <- {"client", "daemon"},
                                        asks <- Destructive, outcome <- Outcome(result)
ImplementsPromise == Promise!Spec
=============================================================================

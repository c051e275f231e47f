---------------------------- MODULE AccountSlots ----------------------------
(***************************************************************************)
(* The account slots on disk and the processes that share them:            *)
(* `tg auth login | logout | rename | switch` and every other command,     *)
(* which connects with the slot's session and may mark it EXPIRED.         *)
(* Code: internal/account, internal/action/auth, internal/authflow and     *)
(* internal/telegram/session of the repository.                            *)
(*                                                                         *)
(* A process takes one step per system call another process can see, and   *)
(* works with the Meta it loaded at its start.  The flock is held for one  *)
(* write of one file.  The server keeps the set of keys it honours.  Any   *)
(* system call may fail, any request may stay without an answer, and a     *)
(* removal that fails or is killed leaves part of the directory.           *)
(*                                                                         *)
(* A definition introduced by "Fault:" is not part of the specification:   *)
(* it is a bug this code could have had in the definition that follows,    *)
(* kept to confirm that a property notices it.                             *)
(***************************************************************************)
EXTENDS Integers, TLC

CONSTANTS
  Names,        \* account names
  Procs,        \* processes
  MaxCommands,  \* bound: commands started
  MaxKeys,      \* bound: sessions made, the one of the start included
  MaxMishaps    \* bound: processes killed, failing calls, unheard requests

ASSUME SlotsAssumption ==
  /\ MaxCommands \in Nat /\ MaxKeys \in Nat \ {0}
  /\ MaxMishaps \in Nat
  /\ {"none", "free"} \cap Procs = {} /\ "none" \notin Names

VARIABLES
  dir,      \* the directory of each name: what is under AccountsDir()
  default,  \* default_account in config.toml
  proc,     \* the processes
  good,     \* the sessions the server honours
  made,     \* counter of sessions
  count,    \* counters of commands and mishaps
  unsure,   \* history: the sessions of logins that ended between the sign-in
            \* and the mark AUTHED
  killed,   \* history: the commands killed
  failed,   \* history: where a call to the disk failed
  raced     \* history: the classes of commands that overlapped another

vars == <<dir, default, proc, good, made, count, unsure, killed, failed, raced>>

NoName   == "none"
NoKey    == 0
NoMeta   == [name |-> NoName, state |-> "none"]
NoDir    == [there |-> FALSE, meta |-> NoMeta, key |-> NoKey, lock |-> "none"]
EmptyDir == [NoDir EXCEPT !.there = TRUE]
Meta(n, s) == [name |-> n, state |-> s]
NoWrite  == [path |-> NoName, file |-> "none", val |-> NoKey, then |-> "", else |-> ""]
Idle     == [cmd |-> "none", name |-> NoName, to |-> NoName, pc |-> "idle", meta |-> NoMeta,
             key |-> NoKey, def |-> NoName, w |-> NoWrite]

\* login-new creates the slot only (--no-login), login-force logs in again,
\* purge is logout --purge, use is any command that needs the session.
Kinds == {"login", "login-new", "login-force", "use", "logout", "purge", "rename", "switch"}
Class(c) == CASE c \in {"login", "login-new", "login-force"} -> "login"
              [] c \in {"purge", "rename"}                    -> "removal"
              [] OTHER                                        -> "other"
Running == {p \in Procs : proc[p].pc # "idle"}
Quiet == Running = {}

\* Nothing yet, or one account logged in, the default or not.
Init ==
  /\ \/ dir = [n \in Names |-> NoDir] /\ made = 0 /\ default = NoName
     \/ \E n \in Names :
          /\ dir = [d \in Names |-> IF d = n THEN [EmptyDir EXCEPT !.meta = Meta(n, "AUTHED"),
                                                      !.key = 1, !.lock = "free"]
                                             ELSE NoDir]
          /\ made = 1 /\ default \in {n, NoName}
  /\ good = 1 .. made
  /\ proc = [p \in Procs |-> Idle]
  /\ count = [commands |-> 0, mishaps |-> 0]
  /\ unsure = {} /\ killed = {} /\ failed = {} /\ raced = {}

\* p goes on at pc with what it now knows, or ends.
Go(p, pc) == proc' = [proc EXCEPT ![p].pc = pc, ![p].w = NoWrite]
End(p) == proc' = [proc EXCEPT ![p] = Idle]
At(p, pc) == proc[p].pc = pc
Is(p, kinds) == proc[p].cmd \in kinds
disk == <<dir, default>>
server == <<good, made, unsure>>
history == <<count, killed, failed, raced>>
Mishap ==
  /\ count.mishaps < MaxMishaps
  /\ count' = [count EXCEPT !.mishaps = @ + 1]
\* A call to the disk fails, or a lock is held too long.
Fault(p) == Mishap /\ failed' = failed \cup {proc[p].pc}
\* A request fails, or nothing is heard of it.
NoLine == Mishap /\ UNCHANGED failed

\* A login that has signed in and not yet marked its slot AUTHED; leaving it so
\* leaves a session that the slot does not show.
Signed(p) ==
  /\ Is(p, {"login", "login-force"})
  /\ At(p, "self") \/ (proc[p].pc \in {"lock", "put"} /\ proc[p].w.then = "end")
Leave(p) == unsure' = IF Signed(p) THEN unsure \cup {proc[p].key} ELSE unsure

First(c) == CASE c \in {"login", "login-new", "login-force"} -> "read"
              [] c = "rename"                                -> "check"
              [] c = "switch"                                -> "exists"
              [] OTHER                                       -> "load"

\* The config is read once, at the start of the command.
Start(p) ==
  /\ At(p, "idle") /\ count.commands < MaxCommands
  /\ \E c \in Kinds, n \in Names, t \in Names \cup {NoName} :
       /\ (c = "rename") = (t # NoName) /\ t # n
       /\ proc' = [proc EXCEPT ![p] =
            [Idle EXCEPT !.cmd = c, !.name = n, !.to = t, !.def = default, !.pc = First(c)]]
       /\ raced' = IF Quiet THEN raced
                   ELSE raced \cup {Class(c)} \cup {Class(proc[q].cmd) : q \in Running}
  /\ count' = [count EXCEPT !.commands = @ + 1]
  /\ UNCHANGED <<disk, server, killed, failed>>

-----------------------------------------------------------------------------
(* AtomicWrite: make the directory when it is missing, take the flock or   *)
(* give up after five seconds, put the file with a rename.                 *)

Writing(p, path, file, val, then, else) ==
  [proc EXCEPT ![p].pc = "lock",
               ![p].w = [path |-> path, file |-> file, val |-> val, then |-> then, else |-> else]]

\* Whatever directory it is in by now: the lock is on the file.
Unlocked(d, p) ==
  [n \in Names |-> IF d[n].lock = p THEN [d[n] EXCEPT !.lock = "free"] ELSE d[n]]

Lock(p) ==
  /\ At(p, "lock")
  /\ LET n == proc[p].w.path IN
       \/ /\ dir[n].lock \in {"none", "free"}
          /\ dir' = [dir EXCEPT ![n].there = TRUE, ![n].lock = p]
          /\ proc' = [proc EXCEPT ![p].pc = "put"]
          /\ UNCHANGED <<count, failed, unsure>>
       \/ /\ dir[n].lock \in Procs /\ Fault(p)       \* ErrBusy
          /\ Go(p, proc[p].w.else) /\ Leave(p) /\ UNCHANGED dir
  /\ UNCHANGED <<default, good, made, killed, raced>>

Put(p) ==
  /\ At(p, "put")
  /\ LET w == proc[p].w IN
       \/ /\ dir[w.path].there
          /\ dir' = Unlocked(IF w.file = "meta" THEN [dir EXCEPT ![w.path].meta = w.val]
                                                ELSE [dir EXCEPT ![w.path].key = w.val], p)
          /\ Go(p, w.then) /\ UNCHANGED unsure
       \/ /\ ~dir[w.path].there
          /\ dir' = Unlocked(dir, p) /\ Go(p, w.else) /\ Leave(p)
  /\ UNCHANGED <<default, good, made, history>>

\* The disk refuses the write; the file keeps what it had.
PutFails(p) ==
  /\ At(p, "put") /\ Fault(p)
  /\ dir' = Unlocked(dir, p) /\ Go(p, proc[p].w.else) /\ Leave(p)
  /\ UNCHANGED <<default, good, made, killed, raced>>

\* WriteMeta writes to the directory the Meta names, wherever it came from.
WriteMeta(p, m, then, else) == Writing(p, m.name, "meta", m, then, else)

-----------------------------------------------------------------------------
(* auth login: Login, AddAccount, DoLoginWithOptions.                      *)

LoginRead(p) ==
  /\ At(p, "read")
  /\ Go(p, IF dir[proc[p].name].meta = NoMeta THEN "stat" ELSE "added")
  /\ UNCHANGED <<disk, server, history>>

AddStat(p) ==
  /\ At(p, "stat")
  /\ IF dir[proc[p].name].there THEN End(p) ELSE Go(p, "mkdir")  \* ErrAccountExists
  /\ UNCHANGED <<disk, server, history>>

AddMkdir(p) ==
  /\ At(p, "mkdir")
  /\ dir' = [dir EXCEPT ![proc[p].name].there = TRUE]
  /\ proc' = WriteMeta(p, Meta(proc[p].name, "NEW"), "added", "undo")
  /\ UNCHANGED <<default, server, history>>

AddUndo(p) ==
  /\ At(p, "undo")
  /\ dir' = [dir EXCEPT ![proc[p].name] = NoDir] /\ End(p)
  /\ UNCHANGED <<default, server, history>>

\* A slot that is AUTHED is left alone without --force.
LoginLoad(p) ==
  /\ At(p, "added")
  /\ LET m == dir[proc[p].name].meta IN
       IF \/ Is(p, {"login-new"}) \/ m = NoMeta
          \/ (m.state = "AUTHED" /\ ~Is(p, {"login-force"}))
       THEN End(p)
       ELSE proc' = [proc EXCEPT ![p].meta = m, ![p].pc = "connect"]
  /\ UNCHANGED <<disk, server, history>>

\* The user goes through with it or gives up; a key still honoured needs
\* nothing. The answer to the sign-in may be lost.
Authorize(p) ==
  /\ At(p, "authorize")
  /\ LET k == proc[p].key IN
       \/ good' = good \cup {k} /\ unsure' = unsure \ {k} /\ Go(p, "self")
          /\ UNCHANGED count
       \/ k \notin good /\ End(p) /\ UNCHANGED <<good, unsure, count>>
       \/ End(p) /\ UNCHANGED <<good, unsure>> /\ NoLine
       \/ k \notin good /\ End(p) /\ NoLine
          /\ good' = good \cup {k} /\ unsure' = unsure \cup {k}
  /\ UNCHANGED <<disk, made, killed, failed, raced>>

\* Self, and the mark.
PersistAuthed(p) ==
  /\ At(p, "self")
  /\ \/ /\ proc[p].key \in good
        /\ proc' = WriteMeta(p, [proc[p].meta EXCEPT !.state = "AUTHED"], "end", "end")
        /\ UNCHANGED <<count, unsure>>
     \/ proc[p].key \notin good /\ End(p) /\ UNCHANGED <<count, unsure>>
     \/ End(p) /\ Leave(p) /\ NoLine
  /\ UNCHANGED <<disk, good, made, killed, failed, raced>>

-----------------------------------------------------------------------------
(* Every client: Account, session.Run, the library's connection.           *)

\* Fault: --purge does without the revocation.
LoadToPurge(p) ==
  /\ At(p, "load")
  /\ LET m == dir[proc[p].name].meta IN
       /\ m # NoMeta
       /\ proc' = [proc EXCEPT ![p].meta = m,
                               ![p].pc = IF Is(p, {"purge"}) THEN "gone" ELSE "connect"]
  /\ UNCHANGED <<disk, server, history>>

\* The gate lets only an AUTHED slot through; logout takes any.
Load(p) ==
  /\ At(p, "load")
  /\ LET m == dir[proc[p].name].meta IN
       \/ /\ m.state = "AUTHED"
          /\ proc' = [proc EXCEPT ![p].meta = m, ![p].pc = "connect"]
       \/ /\ m.state \in {"NEW", "EXPIRED"} /\ Is(p, {"logout", "purge"})
          /\ proc' = [proc EXCEPT ![p].meta = m, ![p].pc = "reset"]
       \/ /\ m = NoMeta \/ (m.state # "AUTHED" /\ Is(p, {"use"}))
          /\ End(p)
  /\ UNCHANGED <<disk, server, history>>

\* The library reads session.bin, makes a key when there is none, and
\* stores the session it connected with.
Connect(p) ==
  /\ At(p, "connect")
  /\ LET n == proc[p].meta.name
         k == IF dir[n].key # NoKey THEN dir[n].key ELSE made + 1
     IN \/ /\ k <= MaxKeys
           /\ made' = IF k > made THEN k ELSE made
           /\ proc' = [Writing(p, n, "key", k,
                               IF Is(p, {"login", "login-force"}) THEN "authorize" ELSE "probe",
                               "end")
                         EXCEPT ![p].key = k]
           /\ UNCHANGED count
        \/ End(p) /\ NoLine /\ UNCHANGED made
  /\ UNCHANGED <<disk, good, unsure, killed, failed, raced>>

\* Self, then the command's own requests: a session the server does not
\* honour flips the Meta that was loaded, another failure leaves it.
Expire(p) == proc' = WriteMeta(p, [proc[p].meta EXCEPT !.state = "EXPIRED"], "end", "end")

\* Fault: any failure of the probe is taken for a lost authorization.
ProbeAny(p) ==
  /\ At(p, "probe")
  /\ \/ Expire(p) /\ NoLine
     \/ Go(p, IF Is(p, {"use"}) THEN "end" ELSE "revoke") /\ UNCHANGED count
  /\ UNCHANGED <<disk, server, killed, failed, raced>>

Probe(p) ==
  /\ At(p, "probe")
  /\ \/ /\ proc[p].key \notin good
        /\ Expire(p) /\ UNCHANGED count
     \/ /\ proc[p].key \in good
        /\ Go(p, IF Is(p, {"use"}) THEN "end" ELSE "revoke") /\ UNCHANGED count
     \/ End(p) /\ NoLine
  /\ UNCHANGED <<disk, server, killed, failed, raced>>

-----------------------------------------------------------------------------
(* auth logout: DefaultLogoutDo for an AUTHED slot, resetLocalSession for  *)
(* another, then the purge.                                                *)

\* Fault: an answer that did not come is taken for a revocation.
RevokeUnheard(p) ==
  /\ At(p, "revoke")
  /\ \/ good' = good \ {proc[p].key} /\ Go(p, "delete") /\ UNCHANGED count
     \/ /\ NoLine
        /\ Go(p, "delete") /\ UNCHANGED good
  /\ UNCHANGED <<disk, made, unsure, killed, failed, raced>>

\* That the server revoked and its answer is lost is RevokedElsewhere followed
\* by the second case.
Revoke(p) ==
  /\ At(p, "revoke")
  /\ \/ good' = good \ {proc[p].key} /\ Go(p, "delete") /\ UNCHANGED count
     \/ /\ NoLine
        /\ End(p) /\ UNCHANGED good
  /\ UNCHANGED <<disk, made, unsure, killed, failed, raced>>

Delete(p) ==
  /\ At(p, "delete")
  /\ dir' = [dir EXCEPT ![proc[p].meta.name].key = NoKey]
  /\ Go(p, "reread")
  /\ UNCHANGED <<default, server, history>>

\* A slot purged meanwhile is as good as logged out.
Reread(p) ==
  /\ At(p, "reread")
  /\ LET m == dir[proc[p].meta.name].meta IN
       IF m = NoMeta THEN Go(p, "gone")
       ELSE proc' = WriteMeta(p, [m EXCEPT !.state = "NEW"], "gone", "end")
  /\ UNCHANGED <<disk, server, history>>

\* Without a word to the server, and whatever became of the file: it may stay.
Reset(p) ==
  /\ At(p, "reset")
  /\ \/ dir' = [dir EXCEPT ![proc[p].meta.name].key = NoKey] /\ UNCHANGED <<count, failed>>
     \/ Fault(p) /\ UNCHANGED dir
  /\ proc' = WriteMeta(p, [proc[p].meta EXCEPT !.state = "NEW"], "gone", "end")
  /\ UNCHANGED <<default, server, killed, raced>>

Purge(p) ==
  /\ At(p, "gone")
  /\ IF Is(p, {"purge"})
     THEN /\ dir' = [dir EXCEPT ![proc[p].meta.name] = NoDir]
          /\ IF proc[p].def = proc[p].meta.name THEN Go(p, "clear") ELSE End(p)
     ELSE End(p) /\ UNCHANGED dir
  /\ UNCHANGED <<default, server, history>>

ClearDefault(p) ==
  /\ At(p, "clear") /\ End(p)
  /\ default' = NoName
  /\ UNCHANGED <<dir, server, history>>

-----------------------------------------------------------------------------
(* auth rename: Rename and RenameAccount, of a slot without an installed   *)
(* daemon; auth switch.                                                    *)

RenameCheck(p) ==
  /\ At(p, "check")
  /\ LET m == dir[proc[p].name].meta IN
       IF m # NoMeta /\ dir[proc[p].to].meta = NoMeta
       THEN proc' = [proc EXCEPT ![p].meta = m, ![p].pc = "busy"]
       ELSE End(p)
  /\ UNCHANGED <<disk, server, history>>

\* ensureNotBusy creates the lock file, tries the lock and lets it go.
RenameProbe(p) ==
  /\ At(p, "busy")
  /\ LET d == dir[proc[p].name] IN
       IF d.there /\ ~dir[proc[p].to].there /\ d.lock \notin Procs
       THEN dir' = [dir EXCEPT ![proc[p].name].lock = "free"] /\ Go(p, "move")
       ELSE End(p) /\ UNCHANGED dir
  /\ UNCHANGED <<default, server, history>>

\* rename(2) replaces an empty directory and refuses any other.
Movable(from, to) == dir[from].there /\ dir[to] \in {NoDir, EmptyDir}
Moved(from, to) == [dir EXCEPT ![to] = dir[from], ![from] = NoDir]

RenameMove(p) ==
  /\ At(p, "move")
  /\ LET from == proc[p].name  to == proc[p].to IN
       IF Movable(from, to)
       THEN /\ dir' = Moved(from, to)
            /\ proc' = WriteMeta(p, [proc[p].meta EXCEPT !.name = to], "repoint", "back")
       ELSE End(p) /\ UNCHANGED dir
  /\ UNCHANGED <<default, server, history>>

\* Fault: a rename that failed half way is reported and left there.
RenameBackNot(p) ==
  /\ At(p, "back") /\ End(p)
  /\ UNCHANGED <<disk, server, history>>

RenameBack(p) ==
  /\ At(p, "back") /\ End(p)
  /\ LET from == proc[p].to  to == proc[p].name IN
       dir' = IF Movable(from, to) THEN Moved(from, to) ELSE dir
  /\ UNCHANGED <<default, server, history>>

Repoint(p) ==
  /\ At(p, "repoint") /\ End(p)
  /\ default' = IF proc[p].def = proc[p].name THEN proc[p].to ELSE default
  /\ UNCHANGED <<dir, server, history>>

SwitchCheck(p) ==
  /\ At(p, "exists")
  /\ IF dir[proc[p].name].meta = NoMeta THEN End(p) ELSE Go(p, "set")
  /\ UNCHANGED <<disk, server, history>>

SetDefault(p) ==
  /\ At(p, "set") /\ End(p)
  /\ default' = proc[p].name
  /\ UNCHANGED <<dir, server, history>>

Finish(p) ==
  /\ At(p, "end") /\ End(p)
  /\ UNCHANGED <<disk, server, history>>

-----------------------------------------------------------------------------
\* RemoveAll stops part way: any part of the directory may still be there.
Removing(p) == At(p, "undo") \/ (At(p, "gone") /\ Is(p, {"purge"}))
Removed(p) == IF At(p, "undo") THEN proc[p].name ELSE proc[p].meta.name
Remains(d) == {[there |-> d.there, meta |-> m, key |-> k, lock |-> l] :
                 m \in {d.meta, NoMeta}, k \in {d.key, NoKey}, l \in {d.lock, "none"}}

\* What is left of a command that goes no further. The kernel drops its lock.
Stop(p) ==
  /\ End(p)
  /\ \/ dir' = Unlocked(dir, p)
     \/ Removing(p) /\ \E d \in Remains(dir[Removed(p)]) : dir' = [dir EXCEPT ![Removed(p)] = d]

\* A call that fails ends the command where it is: with an error, after a
\* warning (clear, repoint), or on the way out with another (undo, back).
Fails(p) ==
  /\ proc[p].pc \in {"read", "mkdir", "undo", "added", "load", "delete", "reread", "clear",
                    "check", "busy", "move", "back", "repoint", "exists", "set"}
     \/ (At(p, "gone") /\ Is(p, {"purge"}))
  /\ Fault(p) /\ Stop(p)
  /\ UNCHANGED <<default, server, killed, raced>>

Kill(p) ==
  /\ p \in Running /\ Mishap
  /\ killed' = killed \cup {proc[p].cmd}
  /\ Stop(p) /\ Leave(p)
  /\ UNCHANGED <<default, good, made, failed, raced>>

\* Another device, or the server, ends a session.
RevokedElsewhere ==
  /\ \E k \in good : good' = good \ {k}
  /\ UNCHANGED <<disk, proc, made, unsure, history>>

LoginStep(p) == LoginRead(p) \/ AddStat(p) \/ AddMkdir(p) \/ AddUndo(p)
                \/ LoginLoad(p) \/ Authorize(p) \/ PersistAuthed(p)
ClientStep(p) == Load(p) \/ Connect(p) \/ Probe(p)
LogoutStep(p) == Revoke(p) \/ Delete(p) \/ Reread(p) \/ Reset(p) \/ Purge(p) \/ ClearDefault(p)
RenameStep(p) == RenameCheck(p) \/ RenameProbe(p) \/ RenameMove(p) \/ RenameBack(p) \/ Repoint(p)
SwitchStep(p) == SwitchCheck(p) \/ SetDefault(p)
FileStep(p) == Lock(p) \/ Put(p) \/ PutFails(p)

Next ==
  \/ \E p \in Procs : \/ Start(p) \/ LoginStep(p) \/ ClientStep(p) \/ LogoutStep(p)
                      \/ RenameStep(p) \/ SwitchStep(p) \/ FileStep(p) \/ Finish(p)
                      \/ Fails(p) \/ Kill(p)
  \/ RevokedElsewhere

Spec == Init /\ [][Next]_vars

-----------------------------------------------------------------------------
(* Properties.  What another process does meanwhile, a kill or a failing   *)
(* call may break a slot; these say exactly which of them can.             *)

Whole(n) == dir[n].there => dir[n].meta.name = n

\* The sessions the server honours and a slot is to show.
Sure == good \ unsure

Undisturbed == killed = {} /\ failed = {}
NoneRaced(classes) == raced \cap classes = {}

\* Nobody removed or renamed a slot under another command, no rename stopped half
\* way or with its rollback undone, no session file outlived its logout, and no
\* call failed while a login overlapped another command.
Orderly ==
  /\ NoneRaced({"removal"}) /\ "rename" \notin killed
  /\ failed \cap {"back", "reset"} = {}
  /\ NoneRaced({"login"}) \/ failed = {}

\* Once all is quiet every directory has an account.json that names it, and
\* default_account is a slot: a write that fails is rolled back (AddAccount,
\* RenameAccount), and commands may overlap unless one purges or renames. Only a
\* kill, or a removal that failed part way, leaves a directory without one.
SlotsWhole ==
  /\ (Quiet /\ Orderly /\ killed = {} /\ failed \cap {"undo", "gone"} = {})
       => \A n \in Names : Whole(n)
  /\ (Quiet /\ Undisturbed /\ NoneRaced({"removal"}))
       => (default # NoName => dir[default].meta # NoMeta)

\* Once all is quiet, after an orderly history, every session the server honours
\* is in some slot, so that it can be used or revoked, whatever else failed, was
\* killed or stayed unheard: a logout deletes session.bin only after the server
\* has revoked it (DefaultLogoutDo). Only a login leaves a session behind that was
\* overlapped, or that ended between its sign-in and the mark AUTHED.
NoSessionLost ==
  (Quiet /\ Orderly /\ NoneRaced({"login"}))
    => \A k \in Sure : \E n \in Names : dir[n].key = k

\* Once all is quiet, after an orderly history, a slot that must be logged in has
\* no session the server honours, whatever else failed, was killed or stayed
\* unheard: EXPIRED is written for a lost authorization and for nothing else
\* (maybeFlipExpired), and NEW after a revocation. The same two logins are left out.
ExpiredIsDead ==
  (Quiet /\ Orderly /\ NoneRaced({"login"}))
    => \A n \in Names : dir[n].meta.state \in {"NEW", "EXPIRED"} => dir[n].key \notin Sure

\* At every moment of an orderly history, whatever fails or is killed, a live
\* session lies beside an account.json, so that `tg auth logout` can name it: a
\* purge revokes before it removes, and what it leaves when it stops part way is
\* no session.
LiveIsUsable ==
  Orderly => \A n \in Names : dir[n].key \in good => dir[n].meta # NoMeta

\* What TLC explores on. Of a history that is not orderly the properties say
\* nothing, and it does not become orderly again, so TLC follows it only as far as
\* no call failed and nothing was killed.
Relevant == Orderly \/ count.mishaps = 0

Symmetry == Permutations(Procs) \cup Permutations(Names)
=============================================================================

------------------------- MODULE AccountSlotsProofs -------------------------
(***************************************************************************)
(* What becomes of account slots, for any number of names, processes,      *)
(* commands, sessions and mishaps.                                         *)
(*                                                                         *)
(* A fact about one process is an operator on its record r, the            *)
(* directories d and the sessions g the server honours, so that a step of  *)
(* another process keeps it as long as it keeps what the fact reads.       *)
(***************************************************************************)
EXTENDS AccountSlots, TLAPS

Logins   == {"login", "login-new", "login-force"}
Entries  == {"login", "login-force"}
Clients  == {"use", "logout", "purge"}
Removals == {"purge", "rename"}
States   == {"NEW", "AUTHED", "EXPIRED"}
Slot     == Names \cup {NoName}
Metas    == [name : Names, state : States]
Dirs     == [there : BOOLEAN, meta : Metas \cup {NoMeta}, key : Nat,
             lock : {"none", "free"} \cup Procs]
Places   == {"idle", "read", "stat", "mkdir", "added", "undo", "connect", "authorize", "self",
             "load", "probe", "revoke", "reset", "delete", "reread", "gone", "clear",
             "check", "busy", "move", "back", "repoint", "exists", "set", "lock", "put", "end"}
Writes   == [path : Names, file : {"meta"}, val : Metas, then : Places, else : Places]
            \cup [path : Names, file : {"key"}, val : Nat, then : Places, else : Places]
Processes == [cmd : Kinds \cup {"none"}, name : Slot, to : Slot, pc : Places,
              meta : Metas \cup {NoMeta}, key : Nat, def : Slot, w : Writes \cup {NoWrite}]

InWrite(r) == r.pc \in {"lock", "put"}

\* The writes of account.json and of session.bin: whose they are, and where
\* the command goes on.
Pending(r) ==
  /\ r.w \in Writes
  /\ r.w.file = "meta" => r.w.val.name = r.w.path
  /\ r.w.file = "key" => r.w.val = r.key /\ r.key # NoKey /\ r.w.path = r.meta.name
  /\ r.w.then # "added" => r.meta \in Metas
  /\ \/ /\ r.w.then = "added" /\ r.w.else = "undo" /\ r.cmd \in Logins
        /\ r.w.file = "meta" /\ r.w.val = Meta(r.name, "NEW")
     \/ /\ r.w.then = "authorize" /\ r.w.else = "end" /\ r.cmd \in Entries
        /\ r.w.file = "key"
     \/ /\ r.w.then = "probe" /\ r.w.else = "end" /\ r.cmd \in Clients
        /\ r.w.file = "key"
     \/ /\ r.w.then = "end" /\ r.w.else = "end" /\ r.cmd \in Entries \cup Clients
        /\ r.w.file = "meta" /\ r.w.path = r.meta.name
        /\ r.w.val.state = (IF r.cmd \in Entries THEN "AUTHED" ELSE "EXPIRED")
     \/ /\ r.w.then = "gone" /\ r.w.else = "end" /\ r.cmd \in {"logout", "purge"}
        /\ r.w.file = "meta" /\ r.w.val.state = "NEW"
     \/ /\ r.w.then = "repoint" /\ r.w.else = "back" /\ r.cmd = "rename"
        /\ r.w.file = "meta" /\ r.w.path = r.to /\ r.w.val.state = r.meta.state

\* Where each command can be, and what it knows there.
Course(r) ==
  \/ r = Idle
  \/ /\ r.cmd \in Kinds /\ r.name \in Names
     /\ \/ r.cmd \in Logins /\ r.pc \in {"read", "stat", "mkdir", "added", "undo", "end"}
        \/ r.cmd \in Entries /\ r.pc = "connect" /\ r.meta \in Metas
        \/ r.cmd \in Entries /\ r.pc \in {"authorize", "self"} /\ r.meta \in Metas /\ r.key # NoKey
        \/ r.cmd \in Clients /\ r.pc \in {"load", "end"}
        \/ r.cmd \in Clients /\ r.pc = "connect" /\ r.meta \in Metas
        \/ r.cmd \in Clients /\ r.pc = "probe" /\ r.meta \in Metas /\ r.key # NoKey
        \/ r.cmd \in {"logout", "purge"} /\ r.pc = "revoke" /\ r.meta \in Metas /\ r.key # NoKey
        \/ r.cmd \in {"logout", "purge"} /\ r.pc \in {"reset", "delete", "reread", "gone"}
           /\ r.meta \in Metas
        \/ r.cmd = "purge" /\ r.pc = "clear" /\ r.meta \in Metas /\ r.def = r.meta.name
        \/ r.cmd = "rename" /\ r.pc = "check"
        \/ r.cmd = "rename" /\ r.pc \in {"busy", "move", "back", "repoint"} /\ r.meta \in Metas
        \/ r.cmd = "switch" /\ r.pc \in {"exists", "set"}
        \/ InWrite(r) /\ Pending(r)
     /\ r.cmd = "rename" => r.to \in Names /\ r.to # r.name

TypeOK ==
  /\ dir \in [Names -> Dirs] /\ default \in Slot
  /\ proc \in [Procs -> Processes] /\ \A p \in Procs : Course(proc[p])
  /\ good \subseteq Nat /\ unsure \subseteq Nat /\ made \in Nat
  /\ count \in [commands : Nat, mishaps : Nat]
  /\ killed \subseteq Kinds /\ failed \subseteq Places
  /\ raced \subseteq {"login", "removal", "other"}

\* No key is newer than the counter.
Minted ==
  /\ good \subseteq 1 .. made
  /\ \A n \in Names : dir[n].key <= made
  /\ \A p \in Procs : proc[p].key <= made

\* Commands that run at the same time have been noted.
Noted ==
  \A p, q \in Running : p # q => Class(proc[p].cmd) \in raced

-----------------------------------------------------------------------------
(* Slots that nobody removes or renames meanwhile: Orderly.                *)

Adding(r) == InWrite(r) /\ r.w.then = "added"

\* The command has loaded the slot's account.json.
Loaded(r) ==
  \/ r.pc \in {"connect", "authorize", "self", "probe", "revoke", "delete", "reread",
               "reset", "gone", "clear"}
  \/ InWrite(r) /\ ~Adding(r)

\* account.json and session.bin of its slot are still there; what a rename
\* has moved is where it left it; what a purge removes has no session.
Owns(r, d) ==
  /\ r.cmd # "rename" /\ Loaded(r) =>
       /\ r.meta.name = r.name
       /\ r.pc # "clear" => d[r.name].meta # NoMeta
       /\ InWrite(r) => r.w.path = r.name
  /\ r.pc = "put" => d[r.w.path].there
  /\ r.cmd = "switch" /\ r.pc = "set" => d[r.name].meta # NoMeta
  /\ r.cmd = "rename" /\ r.pc \in {"busy", "move"} => d[r.name].meta = r.meta
  /\ r.cmd = "rename" /\ (InWrite(r) \/ r.pc = "back") =>
       d[r.to].there /\ d[r.to].meta = r.meta /\ d[r.name] = NoDir
  /\ r.cmd = "rename" /\ r.pc = "repoint" => d[r.to].meta.name = r.to
  /\ r.cmd = "rename" /\ r.pc \notin {"idle", "check"} => r.meta.name = r.name
  /\ r.cmd = "purge" /\ (r.pc \in {"reread", "gone"} \/ (InWrite(r) /\ r.w.then = "gone"))
       => d[r.name].key = NoKey

\* A rename has moved the directory and not rewritten its account.json.
Moving(r, n) == r.cmd = "rename" /\ (InWrite(r) \/ r.pc = "back") /\ r.to = n

\* A login that makes a directory has it to itself.
Fresh(r, d) ==
  /\ r.pc = "mkdir" => ~d[r.name].there
  /\ Adding(r) \/ r.pc = "undo" => d[r.name].meta = NoMeta

Kept ==
  /\ \A n \in Names : ~dir[n].there => dir[n] = NoDir
  /\ \A n \in Names : dir[n].key # NoKey => dir[n].meta # NoMeta
  /\ \A n \in Names : dir[n].meta # NoMeta =>
       dir[n].meta.name = n \/ \E p \in Procs : Moving(proc[p], n)
  /\ \A p \in Procs : Owns(proc[p], dir)
  /\ \A p \in Procs : proc[p].pc \in {"undo", "back"} => failed # {}
  /\ NoneRaced({"login"}) => \A p \in Procs : Fresh(proc[p], dir)

\* A directory without an account.json is one that a login is making.
Making(r, n) == r.name = n /\ (Adding(r) \/ r.pc = "undo")
Begun == \A n \in Names : dir[n].there /\ dir[n].meta = NoMeta => \E p \in Procs : Making(proc[p], n)

\* The removal under way will clear or move the pointer.
Repointing(r) ==
  \/ r.cmd = "purge" /\ r.pc = "clear"
  \/ r.cmd = "rename" /\ (InWrite(r) \/ r.pc = "repoint") /\ r.def = r.name
Pointed ==
  /\ default # NoName /\ dir[default].meta = NoMeta =>
       \E p \in Procs : Repointing(proc[p]) /\ proc[p].def = default
  /\ \A p \in Procs : proc[p].cmd \in Removals => proc[p].def = default

-----------------------------------------------------------------------------
(* Sessions, as long as no login or removal overlaps another command.      *)

Apart == Orderly /\ NoneRaced({"login"})

Holding(r) ==
  \/ InWrite(r) /\ r.w.file = "key"
  \/ r.pc \in {"probe", "revoke", "authorize", "self"}

\* A slot that is, or will be, marked NEW or EXPIRED.
Ending(r) ==
  \/ r.pc \in {"delete", "reread", "reset", "gone"}
  \/ InWrite(r) /\ r.w.file = "meta" /\ r.w.val.state # "AUTHED"
Target(r) == IF InWrite(r) THEN r.w.path ELSE r.name

Minds(r, d, g) ==
  /\ Holding(r) /\ (r.key \in g \/ d[r.name].key \in g) => r.key = d[r.name].key
  /\ r.pc \in {"authorize", "self"} \/ (r.cmd \in Entries /\ InWrite(r) /\ r.w.then = "end")
       => r.key = d[r.name].key
  /\ Ending(r) => d[Target(r)].key \notin g

\* A login is about to mark the slot AUTHED.
Waking(r, n) == r.cmd \in Logins /\ r.name = n /\ (r.pc = "self" \/ (InWrite(r) /\ r.w.then = "end"))

Sound ==
  /\ \A p \in Procs : Minds(proc[p], dir, Sure)
  /\ \A n \in Names : dir[n].meta.state \in {"NEW", "EXPIRED"} /\ dir[n].key \in Sure =>
       \E p \in Procs : Waking(proc[p], n)
  /\ \A k \in Sure : \E n \in Names : dir[n].key = k
  /\ \A n, m \in Names : n # m /\ dir[n].key = dir[m].key => dir[n].key = NoKey
  /\ \A p \in Procs, m \in Names :
       Holding(proc[p]) /\ m # proc[p].name => dir[m].key # proc[p].key
  /\ \A p, q \in Procs :
       Holding(proc[p]) /\ Holding(proc[q]) /\ proc[p].name # proc[q].name
         => proc[p].key # proc[q].key

-----------------------------------------------------------------------------
(* One step of one process                                                 *)

Step(p) ==
  \/ Start(p) \/ LoginStep(p) \/ ClientStep(p) \/ LogoutStep(p) \/ RenameStep(p)
  \/ SwitchStep(p) \/ FileStep(p) \/ Finish(p) \/ Fails(p) \/ Kill(p)

Others(p) == \A q \in Procs \ {p} : proc'[q] = proc[q]

LEMMA Went ==
  ASSUME TypeOK, NEW p \in Procs, NEW pc \in Places, Go(p, pc)
  PROVE  /\ Others(p) /\ proc' \in [Procs -> Processes]
         /\ proc'[p].pc = pc /\ proc'[p].w = NoWrite
         /\ proc'[p].cmd = proc[p].cmd /\ proc'[p].name = proc[p].name /\ proc'[p].to = proc[p].to
         /\ proc'[p].meta = proc[p].meta /\ proc'[p].key = proc[p].key /\ proc'[p].def = proc[p].def
<1>1. proc \in [Procs -> Processes]
  BY DEF TypeOK
<1>2. proc[p] \in Processes
  BY <1>1
<1>3. proc' = [proc EXCEPT ![p] = [proc[p] EXCEPT !.pc = pc, !.w = NoWrite]]
  BY <1>1, <1>2 DEF Go, Processes
<1>4. [proc[p] EXCEPT !.pc = pc, !.w = NoWrite] \in Processes
  BY <1>2 DEF Processes
<1>5. QED
  BY <1>1, <1>2, <1>3, <1>4 DEF Others, Processes

LEMMA Ended ==
  ASSUME TypeOK, NEW p \in Procs, End(p)
  PROVE  Others(p) /\ proc' \in [Procs -> Processes] /\ proc'[p] = Idle
<1>1. Idle \in Processes
  BY DEF Idle, Processes, Places, Slot, NoKey
<1>2. QED
  BY <1>1 DEF TypeOK, End, Others

LEMMA Wrote ==
  ASSUME TypeOK, NEW p \in Procs, NEW path, NEW file, NEW val, NEW then, NEW else,
         proc' = Writing(p, path, file, val, then, else),
         [path |-> path, file |-> file, val |-> val, then |-> then, else |-> else] \in Writes
  PROVE  /\ Others(p) /\ proc' \in [Procs -> Processes]
         /\ proc'[p].pc = "lock"
         /\ proc'[p].w = [path |-> path, file |-> file, val |-> val, then |-> then, else |-> else]
         /\ proc'[p].cmd = proc[p].cmd /\ proc'[p].name = proc[p].name /\ proc'[p].to = proc[p].to
         /\ proc'[p].meta = proc[p].meta /\ proc'[p].key = proc[p].key /\ proc'[p].def = proc[p].def
<1> DEFINE w == [path |-> path, file |-> file, val |-> val, then |-> then, else |-> else]
<1>1. proc \in [Procs -> Processes]
  BY DEF TypeOK
<1>2. proc[p] \in Processes
  BY <1>1
<1>3. proc' = [proc EXCEPT ![p] = [proc[p] EXCEPT !.pc = "lock", !.w = w]]
  BY <1>1, <1>2 DEF Writing, Processes
<1>0. w \in Writes
  OBVIOUS
<1> HIDE DEF w
<1>4. [proc[p] EXCEPT !.pc = "lock", !.w = w] \in Processes
  BY <1>2, <1>0 DEF Processes, Places
<1>6. /\ Others(p) /\ proc' \in [Procs -> Processes]
      /\ proc'[p].pc = "lock" /\ proc'[p].w = w
      /\ proc'[p].cmd = proc[p].cmd /\ proc'[p].name = proc[p].name /\ proc'[p].to = proc[p].to
      /\ proc'[p].meta = proc[p].meta /\ proc'[p].key = proc[p].key /\ proc'[p].def = proc[p].def
  BY <1>1, <1>2, <1>3, <1>4 DEF Others, Processes
<1>5. QED
  BY <1>6 DEF w

\* What the place of a command says about it.
LEMMA Known ==
  ASSUME NEW r, Course(r)
  PROVE  /\ r.pc = "idle" => r = Idle
         /\ r.pc # "idle" => /\ r.cmd \in Kinds /\ r.name \in Names
                             /\ r.cmd = "rename" => r.to \in Names /\ r.to # r.name
         /\ r.pc \in {"read", "stat", "mkdir", "added", "undo"} => r.cmd \in Logins
         /\ r.pc \in {"authorize", "self"} => r.cmd \in Entries /\ r.meta \in Metas /\ r.key # NoKey
         /\ r.pc = "connect" => r.cmd \in Entries \cup Clients /\ r.meta \in Metas
         /\ r.pc = "load" => r.cmd \in Clients
         /\ r.pc = "probe" => r.cmd \in Clients /\ r.meta \in Metas /\ r.key # NoKey
         /\ r.pc = "revoke" => r.cmd \in {"logout", "purge"} /\ r.meta \in Metas /\ r.key # NoKey
         /\ r.pc \in {"reset", "delete", "reread", "gone"} =>
              r.cmd \in {"logout", "purge"} /\ r.meta \in Metas
         /\ r.pc = "clear" => r.cmd = "purge" /\ r.meta \in Metas /\ r.def = r.meta.name
         /\ r.pc = "check" => r.cmd = "rename"
         /\ r.pc \in {"busy", "move", "back", "repoint"} => r.cmd = "rename" /\ r.meta \in Metas
         /\ r.pc \in {"exists", "set"} => r.cmd = "switch"
         /\ r.pc = "end" => r.cmd \in Logins \cup Clients
         /\ InWrite(r) => Pending(r)
BY DEF Course, InWrite, Idle

LEMMA ProcStep ==
  ASSUME TypeOK, NEW p \in Procs, Step(p)
  PROVE  Others(p) /\ proc' \in [Procs -> Processes] /\ Course(proc'[p])
<1> DEFINE r == proc[p]
<1>0. /\ Course(r) /\ r \in Processes /\ \A n \in Names : dir[n] \in Dirs
      /\ \A n \in Names : dir[n].meta \in Metas \cup {NoMeta} /\ dir[n].key \in Nat
  BY DEF TypeOK, Dirs
<1>1. Course(Idle)
  BY DEF Course
<1>2. ASSUME End(p)
      PROVE  Others(p) /\ proc' \in [Procs -> Processes] /\ Course(proc'[p])
  BY <1>1, <1>2, Ended
<1>3. CASE Start(p)
  <2>1. PICK c \in Kinds, n \in Names, t \in Slot :
          /\ (c = "rename") = (t # NoName) /\ t # n
          /\ proc' = [proc EXCEPT ![p] =
               [Idle EXCEPT !.cmd = c, !.name = n, !.to = t, !.def = default, !.pc = First(c)]]
    BY <1>3 DEF Start, Slot
  <2>2. /\ First(c) \in Places \ {"idle", "lock", "put"}
        /\ \/ c \in Logins /\ First(c) = "read"
           \/ c \in Clients /\ First(c) = "load"
           \/ c = "rename" /\ First(c) = "check"
           \/ c = "switch" /\ First(c) = "exists"
    BY DEF First, Kinds, Logins, Clients, Places
  <2> DEFINE s == [Idle EXCEPT !.cmd = c, !.name = n, !.to = t, !.def = default, !.pc = First(c)]
  <2>3. /\ s \in Processes
        /\ s.cmd = c /\ s.name = n /\ s.to = t /\ s.pc = First(c)
    BY <2>2 DEF TypeOK, Processes, Idle, NoKey, Slot
  <2> HIDE DEF s
  <2>4. Course(s)
    BY <2>1, <2>2, <2>3 DEF Course, Slot
  <2>5. QED
    BY <2>1, <2>3, <2>4 DEF TypeOK, Others, s
<1>4. CASE LoginRead(p)
  <2>1. At(p, "read") /\ (Go(p, "stat") \/ Go(p, "added"))
    BY <1>4 DEF LoginRead
  <2>2. QED
    BY <1>0, <2>1, Known, Went DEF Course, Places, At
<1>5. CASE AddStat(p)
  <2>1. At(p, "stat") /\ (End(p) \/ Go(p, "mkdir"))
    BY <1>5 DEF AddStat
  <2>2. QED
    BY <1>0, <1>2, <2>1, Known, Went DEF Course, Places, At
<1>6. CASE AddMkdir(p)
  <2>0. At(p, "mkdir") /\ r.cmd \in Logins /\ r.name \in Names
    BY <1>0, <1>6, Known DEF AddMkdir, At
  <2>1. proc' = Writing(p, r.name, "meta", Meta(r.name, "NEW"), "added", "undo")
    BY <1>6 DEF AddMkdir, WriteMeta, Meta
  <2>2. [path |-> r.name, file |-> "meta", val |-> Meta(r.name, "NEW"), then |-> "added", else |-> "undo"] \in Writes
    BY <2>0 DEF Writes, Places, Metas, Meta, States
  <2>3. /\ Others(p) /\ proc' \in [Procs -> Processes] /\ proc'[p].pc = "lock"
        /\ proc'[p].w = [path |-> r.name, file |-> "meta", val |-> Meta(r.name, "NEW"),
                         then |-> "added", else |-> "undo"]
        /\ proc'[p].cmd = r.cmd /\ proc'[p].name = r.name
    BY <2>1, <2>2, Wrote
  <2>4. Pending(proc'[p])
    BY <2>0, <2>2, <2>3 DEF Pending, Meta
  <2>5. QED
    BY <1>0, <2>0, <2>3, <2>4 DEF Course, InWrite, Logins, Kinds
<1>8. CASE LoginLoad(p)
  <2>0. r.pc = "added" /\ r.cmd \in Logins /\ r.name \in Names
    BY <1>0, <1>8, Known DEF LoginLoad, At
  <2>1. CASE End(p)
    BY <1>2, <2>1
  <2>2. CASE ~End(p)
    <3>1. PICK m \in Metas : proc' = [proc EXCEPT ![p].meta = m, ![p].pc = "connect"]
      BY <1>0, <1>8, <2>0, <2>2 DEF LoginLoad
    <3>3. r.cmd \in Entries
      BY <1>8, <2>0, <2>2 DEF LoginLoad, Is, Logins, Entries
    <3>2. QED
      BY <1>0, <2>0, <3>1, <3>3, Known DEF TypeOK, Others, Processes, Places, Course
  <2>3. QED
    BY <2>1, <2>2
<1>9. CASE Authorize(p)
  <2>1. At(p, "authorize") /\ (End(p) \/ Go(p, "self"))
    BY <1>9 DEF Authorize
  <2>2. QED
    BY <1>0, <1>2, <2>1, Known, Went DEF Course, Places, At, Is
<1>10. CASE PersistAuthed(p)
  <2>0. r.pc = "self" /\ r.cmd \in Entries /\ r.name \in Names /\ r.meta \in Metas
    BY <1>0, <1>10, Known DEF PersistAuthed, At
  <2>1. CASE End(p)
    BY <1>2, <2>1
  <2>2. CASE ~End(p)
    <3> DEFINE v == [r.meta EXCEPT !.state = "AUTHED"]
               w == [path |-> v.name, file |-> "meta", val |-> v, then |-> "end", else |-> "end"]
    <3>1. proc' = Writing(p, v.name, "meta", v, "end", "end")
      BY <1>10, <2>2 DEF PersistAuthed, WriteMeta
    <3>2. v \in Metas /\ v.name = r.meta.name /\ v.state = "AUTHED"
      BY <2>0 DEF Metas, States
    <3>3. w \in Writes
      BY <3>2 DEF Writes, Places, Metas
    <3> HIDE DEF v
    <3>4. /\ Others(p) /\ proc' \in [Procs -> Processes] /\ proc'[p].pc = "lock"
          /\ proc'[p].w = w /\ proc'[p].meta = r.meta
          /\ proc'[p].cmd = r.cmd /\ proc'[p].name = r.name
      BY <3>1, <3>3, Wrote
    <3>5. Pending(proc'[p])
      BY <2>0, <3>2, <3>3, <3>4 DEF Pending
    <3>6. QED
      BY <1>0, <2>0, <3>4, <3>5 DEF Course, InWrite, Entries, Kinds
  <2>3. QED
    BY <2>1, <2>2
<1>11. CASE Load(p)
  <2>0. r.pc = "load" /\ r.cmd \in Clients /\ r.name \in Names
    BY <1>0, <1>11, Known DEF Load, At
  <2>1. CASE End(p)
    BY <1>2, <2>1
  <2>2. CASE ~End(p)
    <3>1. PICK m \in Metas, pc \in {"connect", "reset"} :
            /\ proc' = [proc EXCEPT ![p].meta = m, ![p].pc = pc]
            /\ pc = "reset" => r.cmd \in {"logout", "purge"}
      <4>1. NoMeta.state \notin States
        BY DEF NoMeta, States
      <4>2. QED
        BY <1>0, <1>11, <2>0, <2>2, <4>1 DEF Load, Is, States
    <3>2. QED
      BY <1>0, <2>0, <3>1, Known DEF TypeOK, Others, Processes, Places, Course
  <2>3. QED
    BY <2>1, <2>2
<1>12. CASE Connect(p)
  <2> SUFFICES ASSUME ~End(p)
               PROVE  Others(p) /\ proc' \in [Procs -> Processes] /\ Course(proc'[p])
    BY <1>2
  <2>0. /\ r.pc = "connect" /\ r.cmd \in Entries \cup Clients
        /\ r.name \in Names /\ r.meta \in Metas /\ r.cmd # "rename" /\ r.cmd \in Kinds
    BY <1>0, <1>12, Known DEF Connect, At, Entries, Clients
  <2> DEFINE n == r.meta.name
             k == IF dir[n].key # NoKey THEN dir[n].key ELSE made + 1
             then == IF Is(p, {"login", "login-force"}) THEN "authorize" ELSE "probe"
             w == [path |-> n, file |-> "key", val |-> k, then |-> then, else |-> "end"]
  <2>1. n \in Names /\ k \in Nat /\ k # NoKey
    BY <1>0, <2>0 DEF TypeOK, Metas, NoKey
  <2>2. proc' = [Writing(p, n, "key", k, then, "end") EXCEPT ![p].key = k]
    BY <1>12 DEF Connect
  <2>3. w \in Writes
    BY <2>1 DEF Writes, Places
  <2>4. /\ Others(p) /\ proc' \in [Procs -> Processes] /\ proc'[p].pc = "lock" /\ proc'[p].w = w
        /\ proc'[p].meta = r.meta /\ proc'[p].cmd = r.cmd /\ proc'[p].name = r.name /\ proc'[p].key = k
    <3>1. proc' = [proc EXCEPT ![p] = [r EXCEPT !.pc = "lock", !.w = w, !.key = k]]
      BY <1>0, <2>2 DEF Writing, TypeOK, Processes
    <3> HIDE DEF n, k, then, w
    <3>2. [r EXCEPT !.pc = "lock", !.w = w, !.key = k] \in Processes
      BY <1>0, <2>1, <2>3 DEF Processes, Places
    <3>3. QED
      BY <1>0, <3>1, <3>2 DEF TypeOK, Others, Processes
  <2>5. /\ r.cmd \in Entries => then = "authorize"
        /\ r.cmd \in Clients => then = "probe"
    BY DEF Is, Entries, Clients
  <2> HIDE DEF n, k, then
  <2>6. Pending(proc'[p])
    BY <2>0, <2>1, <2>3, <2>4, <2>5 DEF Pending, n
  <2>7. QED
    BY <2>0, <2>4, <2>6 DEF Course, InWrite
<1>13. CASE Probe(p)
  <2>0. /\ r.pc = "probe" /\ r.cmd \in Clients /\ r.name \in Names /\ r.meta \in Metas
        /\ r.key # NoKey /\ r.cmd # "rename" /\ r.cmd \in Kinds
    BY <1>0, <1>13, Known DEF Probe, At, Clients
  <2>1. CASE End(p)
    BY <1>2, <2>1
  <2>2. CASE Expire(p)
    <3> DEFINE v == [r.meta EXCEPT !.state = "EXPIRED"]
               w == [path |-> v.name, file |-> "meta", val |-> v, then |-> "end", else |-> "end"]
    <3>1. proc' = Writing(p, v.name, "meta", v, "end", "end")
      BY <2>2 DEF Expire, WriteMeta
    <3>2. v \in Metas /\ v.name = r.meta.name /\ v.state = "EXPIRED"
      BY <2>0 DEF Metas, States
    <3>3. w \in Writes
      BY <3>2 DEF Writes, Places, Metas
    <3> HIDE DEF v
    <3>4. /\ Others(p) /\ proc' \in [Procs -> Processes] /\ proc'[p].pc = "lock"
          /\ proc'[p].w = w /\ proc'[p].meta = r.meta
          /\ proc'[p].cmd = r.cmd /\ proc'[p].name = r.name
      BY <3>1, <3>3, Wrote
    <3>5. Pending(proc'[p])
      BY <2>0, <3>2, <3>3, <3>4 DEF Pending, Clients, Entries
    <3>6. QED
      BY <2>0, <3>4, <3>5 DEF Course, InWrite
  <2>3. CASE Go(p, IF Is(p, {"use"}) THEN "end" ELSE "revoke")
    <3>1. Go(p, "end") \/ (Go(p, "revoke") /\ r.cmd \in {"logout", "purge"})
      BY <2>0, <2>3 DEF Is, Clients
    <3>2. QED
      BY <1>0, <2>0, <3>1, Went DEF Course, Places
  <2>4. QED
    BY <1>13, <2>1, <2>2, <2>3 DEF Probe
<1>14. CASE Revoke(p)
  <2>1. At(p, "revoke") /\ (End(p) \/ Go(p, "delete"))
    BY <1>14 DEF Revoke
  <2>2. QED
    BY <1>0, <1>2, <2>1, Known, Went DEF Course, Places, At, Is
<1>15. CASE Delete(p)
  <2>1. At(p, "delete") /\ (Go(p, "reread"))
    BY <1>15 DEF Delete
  <2>2. QED
    BY <1>0, <1>2, <2>1, Known, Went DEF Course, Places, At, Is
<1>16. CASE Reread(p)
  <2>0. /\ r.pc = "reread" /\ r.cmd \in {"logout", "purge"} /\ r.name \in Names
        /\ r.meta \in Metas /\ r.cmd \in Kinds /\ r.meta.name \in Names
    BY <1>0, <1>16, Known DEF Reread, At, Metas
  <2>1. CASE Go(p, "gone")
    BY <1>0, <2>0, <2>1, Went DEF Course, Places
  <2>2. CASE ~Go(p, "gone")
    <3> DEFINE m == dir[r.meta.name].meta
               v == [m EXCEPT !.state = "NEW"]
               w == [path |-> v.name, file |-> "meta", val |-> v, then |-> "gone", else |-> "end"]
    <3>1. proc' = Writing(p, v.name, "meta", v, "gone", "end") /\ m # NoMeta
      BY <1>16, <2>2 DEF Reread, WriteMeta
    <3>2. v \in Metas /\ v.state = "NEW"
      BY <1>0, <2>0, <3>1 DEF Metas, States
    <3> HIDE DEF m, v
    <3>3. w \in Writes
      BY <3>2 DEF Writes, Places, Metas
    <3>4. /\ Others(p) /\ proc' \in [Procs -> Processes] /\ proc'[p].pc = "lock"
          /\ proc'[p].w = w /\ proc'[p].meta = r.meta
          /\ proc'[p].cmd = r.cmd /\ proc'[p].name = r.name
      BY <3>1, <3>3, Wrote
    <3>5. Pending(proc'[p])
      BY <2>0, <3>2, <3>3, <3>4 DEF Pending
    <3>6. QED
      BY <2>0, <3>4, <3>5 DEF Course, InWrite
  <2>3. QED
    BY <2>1, <2>2
<1>17. CASE Reset(p)
  <2>0. /\ r.pc = "reset" /\ r.cmd \in {"logout", "purge"} /\ r.name \in Names
        /\ r.meta \in Metas /\ r.cmd \in Kinds
    BY <1>0, <1>17, Known DEF Reset, At
  <2> DEFINE v == [r.meta EXCEPT !.state = "NEW"]
             w == [path |-> v.name, file |-> "meta", val |-> v, then |-> "gone", else |-> "end"]
  <2>1. proc' = Writing(p, v.name, "meta", v, "gone", "end")
    BY <1>17 DEF Reset, WriteMeta
  <2>2. v \in Metas /\ v.state = "NEW"
    BY <2>0 DEF Metas, States
  <2> HIDE DEF v
  <2>3. w \in Writes
    BY <2>2 DEF Writes, Places, Metas
  <2>4. /\ Others(p) /\ proc' \in [Procs -> Processes] /\ proc'[p].pc = "lock"
        /\ proc'[p].w = w /\ proc'[p].meta = r.meta
        /\ proc'[p].cmd = r.cmd /\ proc'[p].name = r.name
    BY <2>1, <2>3, Wrote
  <2>5. Pending(proc'[p])
    BY <2>0, <2>2, <2>3, <2>4 DEF Pending
  <2>6. QED
    BY <2>0, <2>4, <2>5 DEF Course, InWrite
<1>18. CASE Purge(p)
  <2>1. /\ r.pc = "gone" /\ r.name \in Names /\ r.cmd \in Kinds /\ r.meta \in Metas
        /\ End(p) \/ (Go(p, "clear") /\ r.cmd = "purge" /\ r.def = r.meta.name)
    BY <1>0, <1>18, Known DEF Purge, At, Is
  <2>2. QED
    BY <1>0, <1>2, <2>1, Went DEF Course, Places
<1>19. CASE ClearDefault(p) \/ AddUndo(p) \/ RenameBack(p) \/ Repoint(p) \/ SetDefault(p) \/ Finish(p)
            \/ Fails(p) \/ Kill(p)
  BY <1>2, <1>19 DEF ClearDefault, AddUndo, RenameBack, Repoint, SetDefault, Finish, Fails, Kill, Stop
<1>20. CASE RenameCheck(p)
  <2>0. r.pc = "check" /\ r.cmd = "rename" /\ r.name \in Names /\ r.to \in Names /\ r.to # r.name
    BY <1>0, <1>20, Known DEF RenameCheck, At
  <2>1. CASE End(p)
    BY <1>2, <2>1
  <2>2. CASE ~End(p)
    <3>1. PICK m \in Metas : proc' = [proc EXCEPT ![p].meta = m, ![p].pc = "busy"]
      BY <1>0, <1>20, <2>0, <2>2 DEF RenameCheck
    <3>2. QED
      BY <1>0, <2>0, <3>1, Known DEF TypeOK, Others, Processes, Places, Course
  <2>3. QED
    BY <2>1, <2>2
<1>21. CASE RenameProbe(p)
  <2>1. At(p, "busy") /\ (End(p) \/ Go(p, "move"))
    BY <1>21 DEF RenameProbe
  <2>2. QED
    BY <1>0, <1>2, <2>1, Known, Went DEF Course, Places, At, Is
<1>22. CASE RenameMove(p)
  <2>0. /\ r.pc = "move" /\ r.cmd = "rename" /\ r.name \in Names /\ r.to \in Names /\ r.to # r.name
        /\ r.meta \in Metas /\ r.cmd \in Kinds
    BY <1>0, <1>22, Known DEF RenameMove, At
  <2>1. CASE End(p)
    BY <1>2, <2>1
  <2>2. CASE ~End(p)
    <3> DEFINE v == [r.meta EXCEPT !.name = r.to]
               w == [path |-> v.name, file |-> "meta", val |-> v, then |-> "repoint", else |-> "back"]
    <3>1. proc' = Writing(p, v.name, "meta", v, "repoint", "back")
      BY <1>22, <2>2 DEF RenameMove, WriteMeta
    <3>2. v \in Metas /\ v.name = r.to /\ v.state = r.meta.state
      BY <2>0 DEF Metas, States
    <3>3. w \in Writes
      BY <3>2 DEF Writes, Places, Metas
    <3>4. /\ Others(p) /\ proc' \in [Procs -> Processes] /\ proc'[p].pc = "lock"
          /\ proc'[p].w = w /\ proc'[p].meta = r.meta /\ proc'[p].to = r.to
          /\ proc'[p].cmd = r.cmd /\ proc'[p].name = r.name
      BY <3>1, <3>3, Wrote
    <3> HIDE DEF v
    <3>5. Pending(proc'[p])
      BY <2>0, <3>2, <3>3, <3>4 DEF Pending
    <3>6. QED
      BY <2>0, <3>4, <3>5 DEF Course, InWrite
  <2>3. QED
    BY <2>1, <2>2
<1>23. CASE SwitchCheck(p)
  <2>1. At(p, "exists") /\ (End(p) \/ Go(p, "set"))
    BY <1>23 DEF SwitchCheck
  <2>2. QED
    BY <1>0, <1>2, <2>1, Known, Went DEF Course, Places, At, Is
<1>24. CASE Lock(p)
  <2>0. r.pc = "lock" /\ Pending(r) /\ r.name \in Names /\ r.cmd \in Kinds
        /\ (r.cmd = "rename" => r.to \in Names /\ r.to # r.name)
    BY <1>0, <1>24, Known DEF Lock, At, InWrite
  <2>1. CASE proc' = [proc EXCEPT ![p].pc = "put"]
    <3>1. /\ Others(p) /\ proc' \in [Procs -> Processes] /\ proc'[p].pc = "put"
          /\ proc'[p].w = r.w /\ proc'[p].meta = r.meta /\ proc'[p].to = r.to
          /\ proc'[p].cmd = r.cmd /\ proc'[p].name = r.name /\ proc'[p].key = r.key
      BY <1>0, <2>1 DEF TypeOK, Others, Processes, Places
    <3>2. Pending(proc'[p])
      BY <2>0, <3>1 DEF Pending
    <3>3. QED
      BY <2>0, <3>1, <3>2 DEF Course, InWrite
  <2>2. CASE Go(p, r.w.else)
    <3>1. r.w.else \in Places /\ r.cmd \in Kinds
      BY <2>0 DEF Pending, Places
    <3>2. QED
      BY <2>0, <2>2, <3>1, Went DEF Course, Pending, Logins, Entries, Clients
  <2>3. QED
    BY <1>24, <2>1, <2>2 DEF Lock
<1>25. CASE Put(p) \/ PutFails(p)
  <2>0. r.pc = "put" /\ Pending(r) /\ r.name \in Names /\ r.cmd \in Kinds
        /\ (r.cmd = "rename" => r.to \in Names /\ r.to # r.name)
    BY <1>0, <1>25, Known DEF Put, PutFails, At, InWrite
  <2>1. r.w.else \in Places /\ r.w.then \in Places
    BY <2>0 DEF Pending, Places
  <2>2. CASE Go(p, r.w.else)
    BY <2>0, <2>2, <2>1, Went DEF Course, Pending, Logins, Entries, Clients
  <2>3. CASE Go(p, r.w.then)
    BY <2>0, <2>3, <2>1, Went DEF Course, Pending, Logins, Entries, Clients
  <2>4. QED
    BY <1>25, <2>2, <2>3 DEF Put, PutFails
<1>26. QED
  BY <1>3, <1>4, <1>5, <1>6, <1>8, <1>9, <1>10, <1>11, <1>12, <1>13, <1>14, <1>15, <1>16, <1>17,
     <1>18, <1>19, <1>20, <1>21, <1>22, <1>23, <1>24, <1>25
     DEF Step, LoginStep, ClientStep, LogoutStep, RenameStep, SwitchStep, FileStep

LEMMA UnlockedOK ==
  ASSUME NEW d \in [Names -> Dirs], NEW p
  PROVE  /\ Unlocked(d, p) \in [Names -> Dirs]
         /\ \A n \in Names : /\ Unlocked(d, p)[n].there = d[n].there
                             /\ Unlocked(d, p)[n].meta = d[n].meta
                             /\ Unlocked(d, p)[n].key = d[n].key
                             /\ d[n] = NoDir /\ p \in Procs => Unlocked(d, p)[n] = NoDir
<1>1. \A n \in Names : d[n] \in Dirs /\ [d[n] EXCEPT !.lock = "free"] \in Dirs
  BY DEF Dirs
<1>2. \A n \in Names : Unlocked(d, p)[n] = IF d[n].lock = p THEN [d[n] EXCEPT !.lock = "free"] ELSE d[n]
  BY DEF Unlocked
<1>3. Unlocked(d, p) \in [Names -> Dirs]
  BY <1>1 DEF Unlocked
<1>4. \A n \in Names : /\ Unlocked(d, p)[n].there = d[n].there
                       /\ Unlocked(d, p)[n].meta = d[n].meta
                       /\ Unlocked(d, p)[n].key = d[n].key
  BY <1>1, <1>2 DEF Dirs
<1>5. \A n \in Names : d[n] = NoDir /\ p \in Procs => Unlocked(d, p)[n] = NoDir
  <2>1. NoDir.lock = "none"
    BY DEF NoDir
  <2>2. QED
    BY <1>2, <2>1, SlotsAssumption
<1>6. QED
  BY <1>3, <1>4, <1>5

LEMMA DirStep ==
  ASSUME TypeOK, NEW p \in Procs, Step(p)
  PROVE  dir' \in [Names -> Dirs]
<1> DEFINE r == proc[p]
<1>0. /\ Course(r) /\ r \in Processes /\ \A n \in Names : dir[n] \in Dirs
      /\ dir \in [Names -> Dirs]
  BY DEF TypeOK
<1>1. NoDir \in Dirs /\ EmptyDir \in Dirs
  BY DEF NoDir, EmptyDir, Dirs, NoKey
<1>2. CASE AddMkdir(p)
  BY <1>0, <1>2 DEF AddMkdir, Dirs
<1>3. CASE AddUndo(p)
  BY <1>0, <1>1, <1>3 DEF AddUndo
<1>4. CASE Delete(p) \/ Reset(p)
  BY <1>0, <1>4 DEF Delete, Reset, Dirs, NoKey
<1>5. CASE Purge(p)
  BY <1>0, <1>1, <1>5 DEF Purge
<1>6. CASE RenameProbe(p)
  BY <1>0, <1>6 DEF RenameProbe, Dirs
<1>7. CASE RenameMove(p) \/ RenameBack(p)
  <2>1. \A m, n \in Names : Moved(m, n) \in [Names -> Dirs]
    BY <1>0, <1>1 DEF Moved
  <2>2. r.name \in Names /\ r.to \in Names
    BY <1>0, <1>7, Known DEF RenameMove, RenameBack, At
  <2>3. QED
    BY <1>0, <1>7, <2>1, <2>2 DEF RenameMove, RenameBack
<1>8. CASE Lock(p)
  <2>1. [dir EXCEPT ![r.w.path].there = TRUE, ![r.w.path].lock = p] \in [Names -> Dirs]
    BY <1>0 DEF Dirs
  <2>2. QED
    BY <1>0, <1>8, <2>1 DEF Lock
<1>9. CASE Put(p) \/ PutFails(p)
  <2>1. CASE dir' = Unlocked(dir, p)
    BY <1>0, <2>1, UnlockedOK
  <2>2. r.w \in Writes /\ r.pc = "put"
    BY <1>0, <1>9, Known DEF Put, PutFails, At, InWrite, Pending
  <2>3. CASE r.w.file = "meta" /\ dir' = Unlocked([dir EXCEPT ![r.w.path].meta = r.w.val], p)
    <3>1. r.w.val \in Metas
      BY <2>2, <2>3 DEF Writes
    <3>2. [dir EXCEPT ![r.w.path].meta = r.w.val] \in [Names -> Dirs]
      BY <1>0, <3>1 DEF Dirs
    <3>3. QED
      BY <2>3, <3>2, UnlockedOK
  <2>4. CASE r.w.file # "meta" /\ dir' = Unlocked([dir EXCEPT ![r.w.path].key = r.w.val], p)
    <3>1. r.w.val \in Nat
      BY <2>2, <2>4 DEF Writes
    <3>2. [dir EXCEPT ![r.w.path].key = r.w.val] \in [Names -> Dirs]
      BY <1>0, <3>1 DEF Dirs
    <3>3. QED
      BY <2>4, <3>2, UnlockedOK
  <2>5. QED
    BY <1>9, <2>1, <2>3, <2>4 DEF Put, PutFails
<1>10. CASE Fails(p) \/ Kill(p)
  <2>1. ASSUME NEW n \in Names, NEW d \in Remains(dir[n]) PROVE d \in Dirs
    <3>1. PICK m \in {dir[n].meta, NoMeta}, k \in {dir[n].key, NoKey}, l \in {dir[n].lock, "none"} :
            d = [there |-> dir[n].there, meta |-> m, key |-> k, lock |-> l]
      BY DEF Remains
    <3>2. m \in Metas \cup {NoMeta} /\ k \in Nat /\ l \in {"none", "free"} \cup Procs
          /\ dir[n].there \in BOOLEAN
      BY <1>0, <3>1 DEF Dirs, NoKey
    <3>3. QED
      BY <3>1, <3>2 DEF Dirs
  <2>2. CASE dir' = Unlocked(dir, p)
    BY <1>0, <2>2, UnlockedOK
  <2>3. CASE ~(dir' = Unlocked(dir, p))
    <3>1. /\ Removing(p)
          /\ \E d \in Remains(dir[Removed(p)]) : dir' = [dir EXCEPT ![Removed(p)] = d]
      BY <1>10, <2>3 DEF Fails, Kill, Stop
    <3>2. Removed(p) \in Names
      BY <1>0, <3>1, Known DEF Removing, Removed, At, Metas
    <3>3. QED
      BY <1>0, <2>1, <3>1, <3>2
  <2>4. QED
    BY <2>2, <2>3
<1>11. CASE \/ Start(p) \/ LoginRead(p) \/ AddStat(p) \/ LoginLoad(p) \/ Authorize(p)
            \/ PersistAuthed(p) \/ Load(p) \/ Connect(p) \/ Probe(p) \/ Revoke(p) \/ Reread(p)
            \/ ClearDefault(p) \/ RenameCheck(p) \/ Repoint(p) \/ SwitchCheck(p) \/ SetDefault(p)
            \/ Finish(p)
  BY <1>0, <1>11 DEF Start, LoginRead, AddStat, LoginLoad, Authorize, PersistAuthed, Load, Connect,
     Probe, Revoke, Reread, ClearDefault, RenameCheck, Repoint, SwitchCheck, SetDefault, Finish, disk
<1>12. QED
  BY <1>2, <1>3, <1>4, <1>5, <1>6, <1>7, <1>8, <1>9, <1>10, <1>11
     DEF Step, LoginStep, ClientStep, LogoutStep, RenameStep, SwitchStep, FileStep

LEMMA OtherVars ==
  ASSUME TypeOK, NEW p \in Procs, Step(p)
  PROVE  /\ default' \in Slot /\ good' \subseteq Nat /\ unsure' \subseteq Nat /\ made' \in Nat
         /\ count' \in [commands : Nat, mishaps : Nat]
         /\ killed' \subseteq Kinds /\ failed' \subseteq Places
         /\ raced' \subseteq {"login", "removal", "other"}
         /\ made <= made' /\ killed \subseteq killed' /\ failed \subseteq failed'
         /\ raced \subseteq raced'
<1> DEFINE r == proc[p]
<1>0. Course(r) /\ r \in Processes
  BY DEF TypeOK
<1>1. default' \in Slot
  <2>1. SetDefault(p) => r.name \in Names
    BY <1>0, Known DEF SetDefault, At
  <2>2. Repoint(p) => r.to \in Names
    BY <1>0, Known DEF Repoint, At
  <2>3. QED
    BY <2>1, <2>2 DEF TypeOK, Slot, Step, LoginStep, ClientStep, LogoutStep, RenameStep, SwitchStep,
       FileStep, Start, LoginRead, AddStat, AddMkdir, AddUndo, LoginLoad, Authorize, PersistAuthed,
       Load, Connect, Probe, Revoke, Delete, Reread, Reset, Purge, ClearDefault, RenameCheck,
       RenameProbe, RenameMove, RenameBack, Repoint, SwitchCheck, SetDefault, Lock, Put, PutFails,
       Finish, Fails, Kill, disk
<1>2. made' \in Nat /\ made <= made'
  <2>1. Connect(p) => made' \in Nat /\ made <= made'
    <3>1. SUFFICES ASSUME Connect(p) PROVE made' \in Nat /\ made <= made'
      OBVIOUS
    <3>2. r.meta.name \in Names
      BY <1>0, <3>1, Known DEF Connect, At, Metas
    <3>3. dir[r.meta.name].key \in Nat
      BY <3>2 DEF TypeOK, Dirs
    <3> DEFINE k == IF dir[r.meta.name].key # NoKey THEN dir[r.meta.name].key ELSE made + 1
    <3>4. k \in Nat /\ made \in Nat
      BY <3>3 DEF TypeOK
    <3>5. made' = made \/ made' = (IF k > made THEN k ELSE made)
      BY <3>1 DEF Connect
    <3> HIDE DEF k
    <3>6. QED
      BY <3>4, <3>5
  <2>2. ~Connect(p) => made' = made
    BY DEF Step, LoginStep, ClientStep, LogoutStep, RenameStep, SwitchStep,
       FileStep, Start, LoginRead, AddStat, AddMkdir, AddUndo, LoginLoad, Authorize, PersistAuthed,
       Load, Probe, Revoke, Delete, Reread, Reset, Purge, ClearDefault, RenameCheck,
       RenameProbe, RenameMove, RenameBack, Repoint, SwitchCheck, SetDefault, Lock, Put, PutFails,
       Finish, Fails, Kill, server
  <2>3. QED
    BY <2>1, <2>2 DEF TypeOK
<1>3. good' \subseteq Nat /\ unsure' \subseteq Nat
  <2>1. r.key \in Nat
    BY <1>0 DEF Processes
  <2>2. good' \subseteq Nat
    BY <2>1 DEF TypeOK, Step, LoginStep, ClientStep, LogoutStep, RenameStep, SwitchStep,
       FileStep, Start, LoginRead, AddStat, AddMkdir, AddUndo, LoginLoad, Authorize, PersistAuthed,
       Load, Connect, Probe, Revoke, Delete, Reread, Reset, Purge, ClearDefault, RenameCheck,
       RenameProbe, RenameMove, RenameBack, Repoint, SwitchCheck, SetDefault, Lock, Put, PutFails,
       Finish, Fails, Kill, server
  <2>3. unsure' \subseteq Nat
    BY <2>1 DEF TypeOK, Step, LoginStep, ClientStep, LogoutStep, RenameStep, SwitchStep,
       FileStep, Start, LoginRead, AddStat, AddMkdir, AddUndo, LoginLoad, Authorize, PersistAuthed,
       Load, Connect, Probe, Revoke, Delete, Reread, Reset, Purge, ClearDefault, RenameCheck,
       RenameProbe, RenameMove, RenameBack, Repoint, SwitchCheck, SetDefault, Lock, Put, PutFails,
       Finish, Fails, Kill, Leave, server
  <2>4. QED
    BY <2>2, <2>3
<1>4. count' \in [commands : Nat, mishaps : Nat]
  <2>1. \/ count' = count
        \/ count' = [count EXCEPT !.commands = @ + 1]
        \/ count' = [count EXCEPT !.mishaps = @ + 1]
    BY DEF Step, LoginStep, ClientStep, LogoutStep, RenameStep, SwitchStep,
       FileStep, Start, LoginRead, AddStat, AddMkdir, AddUndo, LoginLoad, Authorize, PersistAuthed,
       Load, Connect, Probe, Revoke, Delete, Reread, Reset, Purge, ClearDefault, RenameCheck,
       RenameProbe, RenameMove, RenameBack, Repoint, SwitchCheck, SetDefault, Lock, Put, PutFails,
       Finish, Fails, Kill, history, Fault, NoLine, Mishap
  <2>2. count \in [commands : Nat, mishaps : Nat]
    BY DEF TypeOK
  <2>3. QED
    BY <2>1, <2>2
<1>5. killed' \subseteq Kinds /\ killed \subseteq killed'
  <2>1. Kill(p) => r.cmd \in Kinds
    BY <1>0, Known DEF Kill, Running
  <2>2. QED
    BY <2>1 DEF TypeOK, Step, LoginStep, ClientStep, LogoutStep, RenameStep, SwitchStep,
       FileStep, Start, LoginRead, AddStat, AddMkdir, AddUndo, LoginLoad, Authorize, PersistAuthed,
       Load, Connect, Probe, Revoke, Delete, Reread, Reset, Purge, ClearDefault, RenameCheck,
       RenameProbe, RenameMove, RenameBack, Repoint, SwitchCheck, SetDefault, Lock, Put, PutFails,
       Finish, Fails, Kill, history
<1>6. raced' \subseteq {"login", "removal", "other"} /\ raced \subseteq raced'
  <2>1. \A c : Class(c) \in {"login", "removal", "other"}
    BY DEF Class
  <2>2. CASE Start(p)
    BY <2>1, <2>2 DEF Start, TypeOK
  <2>3. QED
    BY <2>2 DEF TypeOK, Step, LoginStep, ClientStep, LogoutStep, RenameStep, SwitchStep,
       FileStep, LoginRead, AddStat, AddMkdir, AddUndo, LoginLoad, Authorize, PersistAuthed,
       Load, Connect, Probe, Revoke, Delete, Reread, Reset, Purge, ClearDefault, RenameCheck,
       RenameProbe, RenameMove, RenameBack, Repoint, SwitchCheck, SetDefault, Lock, Put, PutFails,
       Finish, Fails, Kill, history
<1>7. failed' \subseteq Places /\ failed \subseteq failed'
  <2>1. r.pc \in Places
    BY <1>0 DEF Processes
  <2>2. QED
    BY <2>1 DEF TypeOK, Step, LoginStep, ClientStep, LogoutStep, RenameStep, SwitchStep,
       FileStep, Start, LoginRead, AddStat, AddMkdir, AddUndo, LoginLoad, Authorize, PersistAuthed,
       Load, Connect, Probe, Revoke, Delete, Reread, Reset, Purge, ClearDefault, RenameCheck,
       RenameProbe, RenameMove, RenameBack, Repoint, SwitchCheck, SetDefault, Lock, Put, PutFails,
       Finish, Fails, Kill, history, Fault, NoLine
<1>8. QED
  BY <1>1, <1>2, <1>3, <1>4, <1>5, <1>6, <1>7

\* The slots, the processes and the sessions are type correct.
THEOREM SlotsTypeCorrect == Spec => []TypeOK
<1>1. Init => TypeOK
  <2>1. SUFFICES ASSUME Init PROVE TypeOK
    OBVIOUS
  <2>2. NoDir \in Dirs /\ Idle \in Processes /\ Course(Idle)
    BY DEF NoDir, NoKey, Dirs, Idle, Processes, Places, Slot, Course
  <2>3. proc \in [Procs -> Processes] /\ \A p \in Procs : Course(proc[p])
    BY <2>1, <2>2 DEF Init
  <2>4. dir \in [Names -> Dirs] /\ made \in Nat /\ default \in Slot
    <3>1. \A n \in Names : [EmptyDir EXCEPT !.meta = Meta(n, "AUTHED"), !.key = 1, !.lock = "free"] \in Dirs
      BY DEF EmptyDir, NoDir, Dirs, Metas, Meta, States
    <3>2. QED
      <4>1. CASE dir = [n \in Names |-> NoDir] /\ made = 0 /\ default = NoName
        BY <2>2, <4>1 DEF Slot
      <4>2. ASSUME NEW n \in Names,
                   dir = [d \in Names |-> IF d = n THEN [EmptyDir EXCEPT !.meta = Meta(n, "AUTHED"),
                                                       !.key = 1, !.lock = "free"]
                                              ELSE NoDir],
                   made = 1, default \in {n, NoName}
            PROVE  dir \in [Names -> Dirs] /\ made \in Nat /\ default \in Slot
        BY <2>2, <3>1, <4>2 DEF Slot
      <4>3. QED
        BY <2>1, <4>1, <4>2 DEF Init
  <2>5. /\ good \subseteq Nat /\ unsure \subseteq Nat
        /\ killed \subseteq Kinds /\ failed \subseteq Places
        /\ raced \subseteq {"login", "removal", "other"} /\ count \in [commands : Nat, mishaps : Nat]
    <3>1. good = 1 .. made /\ unsure = {} /\ killed = {} /\ failed = {} /\ raced = {}
          /\ count = [commands |-> 0, mishaps |-> 0]
      BY <2>1 DEF Init
    <3>2. QED
      BY <2>4, <3>1
  <2>6. QED
    BY <2>3, <2>4, <2>5 DEF TypeOK
<1>2. TypeOK /\ [Next]_vars => TypeOK'
  <2>1. SUFFICES ASSUME TypeOK, [Next]_vars PROVE TypeOK'
    OBVIOUS
  <2>2. CASE UNCHANGED vars
    BY <2>1, <2>2 DEF TypeOK, vars
  <2>3. CASE RevokedElsewhere
    BY <2>1, <2>3 DEF TypeOK, RevokedElsewhere, disk, history
  <2>4. ASSUME NEW p \in Procs, Step(p) PROVE TypeOK'
    <3>1. \A q \in Procs : Course(proc'[q])
      BY <2>1, <2>4, ProcStep DEF TypeOK, Others
    <3>2. QED
      BY <2>1, <2>4, <3>1, ProcStep, DirStep, OtherVars DEF TypeOK
  <2>5. QED
    BY <2>1, <2>2, <2>3, <2>4 DEF Next, Step
<1>3. QED
  BY <1>1, <1>2, PTL DEF Spec

\* A command keeps its arguments until it ends.
LEMMA SameCommand ==
  ASSUME TypeOK, NEW p \in Procs, Step(p), ~Start(p)
  PROVE  /\ proc[p].pc # "idle"
         /\ \/ proc'[p] = Idle
            \/ /\ proc'[p].cmd = proc[p].cmd /\ proc'[p].name = proc[p].name
               /\ proc'[p].to = proc[p].to /\ proc'[p].def = proc[p].def
<1> DEFINE r == proc[p]
           s == proc'[p]
           Same == s.cmd = r.cmd /\ s.name = r.name /\ s.to = r.to /\ s.def = r.def
<1>1. r \in Processes /\ proc \in [Procs -> Processes] /\ Course(r)
  BY DEF TypeOK
<1>2. r.pc # "idle"
  BY DEF Step, LoginStep, ClientStep, LogoutStep, RenameStep, SwitchStep, FileStep, At,
     LoginRead, AddStat, AddMkdir, AddUndo, LoginLoad, Authorize, PersistAuthed,
     Load, Connect, Probe, Revoke, Delete, Reread, Reset, Purge, ClearDefault, RenameCheck,
     RenameProbe, RenameMove, RenameBack, Repoint, SwitchCheck, SetDefault, Lock, Put, PutFails,
     Finish, Fails, Kill, Running
<1> SUFFICES s = Idle \/ Same
  BY <1>2
<1>3. ASSUME NEW pc, Go(p, pc) PROVE Same
  BY <1>1, <1>3 DEF Go, Processes
<1>4. ASSUME End(p) PROVE s = Idle
  BY <1>4, Ended
<1>5. ASSUME NEW m, NEW pc, proc' = [proc EXCEPT ![p].meta = m, ![p].pc = pc] PROVE Same
  BY <1>1, <1>5 DEF Processes
<1>6. ASSUME NEW a, NEW b, NEW c, NEW d, NEW e, proc' = Writing(p, a, b, c, d, e) PROVE Same
  BY <1>1, <1>6 DEF Writing, Processes
<1>7. ASSUME NEW m, NEW d, NEW e, proc' = WriteMeta(p, m, d, e) PROVE Same
  BY <1>6, <1>7 DEF WriteMeta
<1>8. CASE Connect(p)
  BY <1>1, <1>4, <1>8 DEF Connect, Writing, Processes
<1>9. CASE Lock(p)
  <2>1. CASE proc' = [proc EXCEPT ![p].pc = "put"]
    BY <1>1, <2>1 DEF Processes
  <2>2. QED
    BY <1>3, <1>9, <2>1 DEF Lock
<1> HIDE DEF Same
<1>10. CASE LoginStep(p)
  BY <1>3, <1>4, <1>5, <1>7, <1>10 DEF LoginStep, LoginRead, AddStat, AddMkdir, AddUndo, LoginLoad,
     Authorize, PersistAuthed
<1>11. CASE Load(p)
  BY <1>4, <1>5, <1>11 DEF Load
<1>12. CASE Probe(p)
  BY <1>3, <1>4, <1>7, <1>12 DEF Probe, Expire
<1>13. CASE LogoutStep(p)
  BY <1>3, <1>4, <1>7, <1>13 DEF LogoutStep, Revoke, Delete, Reread, Reset, Purge, ClearDefault
<1>14. CASE RenameStep(p)
  BY <1>3, <1>4, <1>5, <1>7, <1>14 DEF RenameStep, RenameCheck, RenameProbe, RenameMove, RenameBack,
     Repoint
<1>15. CASE SwitchStep(p) \/ Put(p) \/ PutFails(p) \/ Finish(p) \/ Fails(p) \/ Kill(p)
  BY <1>3, <1>4, <1>15 DEF SwitchStep, SwitchCheck, SetDefault, Put, PutFails, Finish,
     Fails, Kill, Stop
<1>16. QED
  BY <1>8, <1>9, <1>10, <1>11, <1>12, <1>13, <1>14, <1>15 DEF Step, ClientStep, FileStep

LEMMA NotedHolds == Spec => []Noted
<1>1. Init => Noted
  <2>1. Idle.pc = "idle"
    BY DEF Idle
  <2>2. QED
    BY <2>1 DEF Init, Noted, Running
<1>2. TypeOK /\ Noted /\ [Next]_vars => Noted'
  <2>1. SUFFICES ASSUME TypeOK, Noted, [Next]_vars PROVE Noted'
    OBVIOUS
  <2>2. CASE UNCHANGED vars
    BY <2>1, <2>2 DEF Noted, Running, vars
  <2>3. CASE RevokedElsewhere
    BY <2>1, <2>3 DEF Noted, Running, RevokedElsewhere, history
  <2>4. ASSUME NEW p \in Procs, Step(p) PROVE Noted'
    <3>1. Others(p) /\ raced \subseteq raced'
      BY <2>1, <2>4, ProcStep, OtherVars
    <3>2. CASE Start(p)
      <4>1. PICK c \in Kinds : proc'[p].cmd = c /\ raced' = IF Quiet THEN raced
                   ELSE raced \cup {Class(c)} \cup {Class(proc[q].cmd) : q \in Running}
        <5>1. PICK c \in Kinds, n \in Names, t \in Slot :
                /\ proc' = [proc EXCEPT ![p] =
                     [Idle EXCEPT !.cmd = c, !.name = n, !.to = t, !.def = default, !.pc = First(c)]]
                /\ raced' = IF Quiet THEN raced
                   ELSE raced \cup {Class(c)} \cup {Class(proc[q].cmd) : q \in Running}
          BY <3>2 DEF Start, Slot
        <5>2. proc'[p].cmd = c
          BY <2>1, <5>1 DEF TypeOK, Idle
        <5>3. QED
          BY <5>1, <5>2
      <4>2. \A q \in Procs \ {p} : q \in Running' => q \in Running
        BY <3>1 DEF Others, Running
      <4>3. \A q \in Running' : q # p => Class(proc'[q].cmd) \in raced' /\ Class(proc'[p].cmd) \in raced'
        BY <3>1, <4>1, <4>2 DEF Others, Running, Quiet
      <4>4. \A q1, q2 \in Running' : q1 # q2 /\ q1 # p /\ q2 # p => Class(proc'[q1].cmd) \in raced'
        BY <2>1, <3>1, <4>2 DEF Others, Running, Noted
      <4>5. QED
        BY <4>3, <4>4 DEF Noted
    <3>3. CASE ~Start(p)
      <4>1. \A q \in Running' : q \in Running /\ proc'[q].cmd = proc[q].cmd
        BY <2>1, <2>4, <3>1, <3>3, SameCommand DEF Others, Running, Idle
      <4>2. QED
        BY <2>1, <3>1, <4>1 DEF Noted
    <3>4. QED
      BY <3>2, <3>3
  <2>5. QED
    BY <2>1, <2>2, <2>3, <2>4 DEF Next, Step
<1>3. QED
  BY <1>1, <1>2, SlotsTypeCorrect, PTL DEF Spec

-----------------------------------------------------------------------------
(* What a step does to the directories                                     *)

\* As far as the properties go, a directory is what it was.
Alike(n) ==
  /\ dir'[n].there = dir[n].there /\ dir'[n].meta = dir[n].meta /\ dir'[n].key = dir[n].key
  /\ dir[n] = NoDir => dir'[n] = NoDir

LEMMA NoDirFields ==
  /\ NoDir.there = FALSE /\ NoDir.meta = NoMeta /\ NoDir.key = NoKey
  /\ EmptyDir.there = TRUE /\ EmptyDir.meta = NoMeta /\ EmptyDir.key = NoKey
BY DEF NoDir, EmptyDir

LEMMA UnlockedAlike ==
  ASSUME TypeOK, NEW p \in Procs, dir' = Unlocked(dir, p)
  PROVE  \A n \in Names : Alike(n)
BY UnlockedOK DEF TypeOK, Alike

LEMMA LockDone ==
  ASSUME TypeOK, NEW p \in Procs, Lock(p)
  PROVE  \/ /\ proc' = [proc EXCEPT ![p].pc = "put"]
            /\ dir'[proc[p].w.path].there /\ proc[p].w.path \in Names
            /\ \A n \in Names : dir'[n].meta = dir[n].meta /\ dir'[n].key = dir[n].key
            /\ \A n \in Names : dir[n].there => dir'[n].there
            /\ \A n \in Names \ {proc[p].w.path} : Alike(n)
         \/ Go(p, proc[p].w.else) /\ failed' # {} /\ \A n \in Names : Alike(n)
<1> DEFINE x == proc[p].w.path
<1>0. dir \in [Names -> Dirs] /\ Course(proc[p])
  BY DEF TypeOK
<1>1. x \in Names
  BY <1>0, Known DEF Lock, At, InWrite, Pending, Writes
<1>2. \A n \in Names : dir[n] \in Dirs
  BY <1>0
<1>3. CASE /\ dir' = [dir EXCEPT ![x].there = TRUE, ![x].lock = p]
           /\ proc' = [proc EXCEPT ![p].pc = "put"]
  <2>1. dir'[x] = [[dir[x] EXCEPT !.there = TRUE] EXCEPT !.lock = p]
    BY <1>0, <1>1, <1>2, <1>3 DEF Dirs
  <2>2. /\ dir'[x].there /\ dir'[x].meta = dir[x].meta /\ dir'[x].key = dir[x].key
        /\ \A n \in Names \ {x} : dir'[n] = dir[n]
    BY <1>0, <1>1, <1>2, <1>3, <2>1 DEF Dirs
  <2>3. QED
    BY <1>1, <1>3, <2>2 DEF Alike
<1>4. CASE Fault(p) /\ Go(p, proc[p].w.else) /\ UNCHANGED dir
  BY <1>4 DEF Fault, Alike
<1>5. QED
  BY <1>3, <1>4 DEF Lock

LEMMA PutDone ==
  ASSUME TypeOK, NEW p \in Procs, Put(p), dir[proc[p].w.path].there
  PROVE  LET w == proc[p].w IN
         /\ Go(p, w.then) /\ w.path \in Names
         /\ \A n \in Names : dir'[n].there = dir[n].there
         /\ w.file = "meta" => dir'[w.path].meta = w.val /\ dir'[w.path].key = dir[w.path].key
         /\ w.file = "key"  => dir'[w.path].key = w.val /\ dir'[w.path].meta = dir[w.path].meta
         /\ \A n \in Names \ {w.path} : Alike(n)
<1> DEFINE w == proc[p].w
<1>0. dir \in [Names -> Dirs] /\ Course(proc[p]) /\ \A n \in Names : dir[n] \in Dirs
  BY DEF TypeOK
<1>1. w.path \in Names /\ w \in Writes
  BY <1>0, Known DEF Put, At, InWrite, Pending, Writes
<1>2. Go(p, w.then)
  BY DEF Put
<1>3. CASE w.file = "meta"
  <2> DEFINE d == [dir EXCEPT ![w.path].meta = w.val]
  <2>1. dir' = Unlocked(d, p)
    BY <1>3 DEF Put
  <2>2. w.val \in Metas
    BY <1>1, <1>3 DEF Writes
  <2>3. d \in [Names -> Dirs]
    BY <1>0, <2>2 DEF Dirs
  <2>4. /\ d[w.path].there = dir[w.path].there /\ d[w.path].meta = w.val
        /\ d[w.path].key = dir[w.path].key /\ \A n \in Names \ {w.path} : d[n] = dir[n]
    BY <1>0, <1>1 DEF Dirs
  <2> HIDE DEF d
  <2>5. \A n \in Names : dir'[n].there = d[n].there /\ dir'[n].meta = d[n].meta /\ dir'[n].key = d[n].key
    BY <2>1, <2>3, UnlockedOK
  <2>6. \A n \in Names : d[n] = NoDir => dir'[n] = NoDir
    BY <2>1, <2>3, UnlockedOK
  <2>7. \A n \in Names \ {w.path} : Alike(n)
    BY <2>4, <2>5, <2>6 DEF Alike
  <2>8. \A n \in Names : dir'[n].there = dir[n].there
    BY <1>1, <2>4, <2>5
  <2>9. QED
    BY <1>1, <1>2, <1>3, <2>4, <2>5, <2>7, <2>8
<1>4. CASE w.file # "meta"
  <2> DEFINE d == [dir EXCEPT ![w.path].key = w.val]
  <2>1. dir' = Unlocked(d, p)
    BY <1>4 DEF Put
  <2>2. w.val \in Nat
    BY <1>1, <1>4 DEF Writes
  <2>3. d \in [Names -> Dirs]
    BY <1>0, <2>2 DEF Dirs
  <2>4. /\ d[w.path].there = dir[w.path].there /\ d[w.path].key = w.val
        /\ d[w.path].meta = dir[w.path].meta /\ \A n \in Names \ {w.path} : d[n] = dir[n]
    BY <1>0, <1>1 DEF Dirs
  <2> HIDE DEF d
  <2>5. \A n \in Names : dir'[n].there = d[n].there /\ dir'[n].meta = d[n].meta /\ dir'[n].key = d[n].key
    BY <2>1, <2>3, UnlockedOK
  <2>6. \A n \in Names : d[n] = NoDir => dir'[n] = NoDir
    BY <2>1, <2>3, UnlockedOK
  <2>7. \A n \in Names \ {w.path} : Alike(n)
    BY <2>4, <2>5, <2>6 DEF Alike
  <2>8. \A n \in Names : dir'[n].there = dir[n].there
    BY <1>1, <2>4, <2>5
  <2>9. QED
    BY <1>1, <1>2, <1>4, <2>4, <2>5, <2>7, <2>8
<1>5. QED
  BY <1>3, <1>4

LEMMA NotPut ==
  ASSUME TypeOK, NEW p \in Procs, PutFails(p) \/ (Put(p) /\ ~dir[proc[p].w.path].there)
  PROVE  /\ Go(p, proc[p].w.else) /\ \A n \in Names : Alike(n)
         /\ PutFails(p) => failed' # {}
<1>1. dir' = Unlocked(dir, p) /\ Go(p, proc[p].w.else)
  BY DEF Put, PutFails
<1>2. PutFails(p) => failed' # {}
  BY DEF PutFails, Fault
<1>3. QED
  BY <1>1, <1>2, UnlockedAlike

LEMMA MoveDone ==
  ASSUME TypeOK, NEW m \in Names, NEW n \in Names, m # n, dir' = Moved(m, n)
  PROVE  dir'[n] = dir[m] /\ dir'[m] = NoDir /\ \A x \in Names \ {m, n} : dir'[x] = dir[x]
BY DEF TypeOK, Moved

\* Between the write of one file and the next, a step only reads.
Reads(p) ==
  \/ LoginRead(p) \/ AddStat(p) \/ LoginLoad(p) \/ Authorize(p) \/ PersistAuthed(p)
  \/ Load(p) \/ Connect(p) \/ Probe(p) \/ Revoke(p) \/ Reread(p) \/ ClearDefault(p)
  \/ RenameCheck(p) \/ Repoint(p) \/ SwitchCheck(p) \/ SetDefault(p) \/ Finish(p)

LEMMA ReadsOnly ==
  ASSUME NEW p, Reads(p)
  PROVE  dir' = dir
BY DEF Reads, LoginRead, AddStat, LoginLoad, Authorize, PersistAuthed, Load, Connect,
     Probe, Revoke, Reread, ClearDefault, RenameCheck, Repoint, SwitchCheck, SetDefault, Finish, disk

\* A command that stops leaves the directories alone, or a removal half done.
Halved(p) ==
  LET x == Removed(p) IN
  /\ Removing(p) /\ x \in Names
  /\ dir'[x].there = dir[x].there
  /\ dir'[x].meta \in {dir[x].meta, NoMeta} /\ dir'[x].key \in {dir[x].key, NoKey}
  /\ dir[x] = NoDir => dir'[x] = NoDir
  /\ \A n \in Names \ {x} : Alike(n)

LEMMA StopDone ==
  ASSUME TypeOK, NEW p \in Procs, Fails(p) \/ Kill(p)
  PROVE  /\ End(p) /\ good' = good /\ made' = made /\ default' = default
         /\ Fails(p) => failed' = failed \cup {proc[p].pc} /\ unsure' = unsure
         /\ Kill(p) => killed' = killed \cup {proc[p].cmd} /\ Leave(p)
         /\ (\A n \in Names : Alike(n)) \/ Halved(p)
<1> DEFINE x == Removed(p)
<1>0. dir \in [Names -> Dirs] /\ Course(proc[p]) /\ \A n \in Names : dir[n] \in Dirs
  BY DEF TypeOK
<1>1. /\ Stop(p) /\ End(p) /\ good' = good /\ made' = made /\ default' = default
      /\ Fails(p) => failed' = failed \cup {proc[p].pc} /\ unsure' = unsure
      /\ Kill(p) => killed' = killed \cup {proc[p].cmd} /\ Leave(p)
  BY DEF Fails, Kill, Stop, Fault, server
<1>2. CASE dir' = Unlocked(dir, p)
  BY <1>1, <1>2, UnlockedAlike
<1>3. ASSUME Removing(p), NEW d \in Remains(dir[x]), dir' = [dir EXCEPT ![x] = d]
      PROVE  Halved(p)
  <2>1. x \in Names
    BY <1>0, <1>3, Known DEF Removing, Removed, At, Metas
  <2>2. dir'[x] = d /\ \A n \in Names \ {x} : dir'[n] = dir[n]
    BY <1>0, <1>3, <2>1
  <2>3. d.there = dir[x].there /\ d.meta \in {dir[x].meta, NoMeta} /\ d.key \in {dir[x].key, NoKey}
    BY <1>3 DEF Remains
  <2>4. dir[x] = NoDir => d = NoDir
    BY <1>3 DEF Remains, NoDir
  <2>5. \A n \in Names \ {x} : Alike(n)
    BY <2>2 DEF Alike
  <2>6. QED
    BY <1>3, <2>1, <2>2, <2>3, <2>4, <2>5 DEF Halved
<1>4. QED
  BY <1>1, <1>2, <1>3 DEF Stop

-----------------------------------------------------------------------------
(* Keys come from the counter                                              *)

\* The steps that change no directory.
LEMMA DirSame ==
  ASSUME NEW p, Start(p) \/ Reads(p)
  PROVE  dir' = dir
BY ReadsOnly DEF Start, disk

\* A step of p is one that only reads, or one of these.
LEMMA StepCases ==
  ASSUME NEW p, Step(p)
  PROVE  \/ Start(p) \/ Reads(p) \/ AddMkdir(p) \/ AddUndo(p) \/ Delete(p) \/ Reset(p) \/ Purge(p)
         \/ RenameProbe(p) \/ RenameMove(p) \/ RenameBack(p) \/ Lock(p) \/ Put(p) \/ PutFails(p)
         \/ Fails(p) \/ Kill(p)
BY DEF Step, Reads, LoginStep, ClientStep, LogoutStep, RenameStep, SwitchStep, FileStep

LEMMA KeySource ==
  ASSUME TypeOK, NEW p \in Procs, Step(p), NEW n \in Names
  PROVE  \/ dir'[n].key = NoKey
         \/ \E m \in Names : dir'[n].key = dir[m].key
         \/ proc[p].key # NoKey /\ dir'[n].key = proc[p].key
<1> DEFINE r == proc[p]
<1>0. /\ Course(r) /\ dir \in [Names -> Dirs] /\ \A m \in Names : dir[m] \in Dirs
  BY DEF TypeOK
<1>1. CASE Start(p) \/ Reads(p)
  BY <1>1, DirSame
<1>2. CASE AddMkdir(p)
  BY <1>0, <1>2 DEF AddMkdir, Dirs
<1>3. CASE AddUndo(p)
  BY <1>0, <1>3, NoDirFields DEF AddUndo
<1>4. CASE Delete(p) \/ Reset(p)
  BY <1>0, <1>4 DEF Delete, Reset, Dirs
<1>5. CASE Purge(p)
  BY <1>0, <1>5, NoDirFields DEF Purge
<1>6. CASE RenameProbe(p)
  BY <1>0, <1>6 DEF RenameProbe, Dirs
<1>7. CASE RenameMove(p) \/ RenameBack(p)
  <2>1. r.name \in Names /\ r.to \in Names /\ r.name # r.to
    BY <1>0, <1>7, Known DEF RenameMove, RenameBack, At
  <2>2. CASE dir' = dir
    BY <2>2
  <2>3. CASE dir' = Moved(r.name, r.to)
    BY <2>1, <2>3, MoveDone, NoDirFields
  <2>4. CASE dir' = Moved(r.to, r.name)
    BY <2>1, <2>4, MoveDone, NoDirFields
  <2>5. QED
    BY <1>7, <2>2, <2>3, <2>4 DEF RenameMove, RenameBack
<1>8. CASE Lock(p)
  <2>1. \A m \in Names : dir'[m].key = dir[m].key
    BY <1>8, LockDone DEF Alike
  <2>2. QED
    BY <2>1
<1>9. CASE Put(p) /\ dir[r.w.path].there
  <2>1. Pending(r)
    BY <1>0, <1>9, Known DEF Put, At, InWrite
  <2>2. r.w.file \in {"meta", "key"} /\ r.w.path \in Names
    BY <2>1 DEF Pending, Writes
  <2>3. CASE n # r.w.path
    BY <1>9, <2>3, PutDone DEF Alike
  <2>4. CASE n = r.w.path
    BY <1>9, <2>1, <2>2, <2>4, PutDone DEF Pending
  <2>5. QED
    BY <2>3, <2>4
<1>10. CASE PutFails(p) \/ (Put(p) /\ ~dir[r.w.path].there)
  BY <1>10, NotPut DEF Alike
<1>11. CASE Fails(p) \/ Kill(p)
  <2>1. CASE \A m \in Names : Alike(m)
    BY <2>1 DEF Alike
  <2>2. CASE Halved(p) /\ n = Removed(p)
    BY <2>2 DEF Halved
  <2>3. CASE Halved(p) /\ n # Removed(p)
    BY <2>3 DEF Halved, Alike
  <2>4. QED
    BY <1>11, <2>1, <2>2, <2>3, StopDone
<1>12. QED
  BY <1>1, <1>2, <1>3, <1>4, <1>5, <1>6, <1>7, <1>8, <1>9, <1>10, <1>11, StepCases

\* Only a connection takes a key.
LEMMA KeyKept ==
  ASSUME TypeOK, NEW p \in Procs, Step(p), ~Connect(p)
  PROVE  proc'[p].key \in {NoKey, proc[p].key}
<1> DEFINE r == proc[p]
           s == proc'[p]
           Same == s.key = r.key
<1>1. r \in Processes /\ proc \in [Procs -> Processes]
  BY DEF TypeOK
<1> SUFFICES s.key = NoKey \/ Same
  OBVIOUS
<1>2. Idle.key = NoKey
  BY DEF Idle
<1>3. ASSUME NEW pc, Go(p, pc) PROVE Same
  BY <1>1, <1>3 DEF Go, Processes
<1>4. ASSUME End(p) PROVE s.key = NoKey
  BY <1>2, <1>4, Ended
<1>5. ASSUME NEW m, NEW pc, proc' = [proc EXCEPT ![p].meta = m, ![p].pc = pc] PROVE Same
  BY <1>1, <1>5 DEF Processes
<1>6. ASSUME NEW a, NEW b, NEW c, NEW d, NEW e, proc' = Writing(p, a, b, c, d, e) PROVE Same
  BY <1>1, <1>6 DEF Writing, Processes
<1>7. ASSUME NEW m, NEW d, NEW e, proc' = WriteMeta(p, m, d, e) PROVE Same
  BY <1>6, <1>7 DEF WriteMeta
<1>8. CASE Start(p)
  <2>1. PICK c \in Kinds, n \in Names, t \in Slot :
          proc' = [proc EXCEPT ![p] =
               [Idle EXCEPT !.cmd = c, !.name = n, !.to = t, !.def = default, !.pc = First(c)]]
    BY <1>8 DEF Start, Slot
  <2>2. QED
    BY <1>1, <2>1 DEF Idle
<1>9. CASE Lock(p)
  <2>1. CASE proc' = [proc EXCEPT ![p].pc = "put"]
    BY <1>1, <2>1 DEF Processes
  <2>2. QED
    BY <1>3, <1>9, <2>1 DEF Lock
<1> HIDE DEF Same
<1>10. CASE LoginStep(p)
  BY <1>3, <1>4, <1>5, <1>7, <1>10 DEF LoginStep, LoginRead, AddStat, AddMkdir, AddUndo, LoginLoad,
     Authorize, PersistAuthed
<1>11. CASE Load(p)
  BY <1>4, <1>5, <1>11 DEF Load
<1>12. CASE Probe(p)
  BY <1>3, <1>4, <1>7, <1>12 DEF Probe, Expire
<1>13. CASE LogoutStep(p)
  BY <1>3, <1>4, <1>7, <1>13 DEF LogoutStep, Revoke, Delete, Reread, Reset, Purge, ClearDefault
<1>14. CASE RenameStep(p)
  BY <1>3, <1>4, <1>5, <1>7, <1>14 DEF RenameStep, RenameCheck, RenameProbe, RenameMove, RenameBack,
     Repoint
<1>15. CASE SwitchStep(p) \/ Put(p) \/ PutFails(p) \/ Finish(p) \/ Fails(p) \/ Kill(p)
  BY <1>3, <1>4, <1>15 DEF SwitchStep, SwitchCheck, SetDefault, Put, PutFails, Finish,
     Fails, Kill, Stop
<1>16. QED
  BY <1>8, <1>9, <1>10, <1>11, <1>12, <1>13, <1>14, <1>15 DEF Step, ClientStep, FileStep

\* What a connection connects with.
LEMMA Connected ==
  ASSUME TypeOK, NEW p \in Procs, Connect(p), ~End(p)
  PROVE  /\ proc[p].meta.name \in Names
         /\ proc'[p].key = IF dir[proc[p].meta.name].key # NoKey
                           THEN dir[proc[p].meta.name].key ELSE made + 1
         /\ proc'[p].key \in Nat /\ made' \in Nat /\ made <= made' /\ proc'[p].key <= made'
         /\ proc'[p].key # NoKey /\ good' = good
<1> DEFINE r == proc[p]
           n == r.meta.name
           k == IF dir[n].key # NoKey THEN dir[n].key ELSE made + 1
<1>1. r \in Processes /\ proc \in [Procs -> Processes] /\ Course(r)
  BY DEF TypeOK
<1>2. n \in Names
  BY <1>1, Known DEF Connect, At, Metas
<1>3. dir[n].key \in Nat /\ made \in Nat
  BY <1>2 DEF TypeOK, Dirs
<1>4. k \in Nat /\ k # NoKey
  BY <1>3 DEF NoKey
<1>5. proc'[p].key = k
  BY <1>1 DEF Connect, Writing, Processes
<1>6. made' = (IF k > made THEN k ELSE made) /\ good' = good
  BY DEF Connect
<1> HIDE DEF k
<1>7. made' \in Nat /\ made <= made' /\ k <= made'
  BY <1>3, <1>4, <1>6
<1>8. QED
  BY <1>2, <1>4, <1>5, <1>6, <1>7 DEF k

\* What the server honours, it honoured before or the login has just made so.
LEMMA GoodSource ==
  ASSUME TypeOK, NEW p \in Procs, Step(p)
  PROVE  good' \subseteq good \/ (Authorize(p) /\ good' \subseteq good \cup {proc[p].key})
BY DEF TypeOK, Step, LoginStep, ClientStep, LogoutStep, RenameStep, SwitchStep,
   FileStep, Start, LoginRead, AddStat, AddMkdir, AddUndo, LoginLoad, Authorize, PersistAuthed,
   Load, Connect, Probe, Revoke, Delete, Reread, Reset, Purge, ClearDefault, RenameCheck,
   RenameProbe, RenameMove, RenameBack, Repoint, SwitchCheck, SetDefault, Lock, Put, PutFails,
   Finish, Fails, Kill, server

LEMMA MintedHolds == Spec => []Minted
<1>1. Init => Minted
  <2>1. SUFFICES ASSUME Init PROVE Minted
    OBVIOUS
  <2>2. \A p \in Procs : proc[p].key = NoKey
    BY <2>1 DEF Init, Idle
  <2>3. made \in {0, 1} /\ \A n \in Names : dir[n].key \in {NoKey, made}
    <3>1. CASE dir = [n \in Names |-> NoDir] /\ made = 0
      BY <3>1, NoDirFields
    <3>2. ASSUME NEW n \in Names, made = 1,
                 dir = [d \in Names |-> IF d = n THEN [EmptyDir EXCEPT !.meta = Meta(n, "AUTHED"),
                                                       !.key = 1, !.lock = "free"]
                                              ELSE NoDir]
          PROVE  \A m \in Names : dir[m].key \in {NoKey, made}
      <4>1. [EmptyDir EXCEPT !.meta = Meta(n, "AUTHED"), !.key = 1, !.lock = "free"].key = 1
        BY DEF EmptyDir, NoDir
      <4>2. QED
        BY <3>2, <4>1, NoDirFields
    <3>3. QED
      BY <2>1, <3>1, <3>2 DEF Init
  <2>4. good \subseteq 1 .. made
    BY <2>1 DEF Init
  <2>5. QED
    BY <2>2, <2>3, <2>4 DEF Minted, NoKey
<1>2. TypeOK /\ Minted /\ [Next]_vars => Minted'
  <2>1. SUFFICES ASSUME TypeOK, Minted, [Next]_vars PROVE Minted'
    OBVIOUS
  <2>2. CASE UNCHANGED vars
    BY <2>1, <2>2 DEF Minted, vars
  <2>3. CASE RevokedElsewhere
    BY <2>1, <2>3 DEF Minted, RevokedElsewhere, disk, history
  <2>4. ASSUME NEW p \in Procs, Step(p) PROVE Minted'
    <3>0. /\ made \in Nat /\ made' \in Nat /\ made <= made' /\ good' \subseteq Nat
          /\ \A n \in Names : dir[n].key \in Nat /\ dir'[n].key \in Nat
          /\ \A q \in Procs : proc[q].key \in Nat /\ proc'[q].key \in Nat
      BY <2>1, <2>4, OtherVars, DirStep, ProcStep DEF TypeOK, Dirs, Processes
    <3>1. good' \subseteq 1 .. made'
      <4>1. good \subseteq 1 .. made'
        BY <2>1, <3>0 DEF Minted
      <4>2. Authorize(p) => proc[p].key \in 1 .. made'
        <5>1. SUFFICES ASSUME Authorize(p) PROVE proc[p].key \in 1 .. made'
          OBVIOUS
        <5>2. proc[p].key # NoKey /\ proc[p].key <= made
          BY <2>1, <5>1, Known DEF Authorize, At, TypeOK, Minted
        <5>3. QED
          BY <3>0, <5>2 DEF NoKey
      <4>3. QED
        BY <2>1, <2>4, <4>1, <4>2, GoodSource
    <3>2. \A n \in Names : dir'[n].key <= made
      <4>1. TAKE n \in Names
      <4>2. CASE dir'[n].key = NoKey
        BY <3>0, <4>2 DEF NoKey
      <4>3. CASE \E m \in Names : dir'[n].key = dir[m].key
        BY <2>1, <4>3 DEF Minted
      <4>4. CASE dir'[n].key = proc[p].key
        BY <2>1, <4>4 DEF Minted
      <4>5. QED
        BY <2>1, <2>4, <4>2, <4>3, <4>4, KeySource
    <3>3. \A q \in Procs : proc'[q].key <= made'
      <4>1. TAKE q \in Procs
      <4>2. CASE q # p
        BY <2>1, <2>4, <3>0, <4>2, ProcStep DEF Minted, Others
      <4>3. CASE q = p /\ Connect(p)
        <5>1. CASE End(p)
          BY <2>1, <3>0, <4>3, <5>1, Ended DEF Idle, NoKey
        <5>2. CASE ~End(p)
          BY <2>1, <4>3, <5>2, Connected
        <5>3. QED
          BY <5>1, <5>2
      <4>4. CASE q = p /\ ~Connect(p)
        BY <2>1, <2>4, <3>0, <4>4, KeyKept DEF Minted, NoKey
      <4>5. QED
        BY <4>2, <4>3, <4>4
    <3>4. QED
      BY <3>0, <3>1, <3>2, <3>3 DEF Minted
  <2>5. QED
    BY <2>1, <2>2, <2>3, <2>4 DEF Next, Step
<1>3. QED
  BY <1>1, <1>2, SlotsTypeCorrect, PTL DEF Spec

-----------------------------------------------------------------------------
(* Kept: what a command has loaded stays, whatever the others do           *)

LEMMA OrderlyBefore ==
  ASSUME TypeOK, NEW p \in Procs, Step(p), Orderly'
  PROVE  Orderly
<1>1. raced \subseteq raced' /\ killed \subseteq killed' /\ failed \subseteq failed'
  BY OtherVars
<1>2. QED
  BY <1>1 DEF Orderly, NoneRaced

\* A removal, and a login after a failure, runs alone.
LEMMA Alone ==
  ASSUME Noted, Orderly, NEW p \in Running, NEW q \in Running,
         \/ proc[p].cmd \in Removals \/ proc[q].cmd \in Removals
         \/ failed # {} /\ proc[p].cmd \in Logins
  PROVE  p = q
<1>1. /\ \A c \in Removals : Class(c) = "removal"
      /\ \A c \in Logins : Class(c) = "login"
  BY DEF Class, Removals, Logins
<1>2. QED
  BY <1>1 DEF Noted, Orderly, NoneRaced

\* A command that is not running claims nothing.
LEMMA IdleOwns ==
  ASSUME NEW r, NEW d, r = Idle
  PROVE  Owns(r, d) /\ (\A n : ~Moving(r, n)) /\ r.pc \notin {"undo", "back"}
BY DEF Owns, Loaded, InWrite, Moving, Idle

\* A command other than a removal keeps its claims on directories that keep
\* their account.json.
LEMMA OwnsKept ==
  ASSUME NEW r, Course(r), r.cmd \notin Removals, NEW d, NEW e, Owns(r, d),
         \A n \in Names : d[n].meta # NoMeta => e[n].meta # NoMeta,
         \A n \in Names : d[n].there => e[n].there
  PROVE  Owns(r, e)
<1>1. r.pc # "idle" => r.name \in Names
  BY Known
<1>2. InWrite(r) => r.w.path \in Names
  BY Known DEF Pending, Writes
<1>3. CASE r.pc = "idle"
  BY <1>3, Known, IdleOwns
<1>4. CASE r.pc # "idle"
  BY <1>1, <1>2, <1>4 DEF Owns, InWrite, Removals
<1>5. QED
  BY <1>3, <1>4

\* The steps that remove a directory or its account.json are those of a
\* removal, and the undoing of a login after a failure.
LEMMA Grows ==
  ASSUME TypeOK, NEW p \in Procs, Step(p), proc[p].pc # "undo", proc[p].cmd \notin Removals
  PROVE  \A n \in Names : /\ dir[n].meta # NoMeta => dir'[n].meta # NoMeta
                          /\ dir[n].there => dir'[n].there
<1> DEFINE r == proc[p]
           Good == \A n \in Names : /\ dir[n].meta # NoMeta => dir'[n].meta # NoMeta
                                    /\ dir[n].there => dir'[n].there
<1>0. /\ Course(r) /\ dir \in [Names -> Dirs] /\ \A m \in Names : dir[m] \in Dirs
  BY DEF TypeOK
<1>1. CASE Start(p) \/ Reads(p)
  BY <1>1, DirSame
<1>2. CASE AddMkdir(p)
  BY <1>0, <1>2 DEF AddMkdir, Dirs
<1>3. CASE Delete(p) \/ Reset(p)
  BY <1>0, <1>3 DEF Delete, Reset, Dirs
<1>4. CASE Purge(p)
  BY <1>4 DEF Purge, Is, Removals
<1>5. CASE RenameProbe(p) \/ RenameMove(p) \/ RenameBack(p)
  BY <1>0, <1>5, Known DEF RenameProbe, RenameMove, RenameBack, At, Removals
<1>6. CASE Lock(p)
  <2>1. \A n \in Names : dir'[n].meta = dir[n].meta /\ (dir[n].there => dir'[n].there)
    BY <1>6, LockDone DEF Alike
  <2>2. QED
    BY <2>1
<1>7. CASE Put(p) /\ dir[r.w.path].there
  <2>1. Pending(r)
    BY <1>0, <1>7, Known DEF Put, At, InWrite
  <2>2. r.w.file = "meta" => r.w.val # NoMeta
    BY <2>1 DEF Pending, Writes, Metas, NoMeta, States
  <2>3. r.w.file \in {"meta", "key"} /\ r.w.path \in Names
    BY <2>1 DEF Pending, Writes
  <2>4. QED
    BY <1>7, <2>2, <2>3, PutDone DEF Alike
<1>8. CASE PutFails(p) \/ (Put(p) /\ ~dir[r.w.path].there)
  BY <1>8, NotPut DEF Alike
<1>9. CASE Fails(p) \/ Kill(p)
  <2>1. ~Halved(p)
    BY DEF Halved, Removing, At, Is, Removals
  <2>2. QED
    BY <1>9, <2>1, StopDone DEF Alike
<1>10. CASE AddUndo(p)
  BY <1>10 DEF AddUndo, At
<1>11. QED
  BY <1>10, <1>1, <1>2, <1>3, <1>4, <1>5, <1>6, <1>7, <1>8, <1>9, StepCases

LEMMA OthersOwn ==
  ASSUME TypeOK, Noted, Kept, NEW p \in Procs, Step(p), Orderly',
         NEW q \in Procs, q # p
  PROVE  proc'[q] = proc[q] /\ Owns(proc'[q], dir')
<1>0. Orderly /\ proc'[q] = proc[q] /\ Course(proc[q]) /\ Owns(proc[q], dir)
  BY OrderlyBefore, ProcStep DEF Others, TypeOK, Kept
<1>1. CASE Start(p)
  BY <1>0, <1>1, DirSame
<1>2. CASE proc[q].pc = "idle"
  BY <1>0, <1>2, Known, IdleOwns
<1>3. CASE ~Start(p) /\ proc[q].pc # "idle"
  <2>1. p \in Running /\ q \in Running
    BY <1>3, SameCommand DEF Running
  <2>2. proc[p].cmd \notin Removals /\ proc[q].cmd \notin Removals
    BY <1>0, <2>1, Alone
  <2>3. proc[p].pc # "undo"
    <3>1. proc[p].pc = "undo" => failed # {} /\ proc[p].cmd \in Logins
      BY Known DEF Kept, TypeOK
    <3>2. QED
      BY <1>0, <2>1, <3>1, Alone
  <2>4. QED
    BY <1>0, <2>2, <2>3, Grows, OwnsKept
<1>4. QED
  BY <1>1, <1>2, <1>3

\* A name in an account.json is that of the directory, for a command that is
\* not alone with a rename.
LEMMA NameIs ==
  ASSUME TypeOK, Noted, Orderly, Kept, NEW p \in Running, ~InWrite(proc[p]), proc[p].pc # "back",
         NEW n \in Names, dir[n].meta # NoMeta
  PROVE  dir[n].meta.name = n
<1>1. SUFFICES ASSUME NEW q \in Procs, Moving(proc[q], n) PROVE FALSE
  BY DEF Kept
<1>2. q \in Running /\ proc[q].cmd \in Removals
  BY <1>1 DEF Moving, InWrite, Running, Removals
<1>3. q = p
  BY <1>2, Alone
<1>4. QED
  BY <1>1, <1>3 DEF Moving

LEMMA Unclaimed ==
  ASSUME NEW r, NEW d, Course(r),
         r.pc \in {"idle", "read", "stat", "mkdir", "added", "undo", "load", "end", "exists", "check"}
  PROVE  Owns(r, d)
BY Known DEF Owns, Loaded, InWrite, Idle, Logins, Clients

\* The write of a file goes through, and the command goes on.
LEMMA PutOwns ==
  ASSUME TypeOK, Kept, NEW p \in Procs, Put(p)
  PROVE  dir[proc[p].w.path].there /\ Owns(proc'[p], dir')
<1> DEFINE r == proc[p]
           s == proc'[p]
           w == r.w
<1>0. /\ Course(r) /\ Owns(r, dir) /\ r.pc = "put" /\ Pending(r) /\ r.name \in Names
      /\ (r.cmd = "rename" => r.to \in Names /\ r.to # r.name)
  BY Known DEF TypeOK, Kept, Put, At, InWrite
<1>1. dir[w.path].there
  BY <1>0 DEF Owns
<1>2. Go(p, w.then)
  BY <1>1, PutDone
<1>3. w.then \in Places /\ w.path \in Names /\ w.file \in {"meta", "key"}
  BY <1>0 DEF Pending, Places, Writes
<1>4. /\ s.pc = w.then /\ s.w = NoWrite /\ s.cmd = r.cmd /\ s.name = r.name /\ s.to = r.to
      /\ s.meta = r.meta /\ s.key = r.key
  BY <1>2, <1>3, Went
<1>5. Course(s)
  BY ProcStep DEF Step, FileStep
<1>6. CASE w.then = "added" \/ w.then = "end"
  BY <1>1, <1>4, <1>5, <1>6, Unclaimed
<1>7. CASE w.then \in {"authorize", "probe"}
  <2>1. r.cmd \in Entries \cup Clients /\ w.file = "key"
    BY <1>0, <1>7 DEF Pending
  <2>2. w.path = r.name /\ dir[r.name].meta # NoMeta /\ r.meta.name = r.name
    BY <1>0, <1>7, <2>1 DEF Owns, Loaded, InWrite, Adding, Entries, Clients
  <2>3. dir'[r.name].meta # NoMeta
    BY <1>1, <2>1, <2>2, PutDone
  <2>4. QED
    BY <1>1, <1>4, <1>7, <2>1, <2>2, <2>3 DEF Owns, InWrite, Entries, Clients
<1>8. CASE w.then = "gone"
  <2>1. r.cmd \in {"logout", "purge"} /\ w.file = "meta"
    BY <1>0, <1>8 DEF Pending
  <2>2. /\ w.path = r.name /\ r.meta.name = r.name
        /\ r.cmd = "purge" => dir[r.name].key = NoKey
    BY <1>0, <1>8, <2>1 DEF Owns, Loaded, InWrite, Adding
  <2>3. dir'[r.name].meta = w.val /\ dir'[r.name].key = dir[r.name].key
    BY <1>1, <2>1, <2>2, PutDone
  <2>4. w.val # NoMeta
    BY <1>0, <2>1 DEF Pending, Writes, Metas, NoMeta, States
  <2>5. QED
    BY <1>1, <1>4, <1>8, <2>1, <2>2, <2>3, <2>4 DEF Owns, InWrite
<1>9. CASE w.then = "repoint"
  <2>1. r.cmd = "rename" /\ w.file = "meta" /\ w.path = r.to /\ w.val.name = r.to
    BY <1>0, <1>9 DEF Pending
  <2>2. dir'[r.to].meta.name = r.to
    BY <1>1, <2>1, PutDone
  <2>3. r.meta.name = r.name
    BY <1>0, <2>1 DEF Owns
  <2>4. QED
    BY <1>1, <1>4, <1>9, <2>1, <2>2, <2>3 DEF Owns, InWrite
<1>10. QED
  BY <1>0, <1>6, <1>7, <1>8, <1>9 DEF Pending

\* The write fails, or the lock is held too long.
LEMMA ElseOwns ==
  ASSUME TypeOK, Kept, NEW p \in Procs, Step(p), proc[p].pc \in {"lock", "put"},
         Go(p, proc[p].w.else), \A n \in Names : Alike(n)
  PROVE  Owns(proc'[p], dir')
<1> DEFINE r == proc[p]
           s == proc'[p]
<1>0. /\ Course(r) /\ Owns(r, dir) /\ Pending(r) /\ r.name \in Names
      /\ (r.cmd = "rename" => r.to \in Names /\ r.to # r.name)
  BY Known DEF TypeOK, Kept, InWrite
<1>1. r.w.else \in Places
  BY <1>0 DEF Pending, Places
<1>2. /\ s.pc = r.w.else /\ s.w = NoWrite /\ s.cmd = r.cmd /\ s.name = r.name /\ s.to = r.to
      /\ s.meta = r.meta /\ s.key = r.key
  BY <1>1, Went
<1>3. Course(s)
  BY ProcStep
<1>4. CASE r.w.else \in {"undo", "end"}
  BY <1>2, <1>3, <1>4, Unclaimed
<1>5. CASE r.w.else = "back"
  <2>1. r.cmd = "rename"
    BY <1>0, <1>5 DEF Pending
  <2>2. dir[r.to].there /\ dir[r.to].meta = r.meta /\ dir[r.name] = NoDir /\ r.meta.name = r.name
    BY <1>0, <2>1 DEF Owns, InWrite
  <2>3. dir'[r.to].there /\ dir'[r.to].meta = r.meta /\ dir'[r.name] = NoDir
    BY <1>0, <2>1, <2>2 DEF Alike
  <2>4. QED
    BY <1>2, <1>5, <2>1, <2>2, <2>3 DEF Owns, InWrite
<1>6. QED
  BY <1>0, <1>4, <1>5 DEF Pending

LEMMA LockOwns ==
  ASSUME TypeOK, Kept, NEW p \in Procs, Lock(p)
  PROVE  Owns(proc'[p], dir')
<1> DEFINE r == proc[p]
           s == proc'[p]
<1>0. /\ Course(r) /\ Owns(r, dir) /\ r.pc = "lock" /\ Pending(r) /\ r.name \in Names
      /\ (r.cmd = "rename" => r.to \in Names /\ r.to # r.name)
      /\ \A n \in Names : dir[n] \in Dirs
  BY Known DEF TypeOK, Kept, Lock, At, InWrite
<1>1. CASE Go(p, r.w.else) /\ \A n \in Names : Alike(n)
  BY <1>0, <1>1, ElseOwns DEF Step, FileStep
<1>2. CASE /\ proc' = [proc EXCEPT ![p].pc = "put"]
           /\ dir'[r.w.path].there
           /\ \A n \in Names : dir'[n].meta = dir[n].meta /\ dir'[n].key = dir[n].key
           /\ \A n \in Names : dir[n].there => dir'[n].there
           /\ \A n \in Names \ {r.w.path} : Alike(n)
  <2>1. /\ s.pc = "put" /\ s.w = r.w /\ s.meta = r.meta /\ s.to = r.to
        /\ s.cmd = r.cmd /\ s.name = r.name /\ s.key = r.key
    BY <1>0, <1>2 DEF TypeOK, Processes
  <2>2. r.cmd = "rename" => r.w.path = r.to
    BY <1>0 DEF Pending, Logins, Entries, Clients
  <2>3. r.cmd = "rename" => dir'[r.to].there /\ dir'[r.to].meta = r.meta /\ dir'[r.name] = NoDir
    BY <1>0, <1>2, <2>2 DEF Owns, InWrite, Alike
  <2>4. r.cmd = "rename" => r.meta.name = r.name
    BY <1>0 DEF Owns
  <2>5. Loaded(s) /\ s.cmd # "rename" =>
          s.meta.name = s.name /\ dir'[s.name].meta # NoMeta /\ s.w.path = s.name
    BY <1>0, <1>2, <2>1 DEF Owns, Loaded, Adding, InWrite
  <2>6. s.cmd = "purge" /\ s.w.then = "gone" => dir'[s.name].key = NoKey
    BY <1>0, <1>2, <2>1 DEF Owns, InWrite
  <2>7. QED
    BY <1>2, <2>1, <2>3, <2>4, <2>5, <2>6 DEF Owns, InWrite
<1>3. QED
  BY <1>1, <1>2, LockDone

LEMMA SelfOwns ==
  ASSUME TypeOK, Noted, Kept, NEW p \in Procs, Step(p), Orderly'
  PROVE  Owns(proc'[p], dir')
<1> DEFINE r == proc[p]
           s == proc'[p]
<1>0. /\ Course(r) /\ Course(s) /\ Owns(r, dir) /\ r \in Processes /\ proc \in [Procs -> Processes]
      /\ dir \in [Names -> Dirs] /\ \A n \in Names : dir[n] \in Dirs /\ Orderly
  BY ProcStep, OrderlyBefore DEF TypeOK, Kept
<1>1. CASE s = Idle
  BY <1>1, IdleOwns
<1>2. ASSUME NEW pc, Go(p, pc), pc \in {"read", "stat", "mkdir", "added", "undo", "load", "end", "exists", "check"}
      PROVE  Owns(s, dir')
  <2>1. s.pc = pc
    BY <1>2, Went DEF Places
  <2>2. QED
    BY <1>0, <1>2, <2>1, Unclaimed
<1>3. CASE End(p)
  BY <1>1, <1>3, Ended
\* What is read from the directory of its name, which nobody renames now.
<1>4. ASSUME NEW pc, r.pc \notin {"lock", "put", "back", "idle"}, r.name \in Names, dir' = dir,
             dir[r.name].meta # NoMeta,
             proc' = [proc EXCEPT ![p].meta = dir[r.name].meta, ![p].pc = pc],
             \/ r.cmd # "rename" /\ pc \in {"connect", "reset"}
             \/ r.cmd = "rename" /\ pc = "busy"
      PROVE  Owns(s, dir')
  <2>1. s.meta = dir[r.name].meta /\ s.pc = pc /\ s.cmd = r.cmd /\ s.name = r.name
    BY <1>0, <1>4 DEF Processes
  <2>2. p \in Running
    BY <1>4 DEF Running
  <2>3. dir[r.name].meta.name = r.name
    BY <1>0, <1>4, <2>2, NameIs DEF InWrite
  <2>4. QED
    BY <1>4, <2>1, <2>3 DEF Owns, Loaded, InWrite
\* The next place of a client that has loaded its slot.
<1>5. ASSUME NEW pc \in Places, Go(p, pc), r.cmd \in Entries \cup Clients, Loaded(r), ~InWrite(r),
             dir'[r.name].meta # NoMeta, r.pc # "clear", pc \notin {"clear", "put", "lock"},
             r.cmd = "purge" /\ pc \in {"reread", "gone"} => dir'[r.name].key = NoKey
      PROVE  Owns(s, dir')
  <2>1. /\ s.pc = pc /\ s.w = NoWrite /\ s.cmd = r.cmd /\ s.name = r.name /\ s.to = r.to
        /\ s.meta = r.meta /\ s.key = r.key
    BY <1>5, Went
  <2>2. r.meta.name = r.name
    BY <1>0, <1>5 DEF Owns, Entries, Clients
  <2>3. QED
    BY <1>5, <2>1, <2>2 DEF Owns, Entries, Clients, InWrite
\* A client that has loaded its slot begins to write in it.
<1>6. ASSUME NEW v, NEW file, NEW then, NEW else, r.cmd \in Entries \cup Clients, Loaded(r), ~InWrite(r),
             s.pc = "lock", s.cmd = r.cmd, s.name = r.name, s.meta = r.meta,
             s.w = [path |-> r.name, file |-> file, val |-> v, then |-> then, else |-> else],
             dir'[r.name].meta # NoMeta, r.pc # "clear",
             r.cmd = "purge" /\ then = "gone" => dir'[r.name].key = NoKey
      PROVE  Owns(s, dir')
  <2>2. r.meta.name = r.name
    BY <1>0, <1>6 DEF Owns, Entries, Clients
  <2>3. s.w.path = r.name /\ s.w.then = then
    BY <1>6
  <2>4. QED
    BY <1>6, <2>2, <2>3 DEF Owns, Entries, Clients, InWrite
<1>7. CASE Start(p)
  <2>1. PICK c \in Kinds, n \in Names, t \in Slot :
          proc' = [proc EXCEPT ![p] =
               [Idle EXCEPT !.cmd = c, !.name = n, !.to = t, !.def = default, !.pc = First(c)]]
    BY <1>7 DEF Start, Slot
  <2>2. s.pc = First(c)
    BY <1>0, <2>1 DEF Idle
  <2>3. First(c) \in {"read", "load", "check", "exists"}
    BY DEF First
  <2>4. QED
    BY <1>0, <2>2, <2>3, Unclaimed
<1>8. CASE LoginRead(p) \/ AddStat(p)
  BY <1>2, <1>3, <1>8 DEF LoginRead, AddStat
<1>9. CASE AddMkdir(p)
  <2>1. r.cmd \in Logins /\ r.name \in Names
    BY <1>0, <1>9, Known DEF AddMkdir, At
  <2>2. proc' = Writing(p, r.name, "meta", Meta(r.name, "NEW"), "added", "undo")
    BY <1>9 DEF AddMkdir, WriteMeta, Meta
  <2>3. [path |-> r.name, file |-> "meta", val |-> Meta(r.name, "NEW"), then |-> "added", else |-> "undo"] \in Writes
    BY <2>1 DEF Writes, Places, Metas, Meta, States
  <2>4. s.pc = "lock" /\ s.w.then = "added" /\ s.cmd = r.cmd
    BY <2>2, <2>3, Wrote
  <2>5. QED
    BY <2>1, <2>4 DEF Owns, Loaded, InWrite, Adding, Logins
<1>10. CASE LoginLoad(p)
  <2>1. r.pc = "added" /\ r.cmd \in Logins /\ r.name \in Names /\ dir' = dir
    BY <1>0, <1>10, Known DEF LoginLoad, At, disk
  <2>2. CASE ~End(p)
    BY <1>4, <1>10, <2>1, <2>2 DEF LoginLoad, Logins
  <2>3. QED
    BY <1>3, <2>2
<1>11. CASE Authorize(p) \/ PersistAuthed(p)
  <2>1. /\ r.pc \in {"authorize", "self"} /\ r.cmd \in Entries /\ r.name \in Names /\ dir' = dir
        /\ r.meta \in Metas
    BY <1>0, <1>11, Known DEF Authorize, PersistAuthed, At, disk
  <2>2. r.meta.name = r.name /\ dir[r.name].meta # NoMeta
    BY <1>0, <2>1 DEF Owns, Loaded, Entries
  <2>3. CASE Go(p, "self")
    BY <1>5, <2>1, <2>2, <2>3 DEF Places, Loaded, Entries, InWrite
  <2>4. CASE proc' = WriteMeta(p, [r.meta EXCEPT !.state = "AUTHED"], "end", "end")
    <3> DEFINE v == [r.meta EXCEPT !.state = "AUTHED"]
               w == [path |-> r.name, file |-> "meta", val |-> v, then |-> "end", else |-> "end"]
    <3>1. v \in Metas /\ v.name = r.name
      BY <2>1, <2>2 DEF Metas, States
    <3>2. proc' = Writing(p, r.name, "meta", v, "end", "end")
      BY <2>4, <3>1 DEF WriteMeta
    <3> HIDE DEF v
    <3>3. w \in Writes
      BY <2>1, <3>1 DEF Writes, Places
    <3>4. s.pc = "lock" /\ s.w = w /\ s.cmd = r.cmd /\ s.name = r.name /\ s.meta = r.meta
      BY <3>2, <3>3, Wrote
    <3>5. QED
      BY <1>6, <2>1, <2>2, <3>4 DEF Loaded, Entries, InWrite
  <2>5. QED
    BY <1>3, <1>11, <2>3, <2>4 DEF Authorize, PersistAuthed
<1>12. CASE Load(p)
  <2>1. r.pc = "load" /\ r.cmd \in Clients /\ r.name \in Names /\ dir' = dir
    BY <1>0, <1>12, Known DEF Load, At, disk
  <2>2. CASE ~End(p)
    <3>1. dir[r.name].meta # NoMeta
      <4>1. NoMeta.state \notin {"AUTHED", "NEW", "EXPIRED"}
        BY DEF NoMeta
      <4>2. QED
        BY <1>12, <2>2, <4>1 DEF Load
    <3>2. QED
      BY <1>4, <1>12, <2>1, <2>2, <3>1 DEF Load, Clients
  <2>3. QED
    BY <1>3, <2>2
<1>13. CASE Connect(p) /\ ~End(p)
  <2>1. /\ r.pc = "connect" /\ r.cmd \in Entries \cup Clients /\ r.name \in Names /\ dir' = dir
    BY <1>0, <1>13, Known DEF Connect, At, disk
  <2>2. r.meta.name = r.name /\ dir[r.name].meta # NoMeta
    BY <1>0, <2>1 DEF Owns, Loaded, Entries, Clients
  <2>3. \E k, then : then # "gone" /\ proc' = [Writing(p, r.name, "key", k, then, "end") EXCEPT ![p].key = k]
    BY <1>13, <2>2 DEF Connect
  <2>4. PICK k, then : then # "gone" /\ proc' = [Writing(p, r.name, "key", k, then, "end") EXCEPT ![p].key = k]
    BY <2>3
  <2>5. /\ s.pc = "lock" /\ s.cmd = r.cmd /\ s.name = r.name /\ s.meta = r.meta
        /\ s.w = [path |-> r.name, file |-> "key", val |-> k, then |-> then, else |-> "end"]
    BY <1>0, <2>4 DEF Writing, Processes
  <2>6. QED
    BY <1>6, <2>1, <2>2, <2>4, <2>5 DEF Loaded, InWrite
<1>14. CASE Probe(p)
  <2>1. /\ r.pc = "probe" /\ r.cmd \in Clients /\ r.name \in Names /\ r.meta \in Metas /\ dir' = dir
    BY <1>0, <1>14, Known DEF Probe, At, disk
  <2>2. r.meta.name = r.name /\ dir[r.name].meta # NoMeta
    BY <1>0, <2>1 DEF Owns, Loaded, Clients
  <2>3. CASE Expire(p)
    <3> DEFINE v == [r.meta EXCEPT !.state = "EXPIRED"]
               w == [path |-> r.name, file |-> "meta", val |-> v, then |-> "end", else |-> "end"]
    <3>1. v \in Metas /\ v.name = r.name
      BY <2>1, <2>2 DEF Metas, States
    <3>2. proc' = Writing(p, r.name, "meta", v, "end", "end")
      BY <2>3, <3>1 DEF Expire, WriteMeta
    <3> HIDE DEF v
    <3>3. w \in Writes
      BY <2>1, <3>1 DEF Writes, Places
    <3>4. s.pc = "lock" /\ s.w = w /\ s.cmd = r.cmd /\ s.name = r.name /\ s.meta = r.meta
      BY <3>2, <3>3, Wrote
    <3>5. QED
      BY <1>6, <2>1, <2>2, <3>4 DEF Loaded, Clients, InWrite
  <2>4. CASE Go(p, IF Is(p, {"use"}) THEN "end" ELSE "revoke")
    <3>1. Go(p, "end") \/ Go(p, "revoke")
      BY <2>4
    <3>2. CASE Go(p, "revoke")
      BY <1>5, <2>1, <2>2, <3>2 DEF Places, Loaded, InWrite
    <3>3. QED
      BY <1>2, <3>1, <3>2
  <2>5. QED
    BY <1>3, <1>14, <2>3, <2>4 DEF Probe
<1>15. CASE Revoke(p)
  <2>1. r.pc = "revoke" /\ r.cmd \in {"logout", "purge"} /\ r.name \in Names /\ dir' = dir
    BY <1>0, <1>15, Known DEF Revoke, At, disk
  <2>2. dir[r.name].meta # NoMeta
    BY <1>0, <2>1 DEF Owns, Loaded
  <2>3. CASE Go(p, "delete")
    BY <1>5, <2>1, <2>2, <2>3 DEF Places, Loaded, InWrite, Clients
  <2>4. QED
    BY <1>3, <1>15, <2>3 DEF Revoke
<1>16. CASE Delete(p)
  <2>1. r.pc = "delete" /\ r.cmd \in {"logout", "purge"} /\ r.name \in Names
    BY <1>0, <1>16, Known DEF Delete, At
  <2>2. dir[r.name].meta # NoMeta /\ r.meta.name = r.name
    BY <1>0, <2>1 DEF Owns, Loaded
  <2>3. dir'[r.name].meta # NoMeta /\ dir'[r.name].key = NoKey
    BY <1>0, <1>16, <2>1, <2>2 DEF Delete, Dirs
  <2>4. QED
    BY <1>5, <1>16, <2>1, <2>3 DEF Delete, Places, Loaded, InWrite, Clients
<1>17. CASE Reread(p)
  <2>1. r.pc = "reread" /\ r.cmd \in {"logout", "purge"} /\ r.name \in Names /\ dir' = dir
    BY <1>0, <1>17, Known DEF Reread, At, disk
  <2>2. /\ dir[r.name].meta # NoMeta /\ r.meta.name = r.name
        /\ r.cmd = "purge" => dir[r.name].key = NoKey
    BY <1>0, <2>1 DEF Owns, Loaded
  <2> DEFINE v == [dir[r.name].meta EXCEPT !.state = "NEW"]
             w == [path |-> r.name, file |-> "meta", val |-> v, then |-> "gone", else |-> "end"]
  <2>3. dir[r.name].meta.name = r.name
    BY <1>0, <2>1, <2>2, NameIs DEF InWrite, Running
  <2>4. v \in Metas /\ v.name = r.name
    BY <1>0, <2>1, <2>2, <2>3 DEF Metas, States, Dirs
  <2>5. proc' = Writing(p, r.name, "meta", v, "gone", "end")
    BY <1>17, <2>2, <2>4 DEF Reread, WriteMeta
  <2> HIDE DEF v
  <2>6. w \in Writes
    BY <2>1, <2>4 DEF Writes, Places
  <2>7. s.pc = "lock" /\ s.w = w /\ s.cmd = r.cmd /\ s.name = r.name /\ s.meta = r.meta
    BY <2>5, <2>6, Wrote
  <2>8. QED
    BY <1>6, <2>1, <2>2, <2>7 DEF Loaded, Clients, InWrite
<1>18. CASE Reset(p)
  <2>1. r.pc = "reset" /\ r.cmd \in {"logout", "purge"} /\ r.name \in Names /\ r.meta \in Metas
    BY <1>0, <1>18, Known DEF Reset, At
  <2>2. /\ dir[r.name].meta # NoMeta /\ r.meta.name = r.name
    BY <1>0, <2>1 DEF Owns, Loaded
  <2>3. dir'[r.name].meta # NoMeta /\ dir'[r.name].key = NoKey
    <3>1. ~Fault(p)
      BY <2>1 DEF Fault, Orderly
    <3>2. QED
      BY <1>0, <1>18, <2>1, <2>2, <3>1 DEF Reset, Dirs
  <2> DEFINE v == [r.meta EXCEPT !.state = "NEW"]
             w == [path |-> r.name, file |-> "meta", val |-> v, then |-> "gone", else |-> "end"]
  <2>4. v \in Metas /\ v.name = r.name
    BY <2>1, <2>2 DEF Metas, States
  <2>5. proc' = Writing(p, r.name, "meta", v, "gone", "end")
    BY <1>18, <2>4 DEF Reset, WriteMeta
  <2> HIDE DEF v
  <2>6. w \in Writes
    BY <2>1, <2>4 DEF Writes, Places
  <2>7. s.pc = "lock" /\ s.w = w /\ s.cmd = r.cmd /\ s.name = r.name /\ s.meta = r.meta
    BY <2>5, <2>6, Wrote
  <2>8. QED
    BY <1>6, <2>1, <2>3, <2>7 DEF Loaded, Clients, InWrite
<1>19. CASE Purge(p)
  <2>1. r.pc = "gone" /\ r.cmd \in {"logout", "purge"} /\ r.name \in Names
    BY <1>0, <1>19, Known DEF Purge, At
  <2>2. r.meta.name = r.name
    BY <1>0, <2>1 DEF Owns, Loaded
  <2>3. CASE Go(p, "clear") /\ r.cmd = "purge"
    <3>1. s.pc = "clear" /\ s.cmd = "purge" /\ s.name = r.name /\ s.meta = r.meta
      BY <2>3, Went DEF Places
    <3>2. QED
      BY <2>2, <3>1 DEF Owns, InWrite
  <2>4. QED
    BY <1>3, <1>19, <2>3 DEF Purge, Is
<1>20. CASE ClearDefault(p) \/ AddUndo(p) \/ RenameBack(p) \/ Repoint(p) \/ SetDefault(p) \/ Finish(p)
            \/ Fails(p) \/ Kill(p)
  BY <1>3, <1>20 DEF ClearDefault, AddUndo, RenameBack, Repoint, SetDefault, Finish, Fails, Kill, Stop
<1>21. CASE RenameCheck(p)
  <2>1. r.pc = "check" /\ r.cmd = "rename" /\ r.name \in Names /\ dir' = dir
    BY <1>0, <1>21, Known DEF RenameCheck, At, disk
  <2>2. CASE ~End(p)
    BY <1>4, <1>21, <2>1, <2>2 DEF RenameCheck
  <2>3. QED
    BY <1>3, <2>2
<1>22. CASE RenameProbe(p)
  <2>1. r.pc = "busy" /\ r.cmd = "rename" /\ r.name \in Names
    BY <1>0, <1>22, Known DEF RenameProbe, At
  <2>2. CASE ~End(p)
    <3>1. Go(p, "move") /\ dir' = [dir EXCEPT ![r.name].lock = "free"]
      BY <1>22, <2>2 DEF RenameProbe
    <3>2. /\ s.pc = "move" /\ s.cmd = "rename" /\ s.name = r.name /\ s.meta = r.meta
      BY <2>1, <3>1, Went DEF Places
    <3>3. dir'[r.name].meta = dir[r.name].meta
      BY <1>0, <2>1, <3>1 DEF Dirs
    <3>4. r.meta.name = r.name /\ dir[r.name].meta = r.meta
      BY <1>0, <2>1 DEF Owns
    <3>5. QED
      BY <3>2, <3>3, <3>4 DEF Owns, InWrite
  <2>3. QED
    BY <1>3, <2>2
<1>23. CASE RenameMove(p)
  <2>1. /\ r.pc = "move" /\ r.cmd = "rename" /\ r.name \in Names /\ r.to \in Names /\ r.to # r.name
        /\ r.meta \in Metas
    BY <1>0, <1>23, Known DEF RenameMove, At
  <2>2. CASE ~End(p)
    <3> DEFINE v == [r.meta EXCEPT !.name = r.to]
               w == [path |-> r.to, file |-> "meta", val |-> v, then |-> "repoint", else |-> "back"]
    <3>1. v \in Metas /\ v.name = r.to
      BY <2>1 DEF Metas, States
    <3>2. /\ proc' = Writing(p, r.to, "meta", v, "repoint", "back")
          /\ dir[r.name].there /\ dir' = Moved(r.name, r.to)
      BY <1>23, <2>2, <3>1 DEF RenameMove, WriteMeta, Movable
    <3> HIDE DEF v
    <3>3. w \in Writes
      BY <2>1, <3>1 DEF Writes, Places
    <3>4. /\ s.pc = "lock" /\ s.w = w /\ s.cmd = r.cmd /\ s.name = r.name /\ s.to = r.to
          /\ s.meta = r.meta
      BY <3>2, <3>3, Wrote
    <3>5. dir'[r.to] = dir[r.name] /\ dir'[r.name] = NoDir
      BY <2>1, <3>2, MoveDone
    <3>6. r.meta.name = r.name /\ dir[r.name].meta = r.meta
      BY <1>0, <2>1 DEF Owns
    <3>7. QED
      BY <2>1, <3>2, <3>4, <3>5, <3>6 DEF Owns, InWrite
  <2>3. QED
    BY <1>3, <2>2
<1>24. CASE SwitchCheck(p)
  <2>1. r.pc = "exists" /\ r.cmd = "switch" /\ r.name \in Names /\ dir' = dir
    BY <1>0, <1>24, Known DEF SwitchCheck, At, disk
  <2>2. CASE ~End(p)
    <3>1. Go(p, "set") /\ dir[r.name].meta # NoMeta
      BY <1>24, <2>2 DEF SwitchCheck
    <3>2. s.pc = "set" /\ s.cmd = "switch" /\ s.name = r.name
      BY <2>1, <3>1, Went DEF Places
    <3>3. QED
      BY <2>1, <3>1, <3>2 DEF Owns, Loaded, InWrite
  <2>3. QED
    BY <1>3, <2>2
<1>25. CASE Lock(p)
  BY <1>25, LockOwns
<1>26. CASE Put(p)
  BY <1>26, PutOwns
<1>27. CASE PutFails(p)
  <2>1. r.pc = "put" /\ Go(p, r.w.else) /\ \A n \in Names : Alike(n)
    BY <1>27, NotPut DEF PutFails, At
  <2>2. QED
    BY <2>1, ElseOwns
<1>28. QED
  BY <1>3, <1>7, <1>8, <1>9, <1>10, <1>11, <1>12, <1>13, <1>14, <1>15, <1>16, <1>17, <1>18, <1>19, <1>20,
     <1>21, <1>22, <1>23, <1>24, <1>25, <1>26, <1>27
     DEF Step, LoginStep, ClientStep, LogoutStep, RenameStep, SwitchStep, FileStep

LEMMA MovingKept ==
  ASSUME TypeOK, NEW p \in Procs, Step(p), ~Put(p), ~RenameBack(p), ~Fails(p), ~Kill(p),
         NEW n \in Names, Moving(proc[p], n)
  PROVE  Moving(proc'[p], n)
<1> DEFINE r == proc[p]
           s == proc'[p]
<1>0. Course(r) /\ r.cmd = "rename" /\ r.to = n /\ r.pc \in {"lock", "put", "back"}
  BY DEF TypeOK, Moving, InWrite
<1>1. Lock(p) \/ PutFails(p)
  BY <1>0 DEF Step, LoginStep, ClientStep, LogoutStep, RenameStep, SwitchStep, FileStep, At,
     Start, LoginRead, AddStat, AddMkdir, AddUndo, LoginLoad, Authorize, PersistAuthed,
     Load, Connect, Probe, Revoke, Delete, Reread, Reset, Purge, ClearDefault, RenameCheck,
     RenameProbe, RenameMove, RenameBack, Repoint, SwitchCheck, SetDefault, Put, Finish
<1>2. Pending(r)
  BY <1>0, <1>1, Known DEF InWrite, Lock, PutFails, At
<1>3. r.w.else = "back"
  BY <1>0, <1>2 DEF Pending, Logins, Entries, Clients
<1>4. CASE Go(p, r.w.else)
  <2>1. s.pc = "back" /\ s.cmd = "rename" /\ s.to = n
    BY <1>0, <1>3, <1>4, Went DEF Places
  <2>2. QED
    BY <2>1 DEF Moving
<1>5. CASE proc' = [proc EXCEPT ![p].pc = "put"]
  <2>1. s.pc = "put" /\ s.cmd = "rename" /\ s.to = n
    BY <1>0, <1>5 DEF TypeOK, Processes
  <2>2. QED
    BY <2>1 DEF Moving, InWrite
<1>6. QED
  BY <1>1, <1>4, <1>5, LockDone, NotPut

\* The parts of Kept that are about the directories.
DirsKept ==
  /\ \A n \in Names : ~dir[n].there => dir[n] = NoDir
  /\ \A n \in Names : dir[n].key # NoKey => dir[n].meta # NoMeta
  /\ \A n \in Names : dir[n].meta # NoMeta =>
       dir[n].meta.name = n \/ \E p \in Procs : Moving(proc[p], n)

\* A directory whose account.json stays what it is.
LEMMA NameKept ==
  ASSUME TypeOK, Kept, NEW p \in Procs, Step(p), ~Put(p), ~RenameBack(p), Orderly',
         NEW n \in Names, dir'[n].meta = dir[n].meta, dir[n].meta # NoMeta
  PROVE  dir'[n].meta.name = n \/ \E q \in Procs : Moving(proc'[q], n)
<1>1. SUFFICES ASSUME NEW q \in Procs, Moving(proc[q], n)
               PROVE  \E x \in Procs : Moving(proc'[x], n)
  BY DEF Kept
<1>2. CASE q # p
  BY <1>1, <1>2, ProcStep DEF Others
<1>3. CASE q = p
  <2>1. ~Kill(p) /\ ~Fails(p)
    BY <1>1, <1>3, StopDone DEF Moving, InWrite, Fails, At, Orderly
  <2>2. QED
    BY <1>1, <1>3, <2>1, MovingKept
<1>4. QED
  BY <1>2, <1>3

LEMMA DirsStep ==
  ASSUME TypeOK, Noted, Orderly, Kept, NEW p \in Procs, Step(p), Orderly'
  PROVE  DirsKept'
<1> DEFINE r == proc[p]
           s == proc'[p]
<1>0. /\ Course(r) /\ Owns(r, dir) /\ dir \in [Names -> Dirs] /\ \A n \in Names : dir[n] \in Dirs
      /\ DirsKept
  BY DEF TypeOK, Kept, DirsKept
<1>1. ASSUME \A n \in Names : dir'[n].meta = dir[n].meta \/ dir'[n].meta = NoMeta,
             ~Put(p), ~RenameBack(p)
      PROVE  \A n \in Names : dir'[n].meta # NoMeta =>
               dir'[n].meta.name = n \/ \E q \in Procs : Moving(proc'[q], n)
  BY <1>1, NameKept
<1>2. ASSUME \A n \in Names : Alike(n), ~Put(p), ~RenameBack(p)
      PROVE  DirsKept'
  BY <1>0, <1>1, <1>2 DEF DirsKept, Alike
<1>3. CASE Start(p) \/ Reads(p)
  <2>1. dir' = dir
    BY <1>3, DirSame
  <2>2. ~Put(p) /\ ~RenameBack(p)
    BY <1>3 DEF Start, Reads, Put, RenameBack, At, LoginRead, AddStat, LoginLoad, Authorize,
       PersistAuthed, Load, Connect, Probe, Revoke, Reread, ClearDefault, RenameCheck, Repoint,
       SwitchCheck, SetDefault, Finish
  <2>3. QED
    BY <1>2, <2>1, <2>2 DEF Alike
<1>4. CASE AddMkdir(p)
  <2>1. r.name \in Names /\ r.pc = "mkdir"
    BY <1>0, <1>4, Known DEF AddMkdir, At
  <2>2. /\ dir'[r.name].there /\ dir'[r.name].meta = dir[r.name].meta
        /\ dir'[r.name].key = dir[r.name].key /\ \A n \in Names \ {r.name} : dir'[n] = dir[n]
    BY <1>0, <1>4, <2>1 DEF AddMkdir, Dirs
  <2>3. ~Put(p) /\ ~RenameBack(p)
    BY <2>1 DEF Put, RenameBack, At
  <2>4. QED
    BY <1>0, <1>1, <2>1, <2>2, <2>3 DEF DirsKept
<1>5. CASE AddUndo(p) \/ Purge(p)
  <2>1. r.pc \in {"undo", "gone"} /\ r.name \in Names
    BY <1>0, <1>5, Known DEF AddUndo, Purge, At
  <2>2. ~Put(p) /\ ~RenameBack(p)
    BY <2>1 DEF Put, RenameBack, At
  <2>3. \A n \in Names : dir'[n] = dir[n] \/ dir'[n] = NoDir
    BY <1>0, <1>5 DEF AddUndo, Purge
  <2>4. QED
    BY <1>0, <1>1, <2>2, <2>3, NoDirFields DEF DirsKept
<1>6. CASE Delete(p) \/ Reset(p)
  <2>1. /\ r.pc \in {"delete", "reset"} /\ r.name \in Names /\ r.cmd # "rename"
    BY <1>0, <1>6, Known DEF Delete, Reset, At
  <2>2. r.meta.name = r.name /\ dir[r.name].meta # NoMeta
    BY <1>0, <2>1 DEF Owns, Loaded
  <2>3. /\ dir'[r.name].there = dir[r.name].there /\ dir'[r.name].meta = dir[r.name].meta
        /\ dir'[r.name].key = NoKey /\ \A n \in Names \ {r.name} : dir'[n] = dir[n]
    <3>1. ~(Reset(p) /\ Fault(p))
      BY DEF Reset, At, Fault, Orderly
    <3>2. QED
      BY <1>0, <1>6, <2>1, <2>2, <3>1 DEF Delete, Reset, Dirs
  <2>4. ~Put(p) /\ ~RenameBack(p)
    BY <2>1 DEF Put, RenameBack, At
  <2>5. dir[r.name].there
    BY <1>0, <2>1, <2>2, NoDirFields DEF DirsKept
  <2>6. QED
    BY <1>0, <1>1, <2>1, <2>3, <2>4, <2>5 DEF DirsKept
<1>7. CASE RenameProbe(p)
  <2>1. r.pc = "busy" /\ r.name \in Names
    BY <1>0, <1>7, Known DEF RenameProbe, At
  <2>2. ~Put(p) /\ ~RenameBack(p)
    BY <2>1 DEF Put, RenameBack, At
  <2>3. CASE dir' = dir
    BY <1>2, <2>2, <2>3 DEF Alike
  <2>4. CASE dir[r.name].there /\ dir' = [dir EXCEPT ![r.name].lock = "free"]
    <3>1. /\ dir'[r.name].there = dir[r.name].there /\ dir'[r.name].meta = dir[r.name].meta
          /\ dir'[r.name].key = dir[r.name].key /\ \A n \in Names \ {r.name} : dir'[n] = dir[n]
      BY <1>0, <2>1, <2>4 DEF Dirs
    <3>2. QED
      BY <1>0, <1>1, <2>1, <2>2, <2>4, <3>1 DEF DirsKept
  <2>5. QED
    BY <1>7, <2>3, <2>4 DEF RenameProbe
<1>8. CASE RenameMove(p)
  <2>1. /\ r.pc = "move" /\ r.cmd = "rename" /\ r.name \in Names /\ r.to \in Names /\ r.to # r.name
        /\ r.meta \in Metas
    BY <1>0, <1>8, Known DEF RenameMove, At
  <2>2. ~Put(p) /\ ~RenameBack(p)
    BY <2>1 DEF Put, RenameBack, At
  <2>3. CASE dir' = dir
    BY <1>2, <2>2, <2>3 DEF Alike
  <2>4. CASE dir' # dir
    <3> DEFINE v == [r.meta EXCEPT !.name = r.to]
               w == [path |-> r.to, file |-> "meta", val |-> v, then |-> "repoint", else |-> "back"]
    <3>1. v \in Metas /\ v.name = r.to
      BY <2>1 DEF Metas, States
    <3>2. /\ proc' = Writing(p, r.to, "meta", v, "repoint", "back")
          /\ dir[r.name].there /\ dir' = Moved(r.name, r.to)
      BY <1>8, <2>4, <3>1 DEF RenameMove, WriteMeta, Movable
    <3> HIDE DEF v
    <3>3. w \in Writes
      BY <2>1, <3>1 DEF Writes, Places
    <3>4. /\ s.pc = "lock" /\ s.cmd = r.cmd /\ s.to = r.to
      BY <3>2, <3>3, Wrote
    <3>5. Moving(s, r.to)
      BY <2>1, <3>4 DEF Moving, InWrite
    <3>6. dir'[r.to] = dir[r.name] /\ dir'[r.name] = NoDir /\ \A x \in Names \ {r.name, r.to} : dir'[x] = dir[x]
      BY <2>1, <3>2, MoveDone
    <3>7. \A n \in Names : dir[n].meta # NoMeta => dir[n].meta.name = n
      BY <2>1, NameIs DEF InWrite, Running
    <3>8. QED
      BY <1>0, <2>1, <3>2, <3>5, <3>6, <3>7, NoDirFields DEF DirsKept
  <2>5. QED
    BY <2>3, <2>4
<1>9. CASE RenameBack(p)
  <2>1. /\ r.pc = "back" /\ r.cmd = "rename" /\ r.name \in Names /\ r.to \in Names /\ r.to # r.name
        /\ r.meta \in Metas
    BY <1>0, <1>9, Known DEF RenameBack, At
  <2>2. dir[r.to].there /\ dir[r.to].meta = r.meta /\ dir[r.name] = NoDir /\ r.meta.name = r.name
    BY <1>0, <2>1 DEF Owns
  <2>3. dir' = Moved(r.to, r.name)
    BY <1>9, <2>2 DEF RenameBack, Movable
  <2>4. dir'[r.name] = dir[r.to] /\ dir'[r.to] = NoDir /\ \A x \in Names \ {r.name, r.to} : dir'[x] = dir[x]
    BY <2>1, <2>3, MoveDone
  <2>5. \A n \in Names \ {r.name, r.to} : dir[n].meta # NoMeta => dir[n].meta.name = n
    <3>1. SUFFICES ASSUME NEW n \in Names, n # r.to, NEW q \in Procs, Moving(proc[q], n) PROVE FALSE
      BY <1>0 DEF DirsKept
    <3>2. q \in Running /\ p \in Running
      BY <2>1, <3>1 DEF Moving, InWrite, Running
    <3>3. q = p
      BY <2>1, <3>2, Alone DEF Removals
    <3>4. QED
      BY <3>1, <3>3 DEF Moving
  <2>6. QED
    BY <1>0, <2>1, <2>2, <2>4, <2>5, NoDirFields DEF DirsKept
<1>10. CASE Lock(p)
  <2>1. r.pc = "lock"
    BY <1>10 DEF Lock, At
  <2>2. ~Put(p) /\ ~RenameBack(p)
    BY <2>1 DEF Put, RenameBack, At
  <2>3. CASE \A n \in Names : Alike(n)
    BY <1>2, <2>2, <2>3
  <2>4. CASE /\ dir'[r.w.path].there
             /\ \A n \in Names : dir'[n].meta = dir[n].meta /\ dir'[n].key = dir[n].key
             /\ \A n \in Names \ {r.w.path} : Alike(n)
    BY <1>0, <1>1, <2>2, <2>4 DEF DirsKept, Alike
  <2>5. QED
    BY <1>10, <2>3, <2>4, LockDone
<1>11. CASE Put(p)
  <2> DEFINE w == r.w
  <2>1. dir[w.path].there /\ Pending(r) /\ r.pc = "put" /\ r.name \in Names
    BY <1>0, <1>11, PutOwns, Known DEF Put, At, InWrite
  <2>2. w.path \in Names /\ w.file \in {"meta", "key"}
    BY <2>1 DEF Pending, Writes
  <2>3. /\ \A n \in Names : dir'[n].there = dir[n].there
        /\ w.file = "meta" => dir'[w.path].meta = w.val /\ dir'[w.path].key = dir[w.path].key
        /\ w.file = "key"  => dir'[w.path].key = w.val /\ dir'[w.path].meta = dir[w.path].meta
        /\ \A n \in Names \ {w.path} : Alike(n)
    BY <1>11, <2>1, PutDone
  <2>4. w.file = "meta" => w.val.name = w.path /\ w.val # NoMeta
    BY <2>1 DEF Pending, Writes, Metas, NoMeta, States
  <2>5. w.file = "key" => dir[w.path].meta # NoMeta
    BY <1>0, <2>1 DEF Pending, Owns, Loaded, Adding, InWrite, Entries, Clients
  <2>6. r.cmd = "rename" => w.path = r.to /\ w.file = "meta"
    BY <2>1 DEF Pending, Logins, Entries, Clients
  <2>7. \A n \in Names, q \in Procs : Moving(proc[q], n) /\ (n # w.path \/ w.file # "meta") => Moving(proc'[q], n)
    <3>1. SUFFICES ASSUME NEW n \in Names, NEW q \in Procs, Moving(proc[q], n), n # w.path \/ w.file # "meta"
                   PROVE  q # p
      BY ProcStep DEF Others
    <3>2. QED
      BY <2>6, <3>1 DEF Moving
  <2>8. \A n \in Names : dir'[n].meta # NoMeta =>
               dir'[n].meta.name = n \/ \E q \in Procs : Moving(proc'[q], n)
    <3>1. TAKE n \in Names
    <3>2. CASE n = w.path /\ w.file = "meta"
      BY <2>3, <2>4, <3>2
    <3>3. CASE n # w.path \/ w.file # "meta"
      BY <1>0, <2>2, <2>3, <2>7, <3>3 DEF DirsKept, Alike
    <3>4. QED
      BY <3>2, <3>3
  <2>9. \A n \in Names : ~dir'[n].there => dir'[n] = NoDir
    BY <1>0, <2>1, <2>3 DEF DirsKept, Alike
  <2>10. \A n \in Names : dir'[n].key # NoKey => dir'[n].meta # NoMeta
    BY <1>0, <2>2, <2>3, <2>4, <2>5 DEF DirsKept, Alike
  <2>11. QED
    BY <2>8, <2>9, <2>10 DEF DirsKept
<1>12. CASE PutFails(p)
  <2>1. ~RenameBack(p)
    BY <1>12 DEF PutFails, RenameBack, At
  <2>2. \A n \in Names : Alike(n)
    BY <1>12, NotPut
  <2>3. QED
    BY <1>2, <1>11, <2>1, <2>2
<1>13. CASE Fails(p) \/ Kill(p)
  <2> DEFINE x == Removed(p)
  <2>1. CASE \A n \in Names : Alike(n)
    BY <1>2, <1>9, <1>11, <2>1
  <2>2. CASE Halved(p)
    <3>1. dir[x].key = NoKey
      <4>1. CASE r.pc = "gone"
        <5>1. r.cmd = "purge" /\ x = r.meta.name
          BY <2>2, <4>1 DEF Halved, Removing, Removed, At, Is
        <5>2. QED
          BY <1>0, <4>1, <5>1 DEF Owns, Loaded
      <4>2. CASE r.pc = "undo"
        <5>1. failed # {} /\ x = r.name /\ x \in Names
          BY <2>2, <4>2 DEF Kept, Halved, Removed, At
        <5>2. dir[x].meta = NoMeta
          BY <4>2, <5>1 DEF Kept, Orderly, Fresh
        <5>3. QED
          BY <1>0, <5>1, <5>2 DEF DirsKept
      <4>3. QED
        BY <2>2, <4>1, <4>2 DEF Halved, Removing, At
    <3>2. /\ x \in Names /\ dir'[x].there = dir[x].there /\ dir'[x].key = NoKey
          /\ dir[x] = NoDir => dir'[x] = NoDir
      BY <2>2, <3>1 DEF Halved
    <3>4. ~Put(p) /\ ~RenameBack(p)
      BY <2>2 DEF Put, RenameBack, At, Halved, Removing
    <3>5. \A n \in Names : dir'[n].meta = dir[n].meta \/ dir'[n].meta = NoMeta
      BY <2>2 DEF Alike, Halved
    <3>6. \A n \in Names : dir'[n].meta # NoMeta =>
               dir'[n].meta.name = n \/ \E q \in Procs : Moving(proc'[q], n)
      BY <1>1, <3>4, <3>5
    <3>8. \A n \in Names \ {x} : Alike(n)
      BY <2>2 DEF Halved
    <3>7. QED
      BY <1>0, <3>2, <3>6, <3>8 DEF DirsKept, Alike
  <2>3. QED
    BY <1>13, <2>1, <2>2, StopDone
<1>14. QED
  BY <1>3, <1>4, <1>5, <1>6, <1>7, <1>8, <1>9, <1>10, <1>11, <1>12, <1>13, StepCases

\* A command turns back only after a failure.
LEMMA TurnsBack ==
  ASSUME TypeOK, Kept, NEW p \in Procs, Step(p), NEW q \in Procs, proc'[q].pc \in {"undo", "back"}
  PROVE  failed' # {}
<1> DEFINE r == proc[p]
           s == proc'[p]
<1>0. /\ Course(r) /\ r \in Processes /\ proc \in [Procs -> Processes] /\ Others(p)
      /\ failed \subseteq failed'
  BY ProcStep, OtherVars DEF TypeOK
<1>1. CASE q # p
  <2>1. failed # {}
    BY <1>0, <1>1 DEF Kept, Others
  <2>2. QED
    BY <1>0, <2>1
<1>2. CASE q = p /\ (Lock(p) \/ Put(p) \/ PutFails(p))
  <2>1. Pending(r)
    BY <1>0, <1>2, Known DEF Lock, Put, PutFails, At, InWrite
  <2>2. ~Put(p)
    <3>1. ASSUME Put(p) PROVE FALSE
      <4>1. Go(p, r.w.then)
        BY <3>1, PutOwns, PutDone
      <4>2. r.w.then \in Places \ {"undo", "back"}
        BY <2>1 DEF Pending, Places
      <4>3. QED
        BY <1>2, <4>1, <4>2, Went
    <3>2. QED
      BY <3>1
  <2>3. proc' # [proc EXCEPT ![p].pc = "put"]
    BY <1>0, <1>2 DEF Processes
  <2>4. QED
    BY <1>2, <2>2, <2>3, LockDone, NotPut
<1>3. CASE q = p /\ ~Lock(p) /\ ~Put(p) /\ ~PutFails(p)
  <2> DEFINE Fine == s.pc \notin {"undo", "back"}
  <2> SUFFICES Fine
    BY <1>3
  <2>1. ASSUME NEW pc, Go(p, pc), pc \notin {"undo", "back"} PROVE Fine
    BY <1>0, <2>1 DEF Go, Processes
  <2>2. ASSUME End(p) PROVE Fine
    BY <2>2, Ended DEF Idle
  <2>3. ASSUME NEW m, NEW pc, proc' = [proc EXCEPT ![p].meta = m, ![p].pc = pc], pc \notin {"undo", "back"} PROVE Fine
    BY <1>0, <2>3 DEF Processes
  <2>4. ASSUME NEW a, NEW b, NEW c, NEW d, NEW e, proc' = Writing(p, a, b, c, d, e) PROVE Fine
    BY <1>0, <2>4 DEF Writing, Processes
  <2>5. ASSUME NEW m, NEW d, NEW e, proc' = WriteMeta(p, m, d, e) PROVE Fine
    BY <2>4, <2>5 DEF WriteMeta
  <2>6. CASE Connect(p)
    <3>1. CASE End(p)
      BY <2>2, <3>1
    <3>2. CASE ~End(p)
      BY <1>0, <2>6, <3>2 DEF Connect, Writing, Processes
    <3>3. QED
      BY <3>1, <3>2
  <2>7. CASE Start(p)
    <3>1. PICK c \in Kinds, n \in Names, t \in Slot :
            proc' = [proc EXCEPT ![p] =
                 [Idle EXCEPT !.cmd = c, !.name = n, !.to = t, !.def = default, !.pc = First(c)]]
      BY <2>7 DEF Start, Slot
    <3>2. s.pc = First(c)
      BY <1>0, <3>1 DEF Idle
    <3>3. QED
      BY <3>2 DEF First
  <2> HIDE DEF Fine
  <2>8. CASE LoginStep(p)
    <3>1. CASE LoginRead(p)
      <4>1. Go(p, "stat") \/ Go(p, "added")
        BY <3>1 DEF LoginRead
      <4>2. QED
        BY <2>1, <4>1
    <3>2. CASE AddStat(p) \/ AddUndo(p) \/ Authorize(p)
      BY <2>1, <2>2, <3>2 DEF AddStat, AddUndo, Authorize
    <3>3. CASE AddMkdir(p) \/ PersistAuthed(p)
      BY <2>2, <2>5, <3>3 DEF AddMkdir, PersistAuthed
    <3>4. CASE LoginLoad(p)
      BY <2>2, <2>3, <3>4 DEF LoginLoad
    <3>5. QED
      BY <2>8, <3>1, <3>2, <3>3, <3>4 DEF LoginStep
  <2>9. CASE Load(p)
    BY <2>2, <2>3, <2>9 DEF Load
  <2>10. CASE Probe(p)
    BY <2>1, <2>2, <2>5, <2>10 DEF Probe, Expire
  <2>11. CASE LogoutStep(p)
    BY <2>1, <2>2, <2>5, <2>11 DEF LogoutStep, Revoke, Delete, Reread, Reset, Purge, ClearDefault
  <2>12. CASE RenameStep(p)
    <3>1. CASE RenameCheck(p)
      <4>1. End(p) \/ proc' = [proc EXCEPT ![p].meta = dir[r.name].meta, ![p].pc = "busy"]
        BY <3>1 DEF RenameCheck
      <4>2. CASE proc' = [proc EXCEPT ![p].meta = dir[r.name].meta, ![p].pc = "busy"]
        BY <1>0, <4>2 DEF Processes, Fine
      <4>3. QED
        BY <2>2, <4>1, <4>2
    <3>2. CASE RenameProbe(p)
      BY <2>1, <2>2, <3>2 DEF RenameProbe
    <3>3. CASE RenameMove(p)
      BY <2>2, <2>5, <3>3 DEF RenameMove
    <3>4. CASE RenameBack(p) \/ Repoint(p)
      BY <2>2, <3>4 DEF RenameBack, Repoint
    <3>5. QED
      BY <2>12, <3>1, <3>2, <3>3, <3>4 DEF RenameStep
  <2>13. CASE SwitchStep(p) \/ Finish(p) \/ Fails(p) \/ Kill(p)
    BY <2>1, <2>2, <2>13 DEF SwitchStep, SwitchCheck, SetDefault, Finish, Fails, Kill, Stop
  <2>14. QED
    BY <1>3, <2>6, <2>7, <2>8, <2>9, <2>10, <2>11, <2>12, <2>13 DEF Step, ClientStep, FileStep
<1>4. QED
  BY <1>1, <1>2, <1>3

\* A directory that one login makes is met by nobody else.
LEMMA FreshStep ==
  ASSUME TypeOK, Noted, Kept, NEW p \in Procs, Step(p), Orderly', NoneRaced({"login"})',
         NEW q \in Procs
  PROVE  Fresh(proc'[q], dir')
<1> DEFINE r == proc[p]
           s == proc'[p]
<1>0. /\ Course(r) /\ Course(proc[q]) /\ r \in Processes /\ proc \in [Procs -> Processes]
      /\ dir \in [Names -> Dirs] /\ \A n \in Names : dir[n] \in Dirs
      /\ Others(p) /\ raced \subseteq raced' /\ NoneRaced({"login"}) /\ Fresh(r, dir)
  BY ProcStep, OtherVars DEF TypeOK, NoneRaced, Kept
<1>1. CASE q # p
  <2>1. SUFFICES ASSUME proc[q].pc \in {"mkdir", "undo"} \/ Adding(proc[q]) PROVE FALSE
    BY <1>0, <1>1 DEF Others, Fresh
  <2>2. proc[q].cmd \in Logins /\ q \in Running /\ Class(proc[q].cmd) = "login"
    BY <1>0, <2>1, Known DEF Adding, InWrite, Pending, Running, Class, Logins
  <2>3. CASE Start(p)
    BY <1>0, <2>2, <2>3 DEF Start, Quiet, NoneRaced
  <2>4. CASE ~Start(p)
    <3>1. p \in Running
      BY <2>4, SameCommand DEF Running
    <3>2. QED
      BY <1>0, <1>1, <2>2, <3>1 DEF Noted, NoneRaced
  <2>5. QED
    BY <2>3, <2>4
<1>2. CASE q = p
  <2> SUFFICES Fresh(s, dir')
    BY <1>2
  <2> DEFINE Old == s.pc \notin {"mkdir", "undo"} /\ ~Adding(s)
  <2>1. ASSUME Old PROVE Fresh(s, dir')
    BY <2>1 DEF Fresh
  <2> HIDE DEF Old
  <2>2. ASSUME NEW pc, Go(p, pc), pc \notin {"mkdir", "undo", "lock", "put"} PROVE Old
    BY <1>0, <2>2 DEF Go, Processes, Adding, InWrite, Old
  <2>3. ASSUME End(p) PROVE Old
    BY <2>3, Ended DEF Idle, Old, Adding, InWrite
  <2>4. ASSUME NEW m, NEW pc, proc' = [proc EXCEPT ![p].meta = m, ![p].pc = pc],
               pc \notin {"mkdir", "undo", "lock", "put"}
        PROVE  Old
    BY <1>0, <2>4 DEF Processes, Adding, InWrite, Old
  <2>5. ASSUME NEW a, NEW b, NEW c, NEW d, NEW e, proc' = Writing(p, a, b, c, d, e), d # "added" PROVE Old
    BY <1>0, <2>5 DEF Writing, Processes, Adding, InWrite, Old
  <2>6. ASSUME NEW m, NEW d, NEW e, proc' = WriteMeta(p, m, d, e), d # "added" PROVE Old
    BY <2>5, <2>6 DEF WriteMeta
  <2>7. CASE Start(p)
    <3>1. PICK c \in Kinds, n \in Names, t \in Slot :
            proc' = [proc EXCEPT ![p] =
                 [Idle EXCEPT !.cmd = c, !.name = n, !.to = t, !.def = default, !.pc = First(c)]]
      BY <2>7 DEF Start, Slot
    <3>2. s.pc = First(c)
      BY <1>0, <3>1 DEF Idle
    <3>3. QED
      BY <2>1, <3>2 DEF First, Adding, InWrite, Old
  <2>8. CASE Connect(p)
    <3>1. CASE End(p)
      BY <2>1, <2>3, <3>1
    <3>2. CASE ~End(p)
      <4>1. s.pc = "lock" /\ s.w.then \in {"authorize", "probe"}
        BY <1>0, <2>8, <3>2 DEF Connect, Writing, Processes
      <4>2. QED
        BY <2>1, <4>1 DEF Adding, Old
    <3>3. QED
      BY <3>1, <3>2
  <2>9. CASE AddStat(p)
    <3>1. CASE End(p)
      BY <2>1, <2>3, <3>1
    <3>2. CASE ~End(p)
      <4>1. Go(p, "mkdir") /\ ~dir[r.name].there /\ dir' = dir
        BY <2>9, <3>2 DEF AddStat, disk
      <4>2. s.pc = "mkdir" /\ s.name = r.name
        BY <4>1, Went DEF Places
      <4>3. QED
        BY <4>1, <4>2 DEF Fresh, Adding, InWrite
    <3>3. QED
      BY <3>1, <3>2
  <2>10. CASE AddMkdir(p)
    <3>1. r.pc = "mkdir" /\ r.name \in Names
      BY <1>0, <2>10, Known DEF AddMkdir, At
    <3>2. dir[r.name].meta = NoMeta
      BY <1>0, <3>1, NoDirFields DEF Fresh, Kept
    <3>3. dir'[r.name].meta = NoMeta
      BY <1>0, <2>10, <3>1, <3>2 DEF AddMkdir, Dirs
    <3>4. s.name = r.name /\ s.pc = "lock"
      BY <1>0, <2>10 DEF AddMkdir, WriteMeta, Writing, Processes
    <3>5. QED
      BY <3>3, <3>4 DEF Fresh
  <2>11. CASE Lock(p) \/ Put(p) \/ PutFails(p)
    <3>1. Pending(r) /\ r.name \in Names /\ InWrite(r)
      BY <1>0, <2>11, Known DEF Lock, Put, PutFails, At, InWrite
    <3>2. r.w.else = "undo" \/ r.w.then = "added" => Adding(r) /\ dir[r.name].meta = NoMeta
      BY <1>0, <3>1 DEF Pending, Adding, Fresh
    <3>3. r.w.then \notin {"mkdir", "undo", "lock", "put"} /\ r.w.else \notin {"mkdir", "lock", "put"}
      BY <3>1 DEF Pending
    <3>4. CASE Put(p)
      BY <2>1, <2>2, <3>3, <3>4, PutOwns, PutDone
    <3>5. CASE Go(p, r.w.else) /\ \A n \in Names : Alike(n)
      <4>1. s.pc = r.w.else /\ s.name = r.name
        BY <3>1, <3>5, Went DEF Pending, Places
      <4>2. s.pc = "undo" => dir'[s.name].meta = NoMeta
        BY <3>1, <3>2, <3>5, <4>1 DEF Alike
      <4>3. QED
        BY <3>3, <4>1, <4>2 DEF Fresh, Adding, InWrite
    <3>6. CASE /\ proc' = [proc EXCEPT ![p].pc = "put"]
               /\ \A n \in Names : dir'[n].meta = dir[n].meta /\ dir'[n].key = dir[n].key
      <4>1. s.pc = "put" /\ s.w = r.w /\ s.name = r.name
        BY <1>0, <3>6 DEF Processes
      <4>2. QED
        BY <3>1, <3>2, <3>6, <4>1 DEF Fresh, Adding
    <3>7. QED
      BY <2>11, <3>4, <3>5, <3>6, LockDone, NotPut
  <2>12. CASE LoginRead(p)
    <3>1. Go(p, "stat") \/ Go(p, "added")
      BY <2>12 DEF LoginRead
    <3>2. QED
      BY <2>1, <2>2, <3>1
  <2>13. CASE AddUndo(p) \/ LoginLoad(p) \/ Authorize(p) \/ PersistAuthed(p)
    <3>1. CASE AddUndo(p) \/ Authorize(p)
      BY <2>1, <2>2, <2>3, <3>1 DEF AddUndo, Authorize
    <3>2. CASE LoginLoad(p)
      <4>1. End(p) \/ proc' = [proc EXCEPT ![p].meta = dir[r.name].meta, ![p].pc = "connect"]
        BY <3>2 DEF LoginLoad
      <4>2. QED
        BY <2>1, <2>3, <2>4, <4>1
    <3>3. CASE PersistAuthed(p)
      BY <2>1, <2>3, <2>6, <3>3 DEF PersistAuthed
    <3>4. QED
      BY <2>13, <3>1, <3>2, <3>3
  <2>14. CASE Load(p) \/ Probe(p) \/ LogoutStep(p)
    <3>1. CASE Load(p)
      <4>1. End(p) \/ \E pc \in {"connect", "reset"} :
                        proc' = [proc EXCEPT ![p].meta = dir[r.name].meta, ![p].pc = pc]
        BY <3>1 DEF Load
      <4>2. QED
        BY <2>1, <2>3, <2>4, <4>1
    <3>2. CASE Probe(p)
      <4>1. Expire(p) \/ Go(p, "end") \/ Go(p, "revoke") \/ End(p)
        BY <3>2 DEF Probe
      <4>2. QED
        BY <2>1, <2>2, <2>3, <2>6, <4>1 DEF Expire
    <3>3. CASE Revoke(p) \/ Delete(p) \/ ClearDefault(p)
      BY <2>1, <2>2, <2>3, <3>3 DEF Revoke, Delete, ClearDefault
    <3>4. CASE Reread(p)
      BY <2>1, <2>2, <2>6, <3>4 DEF Reread
    <3>5. CASE Reset(p)
      BY <2>1, <2>6, <3>5 DEF Reset
    <3>6. CASE Purge(p)
      <4>1. Go(p, "clear") \/ End(p)
        BY <3>6 DEF Purge
      <4>2. QED
        BY <2>1, <2>2, <2>3, <4>1
    <3>7. QED
      BY <2>14, <3>1, <3>2, <3>3, <3>4, <3>5, <3>6 DEF LogoutStep
  <2>15. CASE RenameStep(p)
    <3>1. CASE RenameCheck(p)
      <4>1. End(p) \/ proc' = [proc EXCEPT ![p].meta = dir[r.name].meta, ![p].pc = "busy"]
        BY <3>1 DEF RenameCheck
      <4>2. QED
        BY <2>1, <2>3, <2>4, <4>1
    <3>2. CASE RenameProbe(p)
      <4>1. Go(p, "move") \/ End(p)
        BY <3>2 DEF RenameProbe
      <4>2. QED
        BY <2>1, <2>2, <2>3, <4>1
    <3>3. CASE RenameMove(p)
      BY <2>1, <2>3, <2>6, <3>3 DEF RenameMove
    <3>4. CASE RenameBack(p) \/ Repoint(p)
      BY <2>1, <2>3, <3>4 DEF RenameBack, Repoint
    <3>5. QED
      BY <2>15, <3>1, <3>2, <3>3, <3>4 DEF RenameStep
  <2>16. CASE SwitchStep(p) \/ Finish(p) \/ Fails(p) \/ Kill(p)
    <3>1. CASE SwitchCheck(p)
      <4>1. Go(p, "set") \/ End(p)
        BY <3>1 DEF SwitchCheck
      <4>2. QED
        BY <2>1, <2>2, <2>3, <4>1
    <3>2. CASE SetDefault(p) \/ Finish(p) \/ Fails(p) \/ Kill(p)
      BY <2>1, <2>3, <3>2 DEF SetDefault, Finish, Fails, Kill, Stop
    <3>3. QED
      BY <2>16, <3>1, <3>2 DEF SwitchStep
  <2>17. QED
    BY <2>7, <2>8, <2>9, <2>10, <2>11, <2>12, <2>13, <2>14, <2>15, <2>16
       DEF Step, LoginStep, ClientStep, FileStep
<1>3. QED
  BY <1>1, <1>2

LEMMA KeptStep ==
  ASSUME TypeOK, Noted, Orderly => Kept, NEW p \in Procs, Step(p), Orderly'
  PROVE  Kept'
<1>1. Orderly /\ Kept
  BY OrderlyBefore
<1>2. \A q \in Procs : Owns(proc'[q], dir')
  BY <1>1, OthersOwn, SelfOwns
<1>3. DirsKept'
  BY <1>1, DirsStep
<1>4. \A q \in Procs : proc'[q].pc \in {"undo", "back"} => failed' # {}
  BY <1>1, TurnsBack
<1>5. NoneRaced({"login"})' => \A q \in Procs : Fresh(proc'[q], dir')
  BY <1>1, FreshStep
<1>6. QED
  BY <1>2, <1>3, <1>4, <1>5 DEF Kept, DirsKept

LEMMA KeptHolds == Spec => [](Orderly => Kept)
<1>1. Init => Kept
  <2>1. SUFFICES ASSUME Init PROVE Kept
    OBVIOUS
  <2>2. \A p \in Procs : proc[p] = Idle
    BY <2>1 DEF Init
  <2>3. DirsKept
    <3>1. CASE dir = [n \in Names |-> NoDir]
      BY <3>1, NoDirFields DEF DirsKept
    <3>2. ASSUME NEW n \in Names,
                 dir = [d \in Names |-> IF d = n THEN [EmptyDir EXCEPT !.meta = Meta(n, "AUTHED"),
                                                       !.key = 1, !.lock = "free"]
                                              ELSE NoDir]
          PROVE  DirsKept
      <4> DEFINE full == [EmptyDir EXCEPT !.meta = Meta(n, "AUTHED"), !.key = 1, !.lock = "free"]
      <4>1. full.there /\ full.meta = Meta(n, "AUTHED") /\ full.key = 1
        BY DEF EmptyDir, NoDir
      <4>2. full.meta # NoMeta /\ full.meta.name = n
        BY <4>1 DEF Meta, NoMeta
      <4> HIDE DEF full
      <4>3. \A m \in Names : dir[m] = IF m = n THEN full ELSE NoDir
        BY <3>2 DEF full
      <4>4. QED
        BY <4>1, <4>2, <4>3, NoDirFields DEF DirsKept
    <3>3. QED
      BY <2>1, <3>1, <3>2 DEF Init
  <2>4. \A p \in Procs : Fresh(proc[p], dir)
    BY <2>2 DEF Fresh, Adding, InWrite, Idle
  <2>5. QED
    BY <2>2, <2>3, <2>4, IdleOwns DEF Kept, DirsKept
<1>2. TypeOK /\ Noted /\ (Orderly => Kept) /\ [Next]_vars => (Orderly => Kept)'
  <2>1. SUFFICES ASSUME TypeOK, Noted, Orderly => Kept, [Next]_vars PROVE (Orderly => Kept)'
    OBVIOUS
  <2>2. CASE UNCHANGED vars
    BY <2>1, <2>2 DEF Kept, Orderly, NoneRaced, vars
  <2>3. CASE RevokedElsewhere
    BY <2>1, <2>3 DEF Kept, Orderly, NoneRaced, RevokedElsewhere, disk, history
  <2>4. ASSUME NEW p \in Procs, Step(p) PROVE (Orderly => Kept)'
    BY <2>1, <2>4, KeptStep
  <2>5. QED
    BY <2>1, <2>2, <2>3, <2>4 DEF Next, Step
<1>3. QED
  BY <1>1, <1>2, SlotsTypeCorrect, NotedHolds, PTL DEF Spec

\* At every moment of an orderly history, whatever fails or is killed, a live
\* session lies beside an account.json, so that `tg auth logout` can revoke it.
THEOREM LiveUsable == Spec => []LiveIsUsable
<1>1. TypeOK /\ Minted /\ (Orderly => Kept) => LiveIsUsable
  <2>1. SUFFICES ASSUME TypeOK, Minted, Orderly => Kept, Orderly, NEW n \in Names,
                        dir[n].key \in good
                 PROVE  dir[n].meta # NoMeta
    BY DEF LiveIsUsable
  <2>2. dir[n].key # NoKey
    BY <2>1 DEF Minted, NoKey, TypeOK
  <2>3. QED
    BY <2>1, <2>2 DEF Kept
<1>2. QED
  BY <1>1, SlotsTypeCorrect, MintedHolds, KeptHolds, PTL

-----------------------------------------------------------------------------
(* Begun: a directory without an account.json is being made                *)

Unbroken == Orderly /\ killed = {} /\ failed \cap {"undo", "gone"} = {}

LEMMA UnbrokenBefore ==
  ASSUME TypeOK, NEW p \in Procs, Step(p), Unbroken'
  PROVE  Unbroken /\ ~Kill(p) /\ ~(Fails(p) /\ Removing(p))
<1>1. Orderly
  BY OrderlyBefore DEF Unbroken
<1>2. killed \subseteq killed' /\ failed \subseteq failed'
  BY OtherVars
<1>3. killed = {} /\ failed \cap {"undo", "gone"} = {}
  BY <1>2 DEF Unbroken
<1>4. ~Kill(p)
  BY StopDone DEF Unbroken
<1>5. ~(Fails(p) /\ Removing(p))
  BY StopDone DEF Removing, At, Unbroken
<1>6. QED
  BY <1>1, <1>3, <1>4, <1>5 DEF Unbroken

LEMMA MakingKept ==
  ASSUME TypeOK, Kept, NEW p \in Procs, Step(p), ~Put(p), ~AddUndo(p),
         ~Kill(p), ~(Fails(p) /\ Removing(p)),
         NEW n \in Names, Making(proc[p], n)
  PROVE  Making(proc'[p], n)
<1> DEFINE r == proc[p]
           s == proc'[p]
<1>0. Course(r) /\ r.name = n /\ r.pc \in {"lock", "put", "undo"}
  BY DEF TypeOK, Making, Adding, InWrite
<1>1. Lock(p) \/ PutFails(p)
  BY <1>0 DEF Step, LoginStep, ClientStep, LogoutStep, RenameStep, SwitchStep, FileStep, At,
     Start, LoginRead, AddStat, AddMkdir, AddUndo, LoginLoad, Authorize, PersistAuthed,
     Load, Connect, Probe, Revoke, Delete, Reread, Reset, Purge, ClearDefault, RenameCheck,
     RenameProbe, RenameMove, RenameBack, Repoint, SwitchCheck, SetDefault, Put, Finish,
     Fails, Removing
<1>2. Pending(r) /\ r.w.then = "added"
  BY <1>0, <1>1, Known DEF InWrite, Lock, PutFails, At, Making, Adding
<1>3. r.w.else = "undo"
  BY <1>2 DEF Pending
<1>4. CASE Go(p, r.w.else)
  <2>1. s.pc = "undo" /\ s.name = n
    BY <1>0, <1>3, <1>4, Went DEF Places
  <2>2. QED
    BY <2>1 DEF Making
<1>5. CASE proc' = [proc EXCEPT ![p].pc = "put"]
  <2>1. s.pc = "put" /\ s.name = n /\ s.w = r.w
    BY <1>0, <1>5 DEF TypeOK, Processes
  <2>2. QED
    BY <1>2, <2>1 DEF Making, Adding, InWrite
<1>6. QED
  BY <1>1, <1>4, <1>5, LockDone, NotPut

LEMMA BegunStep ==
  ASSUME TypeOK, Noted, Kept, Begun, NEW p \in Procs, Step(p), Unbroken'
  PROVE  Begun'
<1> DEFINE r == proc[p]
           s == proc'[p]
<1>0. /\ Course(r) /\ Owns(r, dir) /\ dir \in [Names -> Dirs] /\ \A n \in Names : dir[n] \in Dirs
      /\ Unbroken /\ ~Kill(p) /\ ~(Fails(p) /\ Removing(p)) /\ Others(p)
  BY UnbrokenBefore, ProcStep DEF TypeOK, Kept
\* Nothing new to account for, and p accounts for n no less than before.
<1>1. ASSUME NEW n \in Names, dir[n].there /\ dir[n].meta = NoMeta,
             ~Put(p), ~AddUndo(p)
      PROVE  \E q \in Procs : Making(proc'[q], n)
  <2>1. PICK q \in Procs : Making(proc[q], n)
    BY <1>1 DEF Begun
  <2>2. CASE q = p
    BY <1>0, <1>1, <2>1, <2>2, MakingKept
  <2>3. CASE q # p
    BY <1>0, <2>1, <2>3 DEF Others
  <2>4. QED
    BY <2>2, <2>3
<1>2. ASSUME \A n \in Names : dir'[n].there /\ dir'[n].meta = NoMeta => dir[n].there /\ dir[n].meta = NoMeta,
             ~Put(p), ~AddUndo(p)
      PROVE  Begun'
  BY <1>1, <1>2 DEF Begun
<1>3. CASE Start(p) \/ Reads(p)
  <2>1. dir' = dir
    BY <1>3, DirSame
  <2>2. ~Put(p) /\ ~AddUndo(p)
    BY <1>3 DEF Start, Reads, Put, AddUndo, At, LoginRead, AddStat, LoginLoad, Authorize,
       PersistAuthed, Load, Connect, Probe, Revoke, Reread, ClearDefault, RenameCheck, Repoint,
       SwitchCheck, SetDefault, Finish
  <2>3. QED
    BY <1>2, <2>1, <2>2
<1>4. CASE AddMkdir(p)
  <2>1. r.name \in Names /\ r.pc = "mkdir"
    BY <1>0, <1>4, Known DEF AddMkdir, At
  <2>2. \A n \in Names \ {r.name} : dir'[n] = dir[n]
    BY <1>0, <1>4, <2>1 DEF AddMkdir
  <2>3. ~Put(p) /\ ~AddUndo(p)
    BY <2>1 DEF Put, AddUndo, At
  <2>4. proc' = Writing(p, r.name, "meta", Meta(r.name, "NEW"), "added", "undo")
    BY <1>4 DEF AddMkdir, WriteMeta, Meta
  <2>5. [path |-> r.name, file |-> "meta", val |-> Meta(r.name, "NEW"), then |-> "added", else |-> "undo"] \in Writes
    BY <2>1 DEF Writes, Places, Metas, Meta, States
  <2>6. s.pc = "lock" /\ s.w.then = "added" /\ s.name = r.name
    BY <2>4, <2>5, Wrote
  <2>7. Making(s, r.name)
    BY <2>6 DEF Making, Adding, InWrite
  <2>8. QED
    BY <1>1, <2>1, <2>2, <2>3, <2>7 DEF Begun
<1>5. CASE AddUndo(p)
  <2>1. r.name \in Names /\ r.pc = "undo"
    BY <1>0, <1>5, Known DEF AddUndo, At
  <2>2. dir'[r.name] = NoDir /\ \A n \in Names \ {r.name} : dir'[n] = dir[n]
    BY <1>0, <1>5, <2>1 DEF AddUndo
  <2>3. \A n \in Names \ {r.name} : dir[n].there /\ dir[n].meta = NoMeta =>
          \E q \in Procs \ {p} : Making(proc[q], n)
    BY DEF Begun, Making
  <2>4. QED
    BY <1>0, <2>1, <2>2, <2>3, NoDirFields DEF Begun, Others
<1>6. CASE Delete(p) \/ Reset(p) \/ RenameProbe(p)
  <2>1. r.pc \in {"delete", "reset", "busy"} /\ r.name \in Names
    BY <1>0, <1>6, Known DEF Delete, Reset, RenameProbe, At
  <2>2. \A n \in Names : dir'[n].there = dir[n].there /\ dir'[n].meta = dir[n].meta
    BY <1>0, <1>6, <2>1 DEF Delete, Reset, RenameProbe, Dirs
  <2>3. ~Put(p) /\ ~AddUndo(p)
    BY <2>1 DEF Put, AddUndo, At
  <2>4. QED
    BY <1>2, <2>2, <2>3
<1>7. CASE Purge(p)
  <2>1. ~Put(p) /\ ~AddUndo(p)
    BY <1>7 DEF Purge, Put, AddUndo, At
  <2>2. \A n \in Names : dir'[n] = dir[n] \/ dir'[n] = NoDir
    BY <1>0, <1>7 DEF Purge
  <2>3. QED
    BY <1>2, <2>1, <2>2, NoDirFields
<1>8. CASE RenameMove(p) \/ RenameBack(p)
  <2>1. /\ r.pc \in {"move", "back"} /\ r.cmd = "rename" /\ r.name \in Names /\ r.to \in Names
        /\ r.to # r.name /\ r.meta \in Metas
    BY <1>0, <1>8, Known DEF RenameMove, RenameBack, At
  <2>2. r.meta # NoMeta
    BY <2>1 DEF Metas, NoMeta, States
  <2>3. ~Put(p) /\ ~AddUndo(p)
    BY <2>1 DEF Put, AddUndo, At
  <2>4. CASE dir' = dir
    BY <1>2, <2>3, <2>4
  <2>5. CASE r.pc = "move" /\ dir' = Moved(r.name, r.to)
    <3>1. dir[r.name].meta = r.meta
      BY <1>0, <2>1, <2>5 DEF Owns
    <3>2. dir'[r.to] = dir[r.name] /\ dir'[r.name] = NoDir /\ \A x \in Names \ {r.name, r.to} : dir'[x] = dir[x]
      BY <2>1, <2>5, MoveDone
    <3>3. QED
      BY <1>2, <2>1, <2>2, <2>3, <3>1, <3>2, NoDirFields
  <2>6. CASE r.pc = "back" /\ dir' = Moved(r.to, r.name)
    <3>1. dir[r.to].meta = r.meta
      BY <1>0, <2>1, <2>6 DEF Owns
    <3>2. dir'[r.name] = dir[r.to] /\ dir'[r.to] = NoDir /\ \A x \in Names \ {r.name, r.to} : dir'[x] = dir[x]
      BY <2>1, <2>6, MoveDone
    <3>3. QED
      BY <1>2, <2>1, <2>2, <2>3, <3>1, <3>2, NoDirFields
  <2>7. QED
    BY <1>8, <2>4, <2>5, <2>6 DEF RenameMove, RenameBack, At
<1>9. CASE Lock(p)
  <2>1. r.pc = "lock" /\ Pending(r) /\ ~Put(p) /\ ~AddUndo(p)
    BY <1>0, <1>9, Known DEF Lock, At, InWrite, Put, AddUndo
  <2>2. CASE \A n \in Names : Alike(n)
    BY <1>2, <2>1, <2>2 DEF Alike
  <2>3. CASE /\ proc' = [proc EXCEPT ![p].pc = "put"]
             /\ \A n \in Names : dir'[n].meta = dir[n].meta /\ dir'[n].key = dir[n].key
             /\ \A n \in Names \ {r.w.path} : Alike(n)
    <3>1. s.pc = "put" /\ s.w = r.w /\ s.name = r.name
      BY <1>0, <2>3 DEF TypeOK, Processes
    <3>2. CASE r.w.then = "added"
      <4>1. r.w.path = r.name
        BY <2>1, <3>2 DEF Pending, Logins, Meta
      <4>2. Making(s, r.w.path)
        BY <3>1, <3>2, <4>1 DEF Making, Adding, InWrite
      <4>3. QED
        BY <1>1, <2>1, <2>3, <4>2 DEF Begun, Alike
    <3>3. CASE r.w.then # "added"
      <4>1. r.w.path \in Names
        BY <2>1 DEF Pending, Writes
      <4>2. dir[r.w.path].meta # NoMeta
        <5>1. CASE r.cmd = "rename"
          <6>1. r.w.path = r.to /\ dir[r.to].meta = r.meta /\ r.meta \in Metas
            BY <1>0, <2>1, <3>3, <5>1 DEF Pending, Owns, InWrite, Logins, Entries, Clients
          <6>2. QED
            BY <6>1 DEF Metas, NoMeta, States
        <5>2. CASE r.cmd # "rename"
          BY <1>0, <2>1, <3>3, <5>2 DEF Owns, Loaded, Adding, InWrite
        <5>3. QED
          BY <5>1, <5>2
      <4>3. QED
        BY <1>2, <2>1, <2>3, <4>1, <4>2 DEF Alike
    <3>4. QED
      BY <3>2, <3>3
  <2>4. QED
    BY <1>9, <2>2, <2>3, LockDone
<1>10. CASE Put(p)
  <2> DEFINE w == r.w
  <2>1. dir[w.path].there /\ Pending(r) /\ r.pc = "put" /\ r.name \in Names
    BY <1>0, <1>10, PutOwns, Known DEF Put, At, InWrite
  <2>2. w.path \in Names /\ w.file \in {"meta", "key"}
    BY <2>1 DEF Pending, Writes
  <2>3. /\ \A n \in Names : dir'[n].there = dir[n].there
        /\ w.file = "meta" => dir'[w.path].meta = w.val
        /\ w.file = "key"  => dir'[w.path].meta = dir[w.path].meta
        /\ \A n \in Names \ {w.path} : Alike(n)
    BY <1>10, <2>1, PutDone
  <2>4. w.file = "meta" => w.val # NoMeta
    BY <2>1 DEF Pending, Writes, Metas, NoMeta, States
  <2>5. w.file = "key" => dir[w.path].meta # NoMeta
    BY <1>0, <2>1 DEF Pending, Owns, Loaded, Adding, InWrite, Entries, Clients
  <2>6. \A n \in Names : Making(r, n) => n = w.path
    BY <2>1 DEF Making, Adding, Pending, Meta, InWrite
  <2>7. \A n \in Names \ {w.path} : dir[n].there /\ dir[n].meta = NoMeta =>
          \E q \in Procs \ {p} : Making(proc[q], n)
    BY <2>6 DEF Begun
  <2>8. \A n \in Names \ {w.path} : dir'[n].there /\ dir'[n].meta = NoMeta =>
          \E q \in Procs : Making(proc'[q], n)
    BY <1>0, <2>3, <2>7 DEF Others, Alike
  <2>9. dir'[w.path].meta # NoMeta
    BY <2>2, <2>3, <2>4, <2>5
  <2>10. QED
    BY <2>8, <2>9 DEF Begun
<1>11. CASE PutFails(p)
  <2>1. ~AddUndo(p)
    BY <1>11 DEF PutFails, AddUndo, At
  <2>2. \A n \in Names : Alike(n)
    BY <1>11, NotPut
  <2>3. QED
    BY <1>2, <1>10, <2>1, <2>2 DEF Alike
<1>12. CASE Fails(p)
  <2>1. \A n \in Names : Alike(n)
    BY <1>0, <1>12, StopDone DEF Halved
  <2>2. QED
    BY <1>0, <1>2, <1>5, <1>10, <1>12, <2>1 DEF Alike
<1>13. QED
  BY <1>12, <1>0, <1>3, <1>4, <1>5, <1>6, <1>7, <1>8, <1>9, <1>10, <1>11, StepCases

LEMMA InitDirs ==
  ASSUME Init
  PROVE  /\ \A n \in Names : dir[n].there => dir[n].meta # NoMeta
         /\ default # NoName => default \in Names /\ dir[default].meta # NoMeta
         /\ \A n \in Names : /\ dir[n].meta.state \notin {"NEW", "EXPIRED"}
                             /\ dir[n].key \in {NoKey, 1}
         /\ \A n, m \in Names : n # m => dir[n].key = NoKey \/ dir[m].key = NoKey
         /\ \A k \in good : \E n \in Names : dir[n].key = k
<1>1. CASE dir = [n \in Names |-> NoDir] /\ made = 0 /\ default = NoName
  <2>1. NoMeta.state \notin {"NEW", "EXPIRED"}
    BY DEF NoMeta
  <2>2. good = {}
    BY <1>1 DEF Init
  <2>3. QED
    BY <1>1, <2>1, <2>2, NoDirFields
<1>2. ASSUME NEW n \in Names, made = 1, default \in {n, NoName},
             dir = [d \in Names |-> IF d = n THEN [EmptyDir EXCEPT !.meta = Meta(n, "AUTHED"),
                                                   !.key = 1, !.lock = "free"]
                                          ELSE NoDir]
      PROVE  /\ \A m \in Names : dir[m].there => dir[m].meta # NoMeta
             /\ default # NoName => default \in Names /\ dir[default].meta # NoMeta
             /\ \A m \in Names : /\ dir[m].meta.state \notin {"NEW", "EXPIRED"}
                                 /\ dir[m].key \in {NoKey, 1}
             /\ \A x, m \in Names : x # m => dir[x].key = NoKey \/ dir[m].key = NoKey
             /\ \A k \in good : \E m \in Names : dir[m].key = k
  <2> DEFINE full == [EmptyDir EXCEPT !.meta = Meta(n, "AUTHED"), !.key = 1, !.lock = "free"]
  <2>1. full.there /\ full.meta = Meta(n, "AUTHED") /\ full.key = 1
    BY DEF EmptyDir, NoDir
  <2>2. full.meta # NoMeta /\ full.meta.state = "AUTHED" /\ NoMeta.state = "none"
    BY <2>1 DEF Meta, NoMeta
  <2> HIDE DEF full
  <2>3. \A m \in Names : dir[m] = IF m = n THEN full ELSE NoDir
    BY <1>2 DEF full
  <2>4. good = 1 .. 1
    BY <1>2 DEF Init
  <2>5. \A k \in good : dir[n].key = k
    BY <2>1, <2>3, <2>4
  <2>6. QED
    BY <1>2, <2>1, <2>2, <2>3, <2>5, NoDirFields
<1>3. QED
  BY <1>1, <1>2 DEF Init

LEMMA BegunHolds == Spec => [](Unbroken => Begun)
<1>1. Init => Begun
  BY InitDirs DEF Begun
<1>2. TypeOK /\ Noted /\ (Orderly => Kept) /\ (Unbroken => Begun) /\ [Next]_vars => (Unbroken => Begun)'
  <2>1. SUFFICES ASSUME TypeOK, Noted, Orderly => Kept, Unbroken => Begun, [Next]_vars, Unbroken'
                 PROVE  Begun'
    OBVIOUS
  <2>2. CASE UNCHANGED vars
    BY <2>1, <2>2 DEF Begun, Unbroken, Orderly, NoneRaced, vars
  <2>3. CASE RevokedElsewhere
    BY <2>1, <2>3 DEF Begun, Unbroken, Orderly, NoneRaced, RevokedElsewhere, disk, history
  <2>4. ASSUME NEW p \in Procs, Step(p) PROVE Begun'
    <3>1. Unbroken /\ Kept
      BY <2>1, <2>4, UnbrokenBefore DEF Unbroken
    <3>2. QED
      BY <2>1, <2>4, <3>1, BegunStep
  <2>5. QED
    BY <2>1, <2>2, <2>3, <2>4 DEF Next, Step
<1>3. QED
  BY <1>1, <1>2, SlotsTypeCorrect, NotedHolds, KeptHolds, PTL DEF Spec

-----------------------------------------------------------------------------
(* Pointed: default_account is a slot, or the removal under way sees to it *)

Steady == Undisturbed /\ NoneRaced({"removal"})

LEMMA SteadyBefore ==
  ASSUME TypeOK, NEW p \in Procs, Step(p), Steady'
  PROVE  Steady /\ Unbroken /\ Unbroken' /\ failed' = {} /\ failed = {}
<1>1. raced \subseteq raced' /\ killed \subseteq killed' /\ failed \subseteq failed'
  BY OtherVars
<1>2. failed = {} /\ failed' = {}
  BY <1>1 DEF Steady, Undisturbed
<1>3. QED
  BY <1>1, <1>2 DEF Steady, Undisturbed, NoneRaced, Unbroken, Orderly

\* Nothing fails and nothing is killed: the steps that remain.
LEMMA SteadyStep ==
  ASSUME TypeOK, Kept, NEW p \in Procs, Step(p), Steady'
  PROVE  /\ ~Kill(p) /\ ~Fails(p) /\ ~PutFails(p) /\ ~AddUndo(p) /\ ~RenameBack(p)
         /\ Lock(p) => proc' = [proc EXCEPT ![p].pc = "put"]
         /\ Put(p) => Go(p, proc[p].w.then) /\ dir[proc[p].w.path].there
<1>0. failed = {} /\ failed' = {} /\ Unbroken'
  BY SteadyBefore
<1>1. ~Kill(p)
  BY <1>0, UnbrokenBefore
<1>2. ~PutFails(p)
  BY <1>0, NotPut
<1>3. ~AddUndo(p) /\ ~RenameBack(p)
  BY <1>0 DEF Kept, AddUndo, RenameBack, At
<1>4. Lock(p) => proc' = [proc EXCEPT ![p].pc = "put"]
  BY <1>0, LockDone
<1>5. Put(p) => Go(p, proc[p].w.then) /\ dir[proc[p].w.path].there
  BY PutOwns, PutDone
<1>6. ~Fails(p)
  BY <1>0, StopDone
<1>7. QED
  BY <1>1, <1>2, <1>3, <1>4, <1>5, <1>6

\* A removal knows its place.
LEMMA RemovalRuns ==
  ASSUME NEW r, Course(r), r.cmd \in Removals
  PROVE  r.pc # "idle"
BY Known DEF Idle, Removals

LEMMA RepointingKept ==
  ASSUME TypeOK, Kept, NEW p \in Procs, Step(p), Steady', ~ClearDefault(p), ~Repoint(p),
         Repointing(proc[p])
  PROVE  Repointing(proc'[p]) /\ proc'[p].def = proc[p].def
<1> DEFINE r == proc[p]
           s == proc'[p]
<1>0. Course(r) /\ r.pc \in {"lock", "put", "repoint", "clear"}
  BY DEF TypeOK, Repointing, InWrite
<1>1. Lock(p) \/ Put(p)
  BY <1>0, SteadyStep DEF Step, LoginStep, ClientStep, LogoutStep, RenameStep, SwitchStep, FileStep, At,
     Start, LoginRead, AddStat, AddMkdir, LoginLoad, Authorize, PersistAuthed,
     Load, Connect, Probe, Revoke, Delete, Reread, Reset, Purge, RenameCheck,
     RenameProbe, RenameMove, SwitchCheck, SetDefault, Finish
<1>2. Pending(r) /\ r.cmd = "rename" /\ r.def = r.name /\ r.pc \in {"lock", "put"}
  BY <1>0, <1>1, Known DEF InWrite, Lock, Put, At, Repointing
<1>3. r.w.then = "repoint"
  BY <1>2 DEF Pending, Logins, Entries, Clients
<1>4. CASE Put(p)
  <2>1. s.pc = "repoint" /\ s.cmd = r.cmd /\ s.def = r.def /\ s.name = r.name
    BY <1>3, <1>4, SteadyStep, Went DEF Places
  <2>2. QED
    BY <1>2, <2>1 DEF Repointing
<1>5. CASE Lock(p)
  <2>1. proc' = [proc EXCEPT ![p].pc = "put"]
    BY <1>5, SteadyStep
  <2>2. s.pc = "put" /\ s.cmd = r.cmd /\ s.def = r.def /\ s.name = r.name
    BY <2>1 DEF TypeOK, Processes
  <2>3. QED
    BY <1>2, <2>2 DEF Repointing, InWrite
<1>6. QED
  BY <1>1, <1>4, <1>5

\* The two parts of Pointed.
Default ==
  default # NoName /\ dir[default].meta = NoMeta =>
    \E p \in Procs : Repointing(proc[p]) /\ proc[p].def = default

LEMMA DefaultStep ==
  ASSUME TypeOK, Noted, Kept, Pointed, NEW p \in Procs, Step(p), Steady'
  PROVE  Default'
<1> DEFINE r == proc[p]
           s == proc'[p]
<1>0. /\ Course(r) /\ Owns(r, dir) /\ dir \in [Names -> Dirs] /\ \A n \in Names : dir[n] \in Dirs
      /\ Orderly /\ Others(p) /\ default \in Slot /\ proc \in [Procs -> Processes]
      /\ \A q \in Procs : Course(proc[q])
  BY SteadyBefore, ProcStep DEF TypeOK, Kept, Unbroken
<1>1. ASSUME default # NoName => (dir[default].meta # NoMeta => dir'[default].meta # NoMeta),
             default' = default, ~ClearDefault(p), ~Repoint(p)
      PROVE  Default'
  <2>1. SUFFICES ASSUME default # NoName, dir[default].meta = NoMeta
                 PROVE  \E q \in Procs : Repointing(proc'[q]) /\ proc'[q].def = default
    BY <1>1 DEF Default
  <2>2. PICK q \in Procs : Repointing(proc[q]) /\ proc[q].def = default
    BY <2>1 DEF Pointed
  <2>3. CASE q = p
    BY <1>1, <2>2, <2>3, RepointingKept
  <2>4. CASE q # p
    BY <1>0, <2>2, <2>4 DEF Others
  <2>5. QED
    BY <2>3, <2>4
\* A removal that is not at its last steps: the pointer is well.
<1>2. ASSUME r.cmd \in Removals, ~Repointing(r), default # NoName
      PROVE  dir[default].meta # NoMeta
  <2>1. SUFFICES ASSUME NEW q \in Procs, Repointing(proc[q]) PROVE FALSE
    BY <1>2 DEF Pointed
  <2>2. proc[q].cmd \in Removals /\ q \in Running /\ p \in Running
    BY <1>0, <1>2, <2>1, RemovalRuns DEF Repointing, Removals, Running
  <2>3. q = p
    BY <1>0, <2>2, Alone
  <2>4. QED
    BY <1>2, <2>1, <2>3
<1>3. CASE Start(p) \/ (Reads(p) /\ ~ClearDefault(p) /\ ~Repoint(p) /\ ~SetDefault(p))
  <2>1. dir' = dir
    BY <1>3, DirSame
  <2>2. default' = default /\ ~ClearDefault(p) /\ ~Repoint(p)
    BY <1>3 DEF Start, Reads, LoginRead, AddStat, LoginLoad, Authorize,
       PersistAuthed, Load, Connect, Probe, Revoke, Reread, RenameCheck,
       SwitchCheck, Finish, disk, ClearDefault, Repoint, At
  <2>3. QED
    BY <1>1, <2>1, <2>2
<1>4. CASE ClearDefault(p)
  BY <1>4 DEF ClearDefault, Default
<1>5. CASE Repoint(p)
  <2>1. r.pc = "repoint" /\ r.cmd = "rename" /\ r.name \in Names /\ r.to \in Names /\ r.to # r.name
    BY <1>0, <1>5, Known DEF Repoint, At
  <2>2. dir' = dir /\ default' = IF r.def = r.name THEN r.to ELSE default
    BY <1>5 DEF Repoint
  <2>3. dir[r.to].meta.name = r.to
    BY <1>0, <2>1 DEF Owns
  <2>4. dir[r.to].meta # NoMeta
    BY <2>1, <2>3, SlotsAssumption DEF NoMeta, NoName
  <2>5. CASE r.def = r.name
    BY <2>2, <2>4, <2>5 DEF Default
  <2>6. CASE r.def # r.name
    <3>1. ~Repointing(r)
      BY <2>1, <2>6 DEF Repointing
    <3>2. QED
      BY <1>2, <2>1, <2>2, <2>6, <3>1 DEF Default, Removals
  <2>7. QED
    BY <2>5, <2>6
<1>6. CASE SetDefault(p)
  <2>1. r.pc = "set" /\ r.cmd = "switch" /\ r.name \in Names
    BY <1>0, <1>6, Known DEF SetDefault, At
  <2>2. dir[r.name].meta # NoMeta
    BY <1>0, <2>1 DEF Owns
  <2>3. QED
    BY <1>6, <2>2 DEF SetDefault, Default
<1>7. CASE AddMkdir(p) \/ Delete(p) \/ Reset(p) \/ RenameProbe(p)
  <2>1. r.pc \in {"mkdir", "delete", "reset", "busy"} /\ r.name \in Names
    BY <1>0, <1>7, Known DEF AddMkdir, Delete, Reset, RenameProbe, At
  <2>2. \A n \in Names : dir'[n].meta = dir[n].meta
    BY <1>0, <1>7, <2>1 DEF AddMkdir, Delete, Reset, RenameProbe, Dirs
  <2>3. ~ClearDefault(p) /\ ~Repoint(p) /\ default' = default
    BY <1>7, <2>1 DEF ClearDefault, Repoint, At, AddMkdir, Delete, Reset, RenameProbe
  <2>4. QED
    BY <1>0, <1>1, <2>2, <2>3 DEF Slot
<1>8. CASE Purge(p)
  <2>1. r.pc = "gone" /\ r.name \in Names /\ r.cmd \in {"logout", "purge"}
    BY <1>0, <1>8, Known DEF Purge, At
  <2>2. ~ClearDefault(p) /\ ~Repoint(p) /\ default' = default
    BY <1>8, <2>1 DEF ClearDefault, Repoint, At, Purge
  <2>3. CASE r.cmd = "logout"
    <3>1. dir' = dir
      BY <1>8, <2>3 DEF Purge, Is
    <3>2. QED
      BY <1>1, <2>2, <3>1
  <2>4. CASE r.cmd = "purge"
    <3>1. r.meta.name = r.name /\ r.def = default
      BY <1>0, <2>1, <2>4 DEF Owns, Loaded, Pointed, Removals
    <3>2. dir' = [dir EXCEPT ![r.name] = NoDir]
      BY <1>8, <2>4, <3>1 DEF Purge, Is
    <3>3. CASE default = r.name
      <4>1. Go(p, "clear")
        BY <1>8, <2>4, <3>1, <3>3 DEF Purge, Is
      <4>2. s.pc = "clear" /\ s.cmd = "purge" /\ s.def = default
        BY <2>4, <3>1, <4>1, Went DEF Places
      <4>3. Repointing(s)
        BY <4>2 DEF Repointing
      <4>4. QED
        BY <2>2, <4>2, <4>3 DEF Default
    <3>4. CASE default # r.name
      <4>1. default # NoName => dir'[default] = dir[default]
        BY <1>0, <2>1, <3>2, <3>4 DEF Slot
      <4>2. QED
        BY <1>1, <2>2, <4>1
    <3>5. QED
      BY <3>3, <3>4
  <2>5. QED
    BY <2>1, <2>3, <2>4
<1>9. CASE RenameMove(p)
  <2>1. /\ r.pc = "move" /\ r.cmd = "rename" /\ r.name \in Names /\ r.to \in Names
        /\ r.to # r.name /\ r.meta \in Metas
    BY <1>0, <1>9, Known DEF RenameMove, At
  <2>2. ~ClearDefault(p) /\ ~Repoint(p) /\ default' = default
    BY <1>9, <2>1 DEF ClearDefault, Repoint, At, RenameMove
  <2>3. CASE dir' = dir
    BY <1>1, <2>2, <2>3
  <2>4. CASE dir' # dir
    <3>1. /\ dir' = Moved(r.name, r.to)
          /\ proc' = WriteMeta(p, [r.meta EXCEPT !.name = r.to], "repoint", "back")
      BY <1>9, <2>4 DEF RenameMove
    <3>2. dir'[r.to] = dir[r.name] /\ dir'[r.name] = NoDir /\ \A x \in Names \ {r.name, r.to} : dir'[x] = dir[x]
      BY <2>1, <3>1, MoveDone
    <3>3. dir[r.name].meta = r.meta /\ r.meta # NoMeta /\ r.def = default
      BY <1>0, <2>1 DEF Owns, Metas, NoMeta, States, Pointed, Removals
    <3>4. CASE default = r.name
      <4> DEFINE v == [r.meta EXCEPT !.name = r.to]
                 w == [path |-> v.name, file |-> "meta", val |-> v, then |-> "repoint", else |-> "back"]
      <4>1. v \in Metas /\ proc' = Writing(p, v.name, "meta", v, "repoint", "back")
        BY <2>1, <3>1 DEF WriteMeta, Metas, States
      <4> HIDE DEF v
      <4>2. w \in Writes
        BY <4>1 DEF Writes, Places, Metas
      <4>3. s.pc = "lock" /\ s.cmd = r.cmd /\ s.def = r.def /\ s.name = r.name
        BY <4>1, <4>2, Wrote
      <4>4. Repointing(s)
        BY <2>1, <3>3, <3>4, <4>3 DEF Repointing, InWrite
      <4>5. QED
        BY <2>2, <3>3, <4>3, <4>4 DEF Default
    <3>5. CASE default # r.name
      <4>1. default # NoName => (dir[default].meta # NoMeta => dir'[default].meta # NoMeta)
        BY <1>0, <2>1, <3>2, <3>3, <3>5 DEF Slot
      <4>2. QED
        BY <1>1, <2>2, <4>1
    <3>6. QED
      BY <3>4, <3>5
  <2>5. QED
    BY <2>3, <2>4
<1>10. CASE Lock(p)
  <2>1. ~ClearDefault(p) /\ ~Repoint(p) /\ default' = default
    BY <1>10 DEF ClearDefault, Repoint, At, Lock
  <2>2. \A n \in Names : dir'[n].meta = dir[n].meta
    BY <1>10, LockDone DEF Alike
  <2>3. QED
    BY <1>0, <1>1, <2>1, <2>2 DEF Slot
<1>11. CASE Put(p)
  <2> DEFINE w == r.w
  <2>1. dir[w.path].there /\ Pending(r) /\ r.pc = "put" /\ r.name \in Names
    BY <1>0, <1>11, PutOwns, Known DEF Put, At, InWrite
  <2>2. w.path \in Names /\ w.file \in {"meta", "key"}
    BY <2>1 DEF Pending, Writes
  <2>3. /\ w.file = "meta" => dir'[w.path].meta = w.val
        /\ w.file = "key"  => dir'[w.path].meta = dir[w.path].meta
        /\ \A n \in Names \ {w.path} : Alike(n)
    BY <1>11, <2>1, PutDone
  <2>4. w.file = "meta" => w.val # NoMeta
    BY <2>1 DEF Pending, Writes, Metas, NoMeta, States
  <2>5. \A n \in Names : dir[n].meta # NoMeta => dir'[n].meta # NoMeta
    BY <2>2, <2>3, <2>4 DEF Alike
  <2>6. ~ClearDefault(p) /\ ~Repoint(p) /\ default' = default
    BY <1>11 DEF ClearDefault, Repoint, At, Put
  <2>7. QED
    BY <1>0, <1>1, <2>5, <2>6 DEF Slot
<1>12. QED
  BY <1>3, <1>4, <1>5, <1>6, <1>7, <1>8, <1>9, <1>10, <1>11, StepCases, SteadyStep

\* A removal works with the pointer as it is: it was alone since it read it.
LEMMA DefIs ==
  ASSUME TypeOK, Noted, Kept, Pointed, NEW p \in Procs, Step(p), Steady',
         NEW q \in Procs, proc'[q].cmd \in Removals
  PROVE  proc'[q].def = default'
<1>0. /\ \A x \in Procs : Course(proc[x])
      /\ Orderly /\ Others(p) /\ proc \in [Procs -> Processes]
  BY SteadyBefore, ProcStep DEF TypeOK, Unbroken
<1>1. CASE q = p /\ Start(p)
  <2>1. PICK c \in Kinds, n \in Names, t \in Slot :
          proc' = [proc EXCEPT ![p] =
               [Idle EXCEPT !.cmd = c, !.name = n, !.to = t, !.def = default, !.pc = First(c)]]
    BY <1>1 DEF Start, Slot
  <2>2. proc'[p].def = default /\ default' = default
    BY <1>0, <1>1, <2>1 DEF Idle, Start, disk
  <2>3. QED
    BY <1>1, <2>2
<1>2. CASE ~Start(p)
  <2>1. proc[q].cmd \in Removals /\ proc'[q].def = proc[q].def /\ (q = p => proc'[p] # Idle)
    <3>1. Idle.cmd \notin Removals
      BY DEF Idle, Removals
    <3>2. QED
      BY <1>0, <1>2, <3>1, SameCommand DEF Others
  <2>2. proc[q].def = default
    BY <2>1 DEF Pointed
  <2>3. p \in Running /\ q \in Running
    BY <1>0, <1>2, <2>1, SameCommand, RemovalRuns DEF Running
  <2>4. p = q
    BY <1>0, <2>1, <2>3, Alone
  <2>5. default' = default
    <3>1. ~End(p)
      BY <2>1, <2>4, Ended
    <3>2. QED
      BY <1>2, <3>1 DEF Step, LoginStep, ClientStep, LogoutStep, RenameStep, SwitchStep,
       FileStep, LoginRead, AddStat, AddMkdir, AddUndo, LoginLoad, Authorize, PersistAuthed,
       Load, Connect, Probe, Revoke, Delete, Reread, Reset, Purge, ClearDefault, RenameCheck,
       RenameProbe, RenameMove, RenameBack, Repoint, SwitchCheck, SetDefault, Lock, Put, PutFails,
       Finish, Fails, Kill, Stop, disk
  <2>6. QED
    BY <2>1, <2>2, <2>5
<1>3. CASE q # p /\ Start(p)
  BY <1>0, <1>3 DEF Others, Start, disk, Pointed
<1>4. QED
  BY <1>1, <1>2, <1>3

LEMMA PointedHolds == Spec => [](Steady => Pointed)
<1>1. Init => Pointed
  <2>1. Init => \A p \in Procs : proc[p] = Idle
    BY DEF Init
  <2>2. Idle.cmd \notin Removals
    BY DEF Idle, Removals
  <2>3. QED
    BY <2>1, <2>2, InitDirs DEF Pointed
<1>2. TypeOK /\ Noted /\ (Orderly => Kept) /\ (Steady => Pointed) /\ [Next]_vars => (Steady => Pointed)'
  <2>1. SUFFICES ASSUME TypeOK, Noted, Orderly => Kept, Steady => Pointed, [Next]_vars, Steady'
                 PROVE  Pointed'
    OBVIOUS
  <2>2. CASE UNCHANGED vars
    BY <2>1, <2>2 DEF Pointed, Steady, Undisturbed, NoneRaced, vars
  <2>3. CASE RevokedElsewhere
    BY <2>1, <2>3 DEF Pointed, Steady, Undisturbed, NoneRaced, RevokedElsewhere, disk, history
  <2>4. ASSUME NEW p \in Procs, Step(p) PROVE Pointed'
    <3>1. Steady /\ Unbroken
      BY <2>1, <2>4, SteadyBefore
    <3>2. Kept /\ Pointed
      BY <2>1, <3>1 DEF Unbroken
    <3>3. Default'
      BY <2>1, <2>4, <3>2, DefaultStep
    <3>4. \A q \in Procs : proc'[q].cmd \in Removals => proc'[q].def = default'
      BY <2>1, <2>4, <3>2, DefIs
    <3>5. QED
      BY <3>3, <3>4 DEF Pointed, Default
  <2>5. QED
    BY <2>1, <2>2, <2>3, <2>4 DEF Next, Step
<1>3. QED
  BY <1>1, <1>2, SlotsTypeCorrect, NotedHolds, KeptHolds, PTL DEF Spec

\* Once all is quiet every directory has an account.json that names it, and
\* default_account is a slot: a write that fails is rolled back, and commands
\* may overlap unless one purges or renames. Only a kill, or a removal that
\* failed part way, leaves a directory without an account.json.
THEOREM SlotsStayWhole == Spec => []SlotsWhole
<1>1. TypeOK /\ (Orderly => Kept) /\ (Unbroken => Begun) /\ (Steady => Pointed) => SlotsWhole
  <2>1. SUFFICES ASSUME TypeOK, Orderly => Kept, Unbroken => Begun, Steady => Pointed, Quiet
                 PROVE  SlotsWhole
    BY DEF SlotsWhole
  <2>2. \A p \in Procs : proc[p].pc = "idle" /\ proc[p] = Idle
    BY <2>1, Known DEF Quiet, Running, TypeOK
  <2>3. \A p \in Procs, n \in Names : ~Moving(proc[p], n) /\ ~Making(proc[p], n)
    BY <2>2 DEF Moving, Making, Adding, InWrite
  <2>4. \A p \in Procs : ~Repointing(proc[p])
    BY <2>2 DEF Repointing, InWrite
  <2>5. ASSUME Orderly, killed = {}, failed \cap {"undo", "gone"} = {}, NEW n \in Names
        PROVE  Whole(n)
    <3>1. Unbroken
      BY <2>5 DEF Unbroken
    <3>2. QED
      BY <2>1, <2>3, <2>5, <3>1 DEF Kept, Begun, Whole
  <2>6. ASSUME Undisturbed, NoneRaced({"removal"}), default # NoName
        PROVE  dir[default].meta # NoMeta
    BY <2>1, <2>4, <2>6 DEF Steady, Pointed
  <2>7. QED
    BY <2>5, <2>6 DEF SlotsWhole
<1>2. QED
  BY <1>1, SlotsTypeCorrect, KeptHolds, BegunHolds, PointedHolds, PTL

-----------------------------------------------------------------------------
(* Sound: where the sessions are, when logins and removals run alone       *)

LEMMA ApartBefore ==
  ASSUME TypeOK, NEW p \in Procs, Step(p), Apart'
  PROVE  Apart /\ Orderly /\ Orderly' /\ NoneRaced({"login"}) /\ NoneRaced({"login"})'
<1>1. raced \subseteq raced' /\ Orderly
  BY OtherVars, OrderlyBefore DEF Apart
<1>2. QED
  BY <1>1 DEF Apart, NoneRaced

LEMMA ApartAlone ==
  ASSUME Noted, Apart, NEW p \in Running, NEW q \in Running,
         proc[p].cmd \in Logins \cup Removals \/ proc[q].cmd \in Logins \cup Removals
  PROVE  p = q
<1>1. \A c \in Logins \cup Removals : Class(c) \in {"login", "removal"}
  BY DEF Class, Removals, Logins
<1>2. QED
  BY <1>1 DEF Noted, Apart, Orderly, NoneRaced

\* Places where a command minds no session.
LEMMA Harmless ==
  ASSUME NEW r, NEW d, NEW g,
         r.pc \in {"idle", "read", "stat", "added", "undo", "connect", "load", "clear", "check",
                   "busy", "move", "back", "repoint", "exists", "set", "end"}
  PROVE  Minds(r, d, g) /\ ~Holding(r)
BY DEF Minds, Holding, Ending, InWrite

LEMMA Holder ==
  ASSUME NEW r, Course(r), Holding(r)
  PROVE  /\ r.key # NoKey /\ r.cmd \in Entries \cup Clients /\ r.name \in Names /\ r.pc # "idle"
         /\ r.pc \in {"lock", "put"} => r.w.then \in {"authorize", "probe"} /\ r.w.val = r.key
<1>1. CASE InWrite(r)
  <2>1. Pending(r) /\ r.w.file = "key"
    BY <1>1, Known DEF Holding, InWrite
  <2>2. r.key # NoKey /\ r.w.val = r.key
    BY <2>1 DEF Pending
  <2>3. r.w.then \in {"authorize", "probe"} /\ r.cmd \in Entries \cup Clients
    BY <2>1 DEF Pending
  <2>4. QED
    BY <1>1, <2>2, <2>3, Known DEF InWrite
<1>2. CASE ~InWrite(r)
  BY <1>2, Known DEF Holding, InWrite, Clients
<1>3. QED
  BY <1>1, <1>2

\* Where a client writes: in its own slot.
LEMMA WritesOwn ==
  ASSUME NEW r, NEW d, Course(r), Owns(r, d), r.cmd \in Entries \cup Clients, Loaded(r)
  PROVE  Target(r) = r.name /\ r.meta.name = r.name /\ (InWrite(r) => r.w.path = r.name)
BY DEF Owns, Target, Entries, Clients

\* No session comes or goes, and an account.json at most goes.
Untouched ==
  \A n \in Names : dir'[n].key = dir[n].key /\ dir'[n].meta \in {dir[n].meta, NoMeta}

\* A directory with all that is in it goes to another name.
Carried(r) ==
  \E from, to \in Names :
    /\ r.cmd = "rename" /\ r.pc \in {"move", "back"} /\ from # to
    /\ dir[to].key = NoKey /\ dir' = Moved(from, to)

\* What a step does to the sessions and the account.json files.
LEMMA Effects ==
  ASSUME TypeOK, Kept, NEW p \in Procs, Step(p), Apart'
  PROVE  LET r == proc[p] IN
         \/ Untouched
         \/ /\ Delete(p) \/ Reset(p)
            /\ r.name \in Names
            /\ \A n \in Names : /\ dir'[n].meta = dir[n].meta
                                /\ dir'[n].key = IF n = r.name THEN NoKey ELSE dir[n].key
         \/ /\ Put(p) /\ Holding(r) /\ r.name \in Names
            /\ \A n \in Names : /\ dir'[n].meta = dir[n].meta
                                /\ dir'[n].key = IF n = r.name THEN r.key ELSE dir[n].key
         \/ /\ Put(p) /\ r.w.file = "meta" /\ r.w.path \in Names
            /\ \A n \in Names : /\ dir'[n].key = dir[n].key
                                /\ dir'[n].meta = IF n = r.w.path THEN r.w.val ELSE dir[n].meta
         \/ Carried(r)
<1> DEFINE r == proc[p]
<1>0. /\ Course(r) /\ Owns(r, dir) /\ dir \in [Names -> Dirs] /\ \A n \in Names : dir[n] \in Dirs
      /\ Orderly' /\ Fresh(r, dir)
      /\ \A n \in Names : dir[n].meta = NoMeta => dir[n].key = NoKey
  BY ApartBefore DEF TypeOK, Kept
<1>1. CASE Start(p) \/ Reads(p)
  BY <1>1, DirSame DEF Untouched
<1>a. ASSUME \A n \in Names : Alike(n) PROVE Untouched
  BY <1>a DEF Untouched, Alike
<1>2. CASE AddMkdir(p) \/ RenameProbe(p)
  <2>1. r.name \in Names
    BY <1>0, <1>2, Known DEF AddMkdir, RenameProbe, At
  <2>2. Untouched
    BY <1>0, <1>2, <2>1 DEF AddMkdir, RenameProbe, Dirs, Untouched
  <2>3. QED
    BY <2>2
<1>3. CASE Delete(p) \/ Reset(p)
  <2>1. r.cmd \in {"logout", "purge"} /\ r.name \in Names /\ r.pc \in {"delete", "reset"}
    BY <1>0, <1>3, Known DEF Delete, Reset, At
  <2>2. r.meta.name = r.name
    BY <1>0, <2>1 DEF Owns, Loaded
  <2>3. dir' = [dir EXCEPT ![r.name].key = NoKey]
    <3>1. Reset(p) => ~Fault(p)
      BY <1>0, <2>1 DEF Reset, At, Fault, Orderly
    <3>2. QED
      BY <1>3, <2>2, <3>1 DEF Delete, Reset
  <2>4. \A n \in Names : /\ dir'[n].meta = dir[n].meta
                         /\ dir'[n].key = IF n = r.name THEN NoKey ELSE dir[n].key
    BY <1>0, <2>1, <2>3 DEF Dirs
  <2>5. QED
    BY <1>3, <2>1, <2>4
<1>4. CASE Put(p)
  <2> DEFINE w == r.w
  <2>1. dir[w.path].there /\ Pending(r) /\ r.pc = "put" /\ r.name \in Names
    BY <1>0, <1>4, PutOwns, Known DEF Put, At, InWrite
  <2>2. w.path \in Names /\ w.file \in {"meta", "key"}
    BY <2>1 DEF Pending, Writes
  <2>3. /\ w.file = "meta" => dir'[w.path].meta = w.val /\ dir'[w.path].key = dir[w.path].key
        /\ w.file = "key"  => dir'[w.path].key = w.val /\ dir'[w.path].meta = dir[w.path].meta
        /\ \A n \in Names \ {w.path} : Alike(n)
    BY <1>4, <2>1, PutDone
  <2>4. CASE w.file = "meta"
    <3>1. \A n \in Names : /\ dir'[n].key = dir[n].key
                           /\ dir'[n].meta = IF n = w.path THEN w.val ELSE dir[n].meta
      BY <2>3, <2>4 DEF Alike
    <3>2. QED
      BY <1>4, <2>2, <2>4, <3>1
  <2>5. CASE w.file = "key"
    <3>1. Holding(r)
      BY <2>1, <2>5 DEF Holding, InWrite
    <3>2. w.val = r.key /\ w.then \in {"authorize", "probe"} /\ r.cmd \in Entries \cup Clients
      BY <1>0, <2>1, <3>1, Holder
    <3>3. w.path = r.name
      BY <1>0, <2>1, <3>2, WritesOwn DEF Loaded, Adding, InWrite
    <3>4. \A n \in Names : /\ dir'[n].meta = dir[n].meta
                           /\ dir'[n].key = IF n = r.name THEN r.key ELSE dir[n].key
      BY <2>3, <2>5, <3>2, <3>3 DEF Alike
    <3>5. QED
      BY <1>4, <2>1, <3>1, <3>4
  <2>6. QED
    BY <2>2, <2>4, <2>5
<1>5. CASE Purge(p)
  <2>1. r.pc = "gone" /\ r.cmd \in {"logout", "purge"} /\ r.name \in Names
    BY <1>0, <1>5, Known DEF Purge, At
  <2>2. r.meta.name = r.name /\ (r.cmd = "purge" => dir[r.name].key = NoKey)
    BY <1>0, <2>1 DEF Owns, Loaded
  <2>3. CASE r.cmd = "logout"
    BY <1>5, <2>3 DEF Purge, Is, Untouched
  <2>4. CASE r.cmd = "purge"
    <3>1. dir' = [dir EXCEPT ![r.name] = NoDir]
      BY <1>5, <2>2, <2>4 DEF Purge, Is
    <3>2. QED
      BY <1>0, <2>1, <2>2, <2>4, <3>1, NoDirFields DEF Untouched
  <2>5. QED
    BY <2>1, <2>3, <2>4
<1>6. CASE RenameMove(p) \/ RenameBack(p)
  <2>1. /\ r.pc \in {"move", "back"} /\ r.cmd = "rename" /\ r.name \in Names /\ r.to \in Names
        /\ r.to # r.name
    BY <1>0, <1>6, Known DEF RenameMove, RenameBack, At
  <2>2. CASE dir' = dir
    BY <2>2 DEF Untouched
  <2>3. ASSUME NEW from \in {r.name, r.to}, NEW to \in {r.name, r.to}, from # to,
               Movable(from, to), dir' = Moved(from, to)
        PROVE  Carried(r)
    <3>1. dir[to].key = NoKey
      BY <2>3, NoDirFields DEF Movable
    <3>2. QED
      BY <2>1, <2>3, <3>1 DEF Carried
  <2>4. QED
    BY <1>6, <2>1, <2>2, <2>3 DEF RenameMove, RenameBack
<1>7. CASE Lock(p)
  BY <1>7, LockDone DEF Untouched, Alike
<1>8. CASE AddUndo(p)
  <2>1. r.pc = "undo" /\ r.name \in Names
    BY <1>0, <1>8, Known DEF AddUndo, At
  <2>2. dir[r.name].key = NoKey
    BY <1>0, <2>1 DEF Fresh
  <2>3. dir' = [dir EXCEPT ![r.name] = NoDir]
    BY <1>8 DEF AddUndo
  <2>4. QED
    BY <1>0, <2>1, <2>2, <2>3, NoDirFields DEF Untouched
<1>9. CASE PutFails(p)
  BY <1>9, <1>a, NotPut
<1>10. CASE Fails(p) \/ Kill(p)
  <2>1. CASE Halved(p)
    <3> DEFINE x == Removed(p)
    <3>1. r.pc \in {"undo", "gone"} /\ (r.pc = "gone" => r.cmd = "purge") /\ r.name \in Names
      BY <1>0, <2>1, Known DEF Halved, Removing, At, Is
    <3>2. r.pc = "gone" => r.meta.name = r.name /\ dir[r.name].key = NoKey
      BY <1>0, <3>1 DEF Owns, Loaded
    <3>3. r.pc = "undo" => dir[r.name].key = NoKey
      BY <1>0, <3>1 DEF Fresh
    <3>4. x = r.name /\ dir[x].key = NoKey
      BY <3>1, <3>2, <3>3 DEF Removed, At
    <3>5. QED
      BY <2>1, <3>4 DEF Halved, Untouched, Alike
  <2>2. QED
    BY <1>10, <1>a, <2>1, StopDone
<1>11. QED
  BY <1>1, <1>2, <1>3, <1>4, <1>5, <1>6, <1>7, <1>8, <1>9, <1>10, StepCases

\* What a step does to the sessions the server honours.
LEMMA SureEffects ==
  ASSUME TypeOK, NEW p \in Procs, Step(p)
  PROVE  \/ Sure' \subseteq Sure
         \/ Authorize(p) /\ Go(p, "self") /\ Sure' = Sure \cup {proc[p].key}
<1>1. CASE ~Authorize(p)
  <2>1. good' \subseteq good
    BY <1>1, GoodSource
  <2>2. unsure \subseteq unsure'
    BY <1>1 DEF Step, LoginStep, ClientStep, LogoutStep, RenameStep, SwitchStep,
       FileStep, Start, LoginRead, AddStat, AddMkdir, AddUndo, LoginLoad, PersistAuthed,
       Load, Connect, Probe, Revoke, Delete, Reread, Reset, Purge, ClearDefault, RenameCheck,
       RenameProbe, RenameMove, RenameBack, Repoint, SwitchCheck, SetDefault, Lock, Put, PutFails,
       Finish, Fails, Kill, Leave, server
  <2>3. QED
    BY <2>1, <2>2 DEF Sure
<1>2. CASE Authorize(p)
  BY <1>2 DEF Authorize, Sure
<1>3. QED
  BY <1>1, <1>2

\* A command about to mark its slot is in its way.
LEMMA EndingOwn ==
  ASSUME NEW r, NEW d, Course(r), Owns(r, d), Ending(r), r.cmd \notin Logins \cup {"rename"}
  PROVE  r.cmd \in Clients /\ Target(r) = r.name
<1>1. r.pc \in {"delete", "reread", "reset", "gone"} \/ (InWrite(r) /\ Pending(r))
  BY Known DEF Ending
<1>2. r.cmd \in Clients /\ Loaded(r)
  BY <1>1, Known DEF Pending, Loaded, Adding, Clients, Entries, Logins
<1>3. QED
  BY <1>2, WritesOwn

\* The other commands mind what they did.
LEMMA MindsOther ==
  ASSUME TypeOK, Noted, Minted, Kept, Sound, NEW p \in Procs, Step(p), Apart',
         NEW q \in Procs, q # p
  PROVE  Minds(proc'[q], dir', Sure')
<1> DEFINE r == proc[q]
           o == proc[p]
<1>0. /\ proc'[q] = r /\ Course(r) /\ Course(o) /\ Owns(r, dir) /\ Owns(o, dir)
      /\ Minds(r, dir, Sure) /\ Minds(o, dir, Sure)
      /\ Apart
  BY ApartBefore, ProcStep DEF Others, TypeOK, Kept, Sound
<1>1. CASE Start(p)
  BY <1>0, <1>1 DEF Start, disk, server, Sure
<1>2. CASE r.pc = "idle"
  BY <1>0, <1>2, Harmless
<1>3. CASE ~Start(p) /\ r.pc # "idle"
  <2>1. p \in Running /\ q \in Running
    BY <1>3, SameCommand DEF Running
  <2>2. r.cmd \notin Logins \cup Removals /\ o.cmd \notin Logins \cup Removals
    BY <1>0, <2>1, ApartAlone
  <2>3. Sure' \subseteq Sure
    <3>1. ~Authorize(p)
      BY <1>0, <2>2, Known DEF Authorize, At, Entries, Logins
    <3>2. QED
      BY <3>1, SureEffects
  <2>4. NoKey \notin Sure
    BY DEF Minted, NoKey, Sure
  <2>5. r.name \in Names /\ r.pc \notin {"authorize", "self"} /\ r.cmd \notin Entries
    BY <1>0, <1>3, <2>2, Known DEF Entries, Logins
  <2>6. CASE \A n \in Names : dir'[n].key = dir[n].key
    <3>1. Ending(r) => Target(r) \in Names
      BY <1>0, <2>2, <2>5, EndingOwn DEF Removals
    <3>2. QED
      BY <1>0, <2>3, <2>5, <2>6, <3>1 DEF Minds
  <2>7. CASE /\ Delete(p) \/ Reset(p)
             /\ o.name \in Names
             /\ \A n \in Names : dir'[n].key = IF n = o.name THEN NoKey ELSE dir[n].key
    <3>1. Ending(o)
      BY <2>7 DEF Delete, Reset, At, Ending
    <3>2. Target(o) = o.name
      BY <1>0, <2>2, <3>1, EndingOwn DEF Removals
    <3>3. dir[o.name].key \notin Sure
      BY <1>0, <3>1, <3>2 DEF Minds
    <3>4. Ending(r) => Target(r) = r.name
      BY <1>0, <2>2, EndingOwn DEF Removals
    <3>5. QED
      BY <1>0, <2>3, <2>4, <2>5, <2>7, <3>3, <3>4 DEF Minds
  <2>8. CASE /\ Holding(o) /\ o.name \in Names
             /\ \A n \in Names : dir'[n].key = IF n = o.name THEN o.key ELSE dir[n].key
    <3>1. o.key \in Sure \/ dir[o.name].key \in Sure => o.key = dir[o.name].key
      BY <1>0, <2>8 DEF Minds
    <3>2. Ending(r) => Target(r) = r.name
      BY <1>0, <2>2, EndingOwn DEF Removals
    <3>3. QED
      BY <1>0, <2>3, <2>5, <2>8, <3>1, <3>2 DEF Minds
  <2>9. QED
    BY <1>0, <2>2, <2>6, <2>7, <2>8, Effects DEF Untouched, Removals, Carried
<1>4. QED
  BY <1>1, <1>2, <1>3

LEMMA WakingAlone ==
  ASSUME Noted, Apart, NEW p \in Running, NEW q \in Procs, NEW n, Waking(proc[q], n)
  PROVE  q = p
<1>1. q \in Running /\ proc[q].cmd \in Logins
  BY DEF Waking, InWrite, Running
<1>2. QED
  BY <1>1, ApartAlone

\* While another command runs, a slot that must be logged in has no session.
LEMMA NoneWaking ==
  ASSUME Noted, Apart, Sound, NEW p \in Running, \A n \in Names : ~Waking(proc[p], n)
  PROVE  \A n \in Names : dir[n].meta.state \in {"NEW", "EXPIRED"} => dir[n].key \notin Sure
BY WakingAlone DEF Sound

LEMMA MindsSelf ==
  ASSUME TypeOK, Noted, Minted, Kept, Sound, NEW p \in Procs, Step(p), Apart'
  PROVE  Minds(proc'[p], dir', Sure')
<1> DEFINE r == proc[p]
           s == proc'[p]
<1>0. /\ Course(r) /\ Course(s) /\ Owns(r, dir) /\ Owns(s, dir') /\ Minds(r, dir, Sure)
      /\ Apart /\ Orderly /\ Orderly' /\ Fresh(r, dir)
      /\ dir \in [Names -> Dirs] /\ \A n \in Names : dir[n] \in Dirs
      /\ proc \in [Procs -> Processes] /\ r \in Processes
  BY ApartBefore, ProcStep, SelfOwns DEF TypeOK, Kept, Sound
<1>1. NoKey \notin Sure /\ (~Authorize(p) => Sure' \subseteq Sure)
  BY SureEffects DEF Minted, NoKey, Sure
<1>2. ASSUME NEW pc, Go(p, pc),
             pc \in {"read", "stat", "added", "undo", "connect", "load", "clear", "check",
                     "busy", "move", "back", "repoint", "exists", "set", "end"}
      PROVE  Minds(s, dir', Sure')
  <2>1. s.pc = pc
    BY <1>2, Went DEF Places
  <2>2. QED
    BY <1>2, <2>1, Harmless
<1>3. CASE End(p)
  <2>1. s.pc = "idle"
    BY <1>3, Ended DEF Idle
  <2>2. QED
    BY <2>1, Harmless
\* A write of account.json that does not say AUTHED.
<1>4. ASSUME InWrite(s), s.w.file = "meta",
             s.w.val.state = "AUTHED" \/ dir'[s.w.path].key \notin Sure',
             s.cmd \in Entries /\ s.w.then = "end" => s.key = dir'[s.name].key
      PROVE  Minds(s, dir', Sure')
  BY <1>4 DEF Minds, Holding, Ending, Target, InWrite
<1>5. ASSUME s.pc \in {"probe", "revoke", "authorize", "self"}, s.key = dir'[s.name].key
      PROVE  Minds(s, dir', Sure')
  BY <1>5 DEF Minds, Holding, Ending, InWrite
<1>6. ASSUME s.pc \in {"delete", "reread", "reset", "gone"}, dir'[s.name].key \notin Sure'
      PROVE  Minds(s, dir', Sure')
  BY <1>6 DEF Minds, Holding, Ending, InWrite, Target
<1>7. CASE Start(p)
  <2>1. PICK c \in Kinds, n \in Names, t \in Slot :
          proc' = [proc EXCEPT ![p] =
               [Idle EXCEPT !.cmd = c, !.name = n, !.to = t, !.def = default, !.pc = First(c)]]
    BY <1>7 DEF Start, Slot
  <2>2. s.pc = First(c)
    BY <1>0, <2>1 DEF Idle
  <2>3. First(c) \in {"read", "load", "check", "exists"}
    BY DEF First
  <2>4. QED
    BY <2>2, <2>3, Harmless
<1>8. CASE LoginRead(p)
  <2>1. Go(p, "stat") \/ Go(p, "added")
    BY <1>8 DEF LoginRead
  <2>2. QED
    BY <1>2, <2>1
<1>9. CASE AddStat(p)
  <2>1. CASE Go(p, "mkdir") /\ ~dir[r.name].there
    <3>1. s.pc = "mkdir" /\ s.name = r.name /\ dir' = dir
      BY <1>9, <2>1, Went DEF Places, AddStat, disk
    <3>2. QED
      BY <3>1 DEF Minds, Holding, Ending, InWrite
  <2>2. QED
    BY <1>3, <1>9, <2>1 DEF AddStat
<1>10. CASE AddMkdir(p)
  <2>1. r.pc = "mkdir" /\ r.cmd \in Logins /\ r.name \in Names
    BY <1>0, <1>10, Known DEF AddMkdir, At
  <2>2. dir[r.name].key = NoKey
    BY <1>0, <2>1, NoDirFields DEF Fresh, Kept
  <2>3. proc' = Writing(p, r.name, "meta", Meta(r.name, "NEW"), "added", "undo")
    BY <1>10 DEF AddMkdir, WriteMeta, Meta
  <2>4. [path |-> r.name, file |-> "meta", val |-> Meta(r.name, "NEW"), then |-> "added", else |-> "undo"] \in Writes
    BY <2>1 DEF Writes, Places, Metas, Meta, States
  <2>5. s.pc = "lock" /\ s.w.file = "meta" /\ s.w.path = r.name /\ s.w.then = "added"
    BY <2>3, <2>4, Wrote
  <2>6. dir'[r.name].key = NoKey /\ ~Authorize(p)
    BY <1>0, <1>10, <2>1, <2>2 DEF AddMkdir, Dirs, Authorize, At
  <2>7. QED
    BY <1>1, <1>4, <2>5, <2>6 DEF InWrite
<1>11. CASE LoginLoad(p)
  <2>1. CASE ~End(p)
    <3>1. s.pc = "connect"
      BY <1>0, <1>11, <2>1 DEF LoginLoad, Processes
    <3>2. QED
      BY <3>1, Harmless
  <2>2. QED
    BY <1>3, <2>1
<1>12. CASE Authorize(p)
  <2>1. CASE Go(p, "self")
    <3>1. s.pc = "self" /\ s.name = r.name /\ s.key = r.key /\ dir' = dir
      BY <1>12, <2>1, Went DEF Places, Authorize, disk
    <3>2. r.key = dir[r.name].key
      BY <1>0, <1>12 DEF Authorize, At, Minds
    <3>3. QED
      BY <1>5, <3>1, <3>2
  <2>2. QED
    BY <1>3, <1>12, <2>1 DEF Authorize
<1>13. CASE PersistAuthed(p)
  <2>1. CASE ~End(p)
    <3> DEFINE v == [r.meta EXCEPT !.state = "AUTHED"]
               w == [path |-> v.name, file |-> "meta", val |-> v, then |-> "end", else |-> "end"]
    <3>0. r.meta \in Metas /\ r.key = dir[r.name].key /\ dir' = dir
      BY <1>0, <1>13, Known DEF PersistAuthed, At, Minds, disk
    <3>1. v \in Metas /\ v.state = "AUTHED"
      BY <3>0 DEF Metas, States
    <3>2. proc' = Writing(p, v.name, "meta", v, "end", "end")
      BY <1>13, <2>1 DEF PersistAuthed, WriteMeta
    <3> HIDE DEF v
    <3>3. w \in Writes
      BY <3>1 DEF Writes, Places, Metas
    <3>4. s.pc = "lock" /\ s.w = w /\ s.key = r.key /\ s.name = r.name
      BY <3>2, <3>3, Wrote
    <3>5. QED
      BY <1>4, <3>0, <3>1, <3>4 DEF InWrite
  <2>2. QED
    BY <1>3, <2>1
<1>14. CASE Load(p)
  <2>1. r.pc = "load" /\ r.cmd \in Clients /\ r.name \in Names /\ dir' = dir /\ Sure' \subseteq Sure
    BY <1>0, <1>1, <1>14, Known DEF Load, Authorize, At, disk
  <2>2. CASE proc' = [proc EXCEPT ![p].meta = dir[r.name].meta, ![p].pc = "connect"]
    <3>1. s.pc = "connect"
      BY <1>0, <2>2 DEF Processes
    <3>2. QED
      BY <3>1, Harmless
  <2>3. CASE /\ dir[r.name].meta.state \in {"NEW", "EXPIRED"}
             /\ proc' = [proc EXCEPT ![p].meta = dir[r.name].meta, ![p].pc = "reset"]
    <3>1. s.pc = "reset" /\ s.name = r.name
      BY <1>0, <2>3 DEF Processes
    <3>2. p \in Running /\ \A n \in Names : ~Waking(r, n)
      BY <2>1 DEF Running, Waking, InWrite
    <3>3. dir[r.name].key \notin Sure
      BY <1>0, <2>1, <2>3, <3>2, NoneWaking
    <3>4. QED
      BY <1>6, <2>1, <3>1, <3>3
  <2>4. QED
    BY <1>3, <1>14, <2>2, <2>3 DEF Load
<1>15. CASE Connect(p)
  <2>1. /\ r.pc = "connect" /\ r.cmd \in Entries \cup Clients /\ r.name \in Names
        /\ dir' = dir /\ Sure' \subseteq Sure
    BY <1>0, <1>1, <1>15, Known DEF Connect, Authorize, At, disk
  <2>2. r.meta.name = r.name
    BY <1>0, <2>1, WritesOwn DEF Loaded
  <2>3. SUFFICES ASSUME ~End(p) PROVE Minds(s, dir', Sure')
    BY <1>3
  <2>4. s.key = IF dir[r.name].key # NoKey THEN dir[r.name].key ELSE made + 1
    BY <1>15, <2>2, <2>3, Connected
  <2>5. /\ s.pc = "lock" /\ s.w.file = "key" /\ s.name = r.name /\ s.w.then # "end"
    BY <1>0, <1>15, <2>3 DEF Connect, Writing, Processes
  <2>6. made + 1 \notin Sure
    BY DEF Minted, TypeOK, Sure
  <2>7. s.key \in Sure \/ dir[r.name].key \in Sure => s.key = dir[r.name].key
    BY <1>1, <2>4, <2>6
  <2>8. QED
    BY <2>1, <2>5, <2>7 DEF Minds, Ending, InWrite
<1>16. CASE Probe(p)
  <2>1. /\ r.pc = "probe" /\ r.cmd \in Clients /\ r.name \in Names /\ r.meta \in Metas
        /\ dir' = dir /\ Sure' \subseteq Sure
    BY <1>0, <1>1, <1>16, Known DEF Probe, Authorize, At, disk
  <2>2. r.meta.name = r.name
    BY <1>0, <2>1, WritesOwn DEF Loaded
  <2>3. r.key \in Sure \/ dir[r.name].key \in Sure => r.key = dir[r.name].key
    BY <1>0, <2>1 DEF Minds, Holding
  <2>4. CASE r.key \notin good /\ Expire(p)
    <3> DEFINE v == [r.meta EXCEPT !.state = "EXPIRED"]
               w == [path |-> r.name, file |-> "meta", val |-> v, then |-> "end", else |-> "end"]
    <3>1. v \in Metas /\ v.name = r.name
      BY <2>1, <2>2 DEF Metas, States
    <3>2. proc' = Writing(p, r.name, "meta", v, "end", "end")
      BY <2>4, <3>1 DEF Expire, WriteMeta
    <3> HIDE DEF v
    <3>3. w \in Writes
      BY <2>1, <3>1 DEF Writes, Places
    <3>4. s.pc = "lock" /\ s.w = w /\ s.cmd = r.cmd
      BY <3>2, <3>3, Wrote
    <3>5. dir[r.name].key \notin Sure
      BY <2>3, <2>4 DEF Sure
    <3>6. s.cmd \notin Entries
      BY <2>1, <3>4 DEF Entries, Clients
    <3>7. QED
      BY <1>4, <2>1, <3>4, <3>5, <3>6 DEF InWrite
  <2>5. CASE r.key \in good /\ Go(p, IF Is(p, {"use"}) THEN "end" ELSE "revoke")
    <3>1. Go(p, "end") \/ Go(p, "revoke")
      BY <2>5
    <3>2. CASE Go(p, "revoke")
      <4>1. s.pc = "revoke" /\ s.name = r.name /\ s.key = r.key
        BY <3>2, Went DEF Places
      <4>2. QED
        BY <2>1, <2>3, <4>1 DEF Minds, Holding, Ending, InWrite
    <3>3. QED
      BY <1>2, <3>1, <3>2
  <2>6. QED
    BY <1>3, <1>16, <2>4, <2>5 DEF Probe
<1>17. CASE Revoke(p)
  <2>1. r.pc = "revoke" /\ dir' = dir
    BY <1>17 DEF Revoke, At, disk
  <2>2. CASE good' = good \ {r.key} /\ Go(p, "delete")
    <3>1. s.pc = "delete" /\ s.name = r.name
      BY <2>2, Went DEF Places
    <3>2. dir[r.name].key \in Sure => r.key = dir[r.name].key
      BY <1>0, <2>1 DEF Minds, Holding
    <3>3. r.key \notin Sure' /\ Sure' \subseteq Sure
      BY <1>1, <2>1, <2>2 DEF Sure, Authorize, At
    <3>4. QED
      BY <1>6, <2>1, <3>1, <3>2, <3>3
  <2>3. QED
    BY <1>3, <1>17, <2>2 DEF Revoke
<1>18. CASE Delete(p)
  <2>1. r.pc = "delete" /\ Go(p, "reread") /\ Sure' \subseteq Sure
    BY <1>1, <1>18 DEF Delete, Authorize, At
  <2>2. s.pc = "reread" /\ s.name = r.name
    BY <2>1, Went DEF Places
  <2>3. r.name \in Names /\ r.meta.name = r.name
    BY <1>0, <2>1, Known, WritesOwn DEF Loaded, Clients
  <2>4. dir'[r.name].key = NoKey
    BY <1>0, <1>18, <2>3 DEF Delete, Dirs
  <2>5. QED
    BY <1>1, <1>6, <2>1, <2>2, <2>4
<1>19. CASE Reread(p)
  <2>1. r.pc = "reread" /\ r.cmd \in {"logout", "purge"} /\ r.name \in Names /\ dir' = dir /\ Sure' \subseteq Sure
    BY <1>0, <1>1, <1>19, Known DEF Reread, Authorize, At, disk
  <2>2. dir[r.name].key \notin Sure
    BY <1>0, <2>1 DEF Minds, Ending, Target, InWrite
  <2>3. dir[r.name].meta # NoMeta /\ r.meta.name = r.name
    BY <1>0, <2>1 DEF Owns, Loaded
  <2> DEFINE v == [dir[r.name].meta EXCEPT !.state = "NEW"]
             w == [path |-> v.name, file |-> "meta", val |-> v, then |-> "gone", else |-> "end"]
  <2>4. dir[r.name].meta.name = r.name
    BY <1>0, <2>1, <2>3, NameIs DEF InWrite, Running
  <2>5. v \in Metas /\ v.name = r.name
    BY <1>0, <2>1, <2>3, <2>4 DEF Metas, States, Dirs
  <2>6. proc' = Writing(p, v.name, "meta", v, "gone", "end")
    BY <1>19, <2>3 DEF Reread, WriteMeta
  <2> HIDE DEF v
  <2>7. w \in Writes
    BY <2>1, <2>5 DEF Writes, Places
  <2>8. s.pc = "lock" /\ s.w = w
    BY <2>6, <2>7, Wrote
  <2>9. QED
    BY <1>4, <2>1, <2>2, <2>5, <2>8 DEF InWrite
<1>20. CASE Reset(p)
  <2>1. r.pc = "reset" /\ r.cmd \in {"logout", "purge"} /\ r.name \in Names /\ r.meta \in Metas /\ Sure' \subseteq Sure
    BY <1>0, <1>1, <1>20, Known DEF Reset, Authorize, At
  <2>2. r.meta.name = r.name
    BY <1>0, <2>1, WritesOwn DEF Loaded, Clients
  <2>3. dir'[r.name].key = NoKey
    <3>1. ~Fault(p)
      BY <1>0, <2>1 DEF Fault, Orderly
    <3>2. QED
      BY <1>0, <1>20, <2>1, <2>2, <3>1 DEF Reset, Dirs
  <2> DEFINE v == [r.meta EXCEPT !.state = "NEW"]
             w == [path |-> v.name, file |-> "meta", val |-> v, then |-> "gone", else |-> "end"]
  <2>4. v \in Metas /\ v.name = r.name
    BY <2>1, <2>2 DEF Metas, States
  <2>5. proc' = Writing(p, v.name, "meta", v, "gone", "end")
    BY <1>20 DEF Reset, WriteMeta
  <2> HIDE DEF v
  <2>6. w \in Writes
    BY <2>1, <2>4 DEF Writes, Places
  <2>7. s.pc = "lock" /\ s.w = w
    BY <2>5, <2>6, Wrote
  <2>8. QED
    BY <1>1, <1>4, <2>1, <2>3, <2>4, <2>7 DEF InWrite
<1>21. CASE Purge(p)
  <2>1. End(p) \/ Go(p, "clear")
    BY <1>21 DEF Purge
  <2>2. QED
    BY <1>2, <1>3, <2>1
<1>22. CASE ClearDefault(p) \/ Repoint(p) \/ SetDefault(p) \/ Finish(p)
  BY <1>3, <1>22 DEF ClearDefault, Repoint, SetDefault, Finish
<1>23. CASE RenameCheck(p)
  <2>1. CASE proc' = [proc EXCEPT ![p].meta = dir[r.name].meta, ![p].pc = "busy"]
    <3>1. s.pc = "busy"
      BY <1>0, <2>1 DEF Processes
    <3>2. QED
      BY <3>1, Harmless
  <2>2. QED
    BY <1>3, <1>23, <2>1 DEF RenameCheck
<1>24. CASE RenameProbe(p)
  <2>1. End(p) \/ Go(p, "move")
    BY <1>24 DEF RenameProbe
  <2>2. QED
    BY <1>2, <1>3, <2>1
<1>25. CASE RenameMove(p)
  <2>1. /\ r.pc = "move" /\ r.cmd = "rename" /\ r.name \in Names /\ r.to \in Names
        /\ r.to # r.name /\ r.meta \in Metas
    BY <1>0, <1>25, Known DEF RenameMove, At
  <2>2. CASE ~End(p)
    <3> DEFINE v == [r.meta EXCEPT !.name = r.to]
               w == [path |-> v.name, file |-> "meta", val |-> v, then |-> "repoint", else |-> "back"]
    <3>1. v \in Metas /\ v.name = r.to /\ v.state = r.meta.state
      BY <2>1 DEF Metas, States
    <3>2. /\ proc' = Writing(p, v.name, "meta", v, "repoint", "back")
          /\ dir' = Moved(r.name, r.to) /\ Sure' \subseteq Sure
      BY <1>1, <1>25, <2>1, <2>2 DEF RenameMove, WriteMeta, Authorize, At
    <3> HIDE DEF v
    <3>3. w \in Writes
      BY <2>1, <3>1 DEF Writes, Places
    <3>4. s.pc = "lock" /\ s.w = w
      BY <3>2, <3>3, Wrote
    <3>5. dir'[r.to] = dir[r.name]
      BY <2>1, <3>2, MoveDone
    <3>6. dir[r.name].meta = r.meta
      BY <1>0, <2>1 DEF Owns
    <3>7. p \in Running /\ \A n \in Names : ~Waking(r, n)
      BY <2>1 DEF Running, Waking, InWrite
    <3>8. r.meta.state = "AUTHED" \/ dir[r.name].key \notin Sure
      <4>1. r.meta.state \in States
        BY <2>1 DEF Metas
      <4>2. QED
        BY <1>0, <2>1, <3>6, <3>7, <4>1, NoneWaking DEF States
    <3>9. QED
      BY <1>4, <3>1, <3>2, <3>4, <3>5, <3>8 DEF InWrite
  <2>3. QED
    BY <1>3, <2>2
<1>26. CASE SwitchCheck(p)
  <2>1. End(p) \/ Go(p, "set")
    BY <1>26 DEF SwitchCheck
  <2>2. QED
    BY <1>2, <1>3, <2>1
<1>27. CASE Lock(p) \/ PutFails(p)
  <2>1. r.pc \in {"lock", "put"} /\ Pending(r) /\ r.name \in Names /\ r.w.path \in Names
    BY <1>0, <1>27, Known DEF Lock, PutFails, At, InWrite, Pending, Writes
  <2>2. CASE Go(p, r.w.else)
    BY <1>2, <2>1, <2>2 DEF Pending
  <2>3. CASE Lock(p) /\ proc' = [proc EXCEPT ![p].pc = "put"]
    <3>1. /\ s.pc = "put" /\ s.w = r.w /\ s.key = r.key /\ s.name = r.name /\ s.cmd = r.cmd
          /\ r.pc = "lock"
      BY <1>0, <2>3 DEF Processes, Lock, At
    <3>2. \A n \in Names : dir'[n].key = dir[n].key
      BY <2>3, LockDone DEF Alike
    <3>3. Sure' \subseteq Sure
      BY <1>1, <3>1 DEF Authorize, At
    <3>4. QED
      BY <1>0, <2>1, <3>1, <3>2, <3>3 DEF Minds, Holding, Ending, Target, InWrite
  <2>4. QED
    BY <1>27, <2>2, <2>3, LockDone, NotPut
<1>28. CASE Put(p)
  <2>0. dir[r.w.path].there
    BY <1>28, PutOwns
  <2>1. Go(p, r.w.then) /\ r.pc = "put" /\ Pending(r) /\ Sure' \subseteq Sure
    BY <1>0, <1>1, <1>28, <2>0, PutDone, Known DEF Put, Authorize, At, InWrite
  <2>2. r.w.then \in Places
    BY <2>1 DEF Pending, Places
  <2>3. s.pc = r.w.then /\ s.name = r.name /\ s.key = r.key /\ s.meta = r.meta
    BY <2>1, <2>2, Went
  <2>4. CASE r.w.then \in {"added", "end", "repoint"}
    BY <2>3, <2>4, Harmless
  <2>5. CASE r.w.then \in {"authorize", "probe"}
    <3>1. r.w.file = "key" /\ r.w.val = r.key
      BY <2>1, <2>5 DEF Pending
    <3>2. r.w.path = r.name /\ r.name \in Names
      <4>1. r.cmd \in Entries \cup Clients
        BY <2>1, <2>5 DEF Pending
      <4>2. QED
        BY <1>0, <2>1, <2>5, <4>1, WritesOwn, Known DEF Loaded, Adding, InWrite
    <3>3. dir'[r.name].key = r.key
      BY <1>28, <2>0, <3>1, <3>2, PutDone
    <3>4. QED
      BY <1>5, <2>3, <2>5, <3>3
  <2>6. CASE r.w.then = "gone"
    <3>1. r.w.file = "meta" /\ r.w.val.state = "NEW" /\ r.cmd \in {"logout", "purge"}
      BY <2>1, <2>6 DEF Pending
    <3>2. r.w.path = r.name /\ r.name \in Names
      BY <1>0, <2>1, <2>6, <3>1, WritesOwn, Known DEF Loaded, Adding, InWrite, Clients
    <3>3. dir'[r.name].key = dir[r.name].key
      BY <1>28, <2>0, <3>1, <3>2, PutDone
    <3>4. dir[r.name].key \notin Sure
      BY <1>0, <2>1, <3>1, <3>2 DEF Minds, Ending, Target, InWrite
    <3>5. QED
      BY <1>6, <2>1, <2>3, <2>6, <3>3, <3>4
  <2>7. QED
    BY <2>1, <2>4, <2>5, <2>6 DEF Pending
<1>29. CASE AddUndo(p) \/ RenameBack(p) \/ Fails(p) \/ Kill(p)
  BY <1>3, <1>29 DEF AddUndo, RenameBack, Fails, Kill, Stop
<1>30. QED
  BY <1>7, <1>8, <1>9, <1>10, <1>11, <1>12, <1>13, <1>14, <1>15, <1>16, <1>17, <1>18, <1>19, <1>20,
     <1>21, <1>22, <1>23, <1>24, <1>25, <1>26, <1>27, <1>28, <1>29
     DEF Step, LoginStep, ClientStep, LogoutStep, RenameStep, SwitchStep, FileStep

\* A session in hand was in hand before, or has just been connected with.
LEMMA HoldSource ==
  ASSUME TypeOK, Kept, NEW p \in Procs, Step(p), Holding(proc'[p])
  PROVE  /\ ~Start(p) /\ ~End(p) /\ proc'[p].name = proc[p].name
         /\ Connect(p) \/ (Holding(proc[p]) /\ proc'[p].key = proc[p].key)
<1> DEFINE r == proc[p]
           s == proc'[p]
<1>0. /\ Course(r) /\ Course(s) /\ r \in Processes /\ proc \in [Procs -> Processes]
      /\ dir \in [Names -> Dirs] /\ \A n \in Names : dir[n] \in Dirs
  BY ProcStep DEF TypeOK
<1>1. s.pc # "idle" /\ s # Idle
  BY <1>0, Holder DEF Idle
<1>2. ~End(p)
  BY <1>1, Ended
<1>3. s.pc \in {"lock", "put", "probe", "revoke", "authorize", "self"}
  BY DEF Holding, InWrite
<1>4. ASSUME NEW pc, proc' = [proc EXCEPT ![p].meta = dir[r.name].meta, ![p].pc = pc] PROVE s.pc = pc
  BY <1>0, <1>4 DEF Processes
<1>5. ASSUME NEW pc, Go(p, pc) PROVE s.pc = pc
  BY <1>0, <1>5 DEF Go, Processes
<1>6. ASSUME NEW m, NEW d, NEW e, proc' = WriteMeta(p, m, d, e) PROVE FALSE
  <2>1. s.pc = "lock" /\ s.w.file = "meta"
    BY <1>0, <1>6 DEF WriteMeta, Writing, Processes
  <2>2. QED
    BY <2>1 DEF Holding, InWrite
<1>7. ~Start(p)
  <2>1. SUFFICES ASSUME Start(p) PROVE FALSE
    OBVIOUS
  <2>2. PICK c \in Kinds, n \in Names, t \in Slot :
          proc' = [proc EXCEPT ![p] =
               [Idle EXCEPT !.cmd = c, !.name = n, !.to = t, !.def = default, !.pc = First(c)]]
    BY <2>1 DEF Start, Slot
  <2>3. s.pc = First(c)
    BY <1>0, <2>2 DEF Idle
  <2>4. QED
    BY <1>3, <2>3 DEF First
<1>8. s.name = r.name
  BY <1>1, <1>7, SameCommand
<1>9. ASSUME ~Connect(p) PROVE Holding(r)
  <2>1. CASE LoginStep(p)
    <3>1. Authorize(p)
      <4>1. ~LoginRead(p)
        <5>1. LoginRead(p) => Go(p, "stat") \/ Go(p, "added")
          BY DEF LoginRead
        <5>2. QED
          BY <1>3, <1>5, <5>1
      <4>2. ~AddStat(p) /\ ~AddUndo(p)
        BY <1>2, <1>3, <1>5 DEF AddStat, AddUndo
      <4>3. ~AddMkdir(p) /\ ~PersistAuthed(p)
        BY <1>2, <1>6 DEF AddMkdir, PersistAuthed
      <4>4. ~LoginLoad(p)
        BY <1>2, <1>3, <1>4 DEF LoginLoad
      <4>5. QED
        BY <2>1, <4>1, <4>2, <4>3, <4>4 DEF LoginStep
    <3>2. QED
      BY <3>1 DEF Authorize, At, Holding
  <2>2. CASE Load(p)
    BY <1>2, <1>3, <1>4, <2>2 DEF Load
  <2>3. CASE Probe(p) \/ Revoke(p)
    BY <2>3 DEF Probe, Revoke, At, Holding
  <2>4. CASE Delete(p) \/ Purge(p) \/ ClearDefault(p)
    BY <1>2, <1>3, <1>5, <2>4 DEF Delete, Purge, ClearDefault
  <2>5. CASE Reread(p) \/ Reset(p)
    BY <1>3, <1>5, <1>6, <2>5 DEF Reread, Reset
  <2>6. CASE RenameCheck(p)
    <3>1. proc' = [proc EXCEPT ![p].meta = dir[r.name].meta, ![p].pc = "busy"]
      BY <1>2, <2>6 DEF RenameCheck
    <3>2. s.pc = "busy"
      BY <1>4, <3>1
    <3>3. QED
      BY <1>3, <3>2
  <2>7. CASE RenameProbe(p) \/ RenameBack(p) \/ Repoint(p) \/ SwitchCheck(p) \/ SetDefault(p)
    BY <1>2, <1>3, <1>5, <2>7 DEF RenameProbe, RenameBack, Repoint, SwitchCheck, SetDefault
  <2>8. CASE RenameMove(p)
    BY <1>2, <1>6, <2>8 DEF RenameMove
  <2>9. CASE Lock(p) \/ Put(p) \/ PutFails(p)
    <3>1. r.pc \in {"lock", "put"} /\ Pending(r)
      BY <1>0, <2>9, Known DEF Lock, Put, PutFails, At, InWrite
    <3>2. CASE Go(p, r.w.else)
      BY <1>3, <1>5, <3>1, <3>2 DEF Pending
    <3>3. CASE proc' = [proc EXCEPT ![p].pc = "put"]
      <4>1. s.pc = "put" /\ s.w = r.w
        BY <1>0, <3>3 DEF Processes
      <4>2. QED
        BY <3>1, <4>1 DEF Holding, InWrite
    <3>4. CASE Go(p, r.w.then)
      <4>1. r.w.file = "key"
        BY <1>3, <1>5, <3>1, <3>4 DEF Pending
      <4>2. QED
        BY <3>1, <4>1 DEF Holding, InWrite
    <3>5. QED
      BY <2>9, <3>2, <3>3, <3>4 DEF Lock, Put, PutFails
  <2>10. CASE Finish(p) \/ Fails(p) \/ Kill(p)
    BY <1>2, <2>10 DEF Finish, Fails, Kill, Stop
  <2>11. QED
    BY <1>7, <1>9, <2>1, <2>2, <2>3, <2>4, <2>5, <2>6, <2>7, <2>8, <2>9, <2>10
       DEF Step, ClientStep, LogoutStep, RenameStep, SwitchStep, FileStep
<1>10. ~Connect(p) => s.key = r.key
  BY <1>0, KeyKept, Holder
<1>11. QED
  BY <1>2, <1>7, <1>8, <1>9, <1>10

\* What is about to be deleted is not a session the server honours.
LEMMA EndsDead ==
  ASSUME TypeOK, Kept, Sound, NEW p \in Procs, Delete(p) \/ Reset(p)
  PROVE  dir[proc[p].name].key \notin Sure
<1>1. proc[p].pc \in {"delete", "reset"}
  BY DEF Delete, Reset, At
<1>2. QED
  BY <1>1 DEF Sound, Minds, Ending, Target, InWrite

\* The server honours no session of a slot that has none.
LEMMA NoKeyDead ==
  ASSUME Minted
  PROVE  NoKey \notin Sure
BY DEF Minted, NoKey, Sure

\* The server honours no session that no slot has.
LEMMA PlacedStep ==
  ASSUME TypeOK, Noted, Minted, Kept, Sound, NEW p \in Procs, Step(p), Apart'
  PROVE  \A k \in Sure' : \E n \in Names : dir'[n].key = k
<1> DEFINE r == proc[p]
<1>0. Course(r) /\ Minds(r, dir, Sure) /\ NoKey \notin Sure
  BY NoKeyDead DEF TypeOK, Sound
<1>2. CASE Authorize(p) /\ Sure' = Sure \cup {r.key}
  <2>1. r.key = dir[r.name].key /\ r.name \in Names /\ dir' = dir
    BY <1>0, <1>2, Known DEF Authorize, At, Minds, disk
  <2>2. QED
    BY <1>2, <2>1 DEF Sound
<1>3. CASE Sure' \subseteq Sure
  <2>1. SUFFICES ASSUME NEW k \in Sure PROVE \E n \in Names : dir'[n].key = k
    BY <1>3
  <2>2. PICK n \in Names : dir[n].key = k
    BY DEF Sound
  <2>3. CASE \A m \in Names : dir'[m].key = dir[m].key
    BY <2>2, <2>3
  <2>4. CASE /\ Delete(p) \/ Reset(p)
             /\ \A m \in Names : dir'[m].key = IF m = r.name THEN NoKey ELSE dir[m].key
    BY <2>2, <2>4, EndsDead
  <2>5. CASE /\ Holding(r) /\ r.name \in Names
             /\ \A m \in Names : dir'[m].key = IF m = r.name THEN r.key ELSE dir[m].key
    BY <1>0, <2>2, <2>5 DEF Minds
  <2>6. CASE Carried(r)
    <3>1. PICK from, to \in Names : from # to /\ dir[to].key = NoKey /\ dir' = Moved(from, to)
      BY <2>6 DEF Carried
    <3>2. dir'[to] = dir[from] /\ \A x \in Names \ {from, to} : dir'[x] = dir[x]
      BY <3>1, MoveDone
    <3>3. QED
      BY <1>0, <2>2, <3>1, <3>2
  <2>7. QED
    BY <1>0, <2>3, <2>4, <2>5, <2>6, Effects DEF Untouched
<1>4. QED
  BY <1>2, <1>3, SureEffects

\* No session is in two slots, and none in a slot and in another's hands.
LEMMA ApartStep ==
  ASSUME TypeOK, Noted, Minted, Kept, Sound, NEW p \in Procs, Step(p), Apart'
  PROVE  /\ \A n, m \in Names : n # m /\ dir'[n].key = dir'[m].key => dir'[n].key = NoKey
         /\ \A q \in Procs, m \in Names :
              Holding(proc'[q]) /\ m # proc'[q].name => dir'[m].key # proc'[q].key
         /\ \A q, x \in Procs :
              Holding(proc'[q]) /\ Holding(proc'[x]) /\ proc'[q].name # proc'[x].name
                => proc'[q].key # proc'[x].key
<1> DEFINE r == proc[p]
           s == proc'[p]
<1>0. /\ Apart /\ Course(r) /\ Owns(r, dir) /\ Others(p)
      /\ \A q \in Procs : Course(proc[q]) /\ Course(proc'[q])
      /\ \A q \in Procs : proc[q].key \in Nat /\ proc[q].key <= made
      /\ \A n \in Names : dir[n].key \in Nat /\ dir[n].key <= made
      /\ made \in Nat
  BY ApartBefore, ProcStep DEF TypeOK, Minted, Kept, Others, Processes, Dirs
\* The slots and the hands as they are before the step.
<1>1. /\ \A n, m \in Names : n # m /\ dir[n].key = dir[m].key => dir[n].key = NoKey
      /\ \A q \in Procs, m \in Names : Holding(proc[q]) /\ m # proc[q].name => dir[m].key # proc[q].key
      /\ \A q, x \in Procs : Holding(proc[q]) /\ Holding(proc[x]) /\ proc[q].name # proc[x].name
           => proc[q].key # proc[x].key
  BY DEF Sound
<1>2. \A q \in Procs : Holding(proc[q]) => proc[q].key # NoKey /\ proc[q].name \in Names
  BY <1>0, Holder
<1>3. CASE Connect(p) /\ ~End(p)
  <2>1. r.pc = "connect" /\ r.cmd \in Entries \cup Clients /\ r.name \in Names /\ dir' = dir
    BY <1>0, <1>3, Known DEF Connect, At, disk
  <2>2. r.meta.name = r.name
    BY <1>0, <2>1, WritesOwn DEF Loaded
  <2>3. s.key = IF dir[r.name].key # NoKey THEN dir[r.name].key ELSE made + 1
    BY <1>3, <2>2, Connected
  <2>4. s.name = r.name
    <3>1. Holding(s)
      <4>1. s.pc = "lock" /\ s.w.file = "key"
        BY <1>3 DEF Connect, Writing, Processes, TypeOK
      <4>2. QED
        BY <4>1 DEF Holding, InWrite
    <3>2. QED
      BY <1>0, <3>1, HoldSource
  <2>5. \A m \in Names \ {r.name} : dir[m].key # s.key
    BY <1>0, <1>1, <2>1, <2>3
  <2>6. \A q \in Procs \ {p} : Holding(proc[q]) /\ proc[q].name # r.name => proc[q].key # s.key
    BY <1>0, <1>1, <2>1, <2>3
  <2>7. QED
    BY <1>0, <1>1, <2>1, <2>4, <2>5, <2>6 DEF Others
<1>4. CASE ~(Connect(p) /\ ~End(p))
  <2>1. \A q \in Procs : Holding(proc'[q]) =>
          Holding(proc[q]) /\ proc'[q].key = proc[q].key /\ proc'[q].name = proc[q].name
    BY <1>0, <1>4, HoldSource DEF Others
  <2>2. \A q, x \in Procs :
          Holding(proc'[q]) /\ Holding(proc'[x]) /\ proc'[q].name # proc'[x].name
            => proc'[q].key # proc'[x].key
    BY <1>1, <2>1
  <2>3. /\ \A n, m \in Names : n # m /\ dir'[n].key = dir'[m].key => dir'[n].key = NoKey
        /\ \A q \in Procs, m \in Names :
             Holding(proc[q]) /\ m # proc[q].name /\ Holding(proc'[q]) => dir'[m].key # proc[q].key
    <3>1. CASE \A m \in Names : dir'[m].key = dir[m].key
      BY <1>1, <3>1
    <3>2. CASE \A m \in Names : dir'[m].key = IF m = r.name THEN NoKey ELSE dir[m].key
      BY <1>1, <1>2, <3>2
    <3>3. CASE /\ Holding(r) /\ r.name \in Names
               /\ \A m \in Names : dir'[m].key = IF m = r.name THEN r.key ELSE dir[m].key
      BY <1>1, <1>2, <3>3
    <3>4. CASE Carried(r)
      <4> PICK from, to \in Names :
            /\ r.cmd = "rename" /\ r.pc \in {"move", "back"} /\ from # to
            /\ dir[to].key = NoKey /\ dir' = Moved(from, to)
        BY <3>4 DEF Carried
      <4>1. dir'[to] = dir[from] /\ dir'[from] = NoDir /\ \A x \in Names \ {from, to} : dir'[x] = dir[x]
        BY MoveDone
      <4>2. \A q \in Procs : ~Holding(proc[q])
        <5>1. SUFFICES ASSUME NEW q \in Procs, Holding(proc[q]) PROVE FALSE
          OBVIOUS
        <5>2. p \in Running /\ q \in Running
          BY <1>0, <5>1, Holder DEF Running
        <5>3. p = q
          BY <1>0, <5>2, ApartAlone DEF Removals
        <5>4. QED
          BY <1>0, <5>1, <5>3, Holder DEF Entries, Clients
      <4>3. \A n, m \in Names : n # m /\ dir'[n].key = dir'[m].key => dir'[n].key = NoKey
        BY <1>1, <4>1, NoDirFields
      <4>4. QED
        BY <4>2, <4>3
    <3>5. QED
      BY <1>0, <3>1, <3>2, <3>3, <3>4, Effects DEF Untouched
  <2>4. QED
    BY <2>1, <2>2, <2>3
<1>5. QED
  BY <1>3, <1>4

\* The login that has authorized goes on to say so, unless the session died.
LEMMA WakingKept ==
  ASSUME TypeOK, Kept, Sound, NEW p \in Procs, Step(p), NEW n \in Names,
         Waking(proc[p], n), dir[n].key \in Sure
  PROVE  \/ Waking(proc'[p], n)
         \/ Put(p) /\ dir'[n].meta.state = "AUTHED"
         \/ dir[n].key \notin Sure'
<1> DEFINE r == proc[p]
           s == proc'[p]
<1>0. /\ Course(r) /\ Owns(r, dir) /\ Minds(r, dir, Sure) /\ r.cmd \in Logins /\ r.name = n
      /\ r.pc \in {"self", "lock", "put"}
      /\ dir \in [Names -> Dirs] /\ \A m \in Names : dir[m] \in Dirs
      /\ proc \in [Procs -> Processes] /\ r \in Processes
  BY DEF TypeOK, Kept, Sound, Waking, InWrite
<1>1. PersistAuthed(p) \/ Lock(p) \/ Put(p) \/ PutFails(p) \/ Kill(p)
  BY <1>0 DEF Step, LoginStep, ClientStep, LogoutStep, RenameStep, SwitchStep, FileStep, At,
     Start, LoginRead, AddStat, AddMkdir, AddUndo, LoginLoad, Authorize,
     Load, Connect, Probe, Revoke, Delete, Reread, Reset, Purge, ClearDefault, RenameCheck,
     RenameProbe, RenameMove, RenameBack, Repoint, SwitchCheck, SetDefault, Finish, Fails
\* Its session is the slot's.
<1>a. Signed(p) /\ r.key = dir[n].key
  <2>1. CASE r.pc = "self"
    BY <1>0, <2>1, Known DEF Signed, Is, At, Minds, Entries
  <2>2. CASE r.pc \in {"lock", "put"} /\ r.w.then = "end"
    <3>1. r.cmd \in Entries
      BY <1>0, <2>2, Known DEF InWrite, Pending, Logins, Entries, Clients
    <3>2. QED
      BY <1>0, <2>2, <3>1 DEF Signed, Is, Minds, InWrite, Entries
  <2>3. QED
    BY <1>0, <2>1, <2>2 DEF Waking, InWrite
<1>b. Leave(p) => dir[n].key \notin Sure'
  BY <1>a DEF Leave, Sure
<1>2. CASE PersistAuthed(p) /\ ~Leave(p)
  <2>1. r.pc = "self" /\ r.key = dir[n].key /\ r.meta \in Metas
    BY <1>0, <1>2, Known DEF PersistAuthed, At, Minds
  <2> DEFINE v == [r.meta EXCEPT !.state = "AUTHED"]
             w == [path |-> v.name, file |-> "meta", val |-> v, then |-> "end", else |-> "end"]
  <2>2. proc' = Writing(p, v.name, "meta", v, "end", "end")
    <3>1. r.key \in good
      BY <2>1 DEF Sure
    <3>2. QED
      BY <1>2, <2>1, <3>1 DEF PersistAuthed, WriteMeta
  <2>3. v \in Metas
    BY <2>1 DEF Metas, States
  <2> HIDE DEF v
  <2>4. w \in Writes
    BY <2>3 DEF Writes, Places, Metas
  <2>5. s.pc = "lock" /\ s.w = w /\ s.cmd = r.cmd /\ s.name = r.name
    BY <2>2, <2>4, Wrote
  <2>6. QED
    BY <1>0, <2>5 DEF Waking, InWrite
<1>3. CASE Lock(p) /\ ~Leave(p)
  <2>1. proc' = [proc EXCEPT ![p].pc = "put"]
    BY <1>3 DEF Lock
  <2>2. s.pc = "put" /\ s.w = r.w /\ s.cmd = r.cmd /\ s.name = r.name /\ r.pc = "lock"
    BY <1>0, <1>3, <2>1 DEF Processes, Lock, At
  <2>3. QED
    BY <1>0, <2>2 DEF Waking, InWrite
<1>4. CASE Put(p)
  <2>1. r.pc = "put" /\ Pending(r) /\ r.w.then = "end"
    BY <1>0, <1>4, Known DEF Put, At, InWrite, Waking
  <2>2. r.cmd \in Entries /\ r.w.file = "meta"
    BY <1>0, <2>1 DEF Pending, Logins, Entries, Clients
  <2>3. r.w.val.state = "AUTHED"
    BY <2>1, <2>2 DEF Pending
  <2>4. r.w.path = n
    BY <1>0, <2>1, <2>2, WritesOwn DEF Loaded, Adding, InWrite
  <2>5. dir'[n].meta = r.w.val
    BY <1>4, <2>2, <2>4, PutOwns, PutDone
  <2>6. QED
    BY <1>4, <2>3, <2>5
<1>5. QED
  BY <1>1, <1>2, <1>3, <1>4, <1>b DEF PutFails, Kill

\* A slot that must be logged in has no session, or a login is about to say so.
LEMMA WakingStep ==
  ASSUME TypeOK, Noted, Minted, Kept, Sound, NEW p \in Procs, Step(p), Apart',
         NEW n \in Names, dir'[n].meta.state \in {"NEW", "EXPIRED"}, dir'[n].key \in Sure'
  PROVE  \E q \in Procs : Waking(proc'[q], n)
<1> DEFINE r == proc[p]
           s == proc'[p]
           Before(m) == dir[m].meta.state \in {"NEW", "EXPIRED"} /\ dir[m].key \in Sure
<1>0. /\ Apart /\ Course(r) /\ Owns(r, dir) /\ Minds(r, dir, Sure) /\ Others(p)
      /\ NoKey \notin Sure /\ NoMeta.state \notin {"NEW", "EXPIRED"}
  BY ApartBefore, ProcStep, NoKeyDead DEF TypeOK, Kept, Sound, NoMeta
<1>1. CASE Start(p)
  <2>1. dir' = dir /\ Sure' = Sure /\ r.pc = "idle"
    BY <1>1 DEF Start, disk, server, At, Sure
  <2>2. PICK q \in Procs : Waking(proc[q], n)
    BY <2>1 DEF Sound
  <2>3. q # p
    BY <2>1, <2>2 DEF Waking, InWrite
  <2>4. QED
    BY <1>0, <2>2, <2>3 DEF Others
<1>2. CASE ~Start(p)
  <2>1. p \in Running
    BY <1>2, SameCommand DEF Running
  <2>2. ASSUME NEW m \in Names, Before(m) PROVE Waking(r, m)
    BY <1>0, <2>1, <2>2, WakingAlone DEF Sound
  <2>3. CASE Authorize(p) /\ Go(p, "self") /\ Sure' = Sure \cup {r.key}
    <3>1. /\ r.pc = "authorize" /\ r.cmd \in Entries /\ r.name \in Names
          /\ r.key = dir[r.name].key /\ r.key # NoKey /\ dir' = dir
      BY <1>0, <2>3, Known DEF Authorize, At, Minds, disk
    <3>2. dir[n].key \notin Sure
      <4>1. ~Waking(r, n)
        BY <3>1 DEF Waking, InWrite
      <4>2. QED
        BY <2>2, <3>1, <4>1
    <3>3. n = r.name
      BY <2>3, <3>1, <3>2 DEF Sound
    <3>4. s.pc = "self" /\ s.cmd = r.cmd /\ s.name = r.name
      BY <2>3, Went DEF Places
    <3>5. Waking(s, n)
      BY <3>1, <3>3, <3>4 DEF Waking, Entries, Logins
    <3>6. QED
      BY <3>5
  <2>4. CASE Sure' \subseteq Sure
    <3>1. Before(n) /\ dir[n].key \in Sure' => Waking(s, n) \/ (Put(p) /\ dir'[n].meta.state = "AUTHED")
      BY <1>0, <2>2, WakingKept
    <3>2. CASE Untouched
      <4>1. dir'[n].key = dir[n].key /\ dir'[n].meta = dir[n].meta
        BY <1>0, <3>2 DEF Untouched
      <4>2. QED
        BY <2>4, <3>1, <4>1
    <3>3. CASE /\ \A m \in Names : /\ dir'[m].meta = dir[m].meta
                                   /\ dir'[m].key = IF m = r.name THEN NoKey ELSE dir[m].key
      BY <1>0, <2>4, <3>1, <3>3
    <3>4. CASE /\ Put(p) /\ Holding(r) /\ r.name \in Names
               /\ \A m \in Names : /\ dir'[m].meta = dir[m].meta
                                   /\ dir'[m].key = IF m = r.name THEN r.key ELSE dir[m].key
      <4>1. r.key \in Sure => r.key = dir[r.name].key
        BY <1>0, <3>4 DEF Minds
      <4>2. QED
        BY <2>4, <3>1, <3>4, <4>1
    <3>5. CASE /\ Put(p) /\ r.w.file = "meta" /\ r.w.path \in Names
               /\ \A m \in Names : /\ dir'[m].key = dir[m].key
                                   /\ dir'[m].meta = IF m = r.w.path THEN r.w.val ELSE dir[m].meta
      <4>1. CASE n = r.w.path
        <5>1. Ending(r) /\ Target(r) = n
          BY <3>5, <4>1 DEF Ending, Target, InWrite, Put, At
        <5>2. QED
          BY <1>0, <2>4, <3>5, <4>1, <5>1 DEF Minds
      <4>2. CASE n # r.w.path
        BY <2>4, <3>1, <3>5, <4>2
      <4>3. QED
        BY <4>1, <4>2
    <3>6. CASE Carried(r)
      <4> PICK from, to \in Names :
            r.pc \in {"move", "back"} /\ from # to /\ dir' = Moved(from, to)
        BY <3>6 DEF Carried
      <4>1. dir'[to] = dir[from] /\ dir'[from] = NoDir /\ \A x \in Names \ {from, to} : dir'[x] = dir[x]
        BY MoveDone
      <4>2. \A m \in Names : ~Waking(r, m)
        BY DEF Waking, InWrite
      <4>3. QED
        BY <1>0, <2>2, <2>4, <4>1, <4>2, NoDirFields
    <3>7. QED
      BY <1>0, <3>2, <3>3, <3>4, <3>5, <3>6, Effects
  <2>5. QED
    BY <2>3, <2>4, SureEffects
<1>3. QED
  BY <1>1, <1>2

LEMMA SoundHolds == Spec => [](Apart => Sound)
<1>1. Init => Sound
  <2>1. SUFFICES ASSUME Init PROVE Sound
    OBVIOUS
  <2>2. \A p \in Procs : proc[p] = Idle /\ Idle.pc = "idle"
    BY <2>1 DEF Init, Idle
  <2>3. \A p \in Procs : Minds(proc[p], dir, Sure) /\ ~Holding(proc[p])
    BY <2>2, Harmless
  <2>4. QED
    BY <2>1, <2>3, InitDirs DEF Sound, Sure, Init
<1>2. TypeOK /\ Noted /\ Minted /\ (Orderly => Kept) /\ (Apart => Sound) /\ [Next]_vars => (Apart => Sound)'
  <2>1. SUFFICES ASSUME TypeOK, Noted, Minted, Orderly => Kept, Apart => Sound, [Next]_vars, Apart'
                 PROVE  Sound'
    OBVIOUS
  <2>2. CASE UNCHANGED vars
    BY <2>1, <2>2 DEF Sound, Apart, Orderly, NoneRaced, Sure, vars
  <2>3. CASE RevokedElsewhere
    <3>1. Apart /\ Sound /\ Sure' \subseteq Sure /\ dir' = dir /\ proc' = proc
      BY <2>1, <2>3 DEF Apart, Orderly, NoneRaced, RevokedElsewhere, disk, history, Sure
    <3>2. \A p \in Procs : Minds(proc[p], dir, Sure')
      BY <3>1 DEF Sound, Minds
    <3>3. QED
      BY <3>1, <3>2 DEF Sound
  <2>4. ASSUME NEW p \in Procs, Step(p) PROVE Sound'
    <3>1. Kept /\ Sound
      BY <2>1, <2>4, ApartBefore
    <3>2. \A q \in Procs : Minds(proc'[q], dir', Sure')
      BY <2>1, <2>4, <3>1, MindsOther, MindsSelf
    <3>3. \A n \in Names : dir'[n].meta.state \in {"NEW", "EXPIRED"} /\ dir'[n].key \in Sure' =>
            \E q \in Procs : Waking(proc'[q], n)
      BY <2>1, <2>4, <3>1, WakingStep
    <3>4. \A k \in Sure' : \E n \in Names : dir'[n].key = k
      BY <2>1, <2>4, <3>1, PlacedStep
    <3>5. QED
      BY <2>1, <2>4, <3>1, <3>2, <3>3, <3>4, ApartStep DEF Sound
  <2>5. QED
    BY <2>1, <2>2, <2>3, <2>4 DEF Next, Step
<1>3. QED
  BY <1>1, <1>2, SlotsTypeCorrect, NotedHolds, MintedHolds, KeptHolds, PTL DEF Spec

\* Once all is quiet, after an orderly history, every session the server
\* honours is in some slot, so that it can be used or revoked, whatever else
\* failed, was killed or stayed unheard: a logout deletes session.bin only after
\* the server has revoked it.  Only a login leaves a session behind that was
\* overlapped, or that ended between its sign-in and the mark AUTHED.
THEOREM SessionsPlaced == Spec => []NoSessionLost
<1>1. (Apart => Sound) => NoSessionLost
  BY DEF Sound, Apart, NoSessionLost
<1>2. QED
  BY <1>1, SoundHolds, PTL

\* Once all is quiet, after an orderly history, a slot that must be logged in
\* has no session the server honours, whatever else failed, was killed or stayed
\* unheard: EXPIRED is written for a lost authorization and for nothing else, and
\* NEW after a revocation.  The same two logins are left out.
THEOREM ExpiredIsOver == Spec => []ExpiredIsDead
<1>1. TypeOK /\ (Apart => Sound) => ExpiredIsDead
  <2>1. SUFFICES ASSUME TypeOK, Apart => Sound, Quiet, Apart, NEW n \in Names,
                        dir[n].meta.state \in {"NEW", "EXPIRED"}, dir[n].key \in Sure
                 PROVE  FALSE
    BY DEF ExpiredIsDead, Apart
  <2>2. PICK p \in Procs : Waking(proc[p], n)
    BY <2>1 DEF Sound
  <2>3. p \in Running
    BY <2>2 DEF Waking, InWrite, Running
  <2>4. QED
    BY <2>1, <2>3 DEF Quiet
<1>2. QED
  BY <1>1, SlotsTypeCorrect, SoundHolds, PTL
=============================================================================

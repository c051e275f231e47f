-------------------------- MODULE CommandRunProofs --------------------------
(***************************************************************************)
(* What a run of any command promises: its exit code is the last word, it *)
(* makes its changes on one path, none of them before it refuses, and     *)
(* none before the user agreed.  Of the scripts the proofs use only the   *)
(* conditions of TreeAssumption.                                          *)
(***************************************************************************)
EXTENDS CommandRun, TLAPS

\* Whoever has reported an error other than a lost connection has stopped.
Stopped == result \notin {"", "lost"} => at = "end"

\* Every step keeps Stopped, and none that changes anything is taken at
\* the end.
LEMMA StopStep ==
    ASSUME Stopped, [Next]_vars
    PROVE  /\ Stopped'
           /\ result \notin {"", "lost"} => applied' = applied
<1>1. CASE UNCHANGED vars
  BY <1>1 DEF vars, Stopped
<1>2. CASE CountArgs
  BY <1>2 DEF CountArgs, Is, Go, Fail, answer, Stopped
<1>3. CASE PreRun
  BY <1>3 DEF PreRun, Is, Go, Fail, answer, Stopped
<1>4. CASE LoadAccount
  BY <1>4 DEF LoadAccount, Is, Go, Fail, answer, Stopped
<1>5. CASE DeclareYes
  BY <1>5 DEF DeclareYes, Is, Go, answer, Stopped
<1>6. CASE Validate
  BY <1>6 DEF Validate, Is, Go, Fail, answer, Stopped
<1>7. CASE ConfirmDestructive
  BY <1>7 DEF ConfirmDestructive, Is, Go, Fail, Stopped
<1>8. CASE Choose
  BY <1>8 DEF Choose, Is, Go, answer, Stopped
<1>9. CASE Run
  BY <1>9 DEF Run, Is, Go, Fail, answer, Stopped
<1>10. CASE ProbeSession
  BY <1>10 DEF ProbeSession, Is, Go, answer, Stopped
<1>11. CASE DialDaemon
  BY <1>11 DEF DialDaemon, Is, Go, Stopped
<1>12. CASE UnknownMethod
  BY <1>12 DEF UnknownMethod, Fail, answer, Stopped
<1>13. CASE Answer
  BY <1>13 DEF Answer, Fail, answer, Stopped
<1>14. CASE HangUp
  BY <1>14 DEF HangUp, answer, Stopped
<1>15. CASE Read
  BY <1>15 DEF Read, Is, Go, Fail, Refused, answer, Stopped
<1>16. CASE Change
  BY <1>16 DEF Change, Is, Go, Fail, Refused, Stopped
<1>17. CASE Attempt
  BY <1>17 DEF Attempt, Is, Go, Stopped
<1>18. CASE Store
  BY <1>18 DEF Store, Is, Go, Fail, Stopped
<1>19. CASE Finish
  BY <1>19 DEF Finish, answer, Stopped
<1>20. CASE Elsewhere
  BY <1>20 DEF Elsewhere, answer, Stopped
<1> QED
  BY <1>1, <1>2, <1>3, <1>4, <1>5, <1>6, <1>7, <1>8, <1>9, <1>10, <1>11, <1>12,
     <1>13, <1>14, <1>15, <1>16, <1>17, <1>18, <1>19, <1>20 DEF Next

\* A command that has reported how it ended changes nothing any more, here
\* or in the daemon, unless what it reported is that the connection was lost
\* (Execute, Call, dispatch).
THEOREM ErrorFinal == Spec => ErrorIsFinal
<1>1. Init => Stopped
  BY DEF Init, Stopped
<1>2. Stopped /\ [Next]_vars => Stopped'
  BY StopStep
<1>3. Stopped /\ [Next]_vars => [result \notin {"", "lost"} => applied' = applied]_vars
  BY StopStep
<1> QED
  BY <1>1, <1>2, <1>3, PTL DEF Spec, ErrorIsFinal

-----------------------------------------------------------------------------
(* The kinds of step                                                      *)

\* The one who takes steps goes on in its script.
Advances ==
    /\ at # "end" /\ at' = at /\ Ip \in DOMAIN Script
    /\ \/ at = "daemon" /\ hpc' \in Onward(Script, Ip) /\ pc' = pc
       \/ at # "daemon" /\ pc' \in Onward(Script, Ip) /\ hpc' = hpc
    /\ result' = result /\ waiting' = waiting
    /\ Step1.op = "ask" => agreed' = TRUE

\* The command ends, with a refusal only where it may refuse; the daemon's error
\* needs a client that waits.
Ends ==
    /\ at' = "end" /\ waiting' = FALSE
    /\ at = "daemon" /\ ~waiting => result' = result
    /\ result' \in Refusals => result' = result \/ (Ip \in DOMAIN Script /\ Refuses(Step1))

Quiet == /\ at # "end" /\ (Advances \/ Ends)
         /\ UNCHANGED <<cmd, called, applied>> /\ agreed' \in {agreed, TRUE}

\* To the next position.
OneUp == \/ at = "daemon" /\ hpc' = hpc + 1
         \/ at # "daemon" /\ pc' = pc + 1

\* A step that may change something: it goes on, ends with an error that is no
\* refusal, or changes nothing.
Acts == /\ at # "end" /\ Ip \in DOMAIN Script /\ Changes(Step1)
        /\ \/ Advances /\ OneUp /\ applied' \in {applied, applied \cup {at}}
           \/ Ends /\ applied' = applied
           \/ Ends /\ (result' \in Refusals => result' = result)
              /\ applied' \in {applied, applied \cup {at}}
        /\ UNCHANGED <<cmd, called, agreed>>

\* A step to the next position is onward, and a jump too.
LEMMA GoesOn ==
    ASSUME NEW op, Is(op), op # "refuse"
    PROVE  /\ at # "end" /\ Ip \in DOMAIN Script /\ Step1.op = op
           /\ op # "skip" => Ip + 1 \in Onward(Script, Ip)
           /\ op \in {"maybe", "skip", "call"} => Ip + (1 + Step1.hop) \in Onward(Script, Ip)
BY DEF Is, Step1, Onward

LEMMA NextStep ==
    ASSUME NEW op, Is(op), op \notin {"refuse", "skip"}, Go(1), op = "ask" => agreed' = TRUE
    PROVE  Advances
<1>1. /\ at # "end" /\ Ip \in DOMAIN Script /\ Step1.op = op
      /\ Ip + 1 \in Onward(Script, Ip)
  BY GoesOn
<1>2. QED
  BY <1>1 DEF Go, Advances, Ip

LEMMA Jump ==
    ASSUME NEW op, Is(op), op \in {"maybe", "skip", "call"}, Go(1 + Step1.hop)
    PROVE  Advances
<1>1. /\ at # "end" /\ Ip \in DOMAIN Script /\ Step1.op = op
      /\ Ip + (1 + Step1.hop) \in Onward(Script, Ip)
  BY GoesOn
<1>2. QED
  BY <1>1 DEF Go, Advances, Ip

\* A failure is a refusal only at a step that refuses.
LEMMA Failure ==
    ASSUME NEW e, Fail(e), e \in Refusals => Ip \in DOMAIN Script /\ Refuses(Step1)
    PROVE  Ends
BY DEF Fail, Ends

LEMMA Errors0 ==
    /\ {"plain", "auth", "account", "precondition", "cancel", "unauthorized"} \cap Refusals = {}
    /\ \A e \in Errors : e \notin Refusals
BY RpcErrorsAssumption DEF Refusals, Errors

LEMMA QuietSteps ==
    ASSUME CountArgs \/ PreRun \/ LoadAccount \/ DeclareYes \/ Validate \/ ConfirmDestructive
             \/ Choose \/ Run \/ ProbeSession \/ Read
    PROVE  Quiet
<1>1. CASE CountArgs
  BY <1>1, NextStep, Failure, Errors0, GoesOn DEF CountArgs, Quiet, Same, answer
<1>2. CASE PreRun
  <2>1. Is("gate") /\ (Go(1) \/ \E e : Fail(e)) /\ UNCHANGED <<cmd, called, agreed, applied>>
    BY <1>2 DEF PreRun, Same, answer
  <2>2. at # "end" /\ Ip \in DOMAIN Script /\ Refuses(Step1)
    BY <2>1, GoesOn DEF Refuses
  <2>3. Advances \/ Ends
    BY <2>1, <2>2, NextStep, Failure
  <2>4. QED
    BY <2>1, <2>2, <2>3 DEF Quiet
<1>3. CASE LoadAccount
  BY <1>3, NextStep, Failure, Errors0, GoesOn DEF LoadAccount, Quiet, Same, answer
<1>4. CASE DeclareYes
  BY <1>4, NextStep, GoesOn DEF DeclareYes, Quiet, Same, answer
<1>5. CASE Validate
  <2>1. /\ UNCHANGED <<cmd, called, agreed, applied>>
        /\ \/ Is("check") /\ Go(1)
           \/ (Is("check") \/ Is("refuse")) /\ Fail(Step1.alt)
    BY <1>5 DEF Validate, Same, answer
  <2>2. at # "end" /\ Ip \in DOMAIN Script
    BY <2>1 DEF Is
  <2>3. CASE Is("check") /\ Go(1)
    BY <2>1, <2>2, <2>3, NextStep DEF Quiet
  <2>4. CASE Fail(Step1.alt)
    <3>1. Step1.alt \in Refusals => Refuses(Step1)
      BY DEF Refuses
    <3>2. QED
      BY <2>1, <2>2, <2>4, <3>1, Failure DEF Quiet
  <2>5. QED
    BY <2>1, <2>3, <2>4
<1>6. CASE ConfirmDestructive
  <2>1. /\ Is("ask") /\ UNCHANGED <<cmd, called, applied>>
        /\ \/ Go(1) /\ agreed' = TRUE
           \/ agreed' = agreed /\ \E e : Fail(e)
    BY <1>6 DEF ConfirmDestructive, Same
  <2>2. at # "end" /\ Ip \in DOMAIN Script /\ Refuses(Step1)
    BY <2>1, GoesOn DEF Refuses
  <2>3. Advances \/ Ends
    BY <2>1, <2>2, NextStep, Failure
  <2>4. QED
    BY <2>1, <2>2, <2>3 DEF Quiet
<1>7. CASE Choose
  BY <1>7, NextStep, Jump, GoesOn DEF Choose, Quiet, Same, answer
<1>8. CASE Run
  BY <1>8, NextStep, Failure, Errors0, GoesOn DEF Run, Quiet, Same, answer
<1>9. CASE ProbeSession
  BY <1>9, NextStep, GoesOn DEF ProbeSession, Quiet, Same, answer
<1>10. CASE Read
  <2>1. /\ UNCHANGED <<cmd, called, agreed, applied>>
        /\ \/ (Is("get") \/ Is("peek")) /\ Go(1)
           \/ Is("get") /\ (\E e \in Errors \cup {"auth"} : Fail(e))
           \/ Is("get") /\ Fail(Step1.alt)
    BY <1>10 DEF Read, Refused, Same, answer
  <2>2. at # "end" /\ Ip \in DOMAIN Script
    BY <2>1 DEF Is
  <2>3. CASE (Is("get") \/ Is("peek")) /\ Go(1)
    BY <2>1, <2>2, <2>3, NextStep DEF Quiet
  <2>4. CASE \E e \in Errors \cup {"auth"} : Fail(e)
    BY <2>1, <2>2, <2>4, Failure, Errors0 DEF Quiet
  <2>5. CASE Fail(Step1.alt)
    <3>1. Step1.alt \in Refusals => Refuses(Step1)
      BY DEF Refuses
    <3>2. QED
      BY <2>1, <2>2, <2>5, <3>1, Failure DEF Quiet
  <2>6. QED
    BY <2>1, <2>3, <2>4, <2>5
<1>11. QED
  BY <1>1, <1>2, <1>3, <1>4, <1>5, <1>6, <1>7, <1>8, <1>9, <1>10

LEMMA ActingSteps ==
    ASSUME Change \/ Attempt \/ Store
    PROVE  Acts
<1>0. \A op \in {"put", "try", "save"} :
        Is(op) => at # "end" /\ Ip \in DOMAIN Script /\ Changes(Step1)
  BY GoesOn DEF Changes
<1>1. \A op \in {"put", "try", "save"} : Is(op) /\ Go(1) =>
        Advances /\ OneUp
  <2>1. \A op \in {"put", "try", "save"} : Is(op) /\ Go(1) => Advances
    BY NextStep
  <2>2. Go(1) => OneUp
    BY DEF Go, OneUp
  <2>3. QED
    BY <2>1, <2>2
<1>2. Step1.alt \in Refusals => Refuses(Step1)
  BY DEF Refuses
<1>3. \A e \in Errors \cup {"auth", "plain"} :
        Fail(e) => Ends /\ (result' \in Refusals => result' = result)
  BY Errors0 DEF Fail, Ends
<1>4. CASE Change
  <2>1. /\ Is("put") /\ UNCHANGED <<cmd, called, agreed>>
        /\ \/ (Go(1) \/ Fail("plain")) /\ applied' = applied \cup {at}
           \/ (\E e \in Errors \cup {"auth"} : Fail(e)) /\ applied' = applied
           \/ (Go(1) \/ Fail(Step1.alt)) /\ applied' = applied
    BY <1>4 DEF Change, Refused, Made, Same
  <2>2. Fail(Step1.alt) => Ends
    BY <1>0, <1>2, <2>1, Failure
  <2>3. QED
    BY <1>0, <1>1, <1>3, <2>1, <2>2 DEF Acts
<1>5. CASE Attempt
  <2>1. /\ Is("try") /\ Go(1) /\ UNCHANGED <<cmd, called, agreed>>
        /\ applied' \in {applied, applied \cup {at}}
    BY <1>5 DEF Attempt, Made, Same
  <2>2. QED
    BY <1>0, <1>1, <2>1 DEF Acts
<1>6. CASE Store
  <2>1. /\ Is("save") /\ UNCHANGED <<cmd, called, agreed>>
        /\ \/ Go(1) /\ applied' \in {applied, applied \cup {at}}
           \/ Fail(Step1.alt) /\ applied' = applied
    BY <1>6 DEF Store, Made, Same
  <2>2. Fail(Step1.alt) => Ends
    BY <1>0, <1>2, <2>1, Failure
  <2>3. QED
    BY <1>0, <1>1, <2>1, <2>2 DEF Acts
<1>7. QED
  BY <1>4, <1>5, <1>6

-----------------------------------------------------------------------------
(* Where the run is, and what was changed by whom                         *)

Where ==
    /\ cmd \in DOMAIN Scripts /\ at \in {"client", "daemon", "end"}
    /\ at = "daemon" => pc \in Calls(Scripts[cmd]) /\ Scripts[cmd][pc].arg = called
    /\ waiting \in BOOLEAN /\ (waiting => at = "daemon")

\* Whoever has changed something is where one is after a change, and the other
\* has changed nothing.
Sides ==
    /\ applied \subseteq {"client", "daemon"} /\ OnceAcrossPaths
    /\ "client" \in applied => at = "end" \/ (at = "client" /\ pc \in Mine[cmd])
    /\ "daemon" \in applied =>
         \/ at = "end"
         \/ at = "client" /\ pc \in Theirs[cmd]
         \/ at = "daemon" /\ hpc \in Later[called]

\* A refusal ended the run, and nothing was changed.
Silent == result \in Refusals => at = "end" /\ applied = {}

\* The user was asked, or the run is where nobody has to be asked.
Heard ==
    Declared(cmd) => \/ agreed = TRUE
                     \/ at = "end"
                     \/ at = "client" /\ pc \in Calm[cmd]

LEMMA Whose ==
    ASSUME Where
    PROVE  /\ at = "daemon" => Script = Handlers[called] /\ Ip = hpc
           /\ at # "daemon" => Script = Scripts[cmd] /\ Ip = pc
           /\ at = "daemon" => called \in DOMAIN Handlers
           /\ Step1 = Script[Ip]
<1>1. at = "daemon" => called \in DOMAIN Handlers
  <2>1. OneSided(Scripts[cmd], Mine[cmd], Theirs[cmd])
    BY TreeAssumption DEF Where
  <2>2. QED
    BY <2>1 DEF Where, OneSided
<1>2. QED
  BY <1>1 DEF Script, Ip, Step1

\* Handlers ask nobody and call nobody.
LEMMA ClientOnly ==
    ASSUME Where, NEW op \in {"ask", "call"}, Is(op)
    PROVE  at = "client"
<1>1. ASSUME at = "daemon" PROVE FALSE
  <2>1. Script = Handlers[called] /\ called \in DOMAIN Handlers /\ Ip \in DOMAIN Script
    BY <1>1, Whose DEF Is
  <2>2. Serves(Handlers[called], Later[called]) /\ Script[Ip].op = op
    BY <2>1, TreeAssumption DEF Is, Step1
  <2>3. QED
    BY <2>1, <2>2 DEF Serves
<1>2. QED
  BY <1>1 DEF Is, Where

LEMMA WhereStep ==
    ASSUME Where, [Next]_vars
    PROVE  Where'
<1>1. CASE Quiet \/ Acts
  <2>1. \/ at' = "end" /\ waiting' = FALSE
        \/ at' = at /\ waiting' = waiting /\ (at = "daemon" => pc' = pc)
    BY <1>1 DEF Quiet, Acts, Advances, Ends
  <2>2. UNCHANGED <<cmd, called>>
    BY <1>1 DEF Quiet, Acts
  <2>3. CASE at' = "end" /\ waiting' = FALSE
    <3>1. waiting' \in BOOLEAN /\ ~waiting'
      BY <2>3
    <3>2. QED
      BY <2>2, <2>3, <3>1 DEF Where
  <2>4. CASE at' = at /\ waiting' = waiting /\ (at = "daemon" => pc' = pc)
    BY <2>2, <2>4 DEF Where
  <2>5. QED
    BY <2>1, <2>3, <2>4
<1>2. CASE DialDaemon
  <2>1. CASE at' = "daemon" /\ called' = Step1.arg /\ waiting' = TRUE /\ Is("call") /\ pc' = pc
    <3>1. at = "client"
      BY <2>1, ClientOnly
    <3>2. pc \in Calls(Scripts[cmd]) /\ Step1.arg = Scripts[cmd][pc].arg
      BY <2>1, <3>1, Whose DEF Is, Calls
    <3>3. cmd' = cmd
      BY <1>2 DEF DialDaemon
    <3>4. QED
      BY <2>1, <3>2, <3>3 DEF Where
  <2>2. CASE Go(1) /\ called' = called /\ Is("call") /\ cmd' = cmd
    BY <2>2 DEF Go, Where
  <2>3. QED
    BY <1>2, <2>1, <2>2 DEF DialDaemon
<1>3. CASE UnknownMethod
  BY <1>3 DEF UnknownMethod, Fail, Same, Where
<1>4. CASE Answer
  BY <1>4 DEF Answer, Fail, Same, Where
<1>5. CASE HangUp
  BY <1>5 DEF HangUp, Same, Where
<1>6. CASE Finish
  BY <1>6 DEF Finish, Same, Where
<1>7. CASE Elsewhere
  BY <1>7 DEF Elsewhere, Same, Where
<1>8. CASE UNCHANGED vars
  BY <1>8 DEF vars, Where
<1>9. QED
  BY <1>1, <1>2, <1>3, <1>4, <1>5, <1>6, <1>7, <1>8, QuietSteps, ActingSteps DEF Next

\* A position in a set that is closed leads to positions in it.
LEMMA StaysIn ==
    ASSUME NEW p, NEW stops, Closed(Script, p, stops), Ip \in p, Advances, Step1.op \notin stops
    PROVE  /\ at = "daemon" => at' = "daemon" /\ hpc' \in p
           /\ at = "client" => at' = "client" /\ pc' \in p
<1>1. Ip \in DOMAIN Script /\ Onward(Script, Ip) \subseteq p
  BY DEF Closed, Advances, Step1
<1>2. QED
  BY <1>1 DEF Advances

\* Whoever changes something is the only one who ever did.
LEMMA ActsAlone ==
    ASSUME Where, Sides, Acts
    PROVE  at \in {"client", "daemon"} /\ applied \subseteq {at}
<1>0. OneSided(Scripts[cmd], Mine[cmd], Theirs[cmd])
  BY TreeAssumption DEF Where
<1>1. at \in {"client", "daemon"} /\ Ip \in DOMAIN Script /\ Changes(Script[Ip])
  BY Whose DEF Acts, Where
<1>2. "client" \in applied => at = "client"
  BY <1>1 DEF Sides
<1>3. "daemon" \in applied => at = "daemon"
  <2>1. SUFFICES ASSUME "daemon" \in applied, at = "client" PROVE FALSE
    BY <1>1
  <2>2. pc \in Theirs[cmd] /\ pc \in DOMAIN Scripts[cmd] /\ Changes(Scripts[cmd][pc])
    BY <1>1, <2>1, Whose DEF Sides
  <2>3. QED
    BY <1>0, <2>2 DEF OneSided
<1>4. QED
  BY <1>1, <1>2, <1>3 DEF Sides

LEMMA SidesStep ==
    ASSUME Where, Sides, [Next]_vars
    PROVE  Sides'
<1>0. /\ OneSided(Scripts[cmd], Mine[cmd], Theirs[cmd])
      /\ at = "daemon" => Serves(Handlers[called], Later[called])
  BY TreeAssumption, Whose DEF Where
<1>1. ASSUME Advances, UNCHANGED <<cmd, called, applied>> PROVE Sides'
  <2>1. "client" \in applied => at' = "client" /\ pc' \in Mine[cmd]
    <3>1. SUFFICES ASSUME "client" \in applied PROVE at' = "client" /\ pc' \in Mine[cmd]
      OBVIOUS
    <3>2. at = "client" /\ pc \in Mine[cmd]
      BY <1>1, <3>1 DEF Sides, Advances
    <3>3. Closed(Script, Mine[cmd], {}) /\ Ip \in Mine[cmd]
      BY <1>0, <3>2, Whose DEF OneSided
    <3>4. QED
      BY <1>1, <3>2, <3>3, StaysIn
  <2>2. ASSUME "daemon" \in applied
        PROVE  \/ at' = "client" /\ pc' \in Theirs[cmd]
               \/ at' = "daemon" /\ hpc' \in Later[called]
    <3>1. \/ at = "client" /\ pc \in Theirs[cmd]
          \/ at = "daemon" /\ hpc \in Later[called]
      <4>1. at # "end"
        BY <1>1 DEF Advances
      <4>2. QED
        BY <2>2, <4>1 DEF Sides
    <3>2. CASE at = "client" /\ pc \in Theirs[cmd]
      <4>1. Closed(Script, Theirs[cmd], {}) /\ Ip \in Theirs[cmd]
        BY <1>0, <3>2, Whose DEF OneSided
      <4>2. QED
        BY <1>1, <3>2, <4>1, StaysIn
    <3>3. CASE at = "daemon" /\ hpc \in Later[called]
      <4>1. Closed(Script, Later[called], {}) /\ Ip \in Later[called]
        BY <1>0, <3>3, Whose DEF Serves
      <4>2. QED
        BY <1>1, <3>3, <4>1, StaysIn
    <3>4. QED
      BY <3>1, <3>2, <3>3
  <2>3. QED
    BY <1>1, <2>1, <2>2 DEF Sides, OnceAcrossPaths
<1>2. ASSUME at' = "end", applied' = applied PROVE Sides'
  BY <1>2 DEF Sides, OnceAcrossPaths
<1>3. CASE Quiet
  BY <1>1, <1>2, <1>3 DEF Quiet, Ends
<1>4. CASE Acts
  <2>1. /\ at \in {"client", "daemon"} /\ Ip \in DOMAIN Script /\ Changes(Script[Ip])
        /\ UNCHANGED <<cmd, called>> /\ (Advances \/ at' = "end")
    BY <1>4, Whose DEF Acts, Where, Ends
  <2>4. applied' \subseteq {at}
    BY <1>4, ActsAlone DEF Acts
  <2>5. CASE at' = "end"
    BY <2>1, <2>4, <2>5 DEF Sides, OnceAcrossPaths
  <2>6. CASE Advances /\ at' # "end"
    <3>0. applied' \in {applied, applied \cup {at}}
          /\ OneUp
      BY <1>4, <2>6 DEF Acts, Ends
    <3>1. CASE at = "client"
      <4>1. at' = "client" /\ pc' = pc + 1 /\ pc + 1 \in Mine[cmd]
        BY <1>0, <2>1, <2>6, <3>0, <3>1, Whose DEF OneSided, Advances, OneUp
      <4>2. QED
        BY <2>1, <2>4, <3>1, <4>1 DEF Sides, OnceAcrossPaths
    <3>2. CASE at = "daemon"
      <4>1. at' = "daemon" /\ hpc' = hpc + 1 /\ hpc + 1 \in Later[called]
        BY <1>0, <2>1, <2>6, <3>0, <3>2, Whose DEF Serves, Advances, OneUp
      <4>2. QED
        BY <2>1, <2>4, <3>2, <4>1 DEF Sides, OnceAcrossPaths
    <3>3. QED
      BY <2>1, <3>1, <3>2
  <2>7. QED
    BY <2>1, <2>5, <2>6
<1>5. CASE DialDaemon
  <2>1. Is("call") /\ applied' = applied
    BY <1>5 DEF DialDaemon
  <2>2. at = "client"
    BY <2>1, ClientOnly
  <2>3. pc \in Calls(Scripts[cmd])
    BY <2>1, <2>2, Whose DEF Is, Calls
  <2>4. pc \notin Mine[cmd] /\ pc \notin Theirs[cmd]
    BY <1>0, <2>3 DEF OneSided
  <2>5. applied = {}
    BY <2>2, <2>4 DEF Sides
  <2>6. QED
    BY <2>1, <2>5 DEF Sides, OnceAcrossPaths
<1>6. CASE UnknownMethod
  BY <1>2, <1>6 DEF UnknownMethod, Fail, answer
<1>7. CASE Answer
  <2>1. at = "daemon" /\ UNCHANGED <<cmd, called, applied>>
    BY <1>7 DEF Answer, Same, answer
  <2>2. CASE at' = "client" /\ pc' = pc + 1 + Scripts[cmd][pc].hop
    <3>1. "client" \notin applied
      BY <2>1 DEF Sides
    <3>2. "daemon" \in applied => hpc \in Later[called]
      BY <2>1 DEF Sides
    <3>3. pc \in Calls(Scripts[cmd]) /\ Scripts[cmd][pc].arg = called
      BY <2>1 DEF Where
    <3>4. "daemon" \in applied => AfterCall(Scripts[cmd], pc) \in Theirs[cmd]
      BY <1>0, <3>2, <3>3 DEF OneSided
    <3>5. pc' = AfterCall(Scripts[cmd], pc)
      BY <2>2 DEF AfterCall
    <3>6. QED
      BY <2>1, <2>2, <3>1, <3>4, <3>5 DEF Sides, OnceAcrossPaths
  <2>3. CASE at' = "end"
    BY <1>2, <2>1, <2>3
  <2>4. QED
    BY <1>7, <2>2, <2>3 DEF Answer, Fail
<1>8. CASE HangUp
  BY <1>8 DEF HangUp, Same, answer, Where, Sides, OnceAcrossPaths
<1>9. CASE Finish
  BY <1>2, <1>9 DEF Finish, answer
<1>10. CASE Elsewhere
  BY <1>10 DEF Elsewhere, Same, answer, Sides, OnceAcrossPaths
<1>11. CASE UNCHANGED vars
  BY <1>11 DEF vars, Sides, OnceAcrossPaths
<1>12. QED
  BY <1>3, <1>4, <1>5, <1>6, <1>7, <1>8, <1>9, <1>10, <1>11, QuietSteps, ActingSteps DEF Next

LEMMA RunPlaced == Spec => [](Where /\ Sides)
<1>1. Init => Where /\ Sides
  BY DEF Init, Where, Sides, OnceAcrossPaths
<1>2. Where /\ Sides /\ [Next]_vars => (Where /\ Sides)'
  BY WhereStep, SidesStep
<1>3. QED
  BY <1>1, <1>2, PTL DEF Spec

\* A change is not made on both paths: a command whose request went to the daemon is
\* never run again by the client (MaybeDialDaemon, Call).
THEOREM OnePathOnly == Spec => []OnceAcrossPaths
<1>1. Sides => OnceAcrossPaths
  BY DEF Sides
<1>2. QED
  BY <1>1, RunPlaced, PTL

-----------------------------------------------------------------------------
(* Refusals                                                               *)

\* Nothing happens at the end.
LEMMA EndIsEnd ==
    ASSUME Where, at = "end", [Next]_vars
    PROVE  at' = "end" /\ UNCHANGED <<cmd, called, agreed, applied, result>>
<1>1. ~Quiet /\ ~Acts
  BY DEF Quiet, Acts
<1>2. ~(DialDaemon \/ UnknownMethod \/ Answer \/ HangUp \/ Finish \/ Elsewhere)
  BY DEF DialDaemon, Is, UnknownMethod, Answer, HangUp, Finish, Elsewhere, Where
<1>3. QED
  BY <1>1, <1>2, QuietSteps, ActingSteps DEF Next, vars

\* Where a step may refuse, nothing was changed.
LEMMA RefusesClean ==
    ASSUME Where, Sides, at # "end", Ip \in DOMAIN Script, Refuses(Step1)
    PROVE  applied = {}
<1>1. /\ OneSided(Scripts[cmd], Mine[cmd], Theirs[cmd])
      /\ at = "daemon" => Serves(Handlers[called], Later[called])
  BY TreeAssumption, Whose DEF Where
<1>2. CASE at = "client"
  <2>1. pc \in DOMAIN Scripts[cmd] /\ Refuses(Scripts[cmd][pc])
    BY <1>2, Whose
  <2>2. pc \notin Mine[cmd] /\ pc \notin Theirs[cmd]
    BY <1>1, <2>1 DEF OneSided
  <2>3. QED
    BY <1>2, <2>2 DEF Sides
<1>3. CASE at = "daemon"
  <2>1. hpc \in DOMAIN Handlers[called] /\ Refuses(Handlers[called][hpc])
    BY <1>3, Whose
  <2>2. hpc \notin Later[called]
    BY <1>1, <1>3, <2>1 DEF Serves
  <2>3. QED
    BY <1>3, <2>2 DEF Sides
<1>4. QED
  BY <1>2, <1>3 DEF Where

LEMMA SilentStep ==
    ASSUME Where, Sides, Silent, [Next]_vars
    PROVE  Silent'
<1>1. CASE at = "end"
  BY <1>1, EndIsEnd DEF Silent
<1>2. CASE at # "end"
  <2>1. SUFFICES ASSUME result' \in Refusals PROVE at' = "end" /\ applied' = {}
    BY DEF Silent
  <2>2. result \notin Refusals /\ result' # result
    BY <1>2, <2>1 DEF Silent
  <2>3. CASE Quiet \/ Acts
    <3>1. /\ Ends /\ Ip \in DOMAIN Script /\ Refuses(Step1) /\ applied' = applied
      BY <2>1, <2>2, <2>3 DEF Quiet, Acts, Advances, Ends
    <3>2. QED
      BY <1>2, <3>1, RefusesClean DEF Ends
  <2>4. CASE UnknownMethod
    <3>1. at = "daemon" /\ hpc = 1 /\ at' = "end" /\ applied' = applied
      BY <2>4 DEF UnknownMethod, Fail, answer
    <3>2. 1 \notin Later[called]
      BY <3>1, TreeAssumption, Whose DEF Serves
    <3>3. QED
      BY <3>1, <3>2 DEF Sides
  <2>5. CASE Answer \/ HangUp \/ Finish
    <3>1. result' \in {result, "plain", "lost", "none"}
      BY <2>5 DEF Answer, Fail, HangUp, Finish
    <3>2. QED
      BY <2>1, <2>2, <3>1 DEF Refusals
  <2>6. CASE DialDaemon \/ Elsewhere \/ UNCHANGED vars
    BY <2>2, <2>6 DEF DialDaemon, Go, Elsewhere, vars
  <2>7. QED
    BY <2>3, <2>4, <2>5, <2>6, QuietSteps, ActingSteps DEF Next
<1>3. QED
  BY <1>1, <1>2

\* The errors whose exit code says that nothing was done.
LEMMA Denials == \A e : Denies(e) => e \in Refusals
<1>1. ASSUME NEW e, e # "rpc_usage", e \notin Refusals
      PROVE  ExitCode(e) \notin {2, 64, 72, 73}
  <2>1. e # "usage" /\ e # "unknown_method" /\ e # "busy" /\ e # "not_confirmed"
    BY <1>1 DEF Refusals
  <2>2. ExitCode(e) \in {0, 130, 3, 4, 5, 6, 8, 9, 1}
    BY <1>1, <2>1 DEF ExitCode
  <2>3. QED
    BY <2>2
<1>2. QED
  BY <1>1 DEF Denies

\* An exit code that says that nothing was done is the truth: the command can be
\* corrected and run again (MapExitCode).
THEOREM RefusedUnchanged == Spec => []RefusalChangesNothing
<1>1. Init => Silent
  BY DEF Init, Silent, Refusals
<1>2. Where /\ Sides /\ Silent /\ [Next]_vars => Silent'
  BY SilentStep
<1>3. Silent => RefusalChangesNothing
  BY Denials DEF Silent, RefusalChangesNothing, Denies
<1>4. QED
  BY <1>1, <1>2, <1>3, RunPlaced, PTL DEF Spec

-----------------------------------------------------------------------------
(* Confirmation                                                           *)

\* A step that changes something or calls the daemon is taken once agreed.
LEMMA AgreedBefore ==
    ASSUME Where, Heard, Declared(cmd), at # "end", Ip \in DOMAIN Script,
           Changes(Step1) \/ Step1.op = "call"
    PROVE  agreed = TRUE
<1>1. CASE at = "client"
  <2>1. AsksFirst(Scripts[cmd], Calm[cmd])
    BY TreeAssumption DEF Where
  <2>2. pc \in DOMAIN Scripts[cmd] /\ Step1 = Scripts[cmd][pc]
    BY <1>1, Whose
  <2>3. pc \notin Calm[cmd]
    BY <2>1, <2>2 DEF AsksFirst
  <2>4. QED
    BY <1>1, <2>3 DEF Heard
<1>2. CASE at = "daemon"
  BY <1>2 DEF Heard
<1>3. QED
  BY <1>1, <1>2 DEF Where

LEMMA SameCommand ==
    ASSUME [Next]_vars
    PROVE  cmd' = cmd
<1>1. CASE Quiet \/ Acts
  BY <1>1 DEF Quiet, Acts
<1>2. CASE DialDaemon \/ UnknownMethod \/ Answer \/ HangUp \/ Finish \/ Elsewhere
  BY <1>2 DEF DialDaemon, UnknownMethod, Answer, HangUp, Finish, Elsewhere, Same
<1>3. CASE UNCHANGED vars
  BY <1>3 DEF vars
<1>4. QED
  BY <1>1, <1>2, <1>3, QuietSteps, ActingSteps DEF Next

LEMMA HeardStep ==
    ASSUME Where, Heard, [Next]_vars
    PROVE  Heard'
<1>1. CASE at = "end"
  BY <1>1, EndIsEnd DEF Heard
<1>2. CASE agreed = TRUE
  <2>1. agreed' = TRUE /\ cmd' = cmd
    <3>1. CASE Quiet \/ Acts
      BY <1>2, <3>1 DEF Quiet, Acts
    <3>2. CASE DialDaemon \/ UnknownMethod \/ Answer \/ HangUp \/ Finish \/ Elsewhere
      BY <1>2, <3>2 DEF DialDaemon, UnknownMethod, Answer, HangUp, Finish, Elsewhere, Same, answer
    <3>3. CASE UNCHANGED vars
      BY <1>2, <3>3 DEF vars
    <3>4. QED
      BY <3>1, <3>2, <3>3, QuietSteps, ActingSteps DEF Next
  <2>2. QED
    BY <2>1 DEF Heard
<1>3. CASE at # "end" /\ agreed # TRUE /\ Declared(cmd)
  <2>1. at = "client" /\ pc \in Calm[cmd]
    BY <1>3 DEF Heard
  <2>2. AsksFirst(Scripts[cmd], Calm[cmd])
    BY <1>3, TreeAssumption DEF Where
  <2>3. CASE Quiet
    <3>1. CASE Ends
      BY <3>1 DEF Ends, Heard
    <3>2. CASE Advances
      <4>1. CASE Step1.op = "ask"
        BY <3>2, <4>1 DEF Advances, Heard
      <4>2. CASE Step1.op # "ask"
        <5>1. Closed(Script, Calm[cmd], {"ask"}) /\ Ip \in Calm[cmd]
          BY <2>1, <2>2, Whose DEF AsksFirst
        <5>2. at' = "client" /\ pc' \in Calm[cmd]
          BY <2>1, <3>2, <4>2, <5>1, StaysIn
        <5>3. QED
          BY <2>3, <5>2 DEF Quiet, Heard
      <4>3. QED
        BY <4>1, <4>2
    <3>3. QED
      BY <2>3, <3>1, <3>2 DEF Quiet
  <2>4. ~Acts
    BY <1>3, AgreedBefore DEF Acts
  <2>5. ~DialDaemon
    BY <1>3, AgreedBefore DEF DialDaemon, Is, Step1
  <2>6. ~(UnknownMethod \/ Answer \/ HangUp)
    BY <2>1 DEF UnknownMethod, Answer, HangUp, Where
  <2>7. CASE Finish
    BY <2>7 DEF Finish, Heard
  <2>8. CASE Elsewhere \/ UNCHANGED vars
    BY <2>8 DEF Elsewhere, Same, answer, vars, Heard
  <2>9. QED
    BY <2>3, <2>4, <2>5, <2>6, <2>7, <2>8, QuietSteps, ActingSteps DEF Next
<1>4. CASE ~Declared(cmd)
  <2>1. cmd' = cmd
    BY SameCommand
  <2>2. QED
    BY <1>4, <2>1 DEF Heard, Declared
<1>5. QED
  BY <1>1, <1>2, <1>3, <1>4

LEMMA HeardInit == Init => Heard
<1>1. Init => cmd \in DOMAIN Scripts /\ at = "client" /\ pc = 1
  BY DEF Init
<1>2. \A c \in DOMAIN Scripts : Declared(c) => 1 \in Calm[c]
  BY TreeAssumption DEF AsksFirst
<1>3. QED
  BY <1>1, <1>2 DEF Heard

\* A command with a --yes flag changes nothing, here or in the daemon, before the user
\* agreed (ConfirmDestructive).
THEOREM AgreedFirst == Spec => ConfirmedFirst
<1>1. Init => Heard
  BY HeardInit
<1>2. Where /\ Heard /\ [Next]_vars => Heard'
  BY HeardStep
<1>3. Where /\ Heard /\ [Next]_vars => [Destructive /\ applied' # applied => agreed]_vars
  <2>1. SUFFICES ASSUME Where, Heard, Next, Destructive, applied' # applied PROVE agreed = TRUE
    BY DEF vars
  <2>2. ~Quiet /\ ~(DialDaemon \/ UnknownMethod \/ Answer \/ HangUp \/ Finish \/ Elsewhere)
    BY <2>1 DEF Quiet, DialDaemon, UnknownMethod, Answer, HangUp, Finish, Elsewhere, answer
  <2>3. Acts
    BY <2>1, <2>2, QuietSteps, ActingSteps DEF Next
  <2>4. QED
    BY <2>1, <2>3, AgreedBefore DEF Acts, Destructive
<1>4. QED
  BY <1>1, <1>2, <1>3, RunPlaced, PTL DEF Spec, ConfirmedFirst
-----------------------------------------------------------------------------
(* The promise                                                            *)

\* While the command runs it has reported nothing, except that a client that
\* waits no more has reported the lost connection.
Spoken == /\ at = "client" \/ waiting => result = ""
          /\ at = "daemon" /\ ~waiting => result = "lost"

LEMMA SpokenStep ==
    ASSUME Where, Spoken, [Next]_vars
    PROVE  Spoken'
<1>1. at' = "end" => Spoken'
  <2>1. Where'
    BY WhereStep
  <2>2. QED
    BY <2>1 DEF Where, Spoken
<1>2. UNCHANGED <<at, result, waiting>> => Spoken'
  <2>1. SUFFICES ASSUME at' = at, result' = result, waiting' = waiting PROVE Spoken'
    OBVIOUS
  <2>2. waiting' <=> waiting
    BY <2>1, Zenon
  <2>3. QED
    BY <2>1, <2>2 DEF Spoken
<1>3. CASE Quiet \/ Acts
  BY <1>1, <1>2, <1>3 DEF Quiet, Acts, Advances, Ends
<1>4. CASE DialDaemon
  <2>1. at = "client" /\ result' = result
    BY <1>4, ClientOnly DEF DialDaemon, Go
  <2>2. CASE at' = "daemon" /\ waiting' = TRUE
    BY <2>1, <2>2 DEF Spoken
  <2>3. CASE UNCHANGED <<at, waiting>>
    BY <1>2, <2>1, <2>3
  <2>4. QED
    BY <1>4, <2>2, <2>3 DEF DialDaemon, Go
<1>5. CASE Answer
  <2>1. CASE at' = "client" /\ waiting /\ waiting' = FALSE /\ result' = result
    BY <2>1 DEF Spoken
  <2>2. QED
    BY <1>1, <1>5, <2>1 DEF Answer, Fail
<1>6. CASE HangUp
  BY <1>6 DEF HangUp, Spoken
<1>7. CASE UnknownMethod \/ Finish
  BY <1>1, <1>7 DEF UnknownMethod, Fail, Finish
<1>8. CASE Elsewhere \/ UNCHANGED vars
  BY <1>2, <1>8 DEF Elsewhere, vars
<1>9. QED
  BY <1>3, <1>4, <1>5, <1>6, <1>7, <1>8, QuietSteps, ActingSteps DEF Next

\* A command reports once.
LEMMA ReportsOnce ==
    ASSUME Where, Spoken, [Next]_vars, result' # result
    PROVE  result = ""
<1>1. CASE Quiet \/ Acts
  <2>1. at # "end" /\ Ends
    BY <1>1 DEF Quiet, Acts, Advances
  <2>2. at = "client" \/ waiting
    BY <2>1 DEF Ends, Where
  <2>3. QED
    BY <2>1, <2>2 DEF Spoken
<1>2. CASE UnknownMethod \/ HangUp \/ Finish
  BY <1>2 DEF UnknownMethod, HangUp, Finish, Where, Spoken
<1>3. CASE Answer
  <2>1. at = "daemon" /\ waiting
    BY <1>3 DEF Answer, Fail
  <2>2. QED
    BY <2>1 DEF Spoken
<1>4. ~(DialDaemon \/ Elsewhere \/ UNCHANGED vars)
  BY DEF DialDaemon, Go, Elsewhere, vars
<1>5. QED
  BY <1>1, <1>2, <1>3, <1>4, QuietSteps, ActingSteps DEF Next

\* It is agreed to at the question, before anything is reported.
LEMMA AgreesWhenAsked ==
    ASSUME Where, Spoken, [Next]_vars, agreed' # agreed
    PROVE  agreed' = TRUE /\ result = "" /\ UNCHANGED <<applied, result>>
<1>1. ConfirmDestructive
  <2>1. ~(CountArgs \/ PreRun \/ LoadAccount \/ DeclareYes \/ Validate \/ Choose \/ Run
          \/ ProbeSession \/ Read)
    BY DEF CountArgs, PreRun, LoadAccount, DeclareYes, Validate, Choose, Run, ProbeSession,
       Read, answer
  <2>2. ~(Change \/ Attempt \/ Store)
    BY DEF Change, Attempt, Store
  <2>3. ~(DialDaemon \/ UnknownMethod \/ Answer \/ HangUp \/ Finish \/ Elsewhere
          \/ UNCHANGED vars)
    BY DEF DialDaemon, UnknownMethod, Answer, HangUp, Finish, Elsewhere, answer, vars
  <2>4. QED
    BY <2>1, <2>2, <2>3 DEF Next
<1>2. Is("ask") /\ Go(1) /\ agreed' = TRUE /\ applied' = applied
  BY <1>1 DEF ConfirmDestructive
<1>3. at = "client" /\ result' = result
  BY <1>2, ClientOnly DEF Go
<1>4. QED
  BY <1>2, <1>3 DEF Spoken

\* What is changed is not denied at once.
LEMMA ChangesOpenly ==
    ASSUME [Next]_vars, applied' # applied
    PROVE  Acts /\ applied' = applied \cup {at} /\ result' \in {result, "plain"}
<1>1. Change \/ Attempt \/ Store
  <2>1. ~(CountArgs \/ PreRun \/ LoadAccount \/ DeclareYes \/ Validate \/ ConfirmDestructive
          \/ Choose \/ Run \/ ProbeSession \/ Read)
    BY QuietSteps DEF Quiet
  <2>2. ~(DialDaemon \/ UnknownMethod \/ Answer \/ HangUp \/ Finish \/ Elsewhere
          \/ UNCHANGED vars)
    BY DEF DialDaemon, UnknownMethod, Answer, HangUp, Finish, Elsewhere, answer, vars
  <2>3. QED
    BY <2>1, <2>2 DEF Next
<1>2. CASE Change
  BY <1>1, <1>2, ActingSteps DEF Change, Made, Go, Fail
<1>3. CASE Attempt
  BY <1>1, <1>3, ActingSteps DEF Attempt, Made, Go
<1>4. CASE Store
  BY <1>1, <1>4, ActingSteps DEF Store, Made, Go
<1>5. QED
  BY <1>1, <1>2, <1>3, <1>4

LEMMA Outcomes ==
    /\ Outcome("") = "open" /\ Outcome("lost") = "lost" /\ Outcome("plain") = "ended"
    /\ \A e : e # "" => Outcome(e) \in {"refused", "lost", "ended"}
    /\ \A e : Outcome(e) = "refused" => e \in Refusals
<1>1. \A e \in {"", "lost", "plain"} : ~Denies(e)
  BY Denials DEF Refusals
<1>2. Outcome("") = "open" /\ Outcome("lost") = "lost" /\ Outcome("plain") = "ended"
  BY <1>1 DEF Outcome
<1>3. ASSUME NEW e, e # "", e # "lost"
      PROVE  Outcome(e) = (IF Denies(e) THEN "refused" ELSE "ended")
  BY <1>3 DEF Outcome
<1>4. QED
  BY <1>2, <1>3, Denials

LEMMA PromiseStep ==
    ASSUME Where, Sides, Silent, Heard, Spoken, [Next]_vars
    PROVE  Promise!Next \/ UNCHANGED Promise!promise
<1>0. Destructive' = Destructive
  BY SameCommand DEF Destructive, Declared
<1>1. CASE agreed' # agreed
  <2>1. Promise!Agree
    BY <1>0, <1>1, AgreesWhenAsked, Outcomes DEF Promise!Agree
  <2>2. QED
    BY <2>1 DEF Promise!Next
<1>2. CASE applied' # applied
  <2>1. Acts /\ applied' = applied \cup {at} /\ result' \in {result, "plain"}
    BY <1>2, ChangesOpenly
  <2>2. at \in {"client", "daemon"} /\ applied \subseteq {at} /\ applied' = {at}
    BY <2>1, ActsAlone
  <2>3. Destructive => agreed
    BY <2>1, AgreedBefore DEF Acts, Destructive
  <2>4. Outcome(result) \in {"open", "lost"}
    <3>1. result \in {"", "lost"}
      BY <2>2 DEF Spoken
    <3>2. QED
      BY <3>1, Outcomes
  <2>5. \/ Outcome(result') = Outcome(result)
        \/ Outcome(result) = "open" /\ Outcome(result') = "ended"
    BY <2>1, ReportsOnce, Outcomes
  <2>6. Promise!Change(at)
    BY <1>0, <2>1, <2>2, <2>3, <2>4, <2>5 DEF Promise!Change, Acts
  <2>7. QED
    BY <2>2, <2>6 DEF Promise!Next
<1>3. CASE agreed' = agreed /\ applied' = applied /\ result' # result
  <2>1. result = "" /\ result' # ""
    BY <1>3, ReportsOnce
  <2>2. Outcome(result) = "open" /\ Outcome(result') \in {"refused", "lost", "ended"}
    BY <2>1, Outcomes
  <2>3. Outcome(result') = "refused" => applied = {}
    BY <1>3, SilentStep, Outcomes DEF Silent
  <2>4. Promise!Report(Outcome(result'))
    BY <1>0, <1>3, <2>2, <2>3 DEF Promise!Report
  <2>5. QED
    BY <2>2, <2>4 DEF Promise!Next
<1>4. CASE UNCHANGED <<agreed, applied, result>>
  BY <1>0, <1>4 DEF Promise!promise
<1>5. QED
  BY <1>1, <1>2, <1>3, <1>4

\* Step by step, a run of any command keeps the promises of a command together:
\* one side, agreed to first, one last word, and true denials (ConfirmDestructive,
\* MaybeDialDaemon, Call, MapExitCode).
THEOREM RunKeepsPromise == Spec => ImplementsPromise
<1>1. Init => Promise!Init
  BY Outcomes DEF Init, Promise!Init, Destructive, Declared
<1>2. Init => Heard /\ Silent /\ Spoken
  BY HeardInit DEF Init, Silent, Refusals, Spoken
<1>3. Where /\ Heard /\ [Next]_vars => Heard'
  BY HeardStep
<1>4. Where /\ Sides /\ Silent /\ [Next]_vars => Silent'
  BY SilentStep
<1>5. Where /\ Spoken /\ [Next]_vars => Spoken'
  BY SpokenStep
<1>6. Where /\ Sides /\ Silent /\ Heard /\ Spoken /\ [Next]_vars
        => [Promise!Next]_(Promise!promise)
  BY PromiseStep
<1>7. QED
  BY <1>1, <1>2, <1>3, <1>4, <1>5, <1>6, RunPlaced, PTL
  DEF Spec, ImplementsPromise, Promise!Spec
=============================================================================

----------------------- MODULE SessionExecution_inv -----------------------
(***************************************************************************)
(* The inductive invariant of SessionExecution, and that every step keeps  *)
(* it.  The invariants the session is checked for are consequences of it:  *)
(* none of them is inductive, because each rests on who may touch the      *)
(* claim next.  A retirement may close the agent only because no one can   *)
(* take the session while it holds the retirement lock, which in turn      *)
(* rests on the cancel flag it has set, on the pump having been joined,    *)
(* and on the handover having looked at the flag.                          *)
(*                                                                         *)
(* One lemma per part of the invariant, one case per group of actions; a   *)
(* group that needs no care is one leaf, another one step per action.      *)
(***************************************************************************)
EXTENDS SessionExecution, TLAPS

(* How many ids shutdowns may still take: each request takes at most one. *)
Unclaimed == budget["close"] + budget["exit"]
             + (IF down \in {"lock", "begin", "wait", "reap", "insert"} THEN 1 ELSE 0)
IdsSuffice == Unclaimed <= Shutdowns /\ nextId + Unclaimed <= LastExec + 1

(* What has an id below next_execution, and what therefore has none above. *)
Fresh ==
  /\ claim < nextId
  /\ \A x \in canceled \cup bound : x < nextId
  /\ \A x \in Exec : by[x] # NoExec \/ outcome[x] # "none" => x < nextId
  /\ \A t \in Task : Active(t) => t[2] < nextId

ClaimHasPhase == claim = NoExec <=> phase = "none"

(* A handover that is not withdrawn owns the session. *)
HandOwns ==
  \A x \in Exec : Starting(x) =>
    /\ x \notin bound
    /\ task[<<"hand", x>>] # "sent" => by[x] = NoExec
    /\ x \notin canceled =>
         /\ claim = x /\ phase \in {"starting", "stopping", "cleanupFailed"}
         /\ task[<<"hand", x>>] = "joinOld" => agent = NoExec

(* A retirement past its mark is of a canceled execution; it closes the agent
   of the owner, and commits the owner only when that agent is gone. *)
RetireOwns ==
  \A t \in Task :
    /\ task[t] \in {"join", "lock", "close", "commit"} => t[2] \in canceled
    /\ task[t] \in {"close", "commit"} => retirement = t
    /\ task[t] = "close" => claim = t[2] /\ phase # "saving" /\ agent # NoExec
    /\ task[t] = "commit" /\ claim = t[2] => agent = NoExec

(* While the pump retires an execution no task is past joining it. *)
PumpOwns ==
  /\ pumpAt \in {"lock", "close", "commit"} =>
       /\ claim = pumpOf /\ phase = "stopping" /\ pumpOf \in bound /\ pumpEnd \in Ends
       /\ \A t \in Task : t[2] = claim => task[t] \notin {"lock", "close", "commit"}
  /\ pumpAt = "close" => retirement = Pump /\ agent # NoExec
  /\ pumpAt = "commit" => agent = NoExec

SwitchOwns == switch \in {"probe", "join"} => retirement = Switcher

(* The one process at work is the installed one, and works for the owner. *)
ServeOwns ==
  \A p \in Exec : serves[p] # NoExec =>
    /\ p \in procs /\ p = agent /\ claim = serves[p]
    /\ by[serves[p]] = p /\ said[serves[p]] = "none"
SaidWasPrompted == \A x \in Exec : said[x] # "none" => by[x] # NoExec

(* Nothing is at work while an answer waits to be saved. *)
SavingIsQuiet ==
  phase = "saving" => /\ \A p \in Exec : serves[p] = NoExec
                      /\ claim \in canceled => agent = NoExec

Owns == /\ IdsSuffice /\ Fresh /\ ClaimHasPhase /\ HandOwns /\ RetireOwns /\ PumpOwns
        /\ SwitchOwns /\ ServeOwns /\ SaidWasPrompted /\ SavingIsQuiet /\ CancelIsKept
IInv == TypeOK /\ Owns

-----------------------------------------------------------------------------
(* Operators that only abbreviate a few lines of an action are always expanded. *)
USE BoundsAssumption DEF IInv, TypeOK, Owns, NoExec, LastExec, Exec, Phases, Ends, Task,
   HandStages, RetireStages, TaskStages, Pump, Switcher, NoOne, Kinds, claimVars, agentVars,
   pumpVars, taskVars, lockVars, userVars, Spend, Active, Starting, Admits, ClaimAs, Killed,
   Saved, SaveFailed, PausedBy, CleanupFailed, IsDelivery, LetGo, Returns, Fails, Handing,
   HandAt, HandGivesUp, Bound, Joining, Retiring, NextStage, EndOf, Closes, Hears, Admitted,
   LeftToRetirement, SwitchAllowed, SwitchEnds, InterruptExecution

(* An id is left for the claim a shutdown takes. *)
LEMMA InsertFits == ASSUME IInv, DownInsert PROVE nextId \in Exec
  BY SMTT(60) DEF IdsSuffice, Unclaimed, ClaimTypes, UserTypes, DownInsert

(* What the request of a direct send leaves behind when it is dropped. *)
LEMMA DroppedTasks ==
  ASSUME IInv, NEW x \in Exec, HandDropped(x)
  PROVE  /\ <<"hand", x>> \in Task /\ <<"drop", x>> \in Task
         /\ task' \in [Task -> TaskStages]
         /\ \A t \in Task : task'[t] = IF t = <<"drop", x>> THEN "mark"
                                       ELSE IF t = <<"hand", x>> THEN "idle" ELSE task[t]
<1>1. <<"hand", x>> \in Task /\ <<"drop", x>> \in Task
  OBVIOUS
<1>2. task \in [Task -> TaskStages] /\ "idle" \in TaskStages /\ "mark" \in TaskStages
  BY DEF TaskTypes
<1>3. task' = [task EXCEPT ![<<"hand", x>>] = "idle", ![<<"drop", x>>] = "mark"]
  BY DEF HandDropped
<1> HIDE DEF Task, TaskStages
<1> QED BY <1>1, <1>2, <1>3

(* The claim and its history keep their types; ids do not run out. *)
LEMMA ClaimTypesStep == ASSUME IInv, [Next]_vars PROVE ClaimTypes'
<1> USE DEF ClaimTypes
<1>1. CASE Handover
  BY <1>1 DEF Handover, HandReuse, HandSpawn, HandInstall, HandSend, HandBind, HandRefused,
     HandCanceled
<1>2. CASE Retirement
  BY <1>2 DEF Retirement, StopAsked, RetireMark, RetireJoin, RetireLock, RetireClose,
     RetireCommit, RetireLate
<1>3. CASE PumpStep
  <2>1. ASSUME NEW x \in Exec, PumpCompletes(x) PROVE ClaimTypes'
    BY <2>1 DEF PumpCompletes
  <2>2. ASSUME NEW x \in Exec, PumpRetires(x) PROVE ClaimTypes'
    BY <2>2 DEF PumpRetires
  <2>3. CASE PumpCommits
    <3>1. CASE Saved(claim, pumpEnd, FALSE)
      BY <2>3, <3>1 DEF PumpTypes, ClaimTypes
    <3>2. CASE SaveFailed(claim)
      BY <2>3, <3>2 DEF ClaimTypes
    <3> QED BY <2>3, <3>1, <3>2 DEF PumpCommits
  <2>4. ASSUME NEW x \in Exec, PumpIgnores(x) \/ PumpDefers(x) PROVE ClaimTypes'
    BY <2>4 DEF PumpIgnores, PumpDefers
  <2>5. CASE PumpLocks \/ PumpCloses \/ PumpStops \/ PumpExits
    BY <2>5 DEF PumpLocks, PumpCloses, PumpStops, PumpExits
  <2> QED BY <1>3, <2>1, <2>2, <2>3, <2>4, <2>5 DEF PumpStep
<1>4. CASE Delivery
  <2>1. ASSUME NEW x \in Exec, DeliverClaim(x) PROVE ClaimTypes'
    BY <2>1 DEF DeliverClaim
  <2>2. CASE DeliverInterrupt
    BY <2>2 DEF ClaimHasPhase, DeliverInterrupt
  <2>3. CASE DeliverBegin \/ DeliverRefused \/ DeliverLook \/ DeliverSteered
    BY <2>3 DEF DeliverBegin, DeliverRefused, DeliverLook, DeliverSteered
  <2> QED BY <1>4, <2>1, <2>2, <2>3 DEF Delivery
<1>5. CASE StopEnter
  BY <1>5 DEF ClaimHasPhase, StopEnter
<1>6. CASE SwitchStep
  BY <1>6 DEF FlagTypes, SwitchStep, SwitchEnter, SwitchCheck, SwitchRefused,
     SwitchStopsPump, SwitchCloses
<1>7. CASE DownStep
  <2>1. CASE DownInsert
    <3>1. nextId \in Exec
      BY <2>1, InsertFits
    <3>2. nextId + 1 \in 1 .. LastExec + 1 /\ nextId \in 1 .. LastExec + 1
      BY <3>1
    <3> HIDE DEF Exec, LastExec
    <3> QED BY <2>1, <3>1, <3>2 DEF DownInsert
  <2>2. CASE CloseEnter \/ DownBegin \/ DownWaited \/ DownTimesOut \/ DownReap
    BY <2>2 DEF CloseEnter, DownBegin, DownWaited, DownTimesOut, DownReap
  <2> QED BY <1>7, <2>1, <2>2 DEF DownStep
<1>8. CASE Requests
  <2>1. ASSUME NEW x \in Exec, DirectSend(x) PROVE ClaimTypes'
    BY <2>1 DEF DirectSend
  <2>2. CASE AcceptInput \/ StopRequest \/ SwitchRequest \/ CloseRequest \/ DaemonExit
    BY <2>2 DEF AcceptInput, StopRequest, SwitchRequest, CloseRequest, DaemonExit
  <2> QED BY <1>8, <2>1, <2>2 DEF Requests
<1>9. CASE Failures
  <2>1. ASSUME NEW x \in Exec, HandBindUnsaved(x) PROVE ClaimTypes'
    BY <2>1 DEF HandBindUnsaved
  <2>2. ASSUME NEW t \in Task, RetireJoinAborts(t) PROVE ClaimTypes'
    BY <2>2 DEF RetireJoinAborts
  <2>3. ASSUME NEW t \in Task, RetireCloseFails(t) PROVE ClaimTypes'
    BY <2>3 DEF RetireCloseFails
  <2>4. ASSUME NEW t \in Task, RetireCommitUnsaved(t) PROVE ClaimTypes'
    BY <2>4 DEF RetireCommitUnsaved
  <2>5. CASE PumpCloseFails
    BY <2>5 DEF PumpCloseFails
  <2>6. CASE SwitchCloseFails
    BY <2>6 DEF SwitchCloseFails
  <2>7. ASSUME NEW x \in Exec, HandFails(x) \/ HandAborts(x) \/ HandDropped(x) \/
     AgentCrash(x) \/ AgentRepeats(x) PROVE ClaimTypes'
    BY <2>7 DEF HandFails, HandAborts, HandDropped, AgentCrash, AgentRepeats
  <2>8. CASE SwitchJoinAborts
    BY <2>8 DEF SwitchJoinAborts
  <2> QED BY <1>9, <2>1, <2>2, <2>3, <2>4, <2>5, <2>6, <2>7, <2>8 DEF Failures
<1>10. CASE AgentStep
  BY <1>10 DEF AgentStep, AgentEnds
<1>11. CASE Rest \/ UNCHANGED vars
  BY <1>11 DEF Rest, vars
<1> QED BY <1>1, <1>2, <1>3, <1>4, <1>5, <1>6, <1>7, <1>8, <1>9, <1>10, <1>11 DEF Next

(* The flags of executions, of the pump and of the inbox keep their types. *)
LEMMA FlagTypesStep == ASSUME IInv, [Next]_vars PROVE FlagTypes'
<1> USE DEF FlagTypes
<1>1. CASE Handover
  BY <1>1, ZenonT(60) DEF ClaimTypes, Handover, HandReuse, HandSpawn, HandInstall, HandSend,
     HandBind, HandRefused, HandCanceled
<1>2. CASE Retirement
  <2>1. ASSUME NEW t \in Task, RetireMark(t) PROVE FlagTypes'
    BY <2>1, Zenon DEF ClaimTypes, RetireMark
  <2>2. ASSUME NEW t \in Task, RetireCommit(t) PROVE FlagTypes'
    BY <2>2, Zenon DEF ClaimTypes, RetireCommit
  <2>3. ASSUME NEW t \in Task, RetireLate(t) PROVE FlagTypes'
    BY <2>3, Zenon DEF ClaimTypes, RetireLate
  <2>4. ASSUME NEW t \in Task, StopAsked(t) \/ RetireJoin(t) \/ RetireLock(t) \/
     RetireClose(t) PROVE FlagTypes'
    BY <2>4, Zenon DEF StopAsked, RetireJoin, RetireLock, RetireClose
  <2> QED BY <1>2, <2>1, <2>2, <2>3, <2>4 DEF Retirement
<1>3. CASE PumpStep
  <2>1. ASSUME NEW x \in Exec, PumpDefers(x) PROVE FlagTypes'
    BY <2>1, Zenon DEF ClaimTypes, PumpDefers
  <2>2. ASSUME NEW x \in Exec, PumpCompletes(x) PROVE FlagTypes'
    BY <2>2, Zenon DEF ClaimTypes, PumpCompletes
  <2>3. CASE PumpCommits
    BY <2>3, Zenon DEF ClaimTypes, PumpCommits
  <2>4. ASSUME NEW x \in Exec, PumpIgnores(x) \/ PumpRetires(x) PROVE FlagTypes'
    BY <2>4, Zenon DEF PumpIgnores, PumpRetires
  <2>5. CASE PumpLocks \/ PumpCloses \/ PumpStops \/ PumpExits
    BY <2>5, Zenon DEF PumpLocks, PumpCloses, PumpStops, PumpExits
  <2> QED BY <1>3, <2>1, <2>2, <2>3, <2>4, <2>5 DEF PumpStep
<1>4. CASE Delivery
  BY <1>4, Zenon DEF ClaimTypes, TaskTypes, ClaimHasPhase, Delivery, DeliverBegin,
     DeliverClaim, DeliverRefused, DeliverLook, DeliverSteered, DeliverInterrupt
<1>5. CASE StopEnter
  BY <1>5, Zenon DEF ClaimTypes, TaskTypes, ClaimHasPhase, StopEnter
<1>6. CASE SwitchStep
  BY <1>6, Zenon DEF ClaimTypes, SwitchStep, SwitchEnter, SwitchCheck, SwitchRefused,
     SwitchStopsPump, SwitchCloses
<1>7. CASE DownStep
  <2>1. CASE DownBegin
    <3>1. phase = "starting" => claim \in Exec
      BY DEF ClaimTypes, ClaimHasPhase
    <3> QED BY <2>1, <3>1, Zenon DEF DownBegin
  <2>2. CASE CloseEnter \/ DownWaited \/ DownTimesOut \/ DownReap \/ DownInsert
    BY <2>2, Zenon DEF CloseEnter, DownWaited, DownTimesOut, DownReap, DownInsert
  <2> QED BY <1>7, <2>1, <2>2 DEF DownStep
<1>8. CASE Requests
  BY <1>8, Zenon DEF ClaimTypes, Requests, DirectSend, AcceptInput, StopRequest,
     SwitchRequest, CloseRequest, DaemonExit
<1>9. CASE Failures
  <2>1. ASSUME NEW x \in Exec, HandBindUnsaved(x) PROVE FlagTypes'
    BY <2>1, Zenon DEF ClaimTypes, HandBindUnsaved
  <2>2. ASSUME NEW t \in Task, RetireJoinAborts(t) PROVE FlagTypes'
    BY <2>2, Zenon DEF ClaimTypes, RetireJoinAborts
  <2>3. ASSUME NEW t \in Task, RetireCloseFails(t) PROVE FlagTypes'
    BY <2>3, Zenon DEF ClaimTypes, RetireCloseFails
  <2>4. ASSUME NEW t \in Task, RetireCommitUnsaved(t) PROVE FlagTypes'
    BY <2>4, Zenon DEF TaskTypes, ClaimTypes, RetireCommitUnsaved
  <2>5. ASSUME NEW x \in Exec, HandFails(x) \/ HandAborts(x) \/ HandDropped(x) \/
     AgentCrash(x) \/ AgentRepeats(x) PROVE FlagTypes'
    BY <2>5, Zenon DEF HandFails, HandAborts, HandDropped, AgentCrash, AgentRepeats
  <2>6. CASE PumpCloseFails \/ SwitchJoinAborts \/ SwitchCloseFails
    BY <2>6, Zenon DEF PumpCloseFails, SwitchJoinAborts, SwitchCloseFails
  <2> QED BY <1>9, <2>1, <2>2, <2>3, <2>4, <2>5, <2>6 DEF Failures
<1>10. CASE AgentStep
  BY <1>10, Zenon DEF AgentStep, AgentEnds
<1>11. CASE Rest \/ UNCHANGED vars
  BY <1>11 DEF Rest, vars
<1> QED BY <1>1, <1>2, <1>3, <1>4, <1>5, <1>6, <1>7, <1>8, <1>9, <1>10, <1>11 DEF Next

(* What is known of the agent processes keeps its type. *)
LEMMA AgentTypesStep == ASSUME IInv, [Next]_vars PROVE AgentTypes'
<1> USE DEF AgentTypes
<1>1. CASE Handover
  <2>1. ASSUME NEW x \in Exec, HandSpawn(x) PROVE AgentTypes'
    BY <2>1 DEF HandSpawn
  <2>2. ASSUME NEW x \in Exec, HandInstall(x) PROVE AgentTypes'
    BY <2>2 DEF HandInstall
  <2>3. ASSUME NEW x \in Exec, HandSend(x) PROVE AgentTypes'
    BY <2>3 DEF HandSend
  <2>4. ASSUME NEW x \in Exec, HandRefused(x) PROVE AgentTypes'
    BY <2>4 DEF HandRefused
  <2>5. ASSUME NEW x \in Exec, HandCanceled(x) PROVE AgentTypes'
    BY <2>5 DEF HandCanceled
  <2>6. ASSUME NEW x \in Exec, HandReuse(x) \/ HandBind(x) PROVE AgentTypes'
    BY <2>6 DEF HandReuse, HandBind
  <2> QED BY <1>1, <2>1, <2>2, <2>3, <2>4, <2>5, <2>6 DEF Handover
<1>2. CASE Retirement
  <2>1. ASSUME NEW t \in Task, RetireClose(t) PROVE AgentTypes'
    BY <2>1 DEF RetireClose
  <2>2. ASSUME NEW t \in Task, StopAsked(t) \/ RetireMark(t) \/ RetireJoin(t) \/
     RetireLock(t) \/ RetireCommit(t) \/ RetireLate(t) PROVE AgentTypes'
    BY <2>2 DEF StopAsked, RetireMark, RetireJoin, RetireLock, RetireCommit, RetireLate
  <2> QED BY <1>2, <2>1, <2>2 DEF Retirement
<1>3. CASE PumpStep
  <2>1. ASSUME NEW x \in Exec, PumpIgnores(x) PROVE AgentTypes'
    BY <2>1 DEF PumpIgnores
  <2>2. ASSUME NEW x \in Exec, PumpDefers(x) PROVE AgentTypes'
    BY <2>2 DEF PumpDefers
  <2>3. ASSUME NEW x \in Exec, PumpCompletes(x) PROVE AgentTypes'
    BY <2>3 DEF PumpCompletes
  <2>4. ASSUME NEW x \in Exec, PumpRetires(x) PROVE AgentTypes'
    BY <2>4 DEF PumpRetires
  <2>5. CASE PumpCloses
    BY <2>5 DEF PumpCloses
  <2>6. CASE PumpLocks \/ PumpCommits \/ PumpStops \/ PumpExits
    BY <2>6 DEF PumpLocks, PumpCommits, PumpStops, PumpExits
  <2> QED BY <1>3, <2>1, <2>2, <2>3, <2>4, <2>5, <2>6 DEF PumpStep
<1>4. CASE Delivery
  BY <1>4 DEF Delivery, DeliverBegin, DeliverClaim, DeliverRefused, DeliverLook,
     DeliverSteered, DeliverInterrupt
<1>5. CASE StopEnter
  BY <1>5 DEF StopEnter
<1>6. CASE SwitchStep
  <2>1. CASE SwitchCloses
    BY <2>1 DEF SwitchCloses
  <2>2. CASE SwitchEnter \/ SwitchCheck \/ SwitchRefused \/ SwitchStopsPump
    BY <2>2 DEF SwitchEnter, SwitchCheck, SwitchRefused, SwitchStopsPump
  <2> QED BY <1>6, <2>1, <2>2 DEF SwitchStep
<1>7. CASE DownStep
  <2>1. CASE DownReap
    <3> DEFINE gone == {x \in Exec : <<"hand", x>> \in Spawned /\ task[<<"hand", x>>] = "joinOld"}
    <3>1. Killed(gone)
      BY <2>1 DEF DownReap
    <3> HIDE DEF gone
    <3> QED BY <2>1, <3>1 DEF DownReap
  <2>2. CASE CloseEnter \/ DownBegin \/ DownWaited \/ DownTimesOut \/ DownInsert
    BY <2>2 DEF CloseEnter, DownBegin, DownWaited, DownTimesOut, DownInsert
  <2> QED BY <1>7, <2>1, <2>2 DEF DownStep
<1>8. CASE Requests
  BY <1>8 DEF Requests, DirectSend, AcceptInput, StopRequest, SwitchRequest, CloseRequest,
     DaemonExit
<1>9. CASE Failures
  <2>1. ASSUME NEW x \in Exec, HandFails(x) PROVE AgentTypes'
    BY <2>1 DEF HandFails
  <2>2. ASSUME NEW x \in Exec, HandAborts(x) PROVE AgentTypes'
    BY <2>2 DEF HandAborts
  <2>3. ASSUME NEW x \in Exec, HandBindUnsaved(x) PROVE AgentTypes'
    BY <2>3 DEF HandBindUnsaved
  <2>4. ASSUME NEW x \in Exec, HandDropped(x) PROVE AgentTypes'
    BY <2>4 DEF HandDropped
  <2>5. ASSUME NEW x \in Exec, AgentCrash(x) \/ AgentRepeats(x) PROVE AgentTypes'
    <3>1. CASE AgentCrash(x)
      BY <3>1 DEF AgentCrash
    <3>2. CASE AgentRepeats(x)
      BY <3>2 DEF AgentRepeats
    <3> QED BY <2>5, <3>1, <3>2
  <2>6. ASSUME NEW t \in Task, RetireCloseFails(t) PROVE AgentTypes'
    BY <2>6 DEF RetireOwns, RetireCloseFails
  <2>7. CASE PumpCloseFails
    BY <2>7 DEF PumpOwns, PumpCloseFails
  <2>8. CASE SwitchCloseFails
    BY <2>8 DEF SwitchCloseFails
  <2>9. ASSUME NEW t \in Task, RetireJoinAborts(t) \/ RetireCommitUnsaved(t) PROVE
     AgentTypes'
    BY <2>9 DEF RetireJoinAborts, RetireCommitUnsaved
  <2>10. CASE SwitchJoinAborts
    BY <2>10 DEF SwitchJoinAborts
  <2> QED BY <1>9, <2>1, <2>2, <2>3, <2>4, <2>5, <2>6, <2>7, <2>8, <2>9, <2>10 DEF Failures
<1>10. CASE AgentStep
  BY <1>10 DEF AgentStep, AgentEnds
<1>11. CASE Rest \/ UNCHANGED vars
  BY <1>11 DEF Rest, vars
<1> QED BY <1>1, <1>2, <1>3, <1>4, <1>5, <1>6, <1>7, <1>8, <1>9, <1>10, <1>11 DEF Next

(* The pump keeps its type: its wires are set together and cleared together. *)
LEMMA PumpTypesStep == ASSUME IInv, [Next]_vars PROVE PumpTypes'
<1> USE DEF PumpTypes
<1>1. CASE Handover
  BY <1>1 DEF Handover, HandReuse, HandSpawn, HandInstall, HandSend, HandBind, HandRefused,
     HandCanceled
<1>2. CASE Retirement
  BY <1>2 DEF Retirement, StopAsked, RetireMark, RetireJoin, RetireLock, RetireClose,
     RetireCommit, RetireLate
<1>3. CASE PumpStep
  BY <1>3 DEF PumpStep, PumpIgnores, PumpDefers, PumpCompletes, PumpRetires, PumpLocks,
     PumpCloses, PumpCommits, PumpStops, PumpExits
<1>4. CASE Delivery
  BY <1>4, ZenonT(60) DEF Delivery, DeliverBegin, DeliverClaim, DeliverRefused, DeliverLook,
     DeliverSteered, DeliverInterrupt
<1>5. CASE StopEnter
  BY <1>5 DEF StopEnter
<1>6. CASE SwitchStep
  BY <1>6 DEF SwitchStep, SwitchEnter, SwitchCheck, SwitchRefused, SwitchStopsPump,
     SwitchCloses
<1>7. CASE DownStep
  BY <1>7 DEF DownStep, CloseEnter, DownBegin, DownWaited, DownTimesOut, DownReap,
     DownInsert, Spawned
<1>8. CASE Requests
  BY <1>8, ZenonT(60) DEF Requests, DirectSend, AcceptInput, StopRequest, SwitchRequest, CloseRequest,
     DaemonExit
<1>9. CASE Failures
  <2>1. ASSUME NEW x \in Exec, HandAborts(x) PROVE PumpTypes'
    BY <2>1 DEF HandAborts
  <2>2. ASSUME NEW x \in Exec, HandDropped(x) PROVE PumpTypes'
    BY <2>2 DEF HandDropped
  <2>3. ASSUME NEW t \in Task, RetireJoinAborts(t) PROVE PumpTypes'
    BY <2>3 DEF RetireJoinAborts
  <2>4. ASSUME NEW t \in Task, RetireCloseFails(t) PROVE PumpTypes'
    BY <2>4 DEF RetireCloseFails
  <2>5. ASSUME NEW t \in Task, RetireCommitUnsaved(t) PROVE PumpTypes'
    BY <2>5 DEF RetireCommitUnsaved
  <2>6. CASE PumpCloseFails
    BY <2>6 DEF PumpCloseFails
  <2>7. CASE SwitchJoinAborts
    BY <2>7 DEF SwitchJoinAborts
  <2>8. CASE SwitchCloseFails
    BY <2>8 DEF SwitchCloseFails
  <2>9. ASSUME NEW x \in Exec, HandFails(x) \/ HandBindUnsaved(x) \/ AgentCrash(x) \/
     AgentRepeats(x) PROVE PumpTypes'
    BY <2>9 DEF HandFails, HandBindUnsaved, AgentCrash, AgentRepeats
  <2> QED BY <1>9, <2>1, <2>2, <2>3, <2>4, <2>5, <2>6, <2>7, <2>8, <2>9 DEF Failures
<1>10. CASE AgentStep
  BY <1>10 DEF AgentStep, AgentEnds
<1>11. CASE Rest \/ UNCHANGED vars
  BY <1>11 DEF Rest, vars
<1> QED BY <1>1, <1>2, <1>3, <1>4, <1>5, <1>6, <1>7, <1>8, <1>9, <1>10, <1>11 DEF Next

(* The tasks and the two locks keep their types. *)
LEMMA TaskTypesStep == ASSUME IInv, [Next]_vars PROVE TaskTypes'
<1> USE DEF TaskTypes
<1>1. CASE Handover
  <2>1. ASSUME NEW x \in Exec, HandReuse(x) PROVE TaskTypes'
    BY <2>1 DEF HandReuse
  <2>2. ASSUME NEW x \in Exec, HandSpawn(x) PROVE TaskTypes'
    BY <2>2 DEF HandSpawn
  <2>3. ASSUME NEW x \in Exec, HandInstall(x) PROVE TaskTypes'
    BY <2>3 DEF HandInstall
  <2>4. ASSUME NEW x \in Exec, HandSend(x) PROVE TaskTypes'
    BY <2>4 DEF HandSend
  <2>5. ASSUME NEW x \in Exec, HandBind(x) PROVE TaskTypes'
    BY <2>5 DEF HandBind
  <2>6. ASSUME NEW x \in Exec, HandRefused(x) PROVE TaskTypes'
    BY <2>6 DEF HandRefused
  <2>7. ASSUME NEW x \in Exec, HandCanceled(x) PROVE TaskTypes'
    BY <2>7 DEF HandCanceled
  <2> QED BY <1>1, <2>1, <2>2, <2>3, <2>4, <2>5, <2>6, <2>7 DEF Handover
<1>2. CASE Retirement
  <2>1. ASSUME NEW t \in Task, StopAsked(t) PROVE TaskTypes'
    BY <2>1 DEF StopAsked
  <2>2. ASSUME NEW t \in Task, RetireMark(t) PROVE TaskTypes'
    BY <2>2 DEF RetireMark
  <2>3. ASSUME NEW t \in Task, RetireJoin(t) PROVE TaskTypes'
    BY <2>3 DEF RetireJoin
  <2>4. ASSUME NEW t \in Task, RetireLock(t) PROVE TaskTypes'
    BY <2>4 DEF RetireLock
  <2>5. ASSUME NEW t \in Task, RetireClose(t) PROVE TaskTypes'
    BY <2>5 DEF RetireClose
  <2>6. ASSUME NEW t \in Task, RetireCommit(t) PROVE TaskTypes'
    BY <2>6 DEF RetireCommit
  <2>7. ASSUME NEW t \in Task, RetireLate(t) PROVE TaskTypes'
    BY <2>7 DEF RetireLate
  <2> QED BY <1>2, <2>1, <2>2, <2>3, <2>4, <2>5, <2>6, <2>7 DEF Retirement
<1>3. CASE PumpStep
  BY <1>3, ZenonT(60) DEF PumpStep, PumpIgnores, PumpDefers, PumpCompletes, PumpRetires, PumpLocks,
     PumpCloses, PumpCommits, PumpStops, PumpExits
<1>4. CASE Delivery
  <2>1. CASE DeliverBegin
    BY <2>1 DEF DeliverBegin
  <2>2. ASSUME NEW x \in Exec, DeliverClaim(x) PROVE TaskTypes'
    BY <2>2 DEF DeliverClaim
  <2>3. CASE DeliverRefused
    BY <2>3 DEF DeliverRefused
  <2>4. CASE DeliverLook
    BY <2>4 DEF DeliverLook
  <2>5. CASE DeliverSteered
    BY <2>5 DEF DeliverSteered
  <2>6. CASE DeliverInterrupt
    BY <2>6 DEF ClaimTypes, ClaimHasPhase, DeliverInterrupt
  <2> QED BY <1>4, <2>1, <2>2, <2>3, <2>4, <2>5, <2>6 DEF Delivery
<1>5. CASE StopEnter
  BY <1>5 DEF ClaimTypes, ClaimHasPhase, StopEnter
<1>6. CASE SwitchStep
  <2>1. CASE SwitchEnter
    BY <2>1 DEF SwitchEnter
  <2>2. CASE SwitchCheck
    BY <2>2 DEF SwitchCheck
  <2>3. CASE SwitchRefused
    BY <2>3 DEF SwitchRefused
  <2>4. CASE SwitchStopsPump
    BY <2>4 DEF SwitchStopsPump
  <2>5. CASE SwitchCloses
    BY <2>5 DEF SwitchCloses
  <2> QED BY <1>6, <2>1, <2>2, <2>3, <2>4, <2>5 DEF SwitchStep
<1>7. CASE DownStep
  <2>1. CASE CloseEnter
    BY <2>1 DEF CloseEnter
  <2>2. CASE DownBegin
    BY <2>2 DEF DownBegin
  <2>3. CASE DownWaited
    BY <2>3 DEF DownWaited
  <2>4. CASE DownTimesOut
    BY <2>4 DEF DownTimesOut
  <2>5. CASE DownReap
    BY <2>5 DEF DownReap, Spawned
  <2>6. CASE DownInsert
    <3>1. claim' \in Exec
      BY <2>6, InsertFits DEF ClaimTypes, DownInsert
    <3>2. <<"down", claim'>> \in Task
      BY <3>1
    <3>3. task' = [task EXCEPT ![<<"down", claim'>>] = "mark"] /\ "mark" \in TaskStages
      BY <2>6 DEF DownInsert
    <3>4. UNCHANGED <<prepared, interaction, retirement>>
      BY <2>6 DEF DownInsert
    <3> HIDE DEF Task, TaskStages
    <3> QED BY <3>2, <3>3, <3>4
  <2> QED BY <1>7, <2>1, <2>2, <2>3, <2>4, <2>5, <2>6 DEF DownStep
<1>8. CASE Requests
  <2>1. ASSUME NEW x \in Exec, DirectSend(x) PROVE TaskTypes'
    BY <2>1 DEF DirectSend
  <2>2. CASE AcceptInput
    BY <2>2 DEF AcceptInput
  <2>3. CASE StopRequest
    BY <2>3 DEF StopRequest
  <2>4. CASE SwitchRequest
    BY <2>4 DEF SwitchRequest
  <2>5. CASE CloseRequest
    BY <2>5 DEF FlagTypes, CloseRequest
  <2>6. CASE DaemonExit
    BY <2>6 DEF DaemonExit
  <2> QED BY <1>8, <2>1, <2>2, <2>3, <2>4, <2>5, <2>6 DEF Requests
<1>9. CASE Failures
  <2>1. ASSUME NEW x \in Exec, HandFails(x) PROVE TaskTypes'
    BY <2>1 DEF HandFails
  <2>2. ASSUME NEW x \in Exec, HandAborts(x) PROVE TaskTypes'
    BY <2>2 DEF HandAborts
  <2>3. ASSUME NEW x \in Exec, HandBindUnsaved(x) PROVE TaskTypes'
    BY <2>3 DEF HandBindUnsaved
  <2>4. ASSUME NEW x \in Exec, HandDropped(x) PROVE TaskTypes'
    <3>1. task' \in [Task -> TaskStages]
      BY <2>4, DroppedTasks
    <3>2. prepared' \subseteq Exec /\ interaction' \in {"none", "deliver", "switch", "close"}
      BY <2>4 DEF HandDropped
    <3>3. retirement' \in Task \cup {Pump, Switcher, NoOne}
      BY <2>4 DEF HandDropped
    <3> QED BY <3>1, <3>2, <3>3
  <2>5. ASSUME NEW x \in Exec, AgentCrash(x) \/ AgentRepeats(x) PROVE TaskTypes'
    BY <2>5 DEF AgentCrash, AgentRepeats
  <2>6. ASSUME NEW t \in Task, RetireJoinAborts(t) PROVE TaskTypes'
    BY <2>6 DEF RetireJoinAborts
  <2>7. ASSUME NEW t \in Task, RetireCloseFails(t) PROVE TaskTypes'
    BY <2>7 DEF RetireCloseFails
  <2>8. ASSUME NEW t \in Task, RetireCommitUnsaved(t) PROVE TaskTypes'
    BY <2>8 DEF RetireCommitUnsaved
  <2>9. CASE PumpCloseFails
    BY <2>9 DEF PumpCloseFails
  <2>10. CASE SwitchJoinAborts
    BY <2>10 DEF SwitchJoinAborts
  <2>11. CASE SwitchCloseFails
    BY <2>11 DEF SwitchCloseFails
  <2> QED BY <1>9, <2>1, <2>2, <2>3, <2>4, <2>5, <2>6, <2>7, <2>8, <2>9, <2>10, <2>11 DEF
     Failures
<1>10. CASE AgentStep
  BY <1>10 DEF AgentStep, AgentEnds
<1>11. CASE Rest \/ UNCHANGED vars
  BY <1>11 DEF Rest, vars
<1> QED BY <1>1, <1>2, <1>3, <1>4, <1>5, <1>6, <1>7, <1>8, <1>9, <1>10, <1>11 DEF Next

(* The requests under way and the budgets keep their types. *)
LEMMA UserTypesStep == ASSUME IInv, [Next]_vars PROVE UserTypes'
<1> USE DEF UserTypes
<1>1. CASE Handover
  <2>1. ASSUME NEW x \in Exec, HandBind(x) PROVE UserTypes'
    BY <2>1 DEF HandBind
  <2>2. ASSUME NEW x \in Exec, HandReuse(x) PROVE UserTypes'
    BY <2>2 DEF HandReuse
  <2>3. ASSUME NEW x \in Exec, HandSpawn(x) PROVE UserTypes'
    BY <2>3 DEF HandSpawn
  <2>4. ASSUME NEW x \in Exec, HandInstall(x) PROVE UserTypes'
    BY <2>4 DEF HandInstall
  <2>5. ASSUME NEW x \in Exec, HandSend(x) PROVE UserTypes'
    BY <2>5 DEF HandSend
  <2>6. ASSUME NEW x \in Exec, HandRefused(x) PROVE UserTypes'
    BY <2>6 DEF HandRefused
  <2>7. ASSUME NEW x \in Exec, HandCanceled(x) PROVE UserTypes'
    BY <2>7 DEF HandCanceled
  <2> QED BY <1>1, <2>1, <2>2, <2>3, <2>4, <2>5, <2>6, <2>7 DEF Handover
<1>2. CASE Retirement
  <2>1. ASSUME NEW t \in Task, RetireCommit(t) PROVE UserTypes'
    BY <2>1 DEF RetireCommit
  <2>2. ASSUME NEW t \in Task, RetireLate(t) PROVE UserTypes'
    BY <2>2 DEF RetireLate
  <2>3. ASSUME NEW t \in Task, StopAsked(t) \/ RetireMark(t) \/ RetireJoin(t) PROVE
     UserTypes'
    BY <2>3 DEF StopAsked, RetireMark, RetireJoin
  <2>4. ASSUME NEW t \in Task, RetireLock(t) \/ RetireClose(t) PROVE UserTypes'
    BY <2>4, SMTT(60) DEF RetireLock, RetireClose
  <2> QED BY <1>2, <2>1, <2>2, <2>3, <2>4 DEF Retirement
<1>3. CASE PumpStep
  <2>1. ASSUME NEW x \in Exec, PumpCompletes(x) PROVE UserTypes'
    BY <2>1 DEF PumpCompletes
  <2>2. CASE PumpCommits
    BY <2>2 DEF PumpCommits
  <2>3. ASSUME NEW x \in Exec, PumpIgnores(x) \/ PumpDefers(x) \/ PumpRetires(x) PROVE
     UserTypes'
    BY <2>3 DEF PumpIgnores, PumpDefers, PumpRetires
  <2>4. CASE PumpLocks \/ PumpCloses \/ PumpStops
    BY <2>4, SMTT(60) DEF PumpLocks, PumpCloses, PumpStops
  <2>5. CASE PumpExits
    BY <2>5 DEF PumpExits
  <2> QED BY <1>3, <2>1, <2>2, <2>3, <2>4, <2>5 DEF PumpStep
<1>4. CASE Delivery
  <2>1. CASE DeliverBegin
    BY <2>1 DEF DeliverBegin
  <2>2. ASSUME NEW x \in Exec, DeliverClaim(x) PROVE UserTypes'
    BY <2>2 DEF DeliverClaim
  <2>3. CASE DeliverRefused
    BY <2>3 DEF DeliverRefused
  <2>4. CASE DeliverLook
    BY <2>4 DEF ClaimTypes, DeliverLook
  <2>5. CASE DeliverSteered
    BY <2>5 DEF DeliverSteered
  <2>6. CASE DeliverInterrupt
    BY <2>6 DEF DeliverInterrupt
  <2> QED BY <1>4, <2>1, <2>2, <2>3, <2>4, <2>5, <2>6 DEF Delivery
<1>5. CASE StopEnter
  BY <1>5 DEF StopEnter
<1>6. CASE SwitchStep
  <2>1. CASE SwitchEnter
    BY <2>1 DEF SwitchEnter
  <2>2. CASE SwitchCheck
    BY <2>2 DEF SwitchCheck
  <2>3. CASE SwitchRefused
    BY <2>3 DEF SwitchRefused
  <2>4. CASE SwitchStopsPump
    BY <2>4 DEF SwitchStopsPump
  <2>5. CASE SwitchCloses
    BY <2>5 DEF SwitchCloses
  <2> QED BY <1>6, <2>1, <2>2, <2>3, <2>4, <2>5 DEF SwitchStep
<1>7. CASE DownStep
  <2>1. CASE CloseEnter
    BY <2>1 DEF CloseEnter
  <2>2. CASE DownBegin
    BY <2>2 DEF ClaimTypes, DownBegin
  <2>3. CASE DownWaited
    BY <2>3 DEF DownWaited
  <2>4. CASE DownTimesOut
    BY <2>4 DEF DownTimesOut
  <2>5. CASE DownReap
    BY <2>5 DEF DownReap, Spawned
  <2>6. CASE DownInsert
    BY <2>6 DEF DownInsert
  <2> QED BY <1>7, <2>1, <2>2, <2>3, <2>4, <2>5, <2>6 DEF DownStep
<1>8. CASE Requests
  <2>1. ASSUME NEW x \in Exec, DirectSend(x) PROVE UserTypes'
    BY <2>1 DEF DirectSend
  <2>2. CASE StopRequest
    BY <2>2 DEF StopRequest
  <2>3. CASE SwitchRequest
    BY <2>3 DEF SwitchRequest
  <2>4. CASE CloseRequest
    BY <2>4 DEF CloseRequest
  <2>5. CASE DaemonExit
    BY <2>5 DEF DaemonExit
  <2>6. CASE AcceptInput
    BY <2>6 DEF AcceptInput
  <2> QED BY <1>8, <2>1, <2>2, <2>3, <2>4, <2>5, <2>6 DEF Requests
<1>9. CASE Failures
  <2>1. ASSUME NEW x \in Exec, HandFails(x) PROVE UserTypes'
    BY <2>1, SMTT(60) DEF HandFails
  <2>2. ASSUME NEW x \in Exec, HandAborts(x) PROVE UserTypes'
    BY <2>2, SMTT(60) DEF HandAborts
  <2>3. ASSUME NEW x \in Exec, HandBindUnsaved(x) PROVE UserTypes'
    BY <2>3, SMTT(60) DEF HandBindUnsaved
  <2>4. ASSUME NEW x \in Exec, HandDropped(x) PROVE UserTypes'
    BY <2>4, SMTT(60) DEF HandDropped
  <2>5. ASSUME NEW x \in Exec, AgentCrash(x) \/ AgentRepeats(x) PROVE UserTypes'
    <3>1. CASE AgentCrash(x)
      BY <3>1, SMTT(60) DEF AgentCrash
    <3>2. CASE AgentRepeats(x)
      BY <3>2 DEF AgentRepeats
    <3> QED BY <2>5, <3>1, <3>2
  <2>6. ASSUME NEW t \in Task, RetireJoinAborts(t) PROVE UserTypes'
    BY <2>6 DEF RetireJoinAborts
  <2>7. ASSUME NEW t \in Task, RetireCloseFails(t) PROVE UserTypes'
    BY <2>7 DEF RetireCloseFails
  <2>8. ASSUME NEW t \in Task, RetireCommitUnsaved(t) PROVE UserTypes'
    BY <2>8 DEF RetireCommitUnsaved
  <2>9. CASE PumpCloseFails
    BY <2>9 DEF PumpCloseFails
  <2>10. CASE SwitchJoinAborts
    BY <2>10 DEF SwitchJoinAborts
  <2>11. CASE SwitchCloseFails
    BY <2>11 DEF SwitchCloseFails
  <2> QED BY <1>9, <2>1, <2>2, <2>3, <2>4, <2>5, <2>6, <2>7, <2>8, <2>9, <2>10, <2>11 DEF
     Failures
<1>10. CASE AgentStep
  BY <1>10 DEF AgentStep, AgentEnds
<1>11. CASE Rest \/ UNCHANGED vars
  BY <1>11 DEF Rest, vars
<1> QED BY <1>1, <1>2, <1>3, <1>4, <1>5, <1>6, <1>7, <1>8, <1>9, <1>10, <1>11 DEF Next

(* Every shutdown under way or still allowed finds an id left: a claim by a sender
   takes one of the first MaxExec, a shutdown takes at most one of the rest. *)
LEMMA IdsSufficeStep == ASSUME IInv, [Next]_vars PROVE IdsSuffice'
<1> USE DEF IdsSuffice, Unclaimed
<1>1. CASE Handover
  <2>1. ASSUME NEW x \in Exec, HandReuse(x) \/ HandSpawn(x) \/ HandInstall(x) \/ HandSend(x)
     \/ HandBind(x) \/ HandRefused(x) \/ HandCanceled(x) PROVE IdsSuffice'
    BY <2>1 DEF HandReuse, HandSpawn, HandInstall, HandSend, HandBind, HandRefused,
       HandCanceled
  <2> QED BY <1>1, <2>1 DEF Handover
<1>2. CASE Retirement
  <2>1. ASSUME NEW t \in Task, RetireCommit(t) PROVE IdsSuffice'
    <3>1. budget'["close"] = budget["close"] /\ budget'["exit"] = budget["exit"]
      BY <2>1 DEF UserTypes, RetireCommit
    <3>2. nextId' = nextId /\ (down' = down \/ down' \in {"failed", "done"})
      BY <2>1 DEF RetireCommit
    <3>3. budget["close"] \in Nat /\ budget["exit"] \in Nat /\ nextId \in Nat
      BY DEF ClaimTypes, UserTypes
    <3>4. Unclaimed' <= Unclaimed /\ Unclaimed \in Nat /\ Unclaimed' \in Nat
      BY <3>1, <3>2, <3>3
    <3> QED BY <3>2, <3>3, <3>4
  <2>2. ASSUME NEW t \in Task, RetireLate(t) PROVE IdsSuffice'
    <3>1. budget'["close"] = budget["close"] /\ budget'["exit"] = budget["exit"]
      BY <2>2 DEF UserTypes, RetireLate
    <3>2. nextId' = nextId /\ (down' = down \/ down' \in {"failed", "done"})
      BY <2>2 DEF RetireLate
    <3>3. budget["close"] \in Nat /\ budget["exit"] \in Nat /\ nextId \in Nat
      BY DEF ClaimTypes, UserTypes
    <3>4. Unclaimed' <= Unclaimed /\ Unclaimed \in Nat /\ Unclaimed' \in Nat
      BY <3>1, <3>2, <3>3
    <3> QED BY <3>2, <3>3, <3>4
  <2>3. ASSUME NEW t \in Task, StopAsked(t) \/ RetireMark(t) \/ RetireJoin(t) \/
     RetireLock(t) \/ RetireClose(t) PROVE IdsSuffice'
    BY <2>3 DEF StopAsked, RetireMark, RetireJoin, RetireLock, RetireClose
  <2> QED BY <1>2, <2>1, <2>2, <2>3 DEF Retirement
<1>3. CASE PumpStep
  <2>1. ASSUME NEW x \in Exec, PumpCompletes(x) PROVE IdsSuffice'
    BY <2>1 DEF UserTypes, PumpCompletes
  <2>2. CASE PumpCommits
    BY <2>2 DEF UserTypes, PumpCommits
  <2>3. ASSUME NEW x \in Exec, PumpIgnores(x) \/ PumpDefers(x) \/ PumpRetires(x) PROVE
     IdsSuffice'
    BY <2>3 DEF PumpIgnores, PumpDefers, PumpRetires
  <2>4. CASE PumpLocks \/ PumpCloses \/ PumpStops \/ PumpExits
    BY <2>4 DEF PumpLocks, PumpCloses, PumpStops, PumpExits
  <2> QED BY <1>3, <2>1, <2>2, <2>3, <2>4 DEF PumpStep
<1>4. CASE Delivery
  <2>1. ASSUME NEW x \in Exec, DeliverClaim(x) PROVE IdsSuffice'
    BY <2>1 DEF UserTypes, DeliverClaim
  <2>2. CASE DeliverBegin \/ DeliverLook \/ DeliverSteered \/ DeliverInterrupt
    BY <2>2 DEF DeliverBegin, DeliverLook, DeliverSteered, DeliverInterrupt
  <2>3. CASE DeliverRefused
    BY <2>3 DEF UserTypes, DeliverRefused
  <2> QED BY <1>4, <2>1, <2>2, <2>3 DEF Delivery
<1>5. CASE StopEnter
  BY <1>5 DEF StopEnter
<1>6. CASE SwitchStep
  BY <1>6 DEF SwitchStep, SwitchEnter, SwitchCheck, SwitchRefused, SwitchStopsPump,
     SwitchCloses
<1>7. CASE DownStep
  <2>1. CASE CloseEnter
    BY <2>1 DEF UserTypes, CloseEnter
  <2>2. CASE DownBegin
    BY <2>2 DEF UserTypes, DownBegin
  <2>3. CASE DownWaited
    BY <2>3 DEF UserTypes, DownWaited
  <2>4. CASE DownTimesOut
    BY <2>4, SMTT(60) DEF UserTypes, ClaimTypes, DownTimesOut
  <2>5. CASE DownReap
    BY <2>5 DEF UserTypes, DownReap, Spawned
  <2>6. CASE DownInsert
    <3>1. Unclaimed' = Unclaimed - 1 /\ Unclaimed \in Int
      BY <2>6 DEF UserTypes, DownInsert
    <3>2. nextId' \in {nextId, nextId + 1} /\ nextId \in Int
      BY <2>6 DEF ClaimTypes, DownInsert
    <3> QED BY <3>1, <3>2 DEF ClaimTypes
  <2> QED BY <1>7, <2>1, <2>2, <2>3, <2>4, <2>5, <2>6 DEF DownStep
<1>8. CASE Requests
  <2>1. ASSUME NEW x \in Exec, DirectSend(x) PROVE IdsSuffice'
    BY <2>1 DEF UserTypes, DirectSend
  <2>2. CASE StopRequest
    BY <2>2 DEF UserTypes, StopRequest
  <2>3. CASE SwitchRequest
    BY <2>3 DEF UserTypes, SwitchRequest
  <2>4. CASE CloseRequest
    BY <2>4 DEF UserTypes, CloseRequest
  <2>5. CASE DaemonExit
    BY <2>5 DEF UserTypes, DaemonExit
  <2>6. CASE AcceptInput
    BY <2>6 DEF AcceptInput
  <2> QED BY <1>8, <2>1, <2>2, <2>3, <2>4, <2>5, <2>6 DEF Requests
<1>9. CASE Failures
  <2>1. ASSUME NEW x \in Exec, HandFails(x) PROVE IdsSuffice'
    BY <2>1 DEF UserTypes, HandFails
  <2>2. ASSUME NEW x \in Exec, HandAborts(x) PROVE IdsSuffice'
    BY <2>2 DEF UserTypes, HandAborts
  <2>3. ASSUME NEW x \in Exec, HandBindUnsaved(x) PROVE IdsSuffice'
    BY <2>3 DEF UserTypes, HandBindUnsaved
  <2>4. ASSUME NEW x \in Exec, HandDropped(x) PROVE IdsSuffice'
    BY <2>4 DEF UserTypes, HandDropped
  <2>5. ASSUME NEW x \in Exec, AgentCrash(x) \/ AgentRepeats(x) PROVE IdsSuffice'
    BY <2>5 DEF UserTypes, AgentCrash, AgentRepeats
  <2>6. ASSUME NEW t \in Task, RetireJoinAborts(t) PROVE IdsSuffice'
    <3>1. budget'["close"] = budget["close"] /\ budget'["exit"] = budget["exit"]
      BY <2>6 DEF UserTypes, RetireJoinAborts
    <3>2. nextId' = nextId /\ (down' = down \/ down' \in {"failed", "done"})
      BY <2>6 DEF RetireJoinAborts
    <3>3. budget["close"] \in Nat /\ budget["exit"] \in Nat /\ nextId \in Nat
      BY DEF ClaimTypes, UserTypes
    <3>4. Unclaimed' <= Unclaimed /\ Unclaimed \in Nat /\ Unclaimed' \in Nat
      BY <3>1, <3>2, <3>3
    <3> QED BY <3>2, <3>3, <3>4
  <2>7. ASSUME NEW t \in Task, RetireCloseFails(t) PROVE IdsSuffice'
    <3>1. budget'["close"] = budget["close"] /\ budget'["exit"] = budget["exit"]
      BY <2>7 DEF UserTypes, RetireCloseFails
    <3>2. nextId' = nextId /\ (down' = down \/ down' \in {"failed", "done"})
      BY <2>7 DEF RetireCloseFails
    <3>3. budget["close"] \in Nat /\ budget["exit"] \in Nat /\ nextId \in Nat
      BY DEF ClaimTypes, UserTypes
    <3>4. Unclaimed' <= Unclaimed /\ Unclaimed \in Nat /\ Unclaimed' \in Nat
      BY <3>1, <3>2, <3>3
    <3> QED BY <3>2, <3>3, <3>4
  <2>8. ASSUME NEW t \in Task, RetireCommitUnsaved(t) PROVE IdsSuffice'
    <3>1. budget'["close"] = budget["close"] /\ budget'["exit"] = budget["exit"]
      BY <2>8 DEF UserTypes, RetireCommitUnsaved
    <3>2. nextId' = nextId /\ (down' = down \/ down' \in {"failed", "done"})
      BY <2>8 DEF RetireCommitUnsaved
    <3>3. budget["close"] \in Nat /\ budget["exit"] \in Nat /\ nextId \in Nat
      BY DEF ClaimTypes, UserTypes
    <3>4. Unclaimed' <= Unclaimed /\ Unclaimed \in Nat /\ Unclaimed' \in Nat
      BY <3>1, <3>2, <3>3
    <3> QED BY <3>2, <3>3, <3>4
  <2>9. CASE PumpCloseFails
    BY <2>9 DEF UserTypes, PumpCloseFails
  <2>10. CASE SwitchJoinAborts
    BY <2>10 DEF UserTypes, SwitchJoinAborts
  <2>11. CASE SwitchCloseFails
    BY <2>11 DEF UserTypes, SwitchCloseFails
  <2> QED BY <1>9, <2>1, <2>2, <2>3, <2>4, <2>5, <2>6, <2>7, <2>8, <2>9, <2>10, <2>11 DEF
     Failures
<1>10. CASE AgentStep
  BY <1>10 DEF AgentStep, AgentEnds
<1>11. CASE Rest \/ UNCHANGED vars
  BY <1>11 DEF Rest, vars
<1> QED BY <1>1, <1>2, <1>3, <1>4, <1>5, <1>6, <1>7, <1>8, <1>9, <1>10, <1>11 DEF Next

(* Nothing is known of an execution before next_execution has numbered it. *)
LEMMA FreshStep == ASSUME IInv, [Next]_vars PROVE Fresh'
<1> USE DEF Fresh
<1>1. CASE Handover
  <2>1. ASSUME NEW x \in Exec, HandReuse(x) PROVE Fresh'
    BY <2>1 DEF HandReuse
  <2>2. ASSUME NEW x \in Exec, HandSpawn(x) PROVE Fresh'
    BY <2>2 DEF HandSpawn
  <2>3. ASSUME NEW x \in Exec, HandInstall(x) PROVE Fresh'
    BY <2>3 DEF HandInstall
  <2>4. ASSUME NEW x \in Exec, HandSend(x) PROVE Fresh'
    BY <2>4 DEF HandSend
  <2>5. ASSUME NEW x \in Exec, HandBind(x) PROVE Fresh'
    BY <2>5 DEF HandBind
  <2>6. ASSUME NEW x \in Exec, HandRefused(x) PROVE Fresh'
    BY <2>6 DEF HandRefused
  <2>7. ASSUME NEW x \in Exec, HandCanceled(x) PROVE Fresh'
    BY <2>7 DEF HandCanceled
  <2> QED BY <1>1, <2>1, <2>2, <2>3, <2>4, <2>5, <2>6, <2>7 DEF Handover
<1>2. CASE Retirement
  BY <1>2 DEF ClaimTypes, TaskTypes, Retirement, StopAsked, RetireMark, RetireJoin,
     RetireLock, RetireClose, RetireCommit, RetireLate
<1>3. CASE PumpStep
  <2>1. ASSUME NEW y \in Exec, PumpCompletes(y) PROVE Fresh'
    <3>1. (\A x \in canceled \cup bound : x < nextId)'
      BY <2>1, Zenon DEF PumpCompletes
    <3>2. (/\ claim < nextId
           /\ \A x \in Exec : by[x] # NoExec \/ outcome[x] # "none" => x < nextId
           /\ \A t \in Task : Active(t) => t[2] < nextId)'
      BY <2>1 DEF ClaimTypes, AgentTypes, TaskTypes, ClaimHasPhase, PumpCompletes
    <3> QED BY <3>1, <3>2
  <2>2. CASE PumpCommits
    <3>1. (\A x \in canceled \cup bound : x < nextId)'
      BY <2>2, Zenon DEF PumpCommits
    <3>2. (/\ claim < nextId
           /\ \A x \in Exec : by[x] # NoExec \/ outcome[x] # "none" => x < nextId
           /\ \A t \in Task : Active(t) => t[2] < nextId)'
      BY <2>2 DEF ClaimTypes, AgentTypes, TaskTypes, ClaimHasPhase, PumpCommits
    <3> QED BY <3>1, <3>2
  <2>3. ASSUME NEW x \in Exec, PumpIgnores(x) \/ PumpDefers(x) \/ PumpRetires(x) PROVE
     Fresh'
    BY <2>3 DEF PumpIgnores, PumpDefers, PumpRetires
  <2>4. CASE PumpLocks \/ PumpCloses \/ PumpStops \/ PumpExits
    BY <2>4 DEF PumpLocks, PumpCloses, PumpStops, PumpExits
  <2> QED BY <1>3, <2>1, <2>2, <2>3, <2>4 DEF PumpStep
<1>4. CASE Delivery
  <2>1. ASSUME NEW x \in Exec, DeliverClaim(x) PROVE Fresh'
    BY <2>1 DEF ClaimTypes, TaskTypes, FlagTypes, DeliverClaim
  <2>2. CASE DeliverInterrupt
    BY <2>2 DEF DeliverInterrupt
  <2>3. CASE DeliverBegin \/ DeliverRefused \/ DeliverLook \/ DeliverSteered
    BY <2>3 DEF DeliverBegin, DeliverRefused, DeliverLook, DeliverSteered
  <2> QED BY <1>4, <2>1, <2>2, <2>3 DEF Delivery
<1>5. CASE StopEnter
  BY <1>5 DEF StopEnter
<1>6. CASE SwitchStep
  <2>1. CASE SwitchCheck
    <3>1. (\A x \in canceled \cup bound : x < nextId)'
      BY <2>1, Zenon DEF SwitchCheck
    <3>2. (/\ claim < nextId
           /\ \A x \in Exec : by[x] # NoExec \/ outcome[x] # "none" => x < nextId
           /\ \A t \in Task : Active(t) => t[2] < nextId)'
      BY <2>1 DEF ClaimTypes, AgentTypes, TaskTypes, ClaimHasPhase, SwitchCheck
    <3> QED BY <3>1, <3>2
  <2>2. CASE SwitchEnter \/ SwitchRefused \/ SwitchStopsPump \/ SwitchCloses
    BY <2>2 DEF SwitchEnter, SwitchRefused, SwitchStopsPump, SwitchCloses
  <2> QED BY <1>6, <2>1, <2>2 DEF SwitchStep
<1>7. CASE DownStep
  <2>1. CASE DownBegin
    BY <2>1 DEF DownBegin
  <2>2. CASE DownReap
    BY <2>2 DEF DownReap, Spawned
  <2>3. CASE DownInsert
    BY <2>3 DEF ClaimTypes, TaskTypes, FlagTypes, DownInsert
  <2>4. CASE CloseEnter \/ DownWaited \/ DownTimesOut
    BY <2>4 DEF CloseEnter, DownWaited, DownTimesOut
  <2> QED BY <1>7, <2>1, <2>2, <2>3, <2>4 DEF DownStep
<1>8. CASE Requests
  <2>1. ASSUME NEW x \in Exec, DirectSend(x) PROVE Fresh'
    BY <2>1 DEF ClaimTypes, TaskTypes, FlagTypes, DirectSend
  <2>2. CASE AcceptInput \/ StopRequest \/ SwitchRequest \/ CloseRequest \/ DaemonExit
    BY <2>2 DEF AcceptInput, StopRequest, SwitchRequest, CloseRequest, DaemonExit
  <2> QED BY <1>8, <2>1, <2>2 DEF Requests
<1>9. CASE Failures
  <2>1. ASSUME NEW x \in Exec, HandFails(x) PROVE Fresh'
    BY <2>1 DEF HandFails
  <2>2. ASSUME NEW x \in Exec, HandAborts(x) PROVE Fresh'
    BY <2>2 DEF HandAborts
  <2>3. ASSUME NEW x \in Exec, HandBindUnsaved(x) PROVE Fresh'
    BY <2>3 DEF HandBindUnsaved
  <2>4. ASSUME NEW x \in Exec, HandDropped(x) PROVE Fresh'
    BY <2>4 DEF ClaimTypes, TaskTypes, HandDropped
  <2>5. ASSUME NEW t \in Task, RetireJoinAborts(t) PROVE Fresh'
    BY <2>5 DEF ClaimTypes, TaskTypes, RetireJoinAborts
  <2>6. ASSUME NEW t \in Task, RetireCloseFails(t) PROVE Fresh'
    BY <2>6 DEF ClaimTypes, TaskTypes, RetireCloseFails
  <2>7. ASSUME NEW t \in Task, RetireCommitUnsaved(t) PROVE Fresh'
    BY <2>7 DEF ClaimTypes, TaskTypes, RetireCommitUnsaved
  <2>8. ASSUME NEW x \in Exec, AgentCrash(x) \/ AgentRepeats(x) PROVE Fresh'
    BY <2>8 DEF AgentCrash, AgentRepeats
  <2>9. CASE PumpCloseFails \/ SwitchJoinAborts \/ SwitchCloseFails
    BY <2>9 DEF PumpCloseFails, SwitchJoinAborts, SwitchCloseFails
  <2> QED BY <1>9, <2>1, <2>2, <2>3, <2>4, <2>5, <2>6, <2>7, <2>8, <2>9 DEF Failures
<1>10. CASE AgentStep
  BY <1>10 DEF AgentStep, AgentEnds
<1>11. CASE Rest \/ UNCHANGED vars
  BY <1>11 DEF Rest, vars
<1> QED BY <1>1, <1>2, <1>3, <1>4, <1>5, <1>6, <1>7, <1>8, <1>9, <1>10, <1>11 DEF Next

(* A claim has a phase, and only a claim has one. *)
LEMMA ClaimHasPhaseStep == ASSUME IInv, [Next]_vars PROVE ClaimHasPhase'
<1> USE DEF ClaimHasPhase
<1>1. CASE Handover
  BY <1>1 DEF ClaimTypes, Handover, HandReuse, HandSpawn, HandInstall, HandSend, HandBind,
     HandRefused, HandCanceled
<1>2. CASE Retirement
  BY <1>2 DEF ClaimTypes, PumpOwns, Retirement, StopAsked, RetireMark, RetireJoin,
     RetireLock, RetireClose, RetireCommit, RetireLate
<1>3. CASE PumpStep
  BY <1>3 DEF ClaimTypes, PumpStep, PumpIgnores, PumpDefers, PumpCompletes, PumpRetires,
     PumpLocks, PumpCloses, PumpCommits, PumpStops, PumpExits
<1>4. CASE Delivery
  <2>1. ASSUME NEW x \in Exec, DeliverClaim(x) PROVE ClaimHasPhase'
    BY <2>1 DEF ClaimTypes, DeliverClaim
  <2>2. CASE DeliverInterrupt
    BY <2>2 DEF DeliverInterrupt
  <2>3. CASE DeliverBegin \/ DeliverRefused \/ DeliverLook \/ DeliverSteered
    BY <2>3 DEF DeliverBegin, DeliverRefused, DeliverLook, DeliverSteered
  <2> QED BY <1>4, <2>1, <2>2, <2>3 DEF Delivery
<1>5. CASE StopEnter
  BY <1>5 DEF StopEnter
<1>6. CASE SwitchStep
  BY <1>6 DEF SwitchStep, SwitchEnter, SwitchCheck, SwitchRefused, SwitchStopsPump,
     SwitchCloses
<1>7. CASE DownStep
  BY <1>7 DEF ClaimTypes, DownStep, CloseEnter, DownBegin, DownWaited, DownTimesOut,
     DownReap, DownInsert
<1>8. CASE Requests
  <2>1. ASSUME NEW x \in Exec, DirectSend(x) PROVE ClaimHasPhase'
    BY <2>1 DEF ClaimTypes, DirectSend
  <2>2. CASE AcceptInput \/ StopRequest \/ SwitchRequest \/ CloseRequest \/ DaemonExit
    BY <2>2 DEF AcceptInput, StopRequest, SwitchRequest, CloseRequest, DaemonExit
  <2> QED BY <1>8, <2>1, <2>2 DEF Requests
<1>9. CASE Failures
  <2>1. ASSUME NEW x \in Exec, HandBindUnsaved(x) PROVE ClaimHasPhase'
    BY <2>1 DEF HandBindUnsaved
  <2>2. ASSUME NEW t \in Task, RetireJoinAborts(t) PROVE ClaimHasPhase'
    BY <2>2 DEF RetireJoinAborts
  <2>3. ASSUME NEW t \in Task, RetireCloseFails(t) PROVE ClaimHasPhase'
    BY <2>3 DEF RetireCloseFails
  <2>4. ASSUME NEW t \in Task, RetireCommitUnsaved(t) PROVE ClaimHasPhase'
    BY <2>4 DEF ClaimTypes, PumpOwns, RetireCommitUnsaved
  <2>5. CASE PumpCloseFails
    BY <2>5 DEF PumpCloseFails
  <2>6. CASE SwitchCloseFails
    BY <2>6 DEF SwitchCloseFails
  <2>7. ASSUME NEW x \in Exec, HandFails(x) \/ HandAborts(x) \/ HandDropped(x) \/
     AgentCrash(x) \/ AgentRepeats(x) PROVE ClaimHasPhase'
    BY <2>7 DEF HandFails, HandAborts, HandDropped, AgentCrash, AgentRepeats
  <2>8. CASE SwitchJoinAborts
    BY <2>8 DEF SwitchJoinAborts
  <2> QED BY <1>9, <2>1, <2>2, <2>3, <2>4, <2>5, <2>6, <2>7, <2>8 DEF Failures
<1>10. CASE AgentStep
  BY <1>10 DEF AgentStep, AgentEnds
<1>11. CASE Rest \/ UNCHANGED vars
  BY <1>11 DEF Rest, vars
<1> QED BY <1>1, <1>2, <1>3, <1>4, <1>5, <1>6, <1>7, <1>8, <1>9, <1>10, <1>11 DEF Next

(* Nobody takes the session from a handover without setting its cancel flag:
   the pump needs a bound execution, a retirement marks what it retires. *)
LEMMA HandOwnsStep == ASSUME IInv, [Next]_vars PROVE HandOwns'
<1> USE DEF HandOwns
<1>1. CASE Handover
  <2>1. ASSUME NEW x \in Exec, HandReuse(x) PROVE HandOwns'
    BY <2>1 DEF HandReuse
  <2>2. ASSUME NEW x \in Exec, HandSpawn(x) PROVE HandOwns'
    BY <2>2 DEF HandSpawn
  <2>3. ASSUME NEW x \in Exec, HandInstall(x) PROVE HandOwns'
    BY <2>3 DEF TaskTypes, HandInstall
  <2>4. ASSUME NEW x \in Exec, HandSend(x) PROVE HandOwns'
    BY <2>4 DEF TaskTypes, HandSend
  <2>5. ASSUME NEW x \in Exec, HandBind(x) PROVE HandOwns'
    BY <2>5 DEF TaskTypes, HandBind
  <2>6. ASSUME NEW x \in Exec, HandRefused(x) PROVE HandOwns'
    BY <2>6 DEF HandRefused
  <2>7. ASSUME NEW x \in Exec, HandCanceled(x) PROVE HandOwns'
    BY <2>7 DEF HandCanceled
  <2> QED BY <1>1, <2>1, <2>2, <2>3, <2>4, <2>5, <2>6, <2>7 DEF Handover
<1>2. CASE Retirement
  BY <1>2 DEF ClaimTypes, TaskTypes, RetireOwns, Retirement, StopAsked, RetireMark,
     RetireJoin, RetireLock, RetireClose, RetireCommit, RetireLate
<1>3. CASE PumpStep
  BY <1>3 DEF ClaimTypes, TaskTypes, PumpOwns, PumpStep, PumpIgnores, PumpDefers,
     PumpCompletes, PumpRetires, PumpLocks, PumpCloses, PumpCommits, PumpStops, PumpExits
<1>4. CASE Delivery
  <2>1. ASSUME NEW x \in Exec, DeliverClaim(x) PROVE HandOwns'
    BY <2>1 DEF ClaimTypes, AgentTypes, TaskTypes, Fresh, DeliverClaim
  <2>2. CASE DeliverInterrupt
    BY <2>2 DEF DeliverInterrupt
  <2>3. CASE DeliverBegin \/ DeliverRefused \/ DeliverLook \/ DeliverSteered
    BY <2>3 DEF DeliverBegin, DeliverRefused, DeliverLook, DeliverSteered
  <2> QED BY <1>4, <2>1, <2>2, <2>3 DEF Delivery
<1>5. CASE StopEnter
  BY <1>5 DEF StopEnter
<1>6. CASE SwitchStep
  BY <1>6 DEF SwitchStep, SwitchEnter, SwitchCheck, SwitchRefused, SwitchStopsPump,
     SwitchCloses
<1>7. CASE DownStep
  <2>1. CASE DownBegin
    BY <2>1 DEF DownBegin
  <2>2. CASE DownReap
    BY <2>2 DEF DownReap, Spawned
  <2>3. CASE DownInsert
    BY <2>3 DEF DownInsert
  <2>4. CASE CloseEnter \/ DownWaited \/ DownTimesOut
    BY <2>4 DEF CloseEnter, DownWaited, DownTimesOut
  <2> QED BY <1>7, <2>1, <2>2, <2>3, <2>4 DEF DownStep
<1>8. CASE Requests
  <2>1. ASSUME NEW x \in Exec, DirectSend(x) PROVE HandOwns'
    BY <2>1 DEF ClaimTypes, AgentTypes, TaskTypes, Fresh, DirectSend
  <2>2. CASE AcceptInput \/ StopRequest \/ SwitchRequest \/ CloseRequest \/ DaemonExit
    BY <2>2 DEF AcceptInput, StopRequest, SwitchRequest, CloseRequest, DaemonExit
  <2> QED BY <1>8, <2>1, <2>2 DEF Requests
<1>9. CASE Failures
  <2>1. ASSUME NEW x \in Exec, HandFails(x) PROVE HandOwns'
    BY <2>1 DEF HandFails
  <2>2. ASSUME NEW x \in Exec, HandAborts(x) PROVE HandOwns'
    BY <2>2 DEF HandAborts
  <2>3. ASSUME NEW x \in Exec, HandBindUnsaved(x) PROVE HandOwns'
    BY <2>3 DEF TaskTypes, HandBindUnsaved
  <2>4. ASSUME NEW x \in Exec, HandDropped(x) PROVE HandOwns'
    <3>1. \A y \in Exec : Starting(y)' => y # x /\ task'[<<"hand", y>>] = task[<<"hand", y>>]
      BY <2>4, DroppedTasks
    <3>2. UNCHANGED <<claim, phase, canceled, bound, by, agent>>
      BY <2>4 DEF HandDropped
    <3> QED BY <3>1, <3>2
  <2>5. ASSUME NEW t \in Task, RetireJoinAborts(t) PROVE HandOwns'
    BY <2>5 DEF TaskTypes, RetireJoinAborts
  <2>6. ASSUME NEW t \in Task, RetireCloseFails(t) PROVE HandOwns'
    BY <2>6 DEF TaskTypes, RetireCloseFails
  <2>7. ASSUME NEW t \in Task, RetireCommitUnsaved(t) PROVE HandOwns'
    <3>1. claim \in canceled /\ UNCHANGED <<claim, canceled, bound, by, agent>>
      BY <2>7 DEF TaskTypes, RetireOwns, RetireCommitUnsaved
    <3>2. \A x \in Exec : Starting(x)' => Starting(x) /\ task'[<<"hand", x>>] = task[<<"hand", x>>]
      BY <2>7 DEF TaskTypes, RetireCommitUnsaved
    <3> QED BY <3>1, <3>2
  <2>8. CASE PumpCloseFails
    BY <2>8 DEF PumpCloseFails
  <2>9. CASE SwitchCloseFails
    BY <2>9 DEF SwitchCloseFails
  <2>10. ASSUME NEW x \in Exec, AgentCrash(x) \/ AgentRepeats(x) PROVE HandOwns'
    BY <2>10 DEF AgentCrash, AgentRepeats
  <2>11. CASE SwitchJoinAborts
    BY <2>11 DEF SwitchJoinAborts
  <2> QED BY <1>9, <2>1, <2>2, <2>3, <2>4, <2>5, <2>6, <2>7, <2>8, <2>9, <2>10, <2>11 DEF
     Failures
<1>10. CASE AgentStep
  BY <1>10 DEF AgentStep, AgentEnds
<1>11. CASE Rest \/ UNCHANGED vars
  BY <1>11 DEF Rest, vars
<1> QED BY <1>1, <1>2, <1>3, <1>4, <1>5, <1>6, <1>7, <1>8, <1>9, <1>10, <1>11 DEF Next

(* A retirement that holds the retirement lock keeps the session until it
   commits: whoever could release the claim needs the lock, or an execution that
   is not canceled. *)
LEMMA RetireOwnsStep == ASSUME IInv, [Next]_vars PROVE RetireOwns'
<1> USE DEF RetireOwns
<1>1. CASE Handover
  <2>1. ASSUME NEW x \in Exec, HandReuse(x) PROVE RetireOwns'
    BY <2>1 DEF HandReuse
  <2>2. ASSUME NEW x \in Exec, HandSpawn(x) PROVE RetireOwns'
    BY <2>2 DEF HandSpawn
  <2>3. ASSUME NEW x \in Exec, HandInstall(x) PROVE RetireOwns'
    BY <2>3 DEF ClaimTypes, TaskTypes, HandOwns, HandInstall
  <2>4. ASSUME NEW x \in Exec, HandSend(x) PROVE RetireOwns'
    BY <2>4 DEF HandSend
  <2>5. ASSUME NEW x \in Exec, HandBind(x) PROVE RetireOwns'
    BY <2>5 DEF HandBind
  <2>6. ASSUME NEW x \in Exec, HandRefused(x) PROVE RetireOwns'
    BY <2>6 DEF HandRefused
  <2>7. ASSUME NEW x \in Exec, HandCanceled(x) PROVE RetireOwns'
    BY <2>7 DEF HandCanceled
  <2> QED BY <1>1, <2>1, <2>2, <2>3, <2>4, <2>5, <2>6, <2>7 DEF Handover
<1>2. CASE Retirement
  BY <1>2 DEF ClaimTypes, TaskTypes, PumpOwns, SavingIsQuiet, Retirement, StopAsked,
     RetireMark, RetireJoin, RetireLock, RetireClose, RetireCommit, RetireLate
<1>3. CASE PumpStep
  BY <1>3 DEF ClaimTypes, TaskTypes, CancelIsKept, ClaimHasPhase, PumpOwns, SavingIsQuiet,
     PumpStep, PumpIgnores, PumpDefers, PumpCompletes, PumpRetires, PumpLocks, PumpCloses,
     PumpCommits, PumpStops, PumpExits
<1>4. CASE Delivery
  <2>1. ASSUME NEW x \in Exec, DeliverClaim(x) PROVE RetireOwns'
    BY <2>1 DEF ClaimTypes, AgentTypes, TaskTypes, Fresh, ClaimHasPhase, DeliverClaim
  <2>2. CASE DeliverInterrupt
    BY <2>2 DEF DeliverInterrupt
  <2>3. CASE DeliverBegin \/ DeliverRefused \/ DeliverLook \/ DeliverSteered
    BY <2>3 DEF DeliverBegin, DeliverRefused, DeliverLook, DeliverSteered
  <2> QED BY <1>4, <2>1, <2>2, <2>3 DEF Delivery
<1>5. CASE StopEnter
  BY <1>5 DEF StopEnter
<1>6. CASE SwitchStep
  BY <1>6 DEF TaskTypes, SwitchOwns, SwitchStep, SwitchEnter, SwitchCheck, SwitchRefused,
     SwitchStopsPump, SwitchCloses
<1>7. CASE DownStep
  <2>1. CASE DownBegin
    BY <2>1 DEF DownBegin
  <2>2. CASE DownReap
    BY <2>2 DEF DownReap, Spawned
  <2>3. CASE DownInsert
    BY <2>3 DEF ClaimTypes, AgentTypes, TaskTypes, Fresh, ClaimHasPhase, DownInsert
  <2>4. CASE CloseEnter \/ DownWaited \/ DownTimesOut
    BY <2>4 DEF CloseEnter, DownWaited, DownTimesOut
  <2> QED BY <1>7, <2>1, <2>2, <2>3, <2>4 DEF DownStep
<1>8. CASE Requests
  <2>1. ASSUME NEW x \in Exec, DirectSend(x) PROVE RetireOwns'
    BY <2>1 DEF ClaimTypes, AgentTypes, TaskTypes, Fresh, ClaimHasPhase, DirectSend
  <2>2. CASE AcceptInput \/ StopRequest \/ SwitchRequest \/ CloseRequest \/ DaemonExit
    BY <2>2 DEF AcceptInput, StopRequest, SwitchRequest, CloseRequest, DaemonExit
  <2> QED BY <1>8, <2>1, <2>2 DEF Requests
<1>9. CASE Failures
  <2>1. ASSUME NEW x \in Exec, HandFails(x) PROVE RetireOwns'
    BY <2>1 DEF HandFails
  <2>2. ASSUME NEW x \in Exec, HandAborts(x) PROVE RetireOwns'
    BY <2>2 DEF HandAborts
  <2>3. ASSUME NEW x \in Exec, HandBindUnsaved(x) PROVE RetireOwns'
    BY <2>3 DEF HandBindUnsaved
  <2>4. ASSUME NEW x \in Exec, HandDropped(x) PROVE RetireOwns'
    <3>1. \A t \in Task : task'[t] \in {"join", "lock", "close", "commit"}
                            => t # <<"hand", x>> /\ task'[t] = task[t]
      BY <2>4, DroppedTasks
    <3>2. UNCHANGED <<claim, phase, canceled, agent>>
          /\ (retirement' = retirement \/ retirement = <<"hand", x>>)
      BY <2>4 DEF HandDropped
    <3> QED BY <3>1, <3>2
  <2>5. ASSUME NEW t \in Task, RetireJoinAborts(t) PROVE RetireOwns'
    BY <2>5 DEF TaskTypes, RetireJoinAborts
  <2>6. ASSUME NEW t \in Task, RetireCloseFails(t) PROVE RetireOwns'
    BY <2>6 DEF TaskTypes, RetireCloseFails
  <2>7. ASSUME NEW t \in Task, RetireCommitUnsaved(t) PROVE RetireOwns'
    BY <2>7 DEF TaskTypes, RetireCommitUnsaved
  <2>8. CASE PumpCloseFails
    BY <2>8 DEF ClaimTypes, TaskTypes, PumpOwns, SavingIsQuiet, PumpCloseFails
  <2>9. CASE SwitchJoinAborts
    BY <2>9 DEF SwitchJoinAborts
  <2>10. CASE SwitchCloseFails
    BY <2>10 DEF SwitchCloseFails
  <2>11. ASSUME NEW x \in Exec, AgentCrash(x) \/ AgentRepeats(x) PROVE RetireOwns'
    BY <2>11 DEF AgentCrash, AgentRepeats
  <2> QED BY <1>9, <2>1, <2>2, <2>3, <2>4, <2>5, <2>6, <2>7, <2>8, <2>9, <2>10, <2>11 DEF
     Failures
<1>10. CASE AgentStep
  BY <1>10 DEF AgentStep, AgentEnds
<1>11. CASE Rest \/ UNCHANGED vars
  BY <1>11 DEF Rest, vars
<1> QED BY <1>1, <1>2, <1>3, <1>4, <1>5, <1>6, <1>7, <1>8, <1>9, <1>10, <1>11 DEF Next

(* A pump that retires an execution keeps the session until it commits: every
   retirement waits for the pump before it takes the lock. *)
LEMMA PumpOwnsStep == ASSUME IInv, [Next]_vars PROVE PumpOwns'
<1> USE DEF PumpOwns
<1>1. CASE Handover
  BY <1>1 DEF HandOwns, ClaimTypes, TaskTypes, Handover, HandReuse, HandSpawn, HandInstall,
     HandSend, HandBind, HandRefused, HandCanceled
<1>2. CASE Retirement
  BY <1>2 DEF ClaimTypes, TaskTypes, RetireOwns, FlagTypes, Retirement, StopAsked,
     RetireMark, RetireJoin, RetireLock, RetireClose, RetireCommit, RetireLate
<1>3. CASE PumpStep
  BY <1>3 DEF ClaimTypes, TaskTypes, RetireOwns, CancelIsKept, ClaimHasPhase, PumpStep,
     PumpIgnores, PumpDefers, PumpCompletes, PumpRetires, PumpLocks, PumpCloses,
     PumpCommits, PumpStops, PumpExits
<1>4. CASE Delivery
  <2>1. ASSUME NEW x \in Exec, DeliverClaim(x) PROVE PumpOwns'
    BY <2>1 DEF TaskTypes, ClaimTypes, FlagTypes, DeliverClaim
  <2>2. CASE DeliverInterrupt
    BY <2>2 DEF DeliverInterrupt
  <2>3. CASE DeliverBegin \/ DeliverRefused \/ DeliverLook \/ DeliverSteered
    BY <2>3 DEF DeliverBegin, DeliverRefused, DeliverLook, DeliverSteered
  <2> QED BY <1>4, <2>1, <2>2, <2>3 DEF Delivery
<1>5. CASE StopEnter
  BY <1>5 DEF StopEnter
<1>6. CASE SwitchStep
  BY <1>6 DEF SwitchStep, SwitchEnter, SwitchCheck, SwitchRefused, SwitchStopsPump,
     SwitchCloses
<1>7. CASE DownStep
  <2>1. CASE DownReap
    BY <2>1 DEF DownReap, Spawned
  <2>2. CASE DownInsert
    BY <2>2 DEF TaskTypes, ClaimTypes, FlagTypes, ClaimHasPhase, DownInsert
  <2>3. CASE CloseEnter \/ DownBegin \/ DownWaited \/ DownTimesOut
    BY <2>3 DEF CloseEnter, DownBegin, DownWaited, DownTimesOut
  <2> QED BY <1>7, <2>1, <2>2, <2>3 DEF DownStep
<1>8. CASE Requests
  <2>1. ASSUME NEW x \in Exec, DirectSend(x) PROVE PumpOwns'
    BY <2>1 DEF TaskTypes, ClaimTypes, FlagTypes, DirectSend
  <2>2. CASE AcceptInput \/ StopRequest \/ SwitchRequest \/ CloseRequest \/ DaemonExit
    BY <2>2 DEF AcceptInput, StopRequest, SwitchRequest, CloseRequest, DaemonExit
  <2> QED BY <1>8, <2>1, <2>2 DEF Requests
<1>9. CASE Failures
  <2>1. ASSUME NEW x \in Exec, HandFails(x) PROVE PumpOwns'
    BY <2>1 DEF HandFails
  <2>2. ASSUME NEW x \in Exec, HandAborts(x) PROVE PumpOwns'
    BY <2>2 DEF HandAborts
  <2>3. ASSUME NEW x \in Exec, HandBindUnsaved(x) PROVE PumpOwns'
    BY <2>3 DEF HandOwns, ClaimTypes, TaskTypes, HandBindUnsaved
  <2>4. ASSUME NEW x \in Exec, HandDropped(x) PROVE PumpOwns'
    <3>1. \A t \in Task : task'[t] \in {"lock", "close", "commit"} => task'[t] = task[t]
      BY <2>4, DroppedTasks
    <3>2. UNCHANGED <<claim, phase, bound, agent, pumpAt, pumpOf, pumpEnd>>
          /\ (retirement' = retirement \/ retirement = <<"hand", x>>)
      BY <2>4 DEF HandDropped
    <3> QED BY <3>1, <3>2
  <2>5. ASSUME NEW t \in Task, RetireJoinAborts(t) PROVE PumpOwns'
    BY <2>5 DEF RetireJoinAborts
  <2>6. ASSUME NEW t \in Task, RetireCloseFails(t) PROVE PumpOwns'
    BY <2>6 DEF ClaimTypes, TaskTypes, RetireOwns, RetireCloseFails
  <2>7. ASSUME NEW t \in Task, RetireCommitUnsaved(t) PROVE PumpOwns'
    BY <2>7 DEF RetireCommitUnsaved
  <2>8. CASE PumpCloseFails
    BY <2>8 DEF PumpCloseFails
  <2>9. CASE SwitchJoinAborts
    BY <2>9 DEF SwitchJoinAborts
  <2>10. CASE SwitchCloseFails
    BY <2>10 DEF SwitchCloseFails
  <2>11. ASSUME NEW x \in Exec, AgentCrash(x) \/ AgentRepeats(x) PROVE PumpOwns'
    BY <2>11 DEF AgentCrash, AgentRepeats
  <2> QED BY <1>9, <2>1, <2>2, <2>3, <2>4, <2>5, <2>6, <2>7, <2>8, <2>9, <2>10, <2>11 DEF
     Failures
<1>10. CASE AgentStep
  BY <1>10 DEF AgentStep, AgentEnds
<1>11. CASE Rest \/ UNCHANGED vars
  BY <1>11 DEF Rest, vars
<1> QED BY <1>1, <1>2, <1>3, <1>4, <1>5, <1>6, <1>7, <1>8, <1>9, <1>10, <1>11 DEF Next

(* A switch past its check holds the retirement lock. *)
LEMMA SwitchOwnsStep == ASSUME IInv, [Next]_vars PROVE SwitchOwns'
<1> USE DEF SwitchOwns
<1>1. CASE Handover
  <2>1. ASSUME NEW x \in Exec, HandReuse(x) \/ HandSpawn(x) \/ HandInstall(x) \/ HandSend(x)
     \/ HandBind(x) \/ HandRefused(x) \/ HandCanceled(x) PROVE SwitchOwns'
    BY <2>1 DEF HandReuse, HandSpawn, HandInstall, HandSend, HandBind, HandRefused,
       HandCanceled
  <2> QED BY <1>1, <2>1 DEF Handover
<1>2. CASE Retirement
  BY <1>2 DEF RetireOwns, TaskTypes, Retirement, StopAsked, RetireMark, RetireJoin,
     RetireLock, RetireClose, RetireCommit, RetireLate
<1>3. CASE PumpStep
  BY <1>3 DEF PumpOwns, PumpStep, PumpIgnores, PumpDefers, PumpCompletes, PumpRetires,
     PumpLocks, PumpCloses, PumpCommits, PumpStops, PumpExits
<1>4. CASE Delivery
  BY <1>4 DEF Delivery, DeliverBegin, DeliverClaim, DeliverRefused, DeliverLook,
     DeliverSteered, DeliverInterrupt
<1>5. CASE StopEnter
  BY <1>5 DEF StopEnter
<1>6. CASE SwitchStep
  BY <1>6 DEF SwitchStep, SwitchEnter, SwitchCheck, SwitchRefused, SwitchStopsPump,
     SwitchCloses
<1>7. CASE DownStep
  BY <1>7 DEF DownStep, CloseEnter, DownBegin, DownWaited, DownTimesOut, DownReap,
     DownInsert, Spawned
<1>8. CASE Requests
  <2>1. CASE SwitchRequest
    BY <2>1 DEF SwitchRequest
  <2>2. ASSUME NEW x \in Exec, DirectSend(x) PROVE SwitchOwns'
    BY <2>2 DEF DirectSend
  <2>3. CASE AcceptInput \/ StopRequest \/ CloseRequest \/ DaemonExit
    BY <2>3 DEF AcceptInput, StopRequest, CloseRequest, DaemonExit
  <2> QED BY <1>8, <2>1, <2>2, <2>3 DEF Requests
<1>9. CASE Failures
  <2>1. ASSUME NEW x \in Exec, HandAborts(x) PROVE SwitchOwns'
    BY <2>1 DEF HandAborts
  <2>2. ASSUME NEW x \in Exec, HandDropped(x) PROVE SwitchOwns'
    BY <2>2 DEF HandDropped
  <2>3. ASSUME NEW t \in Task, RetireJoinAborts(t) PROVE SwitchOwns'
    BY <2>3 DEF RetireJoinAborts
  <2>4. ASSUME NEW t \in Task, RetireCloseFails(t) PROVE SwitchOwns'
    BY <2>4 DEF RetireOwns, TaskTypes, RetireCloseFails
  <2>5. ASSUME NEW t \in Task, RetireCommitUnsaved(t) PROVE SwitchOwns'
    BY <2>5 DEF RetireOwns, TaskTypes, RetireCommitUnsaved
  <2>6. CASE PumpCloseFails
    BY <2>6 DEF PumpOwns, PumpCloseFails
  <2>7. CASE SwitchJoinAborts
    BY <2>7 DEF SwitchJoinAborts
  <2>8. CASE SwitchCloseFails
    BY <2>8 DEF SwitchCloseFails
  <2>9. ASSUME NEW x \in Exec, HandFails(x) \/ HandBindUnsaved(x) \/ AgentCrash(x) \/
     AgentRepeats(x) PROVE SwitchOwns'
    BY <2>9 DEF HandFails, HandBindUnsaved, AgentCrash, AgentRepeats
  <2> QED BY <1>9, <2>1, <2>2, <2>3, <2>4, <2>5, <2>6, <2>7, <2>8, <2>9 DEF Failures
<1>10. CASE AgentStep
  BY <1>10 DEF AgentStep, AgentEnds
<1>11. CASE Rest \/ UNCHANGED vars
  BY <1>11 DEF Rest, vars
<1> QED BY <1>1, <1>2, <1>3, <1>4, <1>5, <1>6, <1>7, <1>8, <1>9, <1>10, <1>11 DEF Next

(* The process at work is the installed one and works for the owner. *)
LEMMA ServeOwnsStep == ASSUME IInv, [Next]_vars PROVE ServeOwns'
<1> USE DEF ServeOwns
<1>1. CASE Handover
  <2>1. ASSUME NEW x \in Exec, HandSpawn(x) PROVE ServeOwns'
    BY <2>1 DEF HandSpawn
  <2>2. ASSUME NEW x \in Exec, HandInstall(x) PROVE ServeOwns'
    BY <2>2 DEF ClaimTypes, AgentTypes, TaskTypes, HandOwns, SaidWasPrompted, HandInstall
  <2>3. ASSUME NEW x \in Exec, HandSend(x) PROVE ServeOwns'
    BY <2>3 DEF ClaimTypes, AgentTypes, TaskTypes, HandOwns, SaidWasPrompted, HandSend
  <2>4. ASSUME NEW x \in Exec, HandRefused(x) PROVE ServeOwns'
    BY <2>4 DEF HandRefused
  <2>5. ASSUME NEW x \in Exec, HandCanceled(x) PROVE ServeOwns'
    BY <2>5 DEF HandCanceled
  <2>6. ASSUME NEW x \in Exec, HandReuse(x) \/ HandBind(x) PROVE ServeOwns'
    BY <2>6 DEF HandReuse, HandBind
  <2> QED BY <1>1, <2>1, <2>2, <2>3, <2>4, <2>5, <2>6 DEF Handover
<1>2. CASE Retirement
  BY <1>2 DEF ClaimTypes, AgentTypes, RetireOwns, TaskTypes, Retirement, StopAsked,
     RetireMark, RetireJoin, RetireLock, RetireClose, RetireCommit, RetireLate
<1>3. CASE PumpStep
  BY <1>3 DEF PumpOwns, AgentTypes, PumpStep, PumpIgnores, PumpDefers, PumpCompletes,
     PumpRetires, PumpLocks, PumpCloses, PumpCommits, PumpStops, PumpExits
<1>4. CASE Delivery
  <2>1. ASSUME NEW x \in Exec, DeliverClaim(x) PROVE ServeOwns'
    BY <2>1 DEF ClaimTypes, AgentTypes, SavingIsQuiet, DeliverClaim
  <2>2. CASE DeliverBegin \/ DeliverRefused \/ DeliverLook \/ DeliverSteered \/
     DeliverInterrupt
    BY <2>2 DEF DeliverBegin, DeliverRefused, DeliverLook, DeliverSteered, DeliverInterrupt
  <2> QED BY <1>4, <2>1, <2>2 DEF Delivery
<1>5. CASE StopEnter
  BY <1>5 DEF StopEnter
<1>6. CASE SwitchStep
  BY <1>6 DEF ClaimTypes, AgentTypes, SavingIsQuiet, SwitchStep, SwitchEnter, SwitchCheck,
     SwitchRefused, SwitchStopsPump, SwitchCloses
<1>7. CASE DownStep
  <2>1. CASE DownReap
    BY <2>1 DEF DownReap, Spawned
  <2>2. CASE DownInsert
    BY <2>2 DEF DownInsert
  <2>3. CASE CloseEnter \/ DownBegin \/ DownWaited \/ DownTimesOut
    BY <2>3 DEF CloseEnter, DownBegin, DownWaited, DownTimesOut
  <2> QED BY <1>7, <2>1, <2>2, <2>3 DEF DownStep
<1>8. CASE Requests
  <2>1. ASSUME NEW x \in Exec, DirectSend(x) PROVE ServeOwns'
    BY <2>1 DEF ClaimTypes, AgentTypes, SavingIsQuiet, DirectSend
  <2>2. CASE AcceptInput \/ StopRequest \/ SwitchRequest \/ CloseRequest \/ DaemonExit
    BY <2>2 DEF AcceptInput, StopRequest, SwitchRequest, CloseRequest, DaemonExit
  <2> QED BY <1>8, <2>1, <2>2 DEF Requests
<1>9. CASE Failures
  <2>1. ASSUME NEW x \in Exec, HandFails(x) PROVE ServeOwns'
    BY <2>1 DEF HandFails
  <2>2. ASSUME NEW x \in Exec, HandAborts(x) PROVE ServeOwns'
    BY <2>2 DEF HandAborts
  <2>3. ASSUME NEW x \in Exec, HandBindUnsaved(x) PROVE ServeOwns'
    BY <2>3 DEF HandBindUnsaved
  <2>4. ASSUME NEW x \in Exec, HandDropped(x) PROVE ServeOwns'
    BY <2>4 DEF HandDropped
  <2>5. ASSUME NEW x \in Exec, AgentCrash(x) \/ AgentRepeats(x) PROVE ServeOwns'
    <3>1. CASE AgentCrash(x)
      BY <3>1 DEF AgentCrash
    <3>2. CASE AgentRepeats(x)
      BY <3>2 DEF AgentRepeats
    <3> QED BY <2>5, <3>1, <3>2
  <2>6. ASSUME NEW t \in Task, RetireJoinAborts(t) \/ RetireCloseFails(t) \/
     RetireCommitUnsaved(t) PROVE ServeOwns'
    BY <2>6 DEF RetireJoinAborts, RetireCloseFails, RetireCommitUnsaved
  <2>7. CASE PumpCloseFails \/ SwitchJoinAborts \/ SwitchCloseFails
    BY <2>7 DEF PumpCloseFails, SwitchJoinAborts, SwitchCloseFails
  <2> QED BY <1>9, <2>1, <2>2, <2>3, <2>4, <2>5, <2>6, <2>7 DEF Failures
<1>10. CASE AgentStep
  BY <1>10 DEF AgentTypes, AgentStep, AgentEnds
<1>11. CASE Rest \/ UNCHANGED vars
  BY <1>11 DEF Rest, vars
<1> QED BY <1>1, <1>2, <1>3, <1>4, <1>5, <1>6, <1>7, <1>8, <1>9, <1>10, <1>11 DEF Next

(* An end is told only of a turn that was prompted. *)
LEMMA SaidWasPromptedStep == ASSUME IInv, [Next]_vars PROVE SaidWasPrompted'
<1> USE DEF SaidWasPrompted
<1>1. CASE Handover
  BY <1>1 DEF AgentTypes, Handover, HandReuse, HandSpawn, HandInstall, HandSend, HandBind,
     HandRefused, HandCanceled
<1>2. CASE Retirement
  <2>1. ASSUME NEW t \in Task, StopAsked(t) \/ RetireMark(t) \/ RetireJoin(t) \/
     RetireLock(t) \/ RetireClose(t) \/ RetireCommit(t) \/ RetireLate(t) PROVE
     SaidWasPrompted'
    BY <2>1 DEF StopAsked, RetireMark, RetireJoin, RetireLock, RetireClose, RetireCommit,
       RetireLate
  <2> QED BY <1>2, <2>1 DEF Retirement
<1>3. CASE PumpStep
  <2>1. ASSUME NEW x \in Exec, PumpIgnores(x) PROVE SaidWasPrompted'
    BY <2>1 DEF PumpIgnores
  <2>2. ASSUME NEW x \in Exec, PumpDefers(x) PROVE SaidWasPrompted'
    BY <2>2 DEF PumpDefers
  <2>3. ASSUME NEW x \in Exec, PumpCompletes(x) PROVE SaidWasPrompted'
    BY <2>3 DEF PumpCompletes
  <2>4. ASSUME NEW x \in Exec, PumpRetires(x) PROVE SaidWasPrompted'
    BY <2>4 DEF PumpRetires
  <2>5. CASE PumpLocks \/ PumpCloses \/ PumpCommits \/ PumpStops \/ PumpExits
    BY <2>5 DEF PumpLocks, PumpCloses, PumpCommits, PumpStops, PumpExits
  <2> QED BY <1>3, <2>1, <2>2, <2>3, <2>4, <2>5 DEF PumpStep
<1>4. CASE Delivery
  BY <1>4 DEF Delivery, DeliverBegin, DeliverClaim, DeliverRefused, DeliverLook,
     DeliverSteered, DeliverInterrupt
<1>5. CASE StopEnter
  BY <1>5 DEF StopEnter
<1>6. CASE SwitchStep
  BY <1>6 DEF SwitchStep, SwitchEnter, SwitchCheck, SwitchRefused, SwitchStopsPump,
     SwitchCloses
<1>7. CASE DownStep
  BY <1>7 DEF DownStep, CloseEnter, DownBegin, DownWaited, DownTimesOut, DownReap,
     DownInsert
<1>8. CASE Requests
  BY <1>8 DEF Requests, DirectSend, AcceptInput, StopRequest, SwitchRequest, CloseRequest,
     DaemonExit
<1>9. CASE Failures
  <2>1. ASSUME NEW x \in Exec, AgentCrash(x) \/ AgentRepeats(x) PROVE SaidWasPrompted'
    <3>1. CASE AgentCrash(x)
      BY <3>1 DEF AgentTypes, ServeOwns, AgentCrash
    <3>2. CASE AgentRepeats(x)
      BY <3>2 DEF AgentTypes, ServeOwns, AgentRepeats
    <3> QED BY <2>1, <3>1, <3>2
  <2>2. ASSUME NEW x \in Exec, HandFails(x) \/ HandAborts(x) \/ HandBindUnsaved(x) \/
     HandDropped(x) PROVE SaidWasPrompted'
    BY <2>2 DEF HandFails, HandAborts, HandBindUnsaved, HandDropped
  <2>3. ASSUME NEW t \in Task, RetireJoinAborts(t) \/ RetireCloseFails(t) \/
     RetireCommitUnsaved(t) PROVE SaidWasPrompted'
    BY <2>3 DEF RetireJoinAborts, RetireCloseFails, RetireCommitUnsaved
  <2>4. CASE PumpCloseFails \/ SwitchJoinAborts \/ SwitchCloseFails
    BY <2>4 DEF PumpCloseFails, SwitchJoinAborts, SwitchCloseFails
  <2> QED BY <1>9, <2>1, <2>2, <2>3, <2>4 DEF Failures
<1>10. CASE AgentStep
  BY <1>10 DEF AgentTypes, ServeOwns, AgentStep, AgentEnds
<1>11. CASE Rest \/ UNCHANGED vars
  BY <1>11 DEF Rest, vars
<1> QED BY <1>1, <1>2, <1>3, <1>4, <1>5, <1>6, <1>7, <1>8, <1>9, <1>10, <1>11 DEF Next

(* An answer waits to be saved only after its turn has ended. *)
LEMMA SavingIsQuietStep == ASSUME IInv, [Next]_vars PROVE SavingIsQuiet'
<1> USE DEF SavingIsQuiet
<1>1. CASE Handover
  BY <1>1 DEF HandOwns, AgentTypes, ClaimTypes, Handover, HandReuse, HandSpawn, HandInstall,
     HandSend, HandBind, HandRefused, HandCanceled
<1>2. CASE Retirement
  BY <1>2 DEF Retirement, StopAsked, RetireMark, RetireJoin, RetireLock, RetireClose,
     RetireCommit, RetireLate
<1>3. CASE PumpStep
  BY <1>3 DEF ServeOwns, CancelIsKept, AgentTypes, ClaimTypes, ClaimHasPhase, PumpOwns,
     PumpStep, PumpIgnores, PumpDefers, PumpCompletes, PumpRetires, PumpLocks, PumpCloses,
     PumpCommits, PumpStops, PumpExits
<1>4. CASE Delivery
  BY <1>4 DEF Delivery, DeliverBegin, DeliverClaim, DeliverRefused, DeliverLook,
     DeliverSteered, DeliverInterrupt
<1>5. CASE StopEnter
  BY <1>5 DEF StopEnter
<1>6. CASE SwitchStep
  BY <1>6 DEF SwitchStep, SwitchEnter, SwitchCheck, SwitchRefused, SwitchStopsPump,
     SwitchCloses
<1>7. CASE DownStep
  <2>1. CASE DownBegin
    BY <2>1 DEF DownBegin
  <2>2. CASE DownReap
    BY <2>2 DEF DownReap, Spawned
  <2>3. CASE DownInsert
    BY <2>3 DEF DownInsert
  <2>4. CASE CloseEnter \/ DownWaited \/ DownTimesOut
    BY <2>4 DEF CloseEnter, DownWaited, DownTimesOut
  <2> QED BY <1>7, <2>1, <2>2, <2>3, <2>4 DEF DownStep
<1>8. CASE Requests
  BY <1>8 DEF Requests, DirectSend, AcceptInput, StopRequest, SwitchRequest, CloseRequest,
     DaemonExit
<1>9. CASE Failures
  <2>1. ASSUME NEW x \in Exec, HandFails(x) PROVE SavingIsQuiet'
    BY <2>1 DEF HandFails
  <2>2. ASSUME NEW x \in Exec, HandAborts(x) PROVE SavingIsQuiet'
    BY <2>2 DEF HandAborts
  <2>3. ASSUME NEW x \in Exec, HandBindUnsaved(x) PROVE SavingIsQuiet'
    BY <2>3 DEF HandBindUnsaved
  <2>4. ASSUME NEW x \in Exec, HandDropped(x) PROVE SavingIsQuiet'
    BY <2>4 DEF HandDropped
  <2>5. ASSUME NEW x \in Exec, AgentCrash(x) \/ AgentRepeats(x) PROVE SavingIsQuiet'
    BY <2>5 DEF AgentCrash, AgentRepeats
  <2>6. ASSUME NEW t \in Task, RetireJoinAborts(t) PROVE SavingIsQuiet'
    BY <2>6 DEF RetireJoinAborts
  <2>7. ASSUME NEW t \in Task, RetireCloseFails(t) PROVE SavingIsQuiet'
    BY <2>7 DEF RetireCloseFails
  <2>8. ASSUME NEW t \in Task, RetireCommitUnsaved(t) PROVE SavingIsQuiet'
    BY <2>8 DEF RetireOwns, ServeOwns, AgentTypes, ClaimTypes, TaskTypes,
       RetireCommitUnsaved
  <2>9. CASE PumpCloseFails
    BY <2>9 DEF PumpCloseFails
  <2>10. CASE SwitchCloseFails
    BY <2>10 DEF SwitchCloseFails
  <2>11. CASE SwitchJoinAborts
    BY <2>11 DEF SwitchJoinAborts
  <2> QED BY <1>9, <2>1, <2>2, <2>3, <2>4, <2>5, <2>6, <2>7, <2>8, <2>9, <2>10, <2>11 DEF
     Failures
<1>10. CASE AgentStep
  BY <1>10 DEF AgentStep, AgentEnds
<1>11. CASE Rest \/ UNCHANGED vars
  BY <1>11 DEF Rest, vars
<1> QED BY <1>1, <1>2, <1>3, <1>4, <1>5, <1>6, <1>7, <1>8, <1>9, <1>10, <1>11 DEF Next

(* Only a handover makes an execution run, and it looks at the cancel flag. *)
LEMMA CancelIsKeptStep == ASSUME IInv, [Next]_vars PROVE CancelIsKept'
<1> USE DEF CancelIsKept
<1>1. CASE Handover
  BY <1>1 DEF Handover, HandReuse, HandSpawn, HandInstall, HandSend, HandBind, HandRefused,
     HandCanceled
<1>2. CASE Retirement
  BY <1>2 DEF Retirement, StopAsked, RetireMark, RetireJoin, RetireLock, RetireClose,
     RetireCommit, RetireLate
<1>3. CASE PumpStep
  BY <1>3 DEF PumpStep, PumpIgnores, PumpDefers, PumpCompletes, PumpRetires, PumpLocks,
     PumpCloses, PumpCommits, PumpStops, PumpExits
<1>4. CASE Delivery
  <2>1. ASSUME NEW x \in Exec, DeliverClaim(x) PROVE CancelIsKept'
    BY <2>1 DEF DeliverClaim
  <2>2. CASE DeliverInterrupt
    BY <2>2 DEF DeliverInterrupt
  <2>3. CASE DeliverBegin \/ DeliverRefused \/ DeliverLook \/ DeliverSteered
    BY <2>3 DEF DeliverBegin, DeliverRefused, DeliverLook, DeliverSteered
  <2> QED BY <1>4, <2>1, <2>2, <2>3 DEF Delivery
<1>5. CASE StopEnter
  BY <1>5 DEF StopEnter
<1>6. CASE SwitchStep
  BY <1>6 DEF SwitchStep, SwitchEnter, SwitchCheck, SwitchRefused, SwitchStopsPump,
     SwitchCloses
<1>7. CASE DownStep
  BY <1>7 DEF DownStep, CloseEnter, DownBegin, DownWaited, DownTimesOut, DownReap,
     DownInsert
<1>8. CASE Requests
  <2>1. ASSUME NEW x \in Exec, DirectSend(x) PROVE CancelIsKept'
    BY <2>1 DEF DirectSend
  <2>2. CASE AcceptInput \/ StopRequest \/ SwitchRequest \/ CloseRequest \/ DaemonExit
    BY <2>2 DEF AcceptInput, StopRequest, SwitchRequest, CloseRequest, DaemonExit
  <2> QED BY <1>8, <2>1, <2>2 DEF Requests
<1>9. CASE Failures
  <2>1. ASSUME NEW x \in Exec, HandBindUnsaved(x) PROVE CancelIsKept'
    BY <2>1 DEF HandBindUnsaved
  <2>2. ASSUME NEW t \in Task, RetireJoinAborts(t) PROVE CancelIsKept'
    BY <2>2 DEF RetireJoinAborts
  <2>3. ASSUME NEW t \in Task, RetireCloseFails(t) PROVE CancelIsKept'
    BY <2>3 DEF RetireCloseFails
  <2>4. ASSUME NEW t \in Task, RetireCommitUnsaved(t) PROVE CancelIsKept'
    BY <2>4 DEF RetireCommitUnsaved
  <2>5. CASE PumpCloseFails
    BY <2>5 DEF PumpCloseFails
  <2>6. CASE SwitchCloseFails
    BY <2>6 DEF SwitchCloseFails
  <2>7. ASSUME NEW x \in Exec, HandFails(x) \/ HandAborts(x) \/ HandDropped(x) \/
     AgentCrash(x) \/ AgentRepeats(x) PROVE CancelIsKept'
    BY <2>7 DEF HandFails, HandAborts, HandDropped, AgentCrash, AgentRepeats
  <2>8. CASE SwitchJoinAborts
    BY <2>8 DEF SwitchJoinAborts
  <2> QED BY <1>9, <2>1, <2>2, <2>3, <2>4, <2>5, <2>6, <2>7, <2>8 DEF Failures
<1>10. CASE AgentStep
  BY <1>10 DEF AgentStep, AgentEnds
<1>11. CASE Rest \/ UNCHANGED vars
  BY <1>11 DEF Rest, vars
<1> QED BY <1>1, <1>2, <1>3, <1>4, <1>5, <1>6, <1>7, <1>8, <1>9, <1>10, <1>11 DEF Next

(* The invariant is inductive. *)
LEMMA StepInv == IInv /\ [Next]_vars => IInv'
BY ClaimTypesStep, FlagTypesStep, AgentTypesStep, PumpTypesStep, TaskTypesStep, UserTypesStep,
   IdsSufficeStep, FreshStep, ClaimHasPhaseStep, HandOwnsStep, RetireOwnsStep, PumpOwnsStep,
   SwitchOwnsStep, ServeOwnsStep, SaidWasPromptedStep, SavingIsQuietStep, CancelIsKeptStep
=============================================================================

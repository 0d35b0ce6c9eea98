---------------------- MODULE SessionExecution_proofs ----------------------
(* What follows from the inductive invariant of SessionExecution: the safety
   invariants of the session, and that it implements ExecutionClaim. *)
EXTENDS SessionExecution_inv

(* Operators that only abbreviate a few lines of an action are always expanded. *)
USE BoundsAssumption DEF IInv, TypeOK, Owns, NoExec, LastExec, Exec, Phases, Ends, Task,
   HandStages, RetireStages, TaskStages, Pump, Switcher, NoOne, Kinds, claimVars, agentVars,
   pumpVars, taskVars, lockVars, userVars, Spend, Active, Starting, Admits, ClaimAs, Killed,
   Saved, SaveFailed, PausedBy, CleanupFailed, IsDelivery, LetGo, Returns, Fails, Handing,
   HandAt, HandGivesUp, Bound, Joining, Retiring, NextStage, EndOf, Closes, Hears, Admitted,
   LeftToRetirement, SwitchAllowed, SwitchEnds, InterruptExecution

(* A new session has no owner, so the invariant holds of it. *)
LEMMA InitInv == Init => IInv
<1> SUFFICES ASSUME Init PROVE IInv
  OBVIOUS
<1> USE DEF Init
<1>1. ClaimTypes /\ AgentTypes /\ PumpTypes
  BY DEF ClaimTypes, AgentTypes, PumpTypes
<1>2. FlagTypes
  BY Zenon DEF FlagTypes
<1>3. budget \in [Kinds -> Nat] /\ budget["close"] + budget["exit"] <= Shutdowns
  BY Zenon
<1>4. TaskTypes /\ UserTypes
  BY <1>3 DEF TaskTypes, UserTypes
<1>5. IdsSuffice
  BY <1>3, SMTT(60) DEF IdsSuffice, Unclaimed
<1>6. Fresh /\ ClaimHasPhase /\ HandOwns /\ RetireOwns
  BY SMTT(60) DEF Fresh, ClaimHasPhase, HandOwns, RetireOwns
<1>7. PumpOwns /\ SwitchOwns /\ ServeOwns /\ SaidWasPrompted /\ SavingIsQuiet /\ CancelIsKept
  BY DEF PumpOwns, SwitchOwns, ServeOwns, SaidWasPrompted, SavingIsQuiet, CancelIsKept
<1> QED BY <1>1, <1>2, <1>4, <1>5, <1>6, <1>7

(* The inductive invariant holds in every reachable state. *)
LEMMA InvHolds == Spec => []IInv
BY InitInv, StepInv, PTL DEF Spec

(* Every variable keeps its type, whatever the callers and failures do. *)
THEOREM TypesHold == Spec => []TypeOK
<1>1. IInv => TypeOK
  OBVIOUS
<1> QED BY <1>1, InvHolds, PTL

(* A process works only on the turn of the execution that owns the session:
   send, pump, stop, switch and shutdown never leave a process on an old prompt. *)
THEOREM TurnsAreOwned == Spec => []NoUnownedTurn
<1>1. IInv => NoUnownedTurn
  BY DEF NoUnownedTurn, ServeOwns, AgentTypes
<1> QED BY <1>1, InvHolds, PTL

(* An execution whose cancel flag was set never goes on running. *)
THEOREM CancelsAreKept == Spec => []CancelIsKept
<1>1. IInv => CancelIsKept
  OBVIOUS
<1> QED BY <1>1, InvHolds, PTL

(* The pump that closed a failed turn commits that very execution, although
   finish_execution is given whatever owner there is by then. *)
THEOREM PumpCommitsOwned == Spec => []PumpCommitsItsOwn
<1>1. IInv => PumpCommitsItsOwn
  BY DEF PumpCommitsItsOwn, PumpOwns
<1> QED BY <1>1, InvHolds, PTL
-----------------------------------------------------------------------------
(* What the variables of ExecutionClaim are in a session. *)
Working == {serves[p] : p \in procs} \ {NoExec}
Prompted == {x \in Exec : by[x] # NoExec}
Ended == {x \in Exec : outcome[x] # "none"}

(* What works, works for the owner and in the agent's process. *)
LEMMA WorkIsOwners ==
  ASSUME IInv, NEW x \in Working
  PROVE  /\ x = claim /\ agent \in procs /\ serves[agent] = x /\ x \in Exec
         /\ phase # "saving" /\ agent # NoExec
<1>1. PICK p \in procs : x = serves[p] /\ serves[p] # NoExec
  BY DEF Working
<1>2. p \in Exec /\ serves \in [Exec -> Exec \cup {NoExec}]
  BY DEF AgentTypes
<1>3. p = agent /\ claim = serves[p]
  BY <1>1, <1>2 DEF ServeOwns
<1>4. phase # "saving"
  BY <1>1, <1>2 DEF SavingIsQuiet
<1> QED BY <1>1, <1>2, <1>3, <1>4

(* Nothing works for a session nobody owns, one that only waits to be saved, or
   one whose agent is gone. *)
LEMMA Quiet ==
  ASSUME IInv, claim = NoExec \/ phase = "saving" \/ agent = NoExec
  PROVE  Working = {}
<1> SUFFICES ASSUME NEW x \in Working PROVE FALSE
  OBVIOUS
<1> QED BY WorkIsOwners

(* A step that touches neither claim nor work is none of the promise. *)
LEMMA SameClaim ==
  ASSUME UNCHANGED <<claim, procs, serves, by, outcome>>
  PROVE  UNCHANGED Claim!vars
BY DEF Claim!vars

(* A process that ends, working or not. *)
LEMMA KilledSettles ==
  ASSUME IInv, NEW gone, Killed(gone), UNCHANGED <<claim, by, outcome>>
  PROVE  Claim!Settle \/ UNCHANGED Claim!vars
<1>1. Working' \subseteq Working
  BY DEF Working, AgentTypes
<1>2. CASE Working' = {}
  BY <1>2 DEF Working, Claim!Settle, Claim!vars
<1>3. CASE Working' # {}
  <2>1. PICK x \in Working' : x \in Working
    BY <1>1, <1>3
  <2>2. \A y \in Working : y = x
    BY <2>1, WorkIsOwners
  <2>3. Working' = Working
    BY <1>1, <2>1, <2>2
  <2> QED BY <2>3 DEF Working, Claim!vars
<1> QED BY <1>2, <1>3

(* A sender claims the session. *)
LEMMA ClaimTakes ==
  ASSUME IInv, NEW x \in Exec, ClaimAs(x), UNCHANGED agentVars
  PROVE  Claim!Next
<1>1. Working = {} /\ (claim # NoExec => claim \in Exec)
  BY Quiet DEF ClaimTypes
<1>2. x \notin Ended /\ x \notin Prompted /\ x # claim
  BY DEF Ended, Prompted, Fresh, ClaimTypes
<1>3. Ended' = Ended \cup ({claim} \ {NoExec})
  BY <1>1 DEF Ended, ClaimTypes
<1>4. Claim!Take(x)
  BY <1>1, <1>2, <1>3 DEF Claim!Take, Working, Ended, Prompted
<1> QED BY <1>4 DEF Claim!Next

(* The end of an execution is committed. *)
LEMMA SavedReleases ==
  ASSUME IInv, NEW end \in Ends, NEW closed, Working = {}, Saved(claim, end, closed),
         UNCHANGED <<procs, serves, by>>
  PROVE  Claim!Release \/ UNCHANGED Claim!vars
<1>1. CASE claim = NoExec
  BY <1>1 DEF Claim!vars
<1>2. CASE claim # NoExec
  <2>1. claim \in Exec
    BY <1>2 DEF ClaimTypes
  <2>2. Ended' = Ended \cup {claim}
    BY <2>1 DEF Ended, ClaimTypes
  <2> QED BY <1>2, <2>2 DEF Claim!Release, Working, Ended
<1> QED BY <1>1, <1>2

(* Every step of the session is a step of ExecutionClaim or leaves it alone. *)
LEMMA StepImplements == ASSUME IInv, [Next]_vars PROVE Claim!Next \/ UNCHANGED Claim!vars
<1>1. CASE Handover
  <2>1. ASSUME NEW x \in Exec, HandReuse(x) \/ HandInstall(x) \/ HandBind(x)
        PROVE  UNCHANGED Claim!vars
    BY <2>1, SameClaim DEF HandReuse, HandInstall, HandBind
  <2>2. ASSUME NEW x \in Exec, HandSpawn(x) PROVE UNCHANGED Claim!vars
    <3>1. serves[x] = NoExec /\ UNCHANGED <<claim, serves, by, outcome>> /\ procs' = procs \cup {x}
      BY <2>2 DEF HandSpawn, ServeOwns, AgentTypes
    <3>2. Working' = Working
      BY <3>1 DEF Working
    <3> QED BY <3>1, <3>2 DEF Working, Claim!vars
  <2>3. ASSUME NEW x \in Exec, HandSend(x) PROVE Claim!Work
    <3>1. claim = x /\ by[x] = NoExec /\ x # NoExec
      BY <2>3 DEF HandSend, HandOwns
    <3>2. Working = {}
      BY <3>1, WorkIsOwners DEF ServeOwns, AgentTypes
    <3>3. agent \in procs /\ agent \in Exec
          /\ serves' = [serves EXCEPT ![agent] = x] /\ by' = [by EXCEPT ![x] = agent]
          /\ UNCHANGED <<claim, procs, outcome>>
      BY <2>3 DEF HandSend, AgentTypes
    <3>4. Working' = {x}
      <4>1. serves'[agent] = x
        BY <3>3 DEF AgentTypes
      <4>2. \A p \in procs : p # agent => serves'[p] = serves[p] /\ serves[p] = NoExec
        BY <3>2, <3>3 DEF Working, AgentTypes
      <4> QED BY <3>1, <3>3, <4>1, <4>2 DEF Working
    <3>5. Prompted' = Prompted \cup {x} /\ x \notin Prompted
      BY <3>1, <3>3 DEF Prompted, AgentTypes
    <3> QED BY <3>1, <3>3, <3>4, <3>5 DEF Claim!Work, Working, Prompted
  <2>4. ASSUME NEW x \in Exec, HandRefused(x) \/ HandCanceled(x)
        PROVE  Claim!Settle \/ UNCHANGED Claim!vars
    <3> DEFINE gone == IF task[<<"hand", x>>] = "joinOld" THEN {x} ELSE {}
    <3>1. Killed(gone) /\ UNCHANGED <<claim, by, outcome>>
      BY <2>4 DEF HandRefused, HandCanceled
    <3> HIDE DEF gone
    <3> QED BY <3>1, KilledSettles
  <2> QED BY <1>1, <2>1, <2>2, <2>3, <2>4 DEF Handover, Claim!Next
<1>2. CASE Retirement
  <2>1. ASSUME NEW t \in Task, StopAsked(t) \/ RetireMark(t) \/ RetireJoin(t) \/ RetireLock(t)
        PROVE  UNCHANGED Claim!vars
    BY <2>1, SameClaim DEF StopAsked, RetireMark, RetireJoin, RetireLock
  <2>2. ASSUME NEW t \in Task, RetireClose(t) PROVE Claim!Settle \/ UNCHANGED Claim!vars
    <3>1. Killed({agent}) /\ UNCHANGED <<claim, by, outcome>>
      BY <2>2 DEF RetireClose
    <3> QED BY <3>1, KilledSettles
  <2>3. ASSUME NEW t \in Task, RetireCommit(t) PROVE Claim!Release \/ UNCHANGED Claim!vars
    <3>1. Working = {}
      BY <2>3, Quiet DEF RetireOwns, RetireCommit
    <3>2. Saved(claim, EndOf(t), Closes(t)) /\ UNCHANGED <<procs, serves, by>> /\ EndOf(t) \in Ends
      BY <2>3 DEF RetireCommit
    <3> QED BY <3>1, <3>2, SavedReleases
  <2>4. ASSUME NEW t \in Task, RetireLate(t) PROVE UNCHANGED Claim!vars
    BY <2>4, SameClaim DEF RetireLate
  <2> QED BY <1>2, <2>1, <2>2, <2>3, <2>4 DEF Retirement, Claim!Next
<1>3. CASE PumpStep
  <2>1. ASSUME NEW x \in Exec, PumpIgnores(x) \/ PumpDefers(x) \/ PumpRetires(x)
        PROVE  UNCHANGED Claim!vars
    BY <2>1, SameClaim DEF PumpIgnores, PumpDefers, PumpRetires
  <2>2. CASE PumpLocks \/ PumpStops \/ PumpExits
    BY <2>2, SameClaim DEF PumpLocks, PumpStops, PumpExits
  <2>3. ASSUME NEW x \in Exec, PumpCompletes(x) PROVE Claim!Release \/ UNCHANGED Claim!vars
    <3>1. claim = x /\ said[x] = "completed" /\ UNCHANGED <<procs, serves, by>>
      BY <2>3 DEF PumpCompletes
    <3>2. \A y \in Working : FALSE
      BY <3>1, WorkIsOwners DEF ServeOwns, AgentTypes
    <3>3. CASE Saved(x, "completed", FALSE)
      BY <3>1, <3>2, <3>3, SavedReleases
    <3>4. CASE SaveFailed(x)
      BY <3>1, <3>4, SameClaim
    <3> QED BY <2>3, <3>3, <3>4 DEF PumpCompletes
  <2>4. CASE PumpCloses
    <3>1. Killed({agent}) /\ UNCHANGED <<claim, by, outcome>>
      BY <2>4 DEF PumpCloses
    <3> QED BY <3>1, KilledSettles DEF Claim!Next
  <2>5. CASE PumpCommits
    <3>1. Working = {} /\ pumpEnd \in Ends /\ UNCHANGED <<procs, serves, by>>
      BY <2>5, Quiet DEF PumpOwns, PumpCommits
    <3>2. CASE Saved(claim, pumpEnd, FALSE)
      BY <3>1, <3>2, SavedReleases DEF Claim!Next
    <3>3. CASE SaveFailed(claim)
      BY <3>1, <3>3, SameClaim
    <3> QED BY <2>5, <3>2, <3>3 DEF PumpCommits
  <2> QED BY <1>3, <2>1, <2>2, <2>3, <2>4, <2>5 DEF PumpStep, Claim!Next
<1>4. CASE Delivery
  <2>1. ASSUME NEW x \in Exec, DeliverClaim(x) PROVE Claim!Next
    BY <2>1, ClaimTakes DEF DeliverClaim
  <2>2. CASE DeliverBegin \/ DeliverRefused \/ DeliverLook \/ DeliverSteered \/ DeliverInterrupt
    BY <2>2, SameClaim DEF DeliverBegin, DeliverRefused, DeliverLook, DeliverSteered,
       DeliverInterrupt
  <2> QED BY <1>4, <2>1, <2>2 DEF Delivery
<1>5. CASE StopEnter
  BY <1>5, SameClaim DEF StopEnter
<1>6. CASE SwitchStep
  <2>1. CASE SwitchEnter \/ SwitchRefused \/ SwitchStopsPump
    BY <2>1, SameClaim DEF SwitchEnter, SwitchRefused, SwitchStopsPump
  <2>2. CASE SwitchCheck
    <3>1. UNCHANGED <<procs, serves, by>> /\ Working = {}
      BY <2>2, Quiet DEF SwitchCheck
    <3>2. CASE claim = NoExec
      BY <2>2, <3>1, <3>2, SameClaim DEF SwitchCheck
    <3>3. CASE claim # NoExec
      <4>1. claim' = NoExec /\ outcome' = [outcome EXCEPT ![claim] = "retried"] /\ claim \in Exec
        BY <2>2, <3>3 DEF SwitchCheck, ClaimTypes
      <4>2. Ended' = Ended \cup {claim}
        BY <4>1 DEF Ended, ClaimTypes
      <4> QED BY <3>1, <3>3, <4>1, <4>2 DEF Claim!Next, Claim!Release, Working, Ended
    <3> QED BY <3>2, <3>3
  <2>3. CASE SwitchCloses
    <3> DEFINE gone == {agent} \ {NoExec}
    <3>1. Killed(gone) /\ UNCHANGED <<claim, by, outcome>>
      BY <2>3 DEF SwitchCloses
    <3> HIDE DEF gone
    <3> QED BY <3>1, KilledSettles DEF Claim!Next
  <2> QED BY <1>6, <2>1, <2>2, <2>3 DEF SwitchStep
<1>7. CASE DownStep
  <2>1. CASE CloseEnter \/ DownBegin \/ DownWaited \/ DownTimesOut
    BY <2>1, SameClaim DEF CloseEnter, DownBegin, DownWaited, DownTimesOut
  <2>2. CASE DownReap
    <3> DEFINE gone == {x \in Exec : <<"hand", x>> \in Spawned /\ task[<<"hand", x>>] = "joinOld"}
    <3>1. Killed(gone) /\ UNCHANGED <<claim, by, outcome>>
      BY <2>2 DEF DownReap
    <3> HIDE DEF gone
    <3> QED BY <3>1, KilledSettles DEF Claim!Next
  <2>3. CASE DownInsert
    <3>1. CASE claim # NoExec
      BY <2>3, <3>1, SameClaim DEF DownInsert
    <3>2. CASE claim = NoExec
      <4>1. Working = {} /\ nextId \in Exec
        BY <2>3, <3>2, Quiet, InsertFits
      <4>2. PICK x \in Exec : x = nextId
        BY <4>1
      <4>3. x \notin Ended /\ x \notin Prompted /\ x # claim
        BY <4>2 DEF Ended, Prompted, Fresh, ClaimTypes
      <4>4. claim' = x /\ UNCHANGED <<procs, serves, by, outcome>>
        BY <2>3, <3>2, <4>2 DEF DownInsert
      <4>5. Claim!Take(x)
        BY <3>2, <4>1, <4>3, <4>4 DEF Claim!Take, Working, Ended, Prompted
      <4> QED BY <4>5 DEF Claim!Next
    <3> QED BY <3>1, <3>2
  <2> QED BY <1>7, <2>1, <2>2, <2>3 DEF DownStep
<1>8. CASE Requests
  <2>1. ASSUME NEW x \in Exec, DirectSend(x) PROVE Claim!Next
    BY <2>1, ClaimTakes DEF DirectSend
  <2>2. CASE AcceptInput \/ StopRequest \/ SwitchRequest \/ CloseRequest \/ DaemonExit
    BY <2>2, SameClaim DEF AcceptInput, StopRequest, SwitchRequest, CloseRequest, DaemonExit
  <2> QED BY <1>8, <2>1, <2>2 DEF Requests
<1>9. CASE Failures
  <2>1. ASSUME NEW x \in Exec, HandFails(x) \/ HandAborts(x) \/ HandBindUnsaved(x) \/ HandDropped(x)
        PROVE  Claim!Settle \/ UNCHANGED Claim!vars
    <3> DEFINE gone == IF task[<<"hand", x>>] = "joinOld" THEN {x} ELSE {}
    <3>1. Killed(gone) /\ UNCHANGED <<claim, by, outcome>>
      BY <2>1 DEF HandFails, HandAborts, HandBindUnsaved, HandDropped
    <3> HIDE DEF gone
    <3> QED BY <3>1, KilledSettles
  <2>2. ASSUME NEW x \in Exec, AgentCrash(x) \/ AgentRepeats(x)
        PROVE  Claim!Settle \/ UNCHANGED Claim!vars
    <3>1. CASE AgentCrash(x)
      <4>1. Killed({x}) /\ UNCHANGED <<claim, by, outcome>>
        BY <3>1 DEF AgentCrash
      <4> QED BY <4>1, KilledSettles
    <3>2. CASE AgentRepeats(x)
      BY <3>2, SameClaim DEF AgentRepeats
    <3> QED BY <2>2, <3>1, <3>2
  <2>3. ASSUME NEW t \in Task,
               RetireJoinAborts(t) \/ RetireCloseFails(t) \/ RetireCommitUnsaved(t)
        PROVE  UNCHANGED Claim!vars
    BY <2>3, SameClaim DEF RetireJoinAborts, RetireCloseFails, RetireCommitUnsaved
  <2>4. CASE PumpCloseFails \/ SwitchJoinAborts \/ SwitchCloseFails
    BY <2>4, SameClaim DEF PumpCloseFails, SwitchJoinAborts, SwitchCloseFails
  <2> QED BY <1>9, <2>1, <2>2, <2>3, <2>4 DEF Failures, Claim!Next
<1>10. CASE AgentStep
  <2>1. PICK p \in Exec, end \in Ends : AgentEnds(p, end)
    BY <1>10 DEF AgentStep
  <2>2. p \in procs /\ serves[p] # NoExec /\ serves' = [serves EXCEPT ![p] = NoExec]
        /\ UNCHANGED <<claim, procs, by, outcome>>
    BY <2>1 DEF AgentEnds
  <2>3. Working # {}
    BY <2>2 DEF Working
  <2>4. procs \subseteq Exec /\ serves \in [Exec -> Exec \cup {NoExec}]
    BY DEF AgentTypes
  <2>5. ASSUME NEW q \in procs, q # p PROVE serves[q] = NoExec
    BY <2>2, <2>4, <2>5 DEF ServeOwns
  <2>6. \A q \in procs : serves'[q] = NoExec
    BY <2>2, <2>4, <2>5
  <2>7. Working' = {}
    BY <2>2, <2>6 DEF Working
  <2> QED BY <2>2, <2>3, <2>7 DEF Claim!Next, Claim!Settle, Working
<1>11. CASE Rest \/ UNCHANGED vars
  BY <1>11, SameClaim DEF Rest, vars
<1> QED BY <1>1, <1>2, <1>3, <1>4, <1>5, <1>6, <1>7, <1>8, <1>9, <1>10, <1>11 DEF Next

(* The session, with its locks, tasks and processes, implements ExecutionClaim:
   one owner at a time, work only for the owner, every prompt at most once, and
   no execution revived. *)
THEOREM SessionImplementsClaim == Spec => ImplementsClaim
<1>1. Init => Claim!Init
  BY SMTT(60) DEF Init, Claim!Init
<1>2. IInv /\ [Next]_vars => [Claim!Next]_(Claim!vars)
  BY StepImplements
<1> QED BY <1>1, <1>2, InvHolds, PTL DEF Spec, ImplementsClaim, Claim!Spec

-----------------------------------------------------------------------------
(* Three promises are proved of calm sessions.  A session is calm when no wait for
   the pump is cut short, and when, while the Agent is switched, no direct send
   claims the session and no process refuses to close.  Each of these breaks one
   of the promises: see StrainedMixtures in MCSessionExecution. *)
Calm ==
  /\ budget'["abort"] = budget["abort"]
  /\ switch # "idle" => /\ budget'["direct"] = budget["direct"]
                        /\ budget'["closeFail"] = budget["closeFail"]

(* Then more is known than IInv says: who may still start, who holds what is left
   of the session under a shutdown or a switch, and which processes there are. *)

(* A handover that has not sent its prompt yet. *)
Begun(x) == task[<<"hand", x>>] \in {"start", "joinOld"}

(* A handover that is not withdrawn has the session to itself. *)
Starts ==
  \A x \in Exec : Starting(x) =>
    /\ claim = x /\ phase = "starting" /\ x \notin terminal
    /\ \A kind \in {"drop", "stop", "down"} : ~Active(<<kind, x>>)

(* Once a shutdown is past its wait nobody starts, and what it retires is the
   owner: when the owner is gone by then, so is its agent. *)
Fenced == down \in {"wait", "reap", "insert", "retire", "done"} => closing
Waits == down = "wait" => claim \in {downId, NoExec}
NoneStarts == down \in {"reap", "insert", "retire", "done"} => \A x \in Exec : ~Starting(x)
Downs ==
  \A x \in Exec : Active(<<"down", x>>) =>
    /\ down = "retire" /\ claim \in {x, NoExec} /\ task[<<"down", x>>] \in RetireStages
    /\ task[<<"down", x>>] # "mark" /\ claim = NoExec => agent = NoExec

(* A delivery and a switch hold interaction_lock, so no handover of a delivery runs
   under a switch, and what a switch finds claimed past its check is a shutdown's. *)
Delivers == \A x \in prepared : Active(<<"hand", x>>) => deliver = "hand"
Locks ==
  /\ deliver \in {"claim", "hand"} => interaction = "deliver"
  /\ switch \in {"check", "probe", "join"} => interaction = "switch"
Switches ==
  switch \in {"probe", "join"} /\ claim # NoExec =>
    closing /\ claim \notin bound /\ ~Active(<<"hand", claim>>)

(* Unless somebody ends the agent's turn, the pump listens to the agent. *)
Loose ==
  phase \in {"none", "starting", "running", "saving"} /\ ~closing /\ switch # "join"
     /\ agent # NoExec => pump = agent /\ pumpAt = "idle" /\ ~pumpStop

(* The agent works for x, or has told the end of x to a pump that has not taken it. *)
WorksFor(x) ==
  /\ by[x] = agent /\ agent # NoExec /\ said[x] # "heard"
  /\ (agent \in procs /\ serves[agent] = x) \/ said[x] # "none"
Sent == \A x \in Exec : task[<<"hand", x>>] = "sent" /\ x \notin canceled => WorksFor(x)
Runs == phase = "running" => claim \in bound /\ (closing \/ WorksFor(claim))

(* The only process alive is the agent, or one a handover has just spawned. *)
Numbers == agent < nextId /\ \A x \in unclean \cup terminal \cup prepared : x < nextId
New == \A x \in Exec : Begun(x) => agent # x /\ x \notin unclean
Processes == \A p \in procs : p = agent \/ task[<<"hand", p>>] = "joinOld"
Unclean == agent \in unclean => phase \in {"stopping", "cleanupFailed"}
Closed == status = "closed" => down = "done" /\ claim = NoExec /\ agent = NoExec

(* One delivery and one shutdown at a time. *)
OneHand == \A x, y \in prepared : Active(<<"hand", x>>) /\ Active(<<"hand", y>>) => x = y
OneDown == \A x, y \in Exec : Active(<<"down", x>>) /\ Active(<<"down", y>>) => x = y

Calmly ==
  /\ Starts /\ Fenced /\ Waits /\ NoneStarts /\ Downs /\ OneDown /\ Delivers /\ OneHand /\ Locks /\ Switches
  /\ Loose /\ Sent /\ Runs /\ Numbers /\ New /\ Processes /\ Unclean
  /\ StoppingHasOwner /\ Closed

-----------------------------------------------------------------------------
(* A task has one of four kinds and an execution. *)
LEMMA TaskOf ==
  /\ \A t \in Task : t = <<t[1], t[2]>> /\ t[2] \in Exec /\ t[1] \in {"hand", "drop", "stop", "down"}
  /\ \A kind \in {"hand", "drop", "stop", "down"}, x \in Exec : <<kind, x>> \in Task
  OBVIOUS

(* What becomes of the tasks when one of them moves on, returns or fails. *)
LEMMA TaskMoves ==
  ASSUME IInv, NEW t \in Task, NEW stage, task' = [task EXCEPT ![t] = stage]
  PROVE  \A u \in Task : task'[u] = IF u = t THEN stage ELSE task[u]
  BY DEF TaskTypes

LEMMA TaskFails ==
  ASSUME IInv, NEW t \in Task, Fails(t)
  PROVE  \A u \in Task : task'[u] = IF u = t THEN "idle"
                                    ELSE IF t[1] = "hand" /\ u = <<"drop", t[2]>> THEN "mark"
                                    ELSE task[u]
<1>1. task \in [Task -> TaskStages] /\ <<"drop", t[2]>> \in Task
  BY TaskOf DEF TaskTypes
<1>2. CASE t[1] = "hand"
  <2>1. task' = [task EXCEPT ![t] = "idle", ![<<"drop", t[2]>>] = "mark"] /\ t # <<"drop", t[2]>>
    BY <1>2, TaskOf
  <2> HIDE DEF Task, TaskStages
  <2> QED BY <1>1, <1>2, <2>1
<1>3. CASE t[1] # "hand"
  BY <1>1, <1>3, TaskMoves
<1> QED BY <1>2, <1>3

(* While an execution is being retired nobody starts. *)
LEMMA RetireeAlone ==
  ASSUME Starts, NEW t \in Task, task[t] \in RetireStages, claim = t[2]
  PROVE  \A x \in Exec : ~Starting(x)
<1> SUFFICES ASSUME NEW x \in Exec, Starting(x) PROVE FALSE
  OBVIOUS
<1>1. t[2] = x /\ \A kind \in {"drop", "stop", "down"} : ~Active(<<kind, x>>)
  BY DEF Starts
<1>2. t = <<t[1], x>> /\ t[1] \in {"hand", "drop", "stop", "down"}
  BY <1>1, TaskOf
<1> HIDE DEF Task, Exec
<1> QED BY <1>1, <1>2

(* A sender that claims the session finds nothing of that number, and nobody starting. *)
LEMMA Claimed ==
  ASSUME IInv, Calmly, NEW x \in Exec, ClaimAs(x)
  PROVE  /\ x \notin terminal \cup prepared \cup unclean \cup canceled \cup bound
         /\ agent # x /\ by[x] = NoExec /\ ~closing /\ phase \in {"none", "saving"}
         /\ \A kind \in {"hand", "drop", "stop", "down"} : ~Active(<<kind, x>>)
         /\ \A y \in Exec : ~Starting(y)
         /\ \A y \in Exec, kind \in {"hand", "drop", "stop", "down"} :
              task'[<<kind, y>>] = IF kind = "hand" /\ y = x THEN "start" ELSE task[<<kind, y>>]
<1>1. x \notin terminal \cup prepared \cup unclean \cup canceled \cup bound /\ agent # x
      /\ by[x] = NoExec
  BY DEF Calmly, Numbers, Fresh, ClaimTypes
<1>2. \A kind \in {"hand", "drop", "stop", "down"} : ~Active(<<kind, x>>)
  <2>1. \A t \in Task : Active(t) => t[2] < x
    BY DEF Fresh
  <2>2. ~(x < x)
    OBVIOUS
  <2>3. \A kind \in {"hand", "drop", "stop", "down"} : <<kind, x>>[2] = x
    OBVIOUS
  <2> QED BY <2>1, <2>2, <2>3, TaskOf
<1>3. ~closing /\ phase \in {"none", "saving"}
  BY DEF ClaimHasPhase
<1>4. \A y \in Exec : ~Starting(y)
  BY <1>3 DEF Calmly, Starts
<1>5. \A u \in Task : task'[u] = IF u = <<"hand", x>> THEN "start" ELSE task[u]
  <2>1. <<"hand", x>> \in Task /\ task' = [task EXCEPT ![<<"hand", x>>] = "start"]
    BY TaskOf
  <2>2. task \in [Task -> TaskStages]
    BY DEF TaskTypes
  <2> HIDE DEF Task, TaskStages
  <2> QED BY <2>1, <2>2
<1>6. \A y \in Exec, kind \in {"hand", "drop", "stop", "down"} :
        task'[<<kind, y>>] = IF kind = "hand" /\ y = x THEN "start" ELSE task[<<kind, y>>]
  <2>1. \A y \in Exec, kind \in {"hand", "drop", "stop", "down"} :
          <<kind, y>> \in Task /\ (<<kind, y>> = <<"hand", x>> <=> kind = "hand" /\ y = x)
    BY TaskOf
  <2> HIDE DEF Task, Exec
  <2> QED BY <1>5, <2>1
<1> QED BY <1>1, <1>2, <1>3, <1>4, <1>6

(* How a retirement ends: its task is gone, and a delivery or a shutdown lets go of
   interaction_lock with it. *)
Parts(t) == RetireCommit(t) \/ RetireLate(t) \/ RetireCloseFails(t) \/ RetireCommitUnsaved(t)
LEMMA Retired ==
  ASSUME IInv, Calmly, NEW t \in Task, Parts(t)
  PROVE  /\ task[t] \in RetireStages
         /\ \A x \in Exec, kind \in {"hand", "down"} :
              task'[<<kind, x>>] = IF t = <<kind, x>> THEN "idle" ELSE task[<<kind, x>>]
         /\ UNCHANGED <<agent, procs, by, said, serves, prepared, switch, closing, pump, pumpAt,
                        pumpStop, downId, bound, canceled, nextId>>
         /\ \/ /\ t[1] = "hand" /\ t[2] \in prepared /\ deliver = "hand"
               /\ interaction = "deliver" /\ interaction' = "none" /\ deliver' = "idle"
               /\ down' = down
            \/ /\ t[1] = "down" /\ down = "retire" /\ down' \in {"done", "failed"} /\ closing
               /\ deliver' = deliver
               /\ interaction' = IF interaction = "close" THEN "none" ELSE interaction
            \/ t[1] # "down" /\ ~IsDelivery(t) /\ UNCHANGED <<deliver, interaction, down>>
<1>1. task[t] \in RetireStages
  BY DEF Parts, RetireCommit, RetireLate, RetireCloseFails, RetireCommitUnsaved
<1>2. Returns(t) \/ Fails(t)
  BY DEF Parts, RetireCommit, RetireLate, RetireCloseFails, RetireCommitUnsaved
<1>3. UNCHANGED <<agent, procs, by, said, serves, prepared, switch, closing, pump, pumpAt,
                  pumpStop, downId, bound, canceled, nextId>>
  BY DEF Parts, RetireCommit, RetireLate, RetireCloseFails, RetireCommitUnsaved
<1>4. \A x \in Exec, kind \in {"hand", "down"} :
        task'[<<kind, x>>] = IF t = <<kind, x>> THEN "idle" ELSE task[<<kind, x>>]
  <2>1. CASE Returns(t)
    <3>1. \A u \in Task : task'[u] = IF u = t THEN "idle" ELSE task[u]
      BY <2>1 DEF TaskTypes
    <3> QED BY <3>1, TaskOf
  <2>2. CASE Fails(t)
    <3>1. \A u \in Task : task'[u] = IF u = t THEN "idle"
                                     ELSE IF t[1] = "hand" /\ u = <<"drop", t[2]>> THEN "mark"
                                     ELSE task[u]
      BY <2>2, TaskFails
    <3>2. \A x \in Exec, kind \in {"hand", "down"} :
            <<kind, x>> \in Task /\ <<kind, x>> # <<"drop", t[2]>>
      BY TaskOf
    <3> HIDE DEF Task, Exec
    <3> QED BY <3>1, <3>2
  <2> QED BY <1>2, <2>1, <2>2
<1>5. t = <<t[1], t[2]>> /\ t[2] \in Exec /\ Active(t)
  BY <1>1, TaskOf
<1>6. \/ /\ t[1] = "hand" /\ t[2] \in prepared /\ deliver = "hand"
         /\ interaction = "deliver" /\ interaction' = "none" /\ deliver' = "idle"
         /\ down' = down
      \/ /\ t[1] = "down" /\ down = "retire" /\ down' \in {"done", "failed"} /\ closing
         /\ deliver' = deliver
         /\ interaction' = IF interaction = "close" THEN "none" ELSE interaction
      \/ t[1] # "down" /\ ~IsDelivery(t) /\ UNCHANGED <<deliver, interaction, down>>
  <2>1. CASE IsDelivery(t)
    <3>1. deliver = "hand" /\ interaction = "deliver"
      BY <1>5, <2>1 DEF Calmly, Delivers, Locks
    <3> QED BY <1>2, <2>1, <3>1
  <2>2. CASE t[1] = "down"
    <3>1. down = "retire" /\ closing
      BY <1>5, <2>2 DEF Calmly, Downs, Fenced
    <3> QED BY <1>2, <2>2, <3>1
  <2>3. CASE t[1] # "down" /\ ~IsDelivery(t)
    BY <1>2, <2>3
  <2> QED BY <2>1, <2>2, <2>3
<1> QED BY <1>1, <1>3, <1>4, <1>6


(* A dropped request, task by task. *)
LEMMA Dropped ==
  ASSUME IInv, NEW x \in Exec, HandDropped(x)
  PROVE  \A y \in Exec, kind \in {"hand", "drop", "stop", "down"} :
           task'[<<kind, y>>] = IF y = x /\ kind = "drop" THEN "mark"
                                ELSE IF y = x /\ kind = "hand" THEN "idle" ELSE task[<<kind, y>>]
<1>1. \A t \in Task : task'[t] = IF t = <<"drop", x>> THEN "mark"
                                 ELSE IF t = <<"hand", x>> THEN "idle" ELSE task[t]
  BY DroppedTasks
<1>2. \A y \in Exec, kind \in {"hand", "drop", "stop", "down"} :
        /\ <<kind, y>> \in Task
        /\ <<kind, y>> = <<"hand", x>> <=> kind = "hand" /\ y = x
        /\ <<kind, y>> = <<"drop", x>> <=> kind = "drop" /\ y = x
  BY TaskOf
<1> HIDE DEF Task, Exec
<1> QED BY <1>1, <1>2

(* A step of a calm session is none of these. *)
CalmStep ==
  /\ \A x \in Exec : ~HandAborts(x)
  /\ \A t \in Task : ~RetireJoinAborts(t)
  /\ ~SwitchJoinAborts
  /\ switch # "idle" => ~SwitchCloseFails /\ \A x \in Exec : ~DirectSend(x)

(* Whoever takes the claim away, or retires, finds nobody starting. *)
LEMMA KeepsStarts == ASSUME IInv, Calmly, CalmStep, [Next]_vars PROVE Starts'
<1>1. ASSUME NEW x \in Exec, HandRefused(x) \/ HandCanceled(x) \/ HandFails(x) PROVE Starts'
  <2>1. \A u \in Task : task'[u] = IF u = <<"hand", x>> THEN "mark" ELSE task[u]
    BY <1>1 DEF HandRefused, HandCanceled, HandFails, TaskTypes
  <2>2. UNCHANGED claimVars
    BY <1>1 DEF HandRefused, HandCanceled, HandFails
  <2> QED BY <2>1, <2>2, TaskOf DEF Calmly, Starts
<1>2. ASSUME NEW x \in Exec, HandDropped(x) PROVE Starts'
  <2>1. UNCHANGED claimVars
    BY <1>2 DEF HandDropped
  <2> HIDE DEF Task, Exec
  <2> QED BY <1>2, <2>1, Dropped DEF Calmly, Starts
<1>3. ASSUME NEW t \in Task, RetireMark(t) PROVE Starts'
  <2>1. \A u \in Task : task'[u] = IF u = t THEN "join" ELSE task[u]
    BY <1>3 DEF RetireMark, TaskTypes
  <2>2. \A x \in Exec : ~Starting(x)
    BY <1>3, RetireeAlone DEF Calmly, RetireMark
  <2> QED BY <2>1, <2>2, TaskOf DEF Starts
<1>4. ASSUME NEW t \in Task, RetireCommit(t) \/ RetireCloseFails(t) \/ RetireCommitUnsaved(t) PROVE
     Starts'
  <2>1. \A x \in Exec : Starting(x)' => Starting(x)
    BY <1>4, Retired DEF Parts
  <2>2. task[t] \in RetireStages /\ claim = t[2]
    BY <1>4 DEF RetireCommit, RetireCloseFails, RetireCommitUnsaved, RetireOwns
  <2>3. \A x \in Exec : ~Starting(x)
    BY <2>2, RetireeAlone DEF Calmly
  <2> QED BY <2>1, <2>3 DEF Starts
<1>5. CASE PumpCommits \/ PumpCloseFails
  <2>1. \A x \in Exec : ~Starting(x)
    BY <1>5 DEF Calmly, Starts, PumpOwns, PumpCommits, PumpCloseFails
  <2>2. task' = task
    BY <1>5 DEF PumpCommits, PumpCloseFails
  <2> QED BY <2>1, <2>2 DEF Starts
<1>6. CASE DeliverInterrupt \/ StopEnter
  <2>1. CASE phase = "starting"
    <3>1. UNCHANGED <<claim, phase, terminal, task>>
      BY <1>6, <2>1 DEF DeliverInterrupt, StopEnter
    <3> QED BY <3>1 DEF Calmly, Starts
  <2>2. CASE phase # "starting"
    <3>1. \A x \in Exec : ~Starting(x)
      BY <2>2 DEF Calmly, Starts
    <3>2. \A x \in Exec : task'[<<"hand", x>>] = task[<<"hand", x>>]
      BY <1>6 DEF DeliverInterrupt, StopEnter, TaskTypes
    <3> QED BY <3>1, <3>2 DEF Starts
  <2> QED BY <2>1, <2>2
<1>7. ASSUME NEW x \in Exec, DirectSend(x) \/ DeliverClaim(x) PROVE Starts'
  <2>1. ClaimAs(x)
    BY <1>7 DEF DirectSend, DeliverClaim
  <2>2. claim' = x /\ phase' = "starting" /\ terminal' = terminal /\ x \notin terminal
    BY <2>1, Claimed
  <2>3. /\ \A y \in Exec : ~Starting(y)
        /\ \A kind \in {"drop", "stop", "down"} : ~Active(<<kind, x>>)
    <3> HIDE DEF ClaimAs, Active, Starting
    <3> QED BY <2>1, Claimed
  <2>4. \A y \in Exec, kind \in {"hand", "drop", "stop", "down"} :
          task'[<<kind, y>>] = IF kind = "hand" /\ y = x THEN "start" ELSE task[<<kind, y>>]
    BY <2>1, Claimed
  <2> HIDE DEF Task, Exec
  <2>5. \A y \in Exec : Starting(y)' => y = x
    BY <2>3, <2>4
  <2>6. \A kind \in {"drop", "stop", "down"} : ~Active(<<kind, x>>)'
    BY <2>3, <2>4
  <2> QED BY <2>2, <2>5, <2>6 DEF Starts
<1>8. ASSUME NEW x \in Exec, HandReuse(x) \/ HandSpawn(x) \/ HandInstall(x) \/ HandSend(x) PROVE
     Starts'
  <2>1. \A u \in Task : u # <<"hand", x>> => task'[u] = task[u]
    BY <1>8 DEF HandReuse, HandSpawn, HandInstall, HandSend, TaskTypes
  <2>2. UNCHANGED claimVars /\ Starting(x)
    BY <1>8 DEF HandReuse, HandSpawn, HandInstall, HandSend
  <2> QED BY <2>1, <2>2, TaskOf DEF Calmly, Starts
<1>9. ASSUME NEW t \in Task, StopAsked(t) \/ RetireJoin(t) \/ RetireLock(t) \/ RetireClose(t) PROVE
     Starts'
  <2>1. \A u \in Task : u # t => task'[u] = task[u]
    BY <1>9 DEF StopAsked, RetireJoin, RetireLock, RetireClose, TaskTypes
  <2>2. task[t] \in {"ask"} \cup RetireStages /\ task'[t] \in RetireStages
    BY <1>9 DEF StopAsked, RetireJoin, RetireLock, RetireClose, TaskTypes
  <2>3. UNCHANGED claimVars
    BY <1>9 DEF StopAsked, RetireJoin, RetireLock, RetireClose
  <2> QED BY <2>1, <2>2, <2>3, TaskOf DEF Calmly, Starts
<1>10. ASSUME NEW t \in Task, RetireLate(t) PROVE Starts'
  <2>1. \A u \in Task : task'[u] \in {"idle", task[u]}
    BY <1>10 DEF RetireLate, TaskTypes
  <2>2. UNCHANGED <<claim, phase, terminal>>
    BY <1>10 DEF RetireLate, ClaimHasPhase
  <2> QED BY <2>1, <2>2, TaskOf DEF Calmly, Starts
<1>11. CASE SwitchCheck
  <2>1. ASSUME NEW x \in Exec, Starting(x) PROVE FALSE
    <3>1. claim = x /\ phase = "starting"
      BY <2>1 DEF Calmly, Starts
    <3>2. claim # NoExec
      BY <3>1
    <3> QED BY <1>11, <3>1, <3>2 DEF SwitchCheck
  <2>2. task' = task
    BY <1>11 DEF SwitchCheck
  <2> QED BY <2>1, <2>2 DEF Starts
<1>12. CASE DownReap \/ DownInsert
  <2>1. \A x \in Exec : ~Starting(x)
    BY <1>12 DEF DownReap, DownInsert, Calmly, NoneStarts
  <2>2. \A x \in Exec : task'[<<"hand", x>>] \in {"idle", task[<<"hand", x>>]}
    <3>1. CASE DownReap
      BY <3>1, TaskOf DEF DownReap
    <3>2. CASE DownInsert
      BY <3>2, TaskOf DEF DownInsert, TaskTypes
    <3> QED BY <1>12, <3>1, <3>2
  <2> QED BY <2>1, <2>2 DEF Starts
<1>13. CASE UNCHANGED <<claim, phase, terminal, task>>
  BY <1>13 DEF Calmly, Starts
<1>14. CASE Handover
  <2>1. ASSUME NEW x \in Exec, HandBind(x) PROVE Starts'
    BY <2>1 DEF Calmly, Starts, ClaimTypes, TaskTypes, FlagTypes, Fresh, Numbers, NoneStarts,
       HandBind
  <2> QED BY <1>14, <1>8, <1>1, <2>1 DEF Handover
<1>15. CASE Retirement
  BY <1>15, <1>9, <1>3, <1>4, <1>10 DEF Retirement
<1>16. CASE PumpStep
  <2>1. ASSUME NEW x \in Exec, PumpIgnores(x) PROVE UNCHANGED <<claim, phase, terminal, task>>
    BY <2>1 DEF PumpIgnores
  <2>2. ASSUME PumpLocks \/ PumpCloses \/ PumpStops \/ PumpExits PROVE UNCHANGED <<claim, phase,
       terminal, task>>
    BY <2>2 DEF PumpLocks, PumpCloses, PumpStops, PumpExits
  <2>3. ASSUME NEW x \in Exec, PumpDefers(x) \/ PumpCompletes(x) \/ PumpRetires(x) PROVE Starts'
    BY <2>3 DEF Calmly, Starts, ClaimTypes, TaskTypes, FlagTypes, Fresh, Numbers, NoneStarts,
       PumpDefers, PumpCompletes, PumpRetires
  <2> QED BY <1>16, <1>13, <1>5, <2>1, <2>2, <2>3 DEF PumpStep
<1>17. CASE Delivery
  <2>1. ASSUME DeliverBegin \/ DeliverRefused \/ DeliverLook \/ DeliverSteered PROVE UNCHANGED
       <<claim, phase, terminal, task>>
    BY <2>1 DEF DeliverBegin, DeliverRefused, DeliverLook, DeliverSteered
  <2> QED BY <1>17, <1>13, <1>7, <1>6, <2>1 DEF Delivery
<1>18. CASE StopEnter
  BY <1>18, <1>6
<1>19. CASE SwitchStep
  <2>1. ASSUME SwitchEnter \/ SwitchRefused \/ SwitchStopsPump \/ SwitchCloses PROVE UNCHANGED
       <<claim, phase, terminal, task>>
    BY <2>1 DEF SwitchEnter, SwitchRefused, SwitchStopsPump, SwitchCloses
  <2> QED BY <1>19, <1>13, <1>11, <2>1 DEF SwitchStep
<1>20. CASE DownStep
  <2>1. ASSUME CloseEnter \/ DownBegin \/ DownWaited \/ DownTimesOut PROVE UNCHANGED <<claim, phase,
       terminal, task>>
    BY <2>1 DEF CloseEnter, DownBegin, DownWaited, DownTimesOut
  <2> QED BY <1>20, <1>13, <1>12, <2>1 DEF DownStep
<1>21. CASE Requests
  <2>1. ASSUME AcceptInput \/ StopRequest \/ SwitchRequest \/ CloseRequest \/ DaemonExit PROVE
       UNCHANGED <<claim, phase, terminal, task>>
    BY <2>1 DEF AcceptInput, StopRequest, SwitchRequest, CloseRequest, DaemonExit
  <2> QED BY <1>21, <1>13, <1>7, <2>1 DEF Requests
<1>22. CASE Failures
  <2>1. ASSUME NEW x \in Exec, AgentCrash(x) \/ AgentRepeats(x) PROVE UNCHANGED <<claim, phase,
       terminal, task>>
    BY <2>1 DEF AgentCrash, AgentRepeats
  <2>2. ASSUME NEW x \in Exec, HandBindUnsaved(x) PROVE Starts'
    BY <2>2 DEF Calmly, Starts, ClaimTypes, TaskTypes, FlagTypes, Fresh, Numbers, NoneStarts,
       HandBindUnsaved
  <2>3. CASE SwitchCloseFails
    BY <2>3 DEF Calmly, CalmStep, Starts, ClaimTypes, TaskTypes, FlagTypes, Fresh, Numbers,
       NoneStarts, SwitchCloseFails
  <2> QED BY <1>22, <1>13, <1>1, <1>2, <1>4, <1>5, <2>1, <2>2, <2>3 DEF Failures, CalmStep
<1>23. CASE AgentStep
  BY <1>13, <1>23 DEF AgentStep, AgentEnds
<1>24. CASE Rest \/ UNCHANGED vars
  BY <1>13, <1>24 DEF Rest, vars
<1> QED BY <1>14, <1>15, <1>16, <1>17, <1>18, <1>19, <1>20, <1>21, <1>22, <1>23, <1>24 DEF Next

(* A shutdown fences the session before it waits. *)
LEMMA KeepsFenced == ASSUME IInv, Calmly, CalmStep, [Next]_vars PROVE Fenced'
<1>1. ASSUME NEW t \in Task, Parts(t) PROVE Fenced'
  BY <1>1, Retired DEF Calmly, Fenced
<1>2. CASE UNCHANGED <<down, closing>>
  BY <1>2 DEF Calmly, Fenced
<1>3. CASE Handover
  BY <1>2, <1>3 DEF Handover, HandReuse, HandSpawn, HandInstall, HandSend, HandBind, HandRefused,
     HandCanceled
<1>4. CASE Retirement
  <2>1. ASSUME NEW t \in Task, StopAsked(t) \/ RetireMark(t) \/ RetireJoin(t) \/ RetireLock(t) \/
       RetireClose(t) PROVE UNCHANGED <<down, closing>>
    BY <2>1 DEF StopAsked, RetireMark, RetireJoin, RetireLock, RetireClose
  <2> QED BY <1>4, <1>2, <1>1, <2>1 DEF Retirement, Parts
<1>5. CASE PumpStep
  BY <1>2, <1>5 DEF PumpStep, PumpIgnores, PumpDefers, PumpCompletes, PumpRetires, PumpLocks,
     PumpCloses, PumpCommits, PumpStops, PumpExits
<1>6. CASE Delivery
  BY <1>2, <1>6 DEF Delivery, DeliverBegin, DeliverClaim, DeliverRefused, DeliverLook,
     DeliverSteered, DeliverInterrupt
<1>7. CASE StopEnter
  BY <1>2, <1>7 DEF StopEnter
<1>8. CASE SwitchStep
  BY <1>2, <1>8 DEF SwitchStep, SwitchEnter, SwitchCheck, SwitchRefused, SwitchStopsPump,
     SwitchCloses
<1>9. CASE DownStep
  BY <1>9 DEF Calmly, Fenced, DownStep, CloseEnter, DownBegin, DownWaited, DownTimesOut, DownReap,
     DownInsert
<1>10. CASE Requests
  BY <1>10 DEF Calmly, CalmStep, Fenced, Requests, DirectSend, AcceptInput, StopRequest,
     SwitchRequest, CloseRequest, DaemonExit
<1>11. CASE Failures
  <2>1. ASSUME NEW x \in Exec, HandFails(x) \/ HandBindUnsaved(x) \/ HandDropped(x) \/ AgentCrash(x)
       \/ AgentRepeats(x) PROVE UNCHANGED <<down, closing>>
    BY <2>1 DEF HandFails, HandBindUnsaved, HandDropped, AgentCrash, AgentRepeats
  <2>2. ASSUME PumpCloseFails \/ SwitchCloseFails PROVE UNCHANGED <<down, closing>>
    BY <2>2 DEF PumpCloseFails, SwitchCloseFails
  <2> QED BY <1>11, <1>2, <1>1, <2>1, <2>2 DEF Failures, CalmStep, Parts
<1>12. CASE AgentStep
  BY <1>2, <1>12 DEF AgentStep, AgentEnds
<1>13. CASE Rest \/ UNCHANGED vars
  BY <1>2, <1>13 DEF Rest, vars
<1> QED BY <1>3, <1>4, <1>5, <1>6, <1>7, <1>8, <1>9, <1>10, <1>11, <1>12, <1>13 DEF Next

(* The one it waits for is not followed by another owner. *)
LEMMA KeepsWaits == ASSUME IInv, Calmly, CalmStep, [Next]_vars PROVE Waits'
<1>1. CASE UNCHANGED <<down, claim, downId>>
  BY <1>1 DEF Calmly, Waits
<1>2. CASE Handover
  BY <1>1, <1>2 DEF Handover, HandReuse, HandSpawn, HandInstall, HandSend, HandBind, HandRefused,
     HandCanceled
<1>3. CASE Retirement
  BY <1>3 DEF Calmly, Waits, ClaimHasPhase, Fenced, Starts, Retirement, StopAsked, RetireMark,
     RetireJoin, RetireLock, RetireClose, RetireCommit, RetireLate
<1>4. CASE PumpStep
  BY <1>4 DEF Calmly, Waits, ClaimHasPhase, Fenced, Starts, PumpStep, PumpIgnores, PumpDefers,
     PumpCompletes, PumpRetires, PumpLocks, PumpCloses, PumpCommits, PumpStops, PumpExits
<1>5. CASE Delivery
  BY <1>5 DEF Calmly, Waits, ClaimHasPhase, Fenced, Starts, Delivery, DeliverBegin, DeliverClaim,
     DeliverRefused, DeliverLook, DeliverSteered, DeliverInterrupt
<1>6. CASE StopEnter
  BY <1>1, <1>6 DEF StopEnter
<1>7. CASE SwitchStep
  BY <1>7 DEF Calmly, CalmStep, Waits, ClaimHasPhase, Fenced, Starts, SwitchStep, SwitchEnter,
     SwitchCheck, SwitchRefused, SwitchStopsPump, SwitchCloses
<1>8. CASE DownStep
  BY <1>8 DEF Calmly, Waits, ClaimHasPhase, Fenced, Starts, DownStep, CloseEnter, DownBegin,
     DownWaited, DownTimesOut, DownReap, DownInsert
<1>9. CASE Requests
  BY <1>9 DEF Calmly, CalmStep, Waits, ClaimHasPhase, Fenced, Starts, Requests, DirectSend,
     AcceptInput, StopRequest, SwitchRequest, CloseRequest, DaemonExit
<1>10. CASE Failures
  <2>1. ASSUME NEW x \in Exec, HandFails(x) \/ HandBindUnsaved(x) \/ HandDropped(x) \/ AgentCrash(x)
       \/ AgentRepeats(x) PROVE UNCHANGED <<down, claim, downId>>
    BY <2>1 DEF HandFails, HandBindUnsaved, HandDropped, AgentCrash, AgentRepeats
  <2>2. ASSUME PumpCloseFails \/ SwitchCloseFails PROVE UNCHANGED <<down, claim, downId>>
    BY <2>2 DEF PumpCloseFails, SwitchCloseFails
  <2>3. ASSUME NEW t \in Task, RetireCloseFails(t) PROVE Waits'
    BY <2>3 DEF Calmly, Waits, ClaimHasPhase, Fenced, Starts, RetireCloseFails
  <2>4. ASSUME NEW t \in Task, RetireCommitUnsaved(t) PROVE Waits'
    BY <2>4 DEF Calmly, Waits, ClaimHasPhase, Fenced, Starts, RetireCommitUnsaved
  <2> QED BY <1>10, <1>1, <2>1, <2>2, <2>3, <2>4 DEF Failures, CalmStep
<1>11. CASE AgentStep
  BY <1>1, <1>11 DEF AgentStep, AgentEnds
<1>12. CASE Rest \/ UNCHANGED vars
  BY <1>1, <1>12 DEF Rest, vars
<1> QED BY <1>2, <1>3, <1>4, <1>5, <1>6, <1>7, <1>8, <1>9, <1>10, <1>11, <1>12 DEF Next

(* After the wait the fence keeps senders out. *)
LEMMA KeepsNoneStarts == ASSUME IInv, Calmly, CalmStep, [Next]_vars PROVE NoneStarts'
<1>1. ASSUME NEW t \in Task, Parts(t) PROVE NoneStarts'
  <2>1. \A x \in Exec : Starting(x)' => Starting(x)
    BY <1>1, Retired
  <2>2. down' = down \/ down = "retire"
    BY <1>1, Retired
  <2> QED BY <2>1, <2>2 DEF Calmly, NoneStarts
<1>2. CASE DownWaited
  <2>1. downId \in terminal /\ claim \in {downId, NoExec} /\ task' = task
    BY <1>2 DEF DownWaited, Calmly, Waits
  <2>2. ASSUME NEW x \in Exec, Starting(x) PROVE FALSE
    <3>1. claim = x /\ x \notin terminal
      BY <2>2 DEF Calmly, Starts
    <3> QED BY <2>1, <3>1
  <2> QED BY <2>1, <2>2 DEF NoneStarts
<1>3. ASSUME NEW x \in Exec, DeliverClaim(x) PROVE NoneStarts'
  <2>1. ~closing /\ down' = down
    BY <1>3 DEF DeliverClaim
  <2> QED BY <2>1 DEF Calmly, Fenced, NoneStarts
<1>4. CASE UNCHANGED <<down, task>>
  BY <1>4 DEF Calmly, NoneStarts
<1>5. CASE Handover
  <2>1. ASSUME NEW x \in Exec, HandReuse(x) \/ HandSpawn(x) \/ HandInstall(x) \/ HandSend(x) \/
       HandBind(x) \/ HandRefused(x) \/ HandCanceled(x) PROVE NoneStarts'
    BY <2>1 DEF Calmly, NoneStarts, TaskTypes, Fenced, Waits, Starts, HandReuse, HandSpawn,
       HandInstall, HandSend, HandBind, HandRefused, HandCanceled
  <2> QED BY <1>5, <2>1 DEF Handover
<1>6. CASE Retirement
  <2>1. ASSUME NEW t \in Task, StopAsked(t) \/ RetireMark(t) \/ RetireJoin(t) PROVE NoneStarts'
    BY <2>1 DEF Calmly, NoneStarts, TaskTypes, Fenced, Waits, Starts, StopAsked, RetireMark,
       RetireJoin
  <2>2. ASSUME NEW t \in Task, RetireLock(t) PROVE NoneStarts'
    BY <2>2 DEF Calmly, NoneStarts, TaskTypes, Fenced, Waits, Starts, RetireLock
  <2>3. ASSUME NEW t \in Task, RetireClose(t) PROVE NoneStarts'
    BY <2>3 DEF Calmly, NoneStarts, TaskTypes, Fenced, Waits, Starts, RetireClose
  <2> QED BY <1>6, <1>1, <2>1, <2>2, <2>3 DEF Retirement, Parts
<1>7. CASE PumpStep
  BY <1>4, <1>7 DEF PumpStep, PumpIgnores, PumpDefers, PumpCompletes, PumpRetires, PumpLocks,
     PumpCloses, PumpCommits, PumpStops, PumpExits
<1>8. CASE Delivery
  <2>1. ASSUME DeliverBegin \/ DeliverRefused \/ DeliverLook \/ DeliverSteered PROVE UNCHANGED
       <<down, task>>
    BY <2>1 DEF DeliverBegin, DeliverRefused, DeliverLook, DeliverSteered
  <2>2. CASE DeliverInterrupt
    BY <2>2 DEF Calmly, NoneStarts, TaskTypes, Fenced, Waits, Starts, DeliverInterrupt
  <2> QED BY <1>8, <1>4, <1>3, <2>1, <2>2 DEF Delivery
<1>9. CASE StopEnter
  BY <1>9 DEF Calmly, NoneStarts, TaskTypes, Fenced, Waits, Starts, StopEnter
<1>10. CASE SwitchStep
  BY <1>4, <1>10 DEF SwitchStep, SwitchEnter, SwitchCheck, SwitchRefused, SwitchStopsPump,
     SwitchCloses
<1>11. CASE DownStep
  <2>1. CASE CloseEnter \/ DownBegin \/ DownTimesOut \/ DownReap \/ DownInsert
    BY <2>1 DEF Calmly, NoneStarts, TaskTypes, Fenced, Waits, Starts, CloseEnter, DownBegin,
       DownTimesOut, DownReap, DownInsert
  <2> QED BY <1>11, <1>2, <2>1 DEF DownStep
<1>12. CASE Requests
  BY <1>12 DEF Calmly, CalmStep, NoneStarts, TaskTypes, Fenced, Waits, Starts, Requests, DirectSend,
     AcceptInput, StopRequest, SwitchRequest, CloseRequest, DaemonExit
<1>13. CASE Failures
  <2>1. ASSUME NEW x \in Exec, AgentCrash(x) \/ AgentRepeats(x) PROVE UNCHANGED <<down, task>>
    BY <2>1 DEF AgentCrash, AgentRepeats
  <2>2. ASSUME PumpCloseFails \/ SwitchCloseFails PROVE UNCHANGED <<down, task>>
    BY <2>2 DEF PumpCloseFails, SwitchCloseFails
  <2>3. ASSUME NEW x \in Exec, HandFails(x) \/ HandBindUnsaved(x) \/ HandDropped(x) PROVE
       NoneStarts'
    BY <2>3 DEF Calmly, NoneStarts, TaskTypes, Fenced, Waits, Starts, HandFails, HandBindUnsaved,
       HandDropped
  <2> QED BY <1>13, <1>4, <1>1, <2>1, <2>2, <2>3 DEF Failures, CalmStep, Parts
<1>14. CASE AgentStep
  BY <1>4, <1>14 DEF AgentStep, AgentEnds
<1>15. CASE Rest \/ UNCHANGED vars
  BY <1>4, <1>15 DEF Rest, vars
<1> QED BY <1>5, <1>6, <1>7, <1>8, <1>9, <1>10, <1>11, <1>12, <1>13, <1>14, <1>15 DEF Next

(* What a shutdown retires stays the owner until its agent is gone. *)
LEMMA KeepsDowns == ASSUME IInv, Calmly, CalmStep, [Next]_vars PROVE Downs'
<1>1. ASSUME NEW x \in Exec, HandInstall(x) PROVE Downs'
  <2>1. Starting(x) /\ \A y \in Exec : task'[<<"down", y>>] = task[<<"down", y>>]
    BY <1>1 DEF HandInstall, TaskTypes
  <2>2. \A y \in Exec : ~Active(<<"down", y>>)
    BY <2>1 DEF Calmly, NoneStarts, Downs
  <2> QED BY <2>1, <2>2 DEF Downs
<1>2. ASSUME NEW t \in Task, RetireCommit(t) \/ RetireCloseFails(t) \/ RetireCommitUnsaved(t) \/
     RetireLate(t) PROVE Downs'
  <2> SUFFICES ASSUME NEW x \in Exec, Active(<<"down", x>>)'
               PROVE  /\ down' = "retire" /\ claim' \in {x, NoExec}
                      /\ task'[<<"down", x>>] \in RetireStages
                      /\ task'[<<"down", x>>] # "mark" /\ claim' = NoExec => agent' = NoExec
    BY DEF Downs
  <2>0. task'[<<"down", x>>] = IF t = <<"down", x>> THEN "idle" ELSE task[<<"down", x>>]
    <3>1. \A y \in Exec, kind \in {"hand", "down"} :
            task'[<<kind, y>>] = IF t = <<kind, y>> THEN "idle" ELSE task[<<kind, y>>]
      BY <1>2, Retired DEF Parts
    <3> HIDE DEF Task, Exec
    <3> QED BY <3>1
  <2>1. Active(<<"down", x>>) /\ task'[<<"down", x>>] = task[<<"down", x>>] /\ t # <<"down", x>>
    BY <2>0
  <2>2. t[1] # "down"
    <3>1. task[t] \in RetireStages /\ t = <<t[1], t[2]>> /\ t[2] \in Exec
      BY <1>2, Retired, TaskOf DEF Parts
    <3> QED BY <2>1, <3>1 DEF Calmly, OneDown
  <2>3. down' = down /\ agent' = agent
    BY <2>2, <1>2, Retired DEF Parts
  <2>4. claim' = claim \/ (claim' = NoExec /\ agent = NoExec)
    BY <2>2, <1>2 DEF RetireCommit, RetireCloseFails, RetireCommitUnsaved, RetireLate, RetireOwns
  <2> QED BY <2>1, <2>3, <2>4 DEF Calmly, Downs
<1>3. CASE PumpCommits
  <2>1. agent = NoExec /\ UNCHANGED <<agent, task, down>> /\ claim' \in {claim, NoExec}
    BY <1>3 DEF PumpCommits, PumpOwns
  <2> QED BY <2>1 DEF Calmly, Downs
<1>4. ASSUME NEW x \in Exec, PumpCompletes(x) PROVE Downs'
  <2>1. UNCHANGED <<agent, task, down>> /\ claim' \in {claim, NoExec}
    BY <1>4 DEF PumpCompletes
  <2>2. ASSUME NEW y \in Exec, Active(<<"down", y>>), task[<<"down", y>>] # "mark", claim # claim'
        PROVE  agent = NoExec
    <3>1. claim = y /\ task[<<"down", y>>] \in {"join", "lock", "close", "commit"}
      BY <2>1, <2>2 DEF Calmly, Downs
    <3>2. y \in canceled
      BY <3>1, TaskOf DEF RetireOwns
    <3> QED BY <1>4, <2>2, <3>1, <3>2 DEF PumpCompletes, SavingIsQuiet, CancelIsKept, ClaimHasPhase, ClaimTypes
  <2> QED BY <2>1, <2>2 DEF Calmly, Downs
<1>5. CASE SwitchCheck
  <2>1. UNCHANGED <<agent, task, down>> /\ claim' \in {claim, NoExec}
    BY <1>5 DEF SwitchCheck
  <2>2. ASSUME NEW y \in Exec, Active(<<"down", y>>), task[<<"down", y>>] # "mark", claim # claim'
        PROVE  agent = NoExec
    <3>1. claim = y /\ task[<<"down", y>>] \in {"join", "lock", "close", "commit"}
      BY <2>1, <2>2 DEF Calmly, Downs
    <3>2. y \in canceled
      BY <3>1, TaskOf DEF RetireOwns
    <3> QED BY <1>5, <2>2, <3>1, <3>2 DEF SwitchCheck, SavingIsQuiet, CancelIsKept, ClaimHasPhase, ClaimTypes
  <2> QED BY <2>1, <2>2 DEF Calmly, Downs
<1>6. ASSUME NEW t \in Task, RetireMark(t) PROVE Downs'
  <2>1. \A u \in Task : task'[u] = IF u = t THEN "join" ELSE task[u]
    BY <1>6 DEF RetireMark, TaskTypes
  <2>2. UNCHANGED <<claim, agent, down>> /\ claim = t[2] /\ task[t] = "mark"
    BY <1>6 DEF RetireMark
  <2>3. t[2] # NoExec
    BY TaskOf
  <2> QED BY <2>1, <2>2, <2>3, TaskOf DEF Calmly, Downs
<1>7. CASE UNCHANGED <<task, down, claim, agent>>
  BY <1>7 DEF Calmly, Downs
<1>8. CASE Handover
  <2>1. ASSUME NEW x \in Exec, HandReuse(x) PROVE Downs'
    BY <2>1 DEF Calmly, Downs, ClaimTypes, TaskTypes, UserTypes, Fenced, HandReuse
  <2>2. ASSUME NEW x \in Exec, HandSpawn(x) PROVE Downs'
    BY <2>2 DEF Calmly, Downs, ClaimTypes, TaskTypes, UserTypes, Fenced, HandSpawn
  <2>3. ASSUME NEW x \in Exec, HandSend(x) PROVE Downs'
    BY <2>3 DEF Calmly, Downs, ClaimTypes, TaskTypes, UserTypes, Fenced, HandSend
  <2>4. ASSUME NEW x \in Exec, HandBind(x) PROVE Downs'
    BY <2>4 DEF Calmly, Downs, ClaimTypes, TaskTypes, UserTypes, Fenced, HandBind
  <2>5. ASSUME NEW x \in Exec, HandRefused(x) PROVE Downs'
    BY <2>5 DEF Calmly, Downs, ClaimTypes, TaskTypes, UserTypes, Fenced, HandRefused
  <2>6. ASSUME NEW x \in Exec, HandCanceled(x) PROVE Downs'
    BY <2>6 DEF Calmly, Downs, ClaimTypes, TaskTypes, UserTypes, Fenced, HandCanceled
  <2> QED BY <1>8, <1>1, <2>1, <2>2, <2>3, <2>4, <2>5, <2>6 DEF Handover
<1>9. CASE Retirement
  <2>1. ASSUME NEW t \in Task, StopAsked(t) PROVE Downs'
    BY <2>1 DEF Calmly, Downs, ClaimTypes, TaskTypes, UserTypes, Fenced, StopAsked
  <2>2. ASSUME NEW t \in Task, RetireJoin(t) PROVE Downs'
    BY <2>2 DEF Calmly, Downs, ClaimTypes, TaskTypes, UserTypes, Fenced, RetireJoin
  <2>3. ASSUME NEW t \in Task, RetireLock(t) PROVE Downs'
    BY <2>3 DEF Calmly, Downs, ClaimTypes, TaskTypes, UserTypes, Fenced, RetireLock
  <2>4. ASSUME NEW t \in Task, RetireClose(t) PROVE Downs'
    BY <2>4 DEF Calmly, Downs, ClaimTypes, TaskTypes, UserTypes, Fenced, RetireClose
  <2> QED BY <1>9, <1>6, <1>2, <2>1, <2>2, <2>3, <2>4 DEF Retirement
<1>10. CASE PumpStep
  <2>1. ASSUME NEW x \in Exec, PumpIgnores(x) \/ PumpDefers(x) \/ PumpRetires(x) PROVE UNCHANGED
       <<task, down, claim, agent>>
    BY <2>1 DEF PumpIgnores, PumpDefers, PumpRetires
  <2>2. ASSUME PumpLocks \/ PumpStops \/ PumpExits PROVE UNCHANGED <<task, down, claim, agent>>
    BY <2>2 DEF PumpLocks, PumpStops, PumpExits
  <2>3. CASE PumpCloses
    BY <2>3 DEF Calmly, Downs, ClaimTypes, TaskTypes, UserTypes, Fenced, PumpCloses
  <2> QED BY <1>10, <1>7, <1>4, <1>3, <2>1, <2>2, <2>3 DEF PumpStep
<1>11. CASE Delivery
  <2>1. ASSUME DeliverBegin \/ DeliverRefused \/ DeliverLook \/ DeliverSteered PROVE UNCHANGED
       <<task, down, claim, agent>>
    BY <2>1 DEF DeliverBegin, DeliverRefused, DeliverLook, DeliverSteered
  <2>2. CASE DeliverInterrupt
    BY <2>2 DEF Calmly, Downs, ClaimTypes, TaskTypes, UserTypes, Fenced, DeliverInterrupt
  <2>3. ASSUME NEW x \in Exec, DeliverClaim(x) PROVE Downs'
    BY <2>3 DEF Calmly, Downs, ClaimTypes, TaskTypes, UserTypes, Fenced, DeliverClaim
  <2> QED BY <1>11, <1>7, <2>1, <2>2, <2>3 DEF Delivery
<1>12. CASE StopEnter
  BY <1>12 DEF Calmly, Downs, ClaimTypes, TaskTypes, UserTypes, Fenced, StopEnter
<1>13. CASE SwitchStep
  <2>1. ASSUME SwitchEnter \/ SwitchRefused \/ SwitchStopsPump PROVE UNCHANGED <<task, down, claim,
       agent>>
    BY <2>1 DEF SwitchEnter, SwitchRefused, SwitchStopsPump
  <2>2. CASE SwitchCloses
    BY <2>2 DEF Calmly, Downs, ClaimTypes, TaskTypes, UserTypes, Fenced, SwitchCloses
  <2> QED BY <1>13, <1>7, <1>5, <2>1, <2>2 DEF SwitchStep
<1>14. CASE DownStep
  <2>1. CASE CloseEnter \/ DownBegin \/ DownWaited
    BY <2>1 DEF Calmly, Downs, ClaimTypes, TaskTypes, UserTypes, Fenced, CloseEnter, DownBegin,
       DownWaited
  <2>2. CASE DownTimesOut
    BY <2>2 DEF Calmly, Downs, ClaimTypes, TaskTypes, UserTypes, Fenced, DownTimesOut
  <2>3. CASE DownReap
    BY <2>3 DEF Calmly, Downs, ClaimTypes, TaskTypes, UserTypes, Fenced, DownReap
  <2>4. CASE DownInsert
    BY <2>4 DEF Calmly, Downs, ClaimTypes, TaskTypes, UserTypes, Fenced, DownInsert
  <2> QED BY <1>14, <2>1, <2>2, <2>3, <2>4 DEF DownStep
<1>15. CASE Requests
  <2>1. ASSUME AcceptInput \/ StopRequest \/ SwitchRequest PROVE UNCHANGED <<task, down, claim,
       agent>>
    BY <2>1 DEF AcceptInput, StopRequest, SwitchRequest
  <2>2. ASSUME NEW x \in Exec, DirectSend(x) PROVE Downs'
    BY <2>2 DEF Calmly, CalmStep, Downs, ClaimTypes, TaskTypes, UserTypes, Fenced, DirectSend
  <2>3. CASE CloseRequest \/ DaemonExit
    BY <2>3 DEF Calmly, Downs, ClaimTypes, TaskTypes, UserTypes, Fenced, CloseRequest, DaemonExit
  <2> QED BY <1>15, <1>7, <2>1, <2>2, <2>3 DEF Requests
<1>16. CASE Failures
  <2>1. ASSUME NEW x \in Exec, AgentCrash(x) \/ AgentRepeats(x) PROVE UNCHANGED <<task, down, claim,
       agent>>
    BY <2>1 DEF AgentCrash, AgentRepeats
  <2>2. ASSUME PumpCloseFails \/ SwitchCloseFails PROVE UNCHANGED <<task, down, claim, agent>>
    BY <2>2 DEF PumpCloseFails, SwitchCloseFails
  <2>3. ASSUME NEW x \in Exec, HandFails(x) PROVE Downs'
    BY <2>3 DEF Calmly, Downs, ClaimTypes, TaskTypes, UserTypes, Fenced, HandFails
  <2>4. ASSUME NEW x \in Exec, HandBindUnsaved(x) PROVE Downs'
    BY <2>4 DEF Calmly, Downs, ClaimTypes, TaskTypes, UserTypes, Fenced, HandBindUnsaved
  <2>5. ASSUME NEW x \in Exec, HandDropped(x) PROVE Downs'
    BY <2>5 DEF Calmly, Downs, ClaimTypes, TaskTypes, UserTypes, Fenced, HandDropped
  <2> QED BY <1>16, <1>7, <1>2, <2>1, <2>2, <2>3, <2>4, <2>5 DEF Failures, CalmStep
<1>17. CASE AgentStep
  BY <1>7, <1>17 DEF AgentStep, AgentEnds
<1>18. CASE Rest \/ UNCHANGED vars
  BY <1>7, <1>18 DEF Rest, vars
<1> QED BY <1>8, <1>9, <1>10, <1>11, <1>12, <1>13, <1>14, <1>15, <1>16, <1>17, <1>18 DEF Next

(* A shutdown retires one execution at a time. *)
LEMMA KeepsOneDown == ASSUME IInv, Calmly, CalmStep, [Next]_vars PROVE OneDown'
<1>1. ASSUME NEW x \in Exec, HandReuse(x) \/ HandSpawn(x) \/ HandInstall(x) \/ HandSend(x) \/
     HandBind(x) \/ HandRefused(x) \/ HandCanceled(x) \/ HandFails(x) \/ HandBindUnsaved(x) PROVE
     OneDown'
  <2>1. \A y \in Exec : task'[<<"down", y>>] = task[<<"down", y>>]
    BY <1>1 DEF HandReuse, HandSpawn, HandInstall, HandSend, HandBind, HandRefused, HandCanceled, HandFails, HandBindUnsaved, TaskTypes
  <2> QED BY <2>1 DEF Calmly, OneDown
<1>2. ASSUME NEW x \in Exec, HandDropped(x) PROVE OneDown'
  <2>1. \A y \in Exec : task'[<<"down", y>>] = task[<<"down", y>>]
    BY <1>2, Dropped
  <2> QED BY <2>1 DEF Calmly, OneDown
<1>3. ASSUME NEW t \in Task, StopAsked(t) \/ RetireMark(t) \/ RetireJoin(t) \/ RetireLock(t) \/
     RetireClose(t) PROVE OneDown'
  <2>1. \A y \in Exec : Active(<<"down", y>>)' => Active(<<"down", y>>)
    BY <1>3 DEF StopAsked, RetireMark, RetireJoin, RetireLock, RetireClose, TaskTypes
  <2> QED BY <2>1 DEF Calmly, OneDown
<1>4. ASSUME NEW t \in Task, Parts(t) PROVE OneDown'
  <2>1. \A y \in Exec : Active(<<"down", y>>)' => Active(<<"down", y>>)
    BY <1>4, Retired
  <2> QED BY <2>1 DEF Calmly, OneDown
<1>5. CASE UNCHANGED task
  BY <1>5 DEF Calmly, OneDown
<1>6. CASE Handover
  BY <1>6, <1>1 DEF Handover
<1>7. CASE Retirement
  BY <1>7, <1>3, <1>4 DEF Retirement, Parts
<1>8. CASE PumpStep
  BY <1>5, <1>8 DEF PumpStep, PumpIgnores, PumpDefers, PumpCompletes, PumpRetires, PumpLocks,
     PumpCloses, PumpCommits, PumpStops, PumpExits
<1>9. CASE Delivery
  <2>1. ASSUME DeliverBegin \/ DeliverRefused \/ DeliverLook \/ DeliverSteered PROVE UNCHANGED task
    BY <2>1 DEF DeliverBegin, DeliverRefused, DeliverLook, DeliverSteered
  <2>2. CASE DeliverInterrupt
    BY <2>2 DEF Calmly, OneDown, TaskTypes, Downs, ClaimTypes, DeliverInterrupt
  <2>3. ASSUME NEW x \in Exec, DeliverClaim(x) PROVE OneDown'
    BY <2>3 DEF Calmly, OneDown, TaskTypes, Downs, ClaimTypes, DeliverClaim
  <2> QED BY <1>9, <1>5, <2>1, <2>2, <2>3 DEF Delivery
<1>10. CASE StopEnter
  BY <1>10 DEF Calmly, OneDown, TaskTypes, Downs, ClaimTypes, StopEnter
<1>11. CASE SwitchStep
  BY <1>5, <1>11 DEF SwitchStep, SwitchEnter, SwitchCheck, SwitchRefused, SwitchStopsPump,
     SwitchCloses
<1>12. CASE DownStep
  <2>1. ASSUME CloseEnter \/ DownBegin \/ DownWaited \/ DownTimesOut PROVE UNCHANGED task
    BY <2>1 DEF CloseEnter, DownBegin, DownWaited, DownTimesOut
  <2>2. CASE DownReap
    BY <2>2 DEF Calmly, OneDown, TaskTypes, Downs, ClaimTypes, DownReap
  <2>3. CASE DownInsert
    BY <2>3 DEF Calmly, OneDown, TaskTypes, Downs, ClaimTypes, DownInsert
  <2> QED BY <1>12, <1>5, <2>1, <2>2, <2>3 DEF DownStep
<1>13. CASE Requests
  <2>1. ASSUME AcceptInput \/ StopRequest \/ SwitchRequest \/ CloseRequest \/ DaemonExit PROVE
       UNCHANGED task
    BY <2>1 DEF AcceptInput, StopRequest, SwitchRequest, CloseRequest, DaemonExit
  <2>2. ASSUME NEW x \in Exec, DirectSend(x) PROVE OneDown'
    BY <2>2 DEF Calmly, CalmStep, OneDown, TaskTypes, Downs, ClaimTypes, DirectSend
  <2> QED BY <1>13, <1>5, <2>1, <2>2 DEF Requests
<1>14. CASE Failures
  <2>1. ASSUME NEW x \in Exec, AgentCrash(x) \/ AgentRepeats(x) PROVE UNCHANGED task
    BY <2>1 DEF AgentCrash, AgentRepeats
  <2>2. ASSUME PumpCloseFails \/ SwitchCloseFails PROVE UNCHANGED task
    BY <2>2 DEF PumpCloseFails, SwitchCloseFails
  <2> QED BY <1>14, <1>5, <1>1, <1>2, <1>4, <2>1, <2>2 DEF Failures, CalmStep, Parts
<1>15. CASE AgentStep
  BY <1>5, <1>15 DEF AgentStep, AgentEnds
<1>16. CASE Rest \/ UNCHANGED vars
  BY <1>5, <1>16 DEF Rest, vars
<1> QED BY <1>6, <1>7, <1>8, <1>9, <1>10, <1>11, <1>12, <1>13, <1>14, <1>15, <1>16 DEF Next

(* The delivery task runs as long as its handover. *)
LEMMA KeepsDelivers == ASSUME IInv, Calmly, CalmStep, [Next]_vars PROVE Delivers'
<1>1. ASSUME NEW x \in Exec, HandBind(x) PROVE Delivers'
  <2>1. \A u \in Task : task'[u] = IF u = <<"hand", x>> THEN "idle" ELSE task[u]
    BY <1>1 DEF HandBind, TaskTypes
  <2>2. Active(<<"hand", x>>) /\ prepared' = prepared
        /\ deliver' = IF x \in prepared THEN "idle" ELSE deliver
    BY <1>1 DEF HandBind
  <2>3. prepared \subseteq Exec
    BY DEF TaskTypes
  <2> QED BY <2>1, <2>2, <2>3, TaskOf DEF Calmly, Delivers, OneHand
<1>2. ASSUME NEW t \in Task, Parts(t) PROVE Delivers'
  <2> SUFFICES ASSUME NEW x \in prepared', Active(<<"hand", x>>)' PROVE deliver' = "hand"
    BY DEF Delivers
  <2>1. x \in prepared /\ x \in Exec
    BY <1>2, Retired DEF TaskTypes
  <2>0. task'[<<"hand", x>>] = IF t = <<"hand", x>> THEN "idle" ELSE task[<<"hand", x>>]
    <3>1. \A y \in Exec, kind \in {"hand", "down"} :
            task'[<<kind, y>>] = IF t = <<kind, y>> THEN "idle" ELSE task[<<kind, y>>]
      BY <1>2, Retired
    <3> HIDE DEF Task, Exec
    <3> QED BY <2>1, <3>1
  <2>2. Active(<<"hand", x>>) /\ t # <<"hand", x>>
    BY <2>0
  <2>3. deliver = "hand"
    BY <2>1, <2>2 DEF Calmly, Delivers
  <2>4. task[t] \in RetireStages /\ t = <<t[1], t[2]>>
    BY <1>2, Retired, TaskOf
  <2>5. ~IsDelivery(t)
    <3> SUFFICES ASSUME t[1] = "hand", t[2] \in prepared PROVE FALSE
      OBVIOUS
    <3>1. Active(<<"hand", t[2]>>)
      BY <2>4
    <3> QED BY <2>1, <2>2, <2>4, <3>1 DEF Calmly, OneHand
  <2> QED BY <2>3, <2>5, <1>2, Retired
<1>3. CASE DownReap
  <2>1. \A x \in prepared : task'[<<"hand", x>>] = "idle"
    <3> SUFFICES ASSUME NEW x \in prepared PROVE task'[<<"hand", x>>] = "idle"
      OBVIOUS
    <3>1. <<"hand", x>> \in Task
      BY TaskOf DEF TaskTypes
    <3>2. task'[<<"hand", x>>] = IF <<"hand", x>> \in Spawned THEN "idle" ELSE task[<<"hand", x>>]
      BY <3>1, <1>3 DEF DownReap
    <3> QED BY <3>1, <3>2 DEF Spawned
  <2> QED BY <2>1, <1>3 DEF Delivers, DownReap
<1>4. CASE UNCHANGED <<prepared, task, deliver>>
  BY <1>4 DEF Calmly, Delivers
<1>5. CASE Handover
  <2>1. ASSUME NEW x \in Exec, HandReuse(x) \/ HandSpawn(x) \/ HandInstall(x) \/ HandSend(x) \/
       HandRefused(x) \/ HandCanceled(x) PROVE Delivers'
    BY <2>1 DEF Calmly, Delivers, TaskTypes, Numbers, ClaimTypes, HandReuse, HandSpawn, HandInstall,
       HandSend, HandRefused, HandCanceled
  <2> QED BY <1>5, <1>1, <2>1 DEF Handover
<1>6. CASE Retirement
  <2>1. ASSUME NEW t \in Task, StopAsked(t) \/ RetireMark(t) \/ RetireJoin(t) \/ RetireLock(t) \/
       RetireClose(t) PROVE Delivers'
    BY <2>1 DEF Calmly, Delivers, TaskTypes, Numbers, ClaimTypes, StopAsked, RetireMark, RetireJoin,
       RetireLock, RetireClose
  <2> QED BY <1>6, <1>2, <2>1 DEF Retirement, Parts
<1>7. CASE PumpStep
  BY <1>4, <1>7 DEF PumpStep, PumpIgnores, PumpDefers, PumpCompletes, PumpRetires, PumpLocks,
     PumpCloses, PumpCommits, PumpStops, PumpExits
<1>8. CASE Delivery
  <2>1. CASE DeliverBegin \/ DeliverRefused \/ DeliverLook
    BY <2>1 DEF Calmly, Delivers, TaskTypes, Numbers, ClaimTypes, DeliverBegin, DeliverRefused,
       DeliverLook
  <2>2. CASE DeliverSteered \/ DeliverInterrupt
    BY <2>2 DEF Calmly, Delivers, TaskTypes, Numbers, ClaimTypes, DeliverSteered, DeliverInterrupt
  <2>3. ASSUME NEW x \in Exec, DeliverClaim(x) PROVE Delivers'
    BY <2>3 DEF Calmly, Delivers, TaskTypes, Numbers, ClaimTypes, DeliverClaim
  <2> QED BY <1>8, <2>1, <2>2, <2>3 DEF Delivery
<1>9. CASE StopEnter
  BY <1>9 DEF Calmly, Delivers, TaskTypes, Numbers, ClaimTypes, StopEnter
<1>10. CASE SwitchStep
  BY <1>4, <1>10 DEF SwitchStep, SwitchEnter, SwitchCheck, SwitchRefused, SwitchStopsPump,
     SwitchCloses
<1>11. CASE DownStep
  <2>1. ASSUME CloseEnter \/ DownBegin \/ DownWaited \/ DownTimesOut PROVE UNCHANGED <<prepared,
       task, deliver>>
    BY <2>1 DEF CloseEnter, DownBegin, DownWaited, DownTimesOut
  <2>2. CASE DownInsert
    BY <2>2 DEF Calmly, Delivers, TaskTypes, Numbers, ClaimTypes, DownInsert
  <2> QED BY <1>11, <1>4, <1>3, <2>1, <2>2 DEF DownStep
<1>12. CASE Requests
  <2>1. ASSUME AcceptInput \/ StopRequest \/ SwitchRequest \/ CloseRequest \/ DaemonExit PROVE
       UNCHANGED <<prepared, task, deliver>>
    BY <2>1 DEF AcceptInput, StopRequest, SwitchRequest, CloseRequest, DaemonExit
  <2>2. ASSUME NEW x \in Exec, DirectSend(x) PROVE Delivers'
    BY <2>2 DEF Calmly, CalmStep, Delivers, TaskTypes, Numbers, ClaimTypes, DirectSend
  <2> QED BY <1>12, <1>4, <2>1, <2>2 DEF Requests
<1>13. CASE Failures
  <2>1. ASSUME NEW x \in Exec, AgentCrash(x) \/ AgentRepeats(x) PROVE UNCHANGED <<prepared, task,
       deliver>>
    BY <2>1 DEF AgentCrash, AgentRepeats
  <2>2. ASSUME PumpCloseFails \/ SwitchCloseFails PROVE UNCHANGED <<prepared, task, deliver>>
    BY <2>2 DEF PumpCloseFails, SwitchCloseFails
  <2>3. ASSUME NEW x \in Exec, HandFails(x) \/ HandBindUnsaved(x) \/ HandDropped(x) PROVE Delivers'
    BY <2>3 DEF Calmly, Delivers, TaskTypes, Numbers, ClaimTypes, HandFails, HandBindUnsaved,
       HandDropped
  <2> QED BY <1>13, <1>4, <1>2, <2>1, <2>2, <2>3 DEF Failures, CalmStep, Parts
<1>14. CASE AgentStep
  BY <1>4, <1>14 DEF AgentStep, AgentEnds
<1>15. CASE Rest \/ UNCHANGED vars
  BY <1>4, <1>15 DEF Rest, vars
<1> QED BY <1>5, <1>6, <1>7, <1>8, <1>9, <1>10, <1>11, <1>12, <1>13, <1>14, <1>15 DEF Next

(* One delivery at a time. *)
LEMMA KeepsOneHand == ASSUME IInv, Calmly, CalmStep, [Next]_vars PROVE OneHand'
<1>1. ASSUME NEW x \in Exec, HandDropped(x) PROVE OneHand'
  <2>1. prepared' = prepared /\ prepared \subseteq Exec
    BY <1>1 DEF HandDropped, TaskTypes
  <2>2. \A y \in Exec : Active(<<"hand", y>>)' => Active(<<"hand", y>>)
    <3> HIDE DEF Task, Exec
    <3> QED BY <1>1, Dropped
  <2> QED BY <2>1, <2>2 DEF Calmly, OneHand
<1>2. ASSUME NEW t \in Task, Parts(t) PROVE OneHand'
  <2>1. prepared' = prepared /\ prepared \subseteq Exec
    BY <1>2, Retired DEF TaskTypes
  <2>2. \A y \in Exec : Active(<<"hand", y>>)' => Active(<<"hand", y>>)
    BY <1>2, Retired
  <2> QED BY <2>1, <2>2 DEF Calmly, OneHand
<1>3. ASSUME NEW x \in Exec, HandReuse(x) \/ HandSpawn(x) \/ HandInstall(x) \/ HandSend(x) \/
     HandBind(x) \/ HandRefused(x) \/ HandCanceled(x) \/ HandFails(x) \/ HandBindUnsaved(x) PROVE
     OneHand'
  <2>1. \A y \in Exec : Active(<<"hand", y>>)' => Active(<<"hand", y>>)
    BY <1>3 DEF HandReuse, HandSpawn, HandInstall, HandSend, HandBind, HandRefused, HandCanceled, HandFails, HandBindUnsaved, TaskTypes
  <2>2. prepared' = prepared /\ prepared \subseteq Exec
    BY <1>3 DEF HandReuse, HandSpawn, HandInstall, HandSend, HandBind, HandRefused, HandCanceled, HandFails, HandBindUnsaved, TaskTypes
  <2> QED BY <2>1, <2>2 DEF Calmly, OneHand
<1>4. ASSUME NEW t \in Task, StopAsked(t) \/ RetireMark(t) \/ RetireJoin(t) \/ RetireLock(t) \/
     RetireClose(t) PROVE OneHand'
  <2>1. \A y \in Exec : Active(<<"hand", y>>)' => Active(<<"hand", y>>)
    BY <1>4 DEF StopAsked, RetireMark, RetireJoin, RetireLock, RetireClose, TaskTypes
  <2>2. prepared' = prepared /\ prepared \subseteq Exec
    BY <1>4 DEF StopAsked, RetireMark, RetireJoin, RetireLock, RetireClose, TaskTypes
  <2> QED BY <2>1, <2>2 DEF Calmly, OneHand
<1>5. CASE UNCHANGED <<prepared, task>>
  BY <1>5 DEF Calmly, OneHand
<1>6. CASE Handover
  BY <1>6, <1>3 DEF Handover
<1>7. CASE Retirement
  BY <1>7, <1>4, <1>2 DEF Retirement, Parts
<1>8. CASE PumpStep
  BY <1>5, <1>8 DEF PumpStep, PumpIgnores, PumpDefers, PumpCompletes, PumpRetires, PumpLocks,
     PumpCloses, PumpCommits, PumpStops, PumpExits
<1>9. CASE Delivery
  <2>1. ASSUME DeliverBegin \/ DeliverRefused \/ DeliverLook \/ DeliverSteered PROVE UNCHANGED
       <<prepared, task>>
    BY <2>1 DEF DeliverBegin, DeliverRefused, DeliverLook, DeliverSteered
  <2>2. CASE DeliverInterrupt
    BY <2>2 DEF Calmly, OneHand, TaskTypes, Numbers, ClaimTypes, Delivers, DeliverInterrupt
  <2>3. ASSUME NEW x \in Exec, DeliverClaim(x) PROVE OneHand'
    BY <2>3 DEF Calmly, OneHand, TaskTypes, Numbers, ClaimTypes, Delivers, DeliverClaim
  <2> QED BY <1>9, <1>5, <2>1, <2>2, <2>3 DEF Delivery
<1>10. CASE StopEnter
  BY <1>10 DEF Calmly, OneHand, TaskTypes, Numbers, ClaimTypes, Delivers, StopEnter
<1>11. CASE SwitchStep
  BY <1>5, <1>11 DEF SwitchStep, SwitchEnter, SwitchCheck, SwitchRefused, SwitchStopsPump,
     SwitchCloses
<1>12. CASE DownStep
  <2>1. ASSUME CloseEnter \/ DownBegin \/ DownWaited \/ DownTimesOut PROVE UNCHANGED <<prepared,
       task>>
    BY <2>1 DEF CloseEnter, DownBegin, DownWaited, DownTimesOut
  <2>2. CASE DownReap
    BY <2>2 DEF Calmly, OneHand, TaskTypes, Numbers, ClaimTypes, Delivers, DownReap
  <2>3. CASE DownInsert
    BY <2>3 DEF Calmly, OneHand, TaskTypes, Numbers, ClaimTypes, Delivers, DownInsert
  <2> QED BY <1>12, <1>5, <2>1, <2>2, <2>3 DEF DownStep
<1>13. CASE Requests
  <2>1. ASSUME AcceptInput \/ StopRequest \/ SwitchRequest \/ CloseRequest \/ DaemonExit PROVE
       UNCHANGED <<prepared, task>>
    BY <2>1 DEF AcceptInput, StopRequest, SwitchRequest, CloseRequest, DaemonExit
  <2>2. ASSUME NEW x \in Exec, DirectSend(x) PROVE OneHand'
    BY <2>2 DEF Calmly, CalmStep, OneHand, TaskTypes, Numbers, ClaimTypes, Delivers, DirectSend
  <2> QED BY <1>13, <1>5, <2>1, <2>2 DEF Requests
<1>14. CASE Failures
  <2>1. ASSUME NEW x \in Exec, AgentCrash(x) \/ AgentRepeats(x) PROVE UNCHANGED <<prepared, task>>
    BY <2>1 DEF AgentCrash, AgentRepeats
  <2>2. ASSUME PumpCloseFails \/ SwitchCloseFails PROVE UNCHANGED <<prepared, task>>
    BY <2>2 DEF PumpCloseFails, SwitchCloseFails
  <2> QED BY <1>14, <1>5, <1>3, <1>1, <1>2, <2>1, <2>2 DEF Failures, CalmStep, Parts
<1>15. CASE AgentStep
  BY <1>5, <1>15 DEF AgentStep, AgentEnds
<1>16. CASE Rest \/ UNCHANGED vars
  BY <1>5, <1>16 DEF Rest, vars
<1> QED BY <1>6, <1>7, <1>8, <1>9, <1>10, <1>11, <1>12, <1>13, <1>14, <1>15, <1>16 DEF Next

(* interaction_lock is let go of by who holds it. *)
LEMMA KeepsLocks == ASSUME IInv, Calmly, CalmStep, [Next]_vars PROVE Locks'
<1>1. ASSUME NEW t \in Task, Parts(t) PROVE Locks'
  <2>1. switch' = switch
    BY <1>1, Retired
  <2> QED BY <2>1, <1>1, Retired DEF Calmly, Locks
<1>2. CASE UNCHANGED <<deliver, interaction, switch>>
  BY <1>2 DEF Calmly, Locks
<1>3. CASE Handover
  BY <1>3 DEF Calmly, Locks, Delivers, Handover, HandReuse, HandSpawn, HandInstall, HandSend,
     HandBind, HandRefused, HandCanceled
<1>4. CASE Retirement
  BY <1>4 DEF Calmly, Locks, Delivers, Retirement, StopAsked, RetireMark, RetireJoin, RetireLock,
     RetireClose, RetireCommit, RetireLate
<1>5. CASE PumpStep
  BY <1>2, <1>5 DEF PumpStep, PumpIgnores, PumpDefers, PumpCompletes, PumpRetires, PumpLocks,
     PumpCloses, PumpCommits, PumpStops, PumpExits
<1>6. CASE Delivery
  BY <1>6 DEF Calmly, Locks, Delivers, Delivery, DeliverBegin, DeliverClaim, DeliverRefused,
     DeliverLook, DeliverSteered, DeliverInterrupt
<1>7. CASE StopEnter
  BY <1>2, <1>7 DEF StopEnter
<1>8. CASE SwitchStep
  BY <1>8 DEF Calmly, CalmStep, Locks, Delivers, SwitchStep, SwitchEnter, SwitchCheck,
     SwitchRefused, SwitchStopsPump, SwitchCloses
<1>9. CASE DownStep
  BY <1>9 DEF Calmly, Locks, Delivers, DownStep, CloseEnter, DownBegin, DownWaited, DownTimesOut,
     DownReap, DownInsert
<1>10. CASE Requests
  BY <1>10 DEF Calmly, CalmStep, Locks, Delivers, Requests, DirectSend, AcceptInput, StopRequest,
     SwitchRequest, CloseRequest, DaemonExit
<1>11. CASE Failures
  <2>1. ASSUME NEW x \in Exec, HandFails(x) \/ HandBindUnsaved(x) \/ HandDropped(x) \/ AgentCrash(x)
       \/ AgentRepeats(x) PROVE UNCHANGED <<deliver, interaction, switch>>
    BY <2>1 DEF HandFails, HandBindUnsaved, HandDropped, AgentCrash, AgentRepeats
  <2>2. ASSUME PumpCloseFails PROVE UNCHANGED <<deliver, interaction, switch>>
    BY <2>2 DEF PumpCloseFails
  <2>3. CASE SwitchCloseFails
    BY <2>3 DEF Calmly, CalmStep, Locks, Delivers, SwitchCloseFails
  <2> QED BY <1>11, <1>2, <1>1, <2>1, <2>2, <2>3 DEF Failures, CalmStep, Parts
<1>12. CASE AgentStep
  BY <1>2, <1>12 DEF AgentStep, AgentEnds
<1>13. CASE Rest \/ UNCHANGED vars
  BY <1>2, <1>13 DEF Rest, vars
<1> QED BY <1>3, <1>4, <1>5, <1>6, <1>7, <1>8, <1>9, <1>10, <1>11, <1>12, <1>13 DEF Next

(* Nothing takes the session that a switch has found free, except a shutdown. *)
LEMMA KeepsSwitches == ASSUME IInv, Calmly, CalmStep, [Next]_vars PROVE Switches'
<1>1. ASSUME NEW t \in Task, RetireLate(t) PROVE Switches'
  <2>1. UNCHANGED <<switch, closing, bound>> /\ claim' \in {claim, NoExec}
    BY <1>1 DEF RetireLate
  <2>2. \A x \in Exec : Active(<<"hand", x>>)' => Active(<<"hand", x>>)
    BY <1>1, Retired DEF Parts
  <2>3. claim \in Exec \cup {NoExec}
    BY DEF ClaimTypes
  <2> QED BY <2>1, <2>2, <2>3 DEF Calmly, Switches
<1>2. ASSUME NEW x \in Exec, DeliverClaim(x) PROVE Switches'
  <2>1. deliver = "claim" /\ switch' = switch
    BY <1>2 DEF DeliverClaim
  <2> QED BY <2>1 DEF Calmly, Locks, Switches
<1>3. CASE DownInsert
  <2>1. closing' = closing /\ closing /\ UNCHANGED <<switch, bound>>
    BY <1>3 DEF DownInsert, Calmly, Fenced
  <2>2. \A x \in Exec : task'[<<"hand", x>>] = task[<<"hand", x>>]
    BY <1>3 DEF DownInsert, TaskTypes
  <2>3. CASE claim # NoExec
    BY <2>1, <2>2, <2>3, <1>3 DEF DownInsert, Calmly, Switches, ClaimTypes
  <2>4. CASE claim = NoExec
    <3>1. PICK x \in Exec : x = nextId
      BY <1>3, InsertFits
    <3>2. x \notin bound
      BY <3>1 DEF Fresh
    <3>3. ~Active(<<"hand", x>>)
      <4>1. <<"hand", x>> \in Task /\ <<"hand", x>>[2] = x /\ ~(x < x)
        BY TaskOf
      <4>2. \A t \in Task : Active(t) => t[2] < x
        BY <3>1 DEF Fresh
      <4> QED BY <4>1, <4>2
    <3>4. claim' = x
      BY <2>4, <3>1, <1>3 DEF DownInsert
    <3> QED BY <2>1, <2>2, <3>2, <3>3, <3>4 DEF Switches
  <2> QED BY <2>3, <2>4
<1>4. CASE PumpCommits
  <2>1. UNCHANGED <<switch, closing, bound, task>> /\ claim' \in {claim, NoExec}
    BY <1>4 DEF PumpCommits
  <2> QED BY <2>1 DEF Calmly, Switches
<1>5. CASE SwitchRequest
  <2>1. switch' = "lock"
    BY <1>5 DEF SwitchRequest
  <2> QED BY <2>1 DEF Switches
<1>6. CASE DaemonExit
  <2>1. closing' /\ UNCHANGED <<switch, claim, bound, task>>
    BY <1>6 DEF DaemonExit
  <2> QED BY <2>1 DEF Calmly, Switches
<1>7. CASE UNCHANGED <<switch, claim, closing, bound, task>>
  BY <1>7 DEF Calmly, Switches
<1>8. CASE Handover
  <2>1. ASSUME NEW x \in Exec, HandReuse(x) PROVE Switches'
    BY <2>1 DEF Calmly, Switches, ClaimTypes, TaskTypes, Fresh, Fenced, HandReuse
  <2>2. ASSUME NEW x \in Exec, HandSpawn(x) PROVE Switches'
    BY <2>2 DEF Calmly, Switches, ClaimTypes, TaskTypes, Fresh, Fenced, HandSpawn
  <2>3. ASSUME NEW x \in Exec, HandInstall(x) PROVE Switches'
    BY <2>3 DEF Calmly, Switches, ClaimTypes, TaskTypes, Fresh, Fenced, HandInstall
  <2>4. ASSUME NEW x \in Exec, HandSend(x) PROVE Switches'
    BY <2>4 DEF Calmly, Switches, ClaimTypes, TaskTypes, Fresh, Fenced, HandSend
  <2>5. ASSUME NEW x \in Exec, HandBind(x) PROVE Switches'
    BY <2>5 DEF Calmly, Switches, ClaimTypes, TaskTypes, Fresh, Fenced, HandBind
  <2>6. ASSUME NEW x \in Exec, HandRefused(x) PROVE Switches'
    BY <2>6 DEF Calmly, Switches, ClaimTypes, TaskTypes, Fresh, Fenced, HandRefused
  <2>7. ASSUME NEW x \in Exec, HandCanceled(x) PROVE Switches'
    BY <2>7 DEF Calmly, Switches, ClaimTypes, TaskTypes, Fresh, Fenced, HandCanceled
  <2> QED BY <1>8, <2>1, <2>2, <2>3, <2>4, <2>5, <2>6, <2>7 DEF Handover
<1>9. CASE Retirement
  <2>1. ASSUME NEW t \in Task, StopAsked(t) PROVE Switches'
    BY <2>1 DEF Calmly, Switches, ClaimTypes, TaskTypes, Fresh, Fenced, StopAsked
  <2>2. ASSUME NEW t \in Task, RetireMark(t) PROVE Switches'
    BY <2>2 DEF Calmly, Switches, ClaimTypes, TaskTypes, Fresh, Fenced, RetireMark
  <2>3. ASSUME NEW t \in Task, RetireJoin(t) PROVE Switches'
    BY <2>3 DEF Calmly, Switches, ClaimTypes, TaskTypes, Fresh, Fenced, RetireJoin
  <2>4. ASSUME NEW t \in Task, RetireLock(t) PROVE Switches'
    BY <2>4 DEF Calmly, Switches, ClaimTypes, TaskTypes, Fresh, Fenced, RetireLock
  <2>5. ASSUME NEW t \in Task, RetireClose(t) PROVE Switches'
    BY <2>5 DEF Calmly, Switches, ClaimTypes, TaskTypes, Fresh, Fenced, RetireClose
  <2>6. ASSUME NEW t \in Task, RetireCommit(t) PROVE Switches'
    BY <2>6 DEF Calmly, Switches, ClaimTypes, TaskTypes, Fresh, Fenced, RetireCommit
  <2> QED BY <1>9, <1>1, <2>1, <2>2, <2>3, <2>4, <2>5, <2>6 DEF Retirement
<1>10. CASE PumpStep
  <2>1. ASSUME NEW x \in Exec, PumpIgnores(x) \/ PumpDefers(x) \/ PumpRetires(x) PROVE UNCHANGED
       <<switch, claim, closing, bound, task>>
    BY <2>1 DEF PumpIgnores, PumpDefers, PumpRetires
  <2>2. ASSUME PumpLocks \/ PumpCloses \/ PumpStops \/ PumpExits PROVE UNCHANGED <<switch, claim,
       closing, bound, task>>
    BY <2>2 DEF PumpLocks, PumpCloses, PumpStops, PumpExits
  <2>3. ASSUME NEW x \in Exec, PumpCompletes(x) PROVE Switches'
    BY <2>3 DEF Calmly, Switches, ClaimTypes, TaskTypes, Fresh, Fenced, PumpCompletes
  <2> QED BY <1>10, <1>7, <1>4, <2>1, <2>2, <2>3 DEF PumpStep
<1>11. CASE Delivery
  <2>1. ASSUME DeliverBegin \/ DeliverRefused \/ DeliverLook \/ DeliverSteered PROVE UNCHANGED
       <<switch, claim, closing, bound, task>>
    BY <2>1 DEF DeliverBegin, DeliverRefused, DeliverLook, DeliverSteered
  <2>2. CASE DeliverInterrupt
    BY <2>2 DEF Calmly, Switches, ClaimTypes, TaskTypes, Fresh, Fenced, DeliverInterrupt
  <2> QED BY <1>11, <1>7, <1>2, <2>1, <2>2 DEF Delivery
<1>12. CASE StopEnter
  BY <1>12 DEF Calmly, Switches, ClaimTypes, TaskTypes, Fresh, Fenced, StopEnter
<1>13. CASE SwitchStep
  <2>1. CASE SwitchEnter
    BY <2>1 DEF Calmly, Switches, ClaimTypes, TaskTypes, Fresh, Fenced, SwitchEnter
  <2>2. CASE SwitchCheck
    BY <2>2 DEF Calmly, Switches, ClaimTypes, TaskTypes, Fresh, Fenced, SwitchCheck
  <2>3. CASE SwitchRefused
    BY <2>3 DEF Calmly, Switches, ClaimTypes, TaskTypes, Fresh, Fenced, SwitchRefused
  <2>4. CASE SwitchStopsPump
    BY <2>4 DEF Calmly, Switches, ClaimTypes, TaskTypes, Fresh, Fenced, SwitchStopsPump
  <2>5. CASE SwitchCloses
    BY <2>5 DEF Calmly, Switches, ClaimTypes, TaskTypes, Fresh, Fenced, SwitchCloses
  <2> QED BY <1>13, <2>1, <2>2, <2>3, <2>4, <2>5 DEF SwitchStep
<1>14. CASE DownStep
  <2>1. ASSUME CloseEnter \/ DownWaited \/ DownTimesOut PROVE UNCHANGED <<switch, claim, closing,
       bound, task>>
    BY <2>1 DEF CloseEnter, DownWaited, DownTimesOut
  <2>2. CASE DownBegin \/ DownReap
    BY <2>2 DEF Calmly, Switches, ClaimTypes, TaskTypes, Fresh, Fenced, DownBegin, DownReap
  <2> QED BY <1>14, <1>7, <1>3, <2>1, <2>2 DEF DownStep
<1>15. CASE Requests
  <2>1. ASSUME AcceptInput \/ StopRequest \/ CloseRequest PROVE UNCHANGED <<switch, claim, closing,
       bound, task>>
    BY <2>1 DEF AcceptInput, StopRequest, CloseRequest
  <2>2. ASSUME NEW x \in Exec, DirectSend(x) PROVE Switches'
    BY <2>2 DEF Calmly, CalmStep, Switches, ClaimTypes, TaskTypes, Fresh, Fenced, DirectSend
  <2> QED BY <1>15, <1>7, <1>5, <1>6, <2>1, <2>2 DEF Requests
<1>16. CASE Failures
  <2>1. ASSUME NEW x \in Exec, AgentCrash(x) \/ AgentRepeats(x) PROVE UNCHANGED <<switch, claim,
       closing, bound, task>>
    BY <2>1 DEF AgentCrash, AgentRepeats
  <2>2. ASSUME PumpCloseFails PROVE UNCHANGED <<switch, claim, closing, bound, task>>
    BY <2>2 DEF PumpCloseFails
  <2>3. ASSUME NEW x \in Exec, HandFails(x) PROVE Switches'
    BY <2>3 DEF Calmly, Switches, ClaimTypes, TaskTypes, Fresh, Fenced, HandFails
  <2>4. ASSUME NEW x \in Exec, HandBindUnsaved(x) PROVE Switches'
    BY <2>4 DEF Calmly, Switches, ClaimTypes, TaskTypes, Fresh, Fenced, HandBindUnsaved
  <2>5. ASSUME NEW x \in Exec, HandDropped(x) PROVE Switches'
    BY <2>5 DEF Calmly, Switches, ClaimTypes, TaskTypes, Fresh, Fenced, HandDropped
  <2>6. ASSUME NEW t \in Task, RetireCloseFails(t) PROVE Switches'
    BY <2>6 DEF Calmly, Switches, ClaimTypes, TaskTypes, Fresh, Fenced, RetireCloseFails
  <2>7. ASSUME NEW t \in Task, RetireCommitUnsaved(t) PROVE Switches'
    BY <2>7 DEF Calmly, Switches, ClaimTypes, TaskTypes, Fresh, Fenced, RetireCommitUnsaved
  <2>8. CASE SwitchCloseFails
    BY <2>8 DEF Calmly, CalmStep, Switches, ClaimTypes, TaskTypes, Fresh, Fenced, SwitchCloseFails
  <2> QED BY <1>16, <1>7, <2>1, <2>2, <2>3, <2>4, <2>5, <2>6, <2>7, <2>8 DEF Failures, CalmStep
<1>17. CASE AgentStep
  BY <1>7, <1>17 DEF AgentStep, AgentEnds
<1>18. CASE Rest \/ UNCHANGED vars
  BY <1>7, <1>18 DEF Rest, vars
<1> QED BY <1>8, <1>9, <1>10, <1>11, <1>12, <1>13, <1>14, <1>15, <1>16, <1>17, <1>18 DEF Next

(* The pump is stopped by those who end the turn. *)
LEMMA KeepsLoose == ASSUME IInv, Calmly, CalmStep, [Next]_vars PROVE Loose'
<1>1. ASSUME NEW t \in Task, RetireCommit(t) \/ RetireCommitUnsaved(t) PROVE Loose'
  <2>1. agent' = agent /\ agent = NoExec
    BY <1>1 DEF RetireCommit, RetireCommitUnsaved, RetireOwns
  <2> QED BY <2>1 DEF Loose
<1>2. ASSUME NEW t \in Task, RetireLate(t) PROVE Loose'
  <2>1. phase' = phase /\ UNCHANGED <<closing, switch, agent, pump, pumpAt, pumpStop>>
    BY <1>2 DEF RetireLate, ClaimHasPhase
  <2> QED BY <2>1 DEF Calmly, Loose
<1>3. ASSUME NEW x \in Exec, DirectSend(x) \/ DeliverClaim(x) PROVE Loose'
  <2>1. UNCHANGED <<closing, switch, agent, pump, pumpAt, pumpStop>> /\ ClaimAs(x)
    BY <1>3 DEF DirectSend, DeliverClaim
  <2>2. phase \in {"none", "saving"}
    BY <2>1, Claimed
  <2> QED BY <2>1, <2>2 DEF Calmly, Loose
<1>4. CASE DownInsert
  <2>1. closing'
    BY <1>4 DEF DownInsert, Calmly, Fenced
  <2> QED BY <2>1 DEF Loose
<1>5. CASE UNCHANGED <<phase, closing, switch, agent, pump, pumpAt, pumpStop>>
  BY <1>5 DEF Calmly, Loose
<1>6. CASE Handover
  <2>1. ASSUME NEW x \in Exec, HandReuse(x) \/ HandSend(x) \/ HandRefused(x) \/ HandCanceled(x)
       PROVE UNCHANGED <<phase, closing, switch, agent, pump, pumpAt, pumpStop>>
    BY <2>1 DEF HandReuse, HandSend, HandRefused, HandCanceled
  <2>2. ASSUME NEW x \in Exec, HandSpawn(x) \/ HandInstall(x) \/ HandBind(x) PROVE Loose'
    BY <2>2 DEF Calmly, Loose, ClaimTypes, Starts, HandOwns, PumpOwns, Locks, HandSpawn,
       HandInstall, HandBind
  <2> QED BY <1>6, <1>5, <2>1, <2>2 DEF Handover
<1>7. CASE Retirement
  <2>1. ASSUME NEW t \in Task, StopAsked(t) \/ RetireJoin(t) \/ RetireLock(t) PROVE UNCHANGED
       <<phase, closing, switch, agent, pump, pumpAt, pumpStop>>
    BY <2>1 DEF StopAsked, RetireJoin, RetireLock
  <2>2. ASSUME NEW t \in Task, RetireMark(t) \/ RetireClose(t) PROVE Loose'
    BY <2>2 DEF Calmly, Loose, ClaimTypes, Starts, HandOwns, PumpOwns, Locks, RetireMark,
       RetireClose
  <2> QED BY <1>7, <1>5, <1>1, <1>2, <2>1, <2>2 DEF Retirement
<1>8. CASE PumpStep
  BY <1>8 DEF Calmly, Loose, ClaimTypes, Starts, HandOwns, PumpOwns, Locks, PumpStep, PumpIgnores,
     PumpDefers, PumpCompletes, PumpRetires, PumpLocks, PumpCloses, PumpCommits, PumpStops,
     PumpExits
<1>9. CASE Delivery
  <2>1. ASSUME DeliverBegin \/ DeliverRefused \/ DeliverLook \/ DeliverSteered PROVE UNCHANGED
       <<phase, closing, switch, agent, pump, pumpAt, pumpStop>>
    BY <2>1 DEF DeliverBegin, DeliverRefused, DeliverLook, DeliverSteered
  <2>2. CASE DeliverInterrupt
    BY <2>2 DEF Calmly, Loose, ClaimTypes, Starts, HandOwns, PumpOwns, Locks, DeliverInterrupt
  <2> QED BY <1>9, <1>5, <1>3, <2>1, <2>2 DEF Delivery
<1>10. CASE StopEnter
  BY <1>10 DEF Calmly, Loose, ClaimTypes, Starts, HandOwns, PumpOwns, Locks, StopEnter
<1>11. CASE SwitchStep
  BY <1>11 DEF Calmly, CalmStep, Loose, ClaimTypes, Starts, HandOwns, PumpOwns, Locks, SwitchStep,
     SwitchEnter, SwitchCheck, SwitchRefused, SwitchStopsPump, SwitchCloses
<1>12. CASE DownStep
  <2>1. ASSUME CloseEnter \/ DownWaited \/ DownTimesOut \/ DownReap PROVE UNCHANGED <<phase,
       closing, switch, agent, pump, pumpAt, pumpStop>>
    BY <2>1 DEF CloseEnter, DownWaited, DownTimesOut, DownReap
  <2>2. CASE DownBegin
    BY <2>2 DEF Calmly, Loose, ClaimTypes, Starts, HandOwns, PumpOwns, Locks, DownBegin
  <2> QED BY <1>12, <1>5, <1>4, <2>1, <2>2 DEF DownStep
<1>13. CASE Requests
  <2>1. ASSUME AcceptInput \/ StopRequest \/ CloseRequest PROVE UNCHANGED <<phase, closing, switch,
       agent, pump, pumpAt, pumpStop>>
    BY <2>1 DEF AcceptInput, StopRequest, CloseRequest
  <2>2. CASE SwitchRequest \/ DaemonExit
    BY <2>2 DEF Calmly, Loose, ClaimTypes, Starts, HandOwns, PumpOwns, Locks, SwitchRequest,
       DaemonExit
  <2> QED BY <1>13, <1>5, <1>3, <2>1, <2>2 DEF Requests
<1>14. CASE Failures
  <2>1. ASSUME NEW x \in Exec, HandFails(x) \/ HandDropped(x) \/ AgentCrash(x) \/ AgentRepeats(x)
       PROVE UNCHANGED <<phase, closing, switch, agent, pump, pumpAt, pumpStop>>
    BY <2>1 DEF HandFails, HandDropped, AgentCrash, AgentRepeats
  <2>2. ASSUME NEW x \in Exec, HandBindUnsaved(x) PROVE Loose'
    BY <2>2 DEF Calmly, Loose, ClaimTypes, Starts, HandOwns, PumpOwns, Locks, HandBindUnsaved
  <2>3. ASSUME NEW t \in Task, RetireCloseFails(t) PROVE Loose'
    BY <2>3 DEF Calmly, Loose, ClaimTypes, Starts, HandOwns, PumpOwns, Locks, RetireCloseFails
  <2>4. CASE PumpCloseFails \/ SwitchCloseFails
    BY <2>4 DEF Calmly, CalmStep, Loose, ClaimTypes, Starts, HandOwns, PumpOwns, Locks,
       PumpCloseFails, SwitchCloseFails
  <2> QED BY <1>14, <1>5, <1>1, <2>1, <2>2, <2>3, <2>4 DEF Failures, CalmStep
<1>15. CASE AgentStep
  BY <1>5, <1>15 DEF AgentStep, AgentEnds
<1>16. CASE Rest \/ UNCHANGED vars
  BY <1>5, <1>16 DEF Rest, vars
<1> QED BY <1>6, <1>7, <1>8, <1>9, <1>10, <1>11, <1>12, <1>13, <1>14, <1>15, <1>16 DEF Next

(* A process that took the prompt works for it until its end is told. *)
LEMMA KeepsSent == ASSUME IInv, Calmly, CalmStep, [Next]_vars PROVE Sent'
<1>1. ASSUME NEW x \in Exec, HandSend(x) PROVE Sent'
  <2>1. \A u \in Task : task'[u] = IF u = <<"hand", x>> THEN "sent" ELSE task[u]
    BY <1>1 DEF HandSend, TaskTypes
  <2>2. ASSUME NEW y \in Exec, y # x PROVE task'[<<"hand", y>>] # "sent"
    <3>1. claim = x
      BY <1>1 DEF HandSend, Calmly, Starts
    <3>2. task[<<"hand", y>>] # "sent"
      BY <2>2, <3>1 DEF Calmly, Starts
    <3>3. <<"hand", y>> \in Task /\ <<"hand", y>> # <<"hand", x>>
      BY <2>2, TaskOf
    <3> QED BY <2>1, <3>2, <3>3
  <2>3. by[x] = NoExec /\ said[x] = "none"
    BY <1>1 DEF HandSend, HandOwns, SaidWasPrompted
  <2>4. by'[x] = agent /\ serves'[agent] = x /\ agent \in procs /\ agent # NoExec
    BY <1>1 DEF HandSend, AgentTypes
  <2>5. UNCHANGED <<agent, procs, said>>
    BY <1>1 DEF HandSend
  <2>6. WorksFor(x)'
    BY <2>3, <2>4, <2>5 DEF WorksFor
  <2> QED BY <2>2, <2>6 DEF Sent
<1>2. ASSUME NEW x \in Exec, HandCanceled(x) PROVE Sent'
  <2>1. \A y \in Exec : y # x => task'[<<"hand", y>>] = task[<<"hand", y>>]
    BY <1>2 DEF HandCanceled, TaskTypes
  <2>2. task'[<<"hand", x>>] # "sent"
    BY <1>2 DEF HandCanceled, TaskTypes
  <2>3. UNCHANGED <<agent, by, said, canceled>>
    BY <1>2 DEF HandCanceled
  <2>4. ASSUME NEW y \in Exec, y # x, task[<<"hand", y>>] = "sent", y \notin canceled
        PROVE  WorksFor(y)'
    <3>1. task[<<"hand", x>>] # "joinOld"
      BY <2>4 DEF Calmly, Starts
    <3>2. procs' = procs /\ \A p \in Exec : serves'[p] = serves[p]
      BY <3>1, <1>2 DEF HandCanceled
    <3>3. agent \in Exec \cup {NoExec}
      BY DEF AgentTypes
    <3>4. WorksFor(y)
      BY <2>4 DEF Calmly, Sent
    <3> QED BY <2>3, <3>2, <3>3, <3>4 DEF WorksFor
  <2> QED BY <2>1, <2>2, <2>3, <2>4 DEF Sent
<1>3. ASSUME NEW x \in Exec, HandDropped(x) PROVE Sent'
  <2>1. \A y \in Exec : y # x => task'[<<"hand", y>>] = task[<<"hand", y>>]
    <3> HIDE DEF Task, Exec
    <3> QED BY <1>3, Dropped
  <2>2. task'[<<"hand", x>>] # "sent"
    <3> HIDE DEF Task, Exec
    <3> QED BY <1>3, Dropped
  <2>3. UNCHANGED <<agent, by, said, canceled>>
    BY <1>3 DEF HandDropped
  <2>4. ASSUME NEW y \in Exec, y # x, task[<<"hand", y>>] = "sent", y \notin canceled
        PROVE  WorksFor(y)'
    <3>1. task[<<"hand", x>>] # "joinOld"
      BY <2>4 DEF Calmly, Starts
    <3>2. procs' = procs /\ \A p \in Exec : serves'[p] = serves[p]
      BY <3>1, <1>3 DEF HandDropped
    <3>3. agent \in Exec \cup {NoExec}
      BY DEF AgentTypes
    <3>4. WorksFor(y)
      BY <2>4 DEF Calmly, Sent
    <3> QED BY <2>3, <3>2, <3>3, <3>4 DEF WorksFor
  <2> QED BY <2>1, <2>2, <2>3, <2>4 DEF Sent
<1>4. ASSUME NEW t \in Task, RetireClose(t) PROVE Sent'
  <2>1. \A x \in Exec : ~Starting(x)
    BY <1>4, RetireeAlone DEF Calmly, RetireClose, RetireOwns
  <2>2. \A x \in Exec : Starting(x)' => Starting(x)
    BY <1>4 DEF RetireClose, TaskTypes
  <2> QED BY <2>1, <2>2 DEF Sent
<1>5. CASE PumpCloses
  <2>1. \A x \in Exec : ~Starting(x)
    BY <1>5 DEF Calmly, Starts, PumpOwns, PumpCloses
  <2>2. task' = task
    BY <1>5 DEF PumpCloses
  <2> QED BY <2>1, <2>2 DEF Sent
<1>6. CASE SwitchCloses
  <2>1. ASSUME NEW x \in Exec, Starting(x) PROVE FALSE
    <3>0. claim = x
      BY <2>1 DEF Calmly, Starts
    <3>9. x # 0
      OBVIOUS
    <3>1. claim = x /\ claim # NoExec /\ switch = "join"
      BY <3>0, <3>9, <1>6 DEF SwitchCloses
    <3>2. ~Active(<<"hand", x>>)
      BY <3>1 DEF Calmly, Switches
    <3> QED BY <2>1, <3>2
  <2>2. task' = task
    BY <1>6 DEF SwitchCloses
  <2> QED BY <2>1, <2>2 DEF Sent
<1>7. CASE DownReap
  <2>1. \A x \in Exec : ~Starting(x)
    BY <1>7 DEF Calmly, NoneStarts, DownReap
  <2>2. \A x \in Exec : task'[<<"hand", x>>] \in {"idle", task[<<"hand", x>>]}
    BY <1>7, TaskOf DEF DownReap
  <2> QED BY <2>1, <2>2 DEF Sent
<1>8. CASE DownBegin
  <2>1. UNCHANGED <<task, by, agent, said, procs, serves>> /\ canceled \subseteq canceled'
    BY <1>8 DEF DownBegin
  <2> QED BY <2>1 DEF Calmly, Sent, WorksFor
<1>9. CASE DownInsert
  <2>1. UNCHANGED <<canceled, by, agent, said, procs, serves>>
    BY <1>9 DEF DownInsert
  <2>2. \A y \in Exec : task'[<<"hand", y>>] = task[<<"hand", y>>]
    BY <1>9 DEF DownInsert, TaskTypes
  <2> QED BY <2>1, <2>2 DEF Calmly, Sent, WorksFor
<1>10. ASSUME NEW t \in Task, StopAsked(t) \/ RetireMark(t) \/ RetireJoin(t) \/ RetireLock(t) \/
     RetireCommit(t) PROVE Sent'
  <2>1. \A y \in Exec : task'[<<"hand", y>>] = "sent" => task[<<"hand", y>>] = "sent"
    BY <1>10 DEF StopAsked, RetireMark, RetireJoin, RetireLock, RetireCommit, TaskTypes
  <2>2. UNCHANGED <<by, agent, said, procs, serves>> /\ canceled \subseteq canceled'
    BY <1>10 DEF StopAsked, RetireMark, RetireJoin, RetireLock, RetireCommit
  <2> QED BY <2>1, <2>2 DEF Calmly, Sent, WorksFor
<1>11. ASSUME NEW x \in Exec, AgentCrash(x) PROVE Sent'
  <2>1. UNCHANGED <<task, canceled, by, agent>> /\ procs' = procs \ {x}
    BY <1>11 DEF AgentCrash
  <2>2. \A p \in Exec : serves'[p] = IF p = x THEN NoExec ELSE serves[p]
    BY <1>11 DEF AgentCrash
  <2>3. \A y \in Exec : said'[y] = IF y = serves[x] THEN "crashed" ELSE said[y]
    BY <1>11 DEF AgentCrash, AgentTypes
  <2>4. ASSUME NEW y \in Exec, WorksFor(y) PROVE WorksFor(y)'
    <3>1. agent \in Exec
      BY <2>4 DEF WorksFor, AgentTypes
    <3> QED BY <2>1, <2>2, <2>3, <2>4, <3>1 DEF WorksFor
  <2> QED BY <2>1, <2>4 DEF Calmly, Sent
<1>12. CASE UNCHANGED <<task, canceled, by, agent, said, procs, serves>>
  BY <1>12 DEF Calmly, Sent, WorksFor
<1>13. CASE Handover
  <2>1. ASSUME NEW x \in Exec, HandReuse(x) PROVE Sent'
    BY <2>1 DEF Calmly, Sent, WorksFor, AgentTypes, TaskTypes, HandOwns, ServeOwns, Starts,
       HandReuse
  <2>2. ASSUME NEW x \in Exec, HandSpawn(x) PROVE Sent'
    BY <2>2 DEF Calmly, Sent, WorksFor, AgentTypes, TaskTypes, HandOwns, ServeOwns, Starts,
       HandSpawn
  <2>3. ASSUME NEW x \in Exec, HandInstall(x) PROVE Sent'
    BY <2>3 DEF Calmly, Sent, WorksFor, AgentTypes, TaskTypes, HandOwns, ServeOwns, Starts,
       HandInstall
  <2>4. ASSUME NEW x \in Exec, HandBind(x) PROVE Sent'
    BY <2>4 DEF Calmly, Sent, WorksFor, AgentTypes, TaskTypes, HandOwns, ServeOwns, Starts, HandBind
  <2>5. ASSUME NEW x \in Exec, HandRefused(x) PROVE Sent'
    BY <2>5 DEF Calmly, Sent, WorksFor, AgentTypes, TaskTypes, HandOwns, ServeOwns, Starts,
       HandRefused
  <2> QED BY <1>13, <1>1, <1>2, <2>1, <2>2, <2>3, <2>4, <2>5 DEF Handover
<1>14. CASE Retirement
  <2>1. ASSUME NEW t \in Task, RetireLate(t) PROVE Sent'
    BY <2>1 DEF Calmly, Sent, WorksFor, AgentTypes, TaskTypes, HandOwns, ServeOwns, Starts,
       RetireLate
  <2> QED BY <1>14, <1>10, <1>4, <2>1 DEF Retirement
<1>15. CASE PumpStep
  <2>1. ASSUME PumpLocks \/ PumpCommits \/ PumpStops \/ PumpExits PROVE UNCHANGED <<task, canceled,
       by, agent, said, procs, serves>>
    BY <2>1 DEF PumpLocks, PumpCommits, PumpStops, PumpExits
  <2>2. ASSUME NEW x \in Exec, PumpIgnores(x) \/ PumpDefers(x) \/ PumpCompletes(x) \/ PumpRetires(x)
       PROVE Sent'
    BY <2>2 DEF Calmly, Sent, WorksFor, AgentTypes, TaskTypes, HandOwns, ServeOwns, Starts,
       PumpIgnores, PumpDefers, PumpCompletes, PumpRetires
  <2> QED BY <1>15, <1>12, <1>5, <2>1, <2>2 DEF PumpStep
<1>16. CASE Delivery
  <2>1. ASSUME DeliverBegin \/ DeliverRefused \/ DeliverLook \/ DeliverSteered PROVE UNCHANGED
       <<task, canceled, by, agent, said, procs, serves>>
    BY <2>1 DEF DeliverBegin, DeliverRefused, DeliverLook, DeliverSteered
  <2>2. CASE DeliverInterrupt
    BY <2>2 DEF Calmly, Sent, WorksFor, AgentTypes, TaskTypes, HandOwns, ServeOwns, Starts,
       DeliverInterrupt
  <2>3. ASSUME NEW x \in Exec, DeliverClaim(x) PROVE Sent'
    BY <2>3 DEF Calmly, Sent, WorksFor, AgentTypes, TaskTypes, HandOwns, ServeOwns, Starts,
       DeliverClaim
  <2> QED BY <1>16, <1>12, <2>1, <2>2, <2>3 DEF Delivery
<1>17. CASE StopEnter
  BY <1>17 DEF Calmly, Sent, WorksFor, AgentTypes, TaskTypes, HandOwns, ServeOwns, Starts, StopEnter
<1>18. CASE SwitchStep
  <2>1. ASSUME SwitchEnter \/ SwitchCheck \/ SwitchRefused \/ SwitchStopsPump PROVE UNCHANGED
       <<task, canceled, by, agent, said, procs, serves>>
    BY <2>1 DEF SwitchEnter, SwitchCheck, SwitchRefused, SwitchStopsPump
  <2> QED BY <1>18, <1>12, <1>6, <2>1 DEF SwitchStep
<1>19. CASE DownStep
  <2>1. ASSUME CloseEnter \/ DownWaited \/ DownTimesOut PROVE UNCHANGED <<task, canceled, by, agent,
       said, procs, serves>>
    BY <2>1 DEF CloseEnter, DownWaited, DownTimesOut
  <2> QED BY <1>19, <1>12, <1>8, <1>7, <1>9, <2>1 DEF DownStep
<1>20. CASE Requests
  <2>1. ASSUME AcceptInput \/ StopRequest \/ SwitchRequest \/ CloseRequest \/ DaemonExit PROVE
       UNCHANGED <<task, canceled, by, agent, said, procs, serves>>
    BY <2>1 DEF AcceptInput, StopRequest, SwitchRequest, CloseRequest, DaemonExit
  <2>2. ASSUME NEW x \in Exec, DirectSend(x) PROVE Sent'
    BY <2>2 DEF Calmly, CalmStep, Sent, WorksFor, AgentTypes, TaskTypes, HandOwns, ServeOwns,
       Starts, DirectSend
  <2> QED BY <1>20, <1>12, <2>1, <2>2 DEF Requests
<1>21. CASE Failures
  <2>1. ASSUME PumpCloseFails \/ SwitchCloseFails PROVE UNCHANGED <<task, canceled, by, agent, said,
       procs, serves>>
    BY <2>1 DEF PumpCloseFails, SwitchCloseFails
  <2>2. ASSUME NEW x \in Exec, HandFails(x) PROVE Sent'
    BY <2>2 DEF Calmly, Sent, WorksFor, AgentTypes, TaskTypes, HandOwns, ServeOwns, Starts,
       HandFails
  <2>3. ASSUME NEW x \in Exec, HandBindUnsaved(x) PROVE Sent'
    BY <2>3 DEF Calmly, Sent, WorksFor, AgentTypes, TaskTypes, HandOwns, ServeOwns, Starts,
       HandBindUnsaved
  <2>4. ASSUME NEW x \in Exec, AgentRepeats(x) PROVE Sent'
    BY <2>4 DEF Calmly, Sent, WorksFor, AgentTypes, TaskTypes, HandOwns, ServeOwns, Starts,
       AgentRepeats
  <2>5. ASSUME NEW t \in Task, RetireCloseFails(t) PROVE Sent'
    BY <2>5 DEF Calmly, Sent, WorksFor, AgentTypes, TaskTypes, HandOwns, ServeOwns, Starts,
       RetireCloseFails
  <2>6. ASSUME NEW t \in Task, RetireCommitUnsaved(t) PROVE Sent'
    BY <2>6 DEF Calmly, Sent, WorksFor, AgentTypes, TaskTypes, HandOwns, ServeOwns, Starts,
       RetireCommitUnsaved
  <2> QED BY <1>21, <1>12, <1>3, <1>11, <2>1, <2>2, <2>3, <2>4, <2>5, <2>6 DEF Failures, CalmStep
<1>22. CASE AgentStep
  BY <1>22 DEF Calmly, Sent, WorksFor, AgentTypes, TaskTypes, HandOwns, ServeOwns, Starts,
     AgentStep, AgentEnds
<1>23. CASE Rest \/ UNCHANGED vars
  BY <1>12, <1>23 DEF Rest, vars
<1> QED BY <1>13, <1>14, <1>15, <1>16, <1>17, <1>18, <1>19, <1>20, <1>21, <1>22, <1>23 DEF Next

(* The agent of a running execution is closed by nobody who does not own it. *)
LEMMA KeepsRuns == ASSUME IInv, Calmly, CalmStep, [Next]_vars PROVE Runs'
<1>1. ASSUME NEW t \in Task, RetireClose(t) PROVE Runs'
  <2>1. phase # "running" /\ phase' = phase
    BY <1>1 DEF RetireClose, RetireOwns, CancelIsKept
  <2> QED BY <2>1 DEF Runs
<1>2. CASE PumpCloses
  <2>1. phase # "running" /\ phase' = phase
    BY <1>2 DEF PumpCloses, PumpOwns
  <2> QED BY <2>1 DEF Runs
<1>3. CASE SwitchCloses
  <2>1. phase = "running" => claim # NoExec
    BY DEF ClaimHasPhase
  <2>2. phase # "running" /\ phase' = phase
    BY <2>1, <1>3 DEF SwitchCloses, Calmly, Runs, Switches
  <2> QED BY <2>2 DEF Runs
<1>4. CASE UNCHANGED <<phase, claim, bound, closing, by, agent, said, procs, serves>>
  BY <1>4 DEF Calmly, Runs, WorksFor
<1>5. CASE Handover
  <2>1. ASSUME NEW x \in Exec, HandReuse(x) PROVE UNCHANGED <<phase, claim, bound, closing, by,
       agent, said, procs, serves>>
    BY <2>1 DEF HandReuse
  <2>2. ASSUME NEW x \in Exec, HandSpawn(x) \/ HandInstall(x) \/ HandSend(x) PROVE Runs'
    BY <2>2 DEF Calmly, Runs, WorksFor, AgentTypes, ClaimTypes, ServeOwns, Starts, Sent,
       ClaimHasPhase, HandSpawn, HandInstall, HandSend
  <2>3. ASSUME NEW x \in Exec, HandBind(x) PROVE Runs'
    BY <2>3 DEF Calmly, Runs, WorksFor, AgentTypes, ClaimTypes, ServeOwns, Starts, Sent,
       ClaimHasPhase, HandBind
  <2>4. ASSUME NEW x \in Exec, HandRefused(x) PROVE Runs'
    BY <2>4 DEF Calmly, Runs, WorksFor, AgentTypes, ClaimTypes, ServeOwns, Starts, Sent,
       ClaimHasPhase, HandRefused
  <2>5. ASSUME NEW x \in Exec, HandCanceled(x) PROVE Runs'
    BY <2>5 DEF Calmly, Runs, WorksFor, AgentTypes, ClaimTypes, ServeOwns, Starts, Sent,
       ClaimHasPhase, HandCanceled
  <2> QED BY <1>5, <1>4, <2>1, <2>2, <2>3, <2>4, <2>5 DEF Handover
<1>6. CASE Retirement
  <2>1. ASSUME NEW t \in Task, StopAsked(t) \/ RetireJoin(t) \/ RetireLock(t) PROVE UNCHANGED
       <<phase, claim, bound, closing, by, agent, said, procs, serves>>
    BY <2>1 DEF StopAsked, RetireJoin, RetireLock
  <2>2. ASSUME NEW t \in Task, RetireMark(t) \/ RetireCommit(t) \/ RetireLate(t) PROVE Runs'
    BY <2>2 DEF Calmly, Runs, WorksFor, AgentTypes, ClaimTypes, ServeOwns, Starts, Sent,
       ClaimHasPhase, RetireMark, RetireCommit, RetireLate
  <2> QED BY <1>6, <1>4, <1>1, <2>1, <2>2 DEF Retirement
<1>7. CASE PumpStep
  <2>1. ASSUME PumpLocks \/ PumpStops \/ PumpExits PROVE UNCHANGED <<phase, claim, bound, closing,
       by, agent, said, procs, serves>>
    BY <2>1 DEF PumpLocks, PumpStops, PumpExits
  <2>2. ASSUME NEW x \in Exec, PumpIgnores(x) \/ PumpDefers(x) PROVE Runs'
    BY <2>2 DEF Calmly, Runs, WorksFor, AgentTypes, ClaimTypes, ServeOwns, Starts, Sent,
       ClaimHasPhase, PumpIgnores, PumpDefers
  <2>3. ASSUME NEW x \in Exec, PumpCompletes(x) \/ PumpRetires(x) PROVE Runs'
    BY <2>3 DEF Calmly, Runs, WorksFor, AgentTypes, ClaimTypes, ServeOwns, Starts, Sent,
       ClaimHasPhase, PumpCompletes, PumpRetires
  <2>4. CASE PumpCommits
    BY <2>4 DEF Calmly, Runs, WorksFor, AgentTypes, ClaimTypes, ServeOwns, Starts, Sent,
       ClaimHasPhase, PumpCommits
  <2> QED BY <1>7, <1>4, <1>2, <2>1, <2>2, <2>3, <2>4 DEF PumpStep
<1>8. CASE Delivery
  BY <1>8 DEF Calmly, Runs, WorksFor, AgentTypes, ClaimTypes, ServeOwns, Starts, Sent,
     ClaimHasPhase, Delivery, DeliverBegin, DeliverClaim, DeliverRefused, DeliverLook,
     DeliverSteered, DeliverInterrupt
<1>9. CASE StopEnter
  BY <1>9 DEF Calmly, Runs, WorksFor, AgentTypes, ClaimTypes, ServeOwns, Starts, Sent,
     ClaimHasPhase, StopEnter
<1>10. CASE SwitchStep
  <2>1. ASSUME SwitchEnter \/ SwitchRefused \/ SwitchStopsPump PROVE UNCHANGED <<phase, claim,
       bound, closing, by, agent, said, procs, serves>>
    BY <2>1 DEF SwitchEnter, SwitchRefused, SwitchStopsPump
  <2>2. CASE SwitchCheck
    BY <2>2 DEF Calmly, Runs, WorksFor, AgentTypes, ClaimTypes, ServeOwns, Starts, Sent,
       ClaimHasPhase, SwitchCheck
  <2> QED BY <1>10, <1>4, <1>3, <2>1, <2>2 DEF SwitchStep
<1>11. CASE DownStep
  <2>1. ASSUME CloseEnter \/ DownWaited \/ DownTimesOut PROVE UNCHANGED <<phase, claim, bound,
       closing, by, agent, said, procs, serves>>
    BY <2>1 DEF CloseEnter, DownWaited, DownTimesOut
  <2>2. CASE DownBegin
    BY <2>2 DEF Calmly, Runs, WorksFor, AgentTypes, ClaimTypes, ServeOwns, Starts, Sent,
       ClaimHasPhase, DownBegin
  <2>3. CASE DownReap
    BY <2>3 DEF Calmly, Runs, WorksFor, AgentTypes, ClaimTypes, ServeOwns, Starts, Sent,
       ClaimHasPhase, DownReap
  <2>4. CASE DownInsert
    BY <2>4 DEF Calmly, Runs, WorksFor, AgentTypes, ClaimTypes, ServeOwns, Starts, Sent,
       ClaimHasPhase, DownInsert
  <2> QED BY <1>11, <1>4, <2>1, <2>2, <2>3, <2>4 DEF DownStep
<1>12. CASE Requests
  BY <1>12 DEF Calmly, CalmStep, Runs, WorksFor, AgentTypes, ClaimTypes, ServeOwns, Starts, Sent,
     ClaimHasPhase, Requests, DirectSend, AcceptInput, StopRequest, SwitchRequest, CloseRequest,
     DaemonExit
<1>13. CASE Failures
  <2>1. ASSUME NEW x \in Exec, HandFails(x) PROVE Runs'
    BY <2>1 DEF Calmly, Runs, WorksFor, AgentTypes, ClaimTypes, ServeOwns, Starts, Sent,
       ClaimHasPhase, HandFails
  <2>2. ASSUME NEW x \in Exec, HandBindUnsaved(x) PROVE Runs'
    BY <2>2 DEF Calmly, Runs, WorksFor, AgentTypes, ClaimTypes, ServeOwns, Starts, Sent,
       ClaimHasPhase, HandBindUnsaved
  <2>3. ASSUME NEW x \in Exec, HandDropped(x) PROVE Runs'
    BY <2>3 DEF Calmly, Runs, WorksFor, AgentTypes, ClaimTypes, ServeOwns, Starts, Sent,
       ClaimHasPhase, HandDropped
  <2>4. ASSUME NEW x \in Exec, AgentCrash(x) PROVE Runs'
    BY <2>4 DEF Calmly, Runs, WorksFor, AgentTypes, ClaimTypes, ServeOwns, Starts, Sent,
       ClaimHasPhase, AgentCrash
  <2>5. ASSUME NEW x \in Exec, AgentRepeats(x) PROVE Runs'
    BY <2>5 DEF Calmly, Runs, WorksFor, AgentTypes, ClaimTypes, ServeOwns, Starts, Sent,
       ClaimHasPhase, AgentRepeats
  <2>6. ASSUME NEW t \in Task, RetireCloseFails(t) \/ RetireCommitUnsaved(t) PROVE Runs'
    BY <2>6 DEF Calmly, Runs, WorksFor, AgentTypes, ClaimTypes, ServeOwns, Starts, Sent,
       ClaimHasPhase, RetireCloseFails, RetireCommitUnsaved
  <2>7. CASE PumpCloseFails \/ SwitchCloseFails
    BY <2>7 DEF Calmly, CalmStep, Runs, WorksFor, AgentTypes, ClaimTypes, ServeOwns, Starts, Sent,
       ClaimHasPhase, PumpCloseFails, SwitchCloseFails
  <2> QED BY <1>13, <2>1, <2>2, <2>3, <2>4, <2>5, <2>6, <2>7 DEF Failures, CalmStep
<1>14. CASE AgentStep
  BY <1>14 DEF Calmly, Runs, WorksFor, AgentTypes, ClaimTypes, ServeOwns, Starts, Sent,
     ClaimHasPhase, AgentStep, AgentEnds
<1>15. CASE Rest \/ UNCHANGED vars
  BY <1>4, <1>15 DEF Rest, vars
<1> QED BY <1>5, <1>6, <1>7, <1>8, <1>9, <1>10, <1>11, <1>12, <1>13, <1>14, <1>15 DEF Next

(* Numbers are given out in order. *)
LEMMA KeepsNumbers == ASSUME IInv, Calmly, CalmStep, [Next]_vars PROVE Numbers'
<1>1. ASSUME NEW x \in Exec, DeliverClaim(x) PROVE Numbers'
  <2>1. ClaimAs(x) /\ agent' = agent /\ unclean' = unclean /\ prepared' = prepared \cup {x}
    BY <1>1 DEF DeliverClaim
  <2>2. nextId' = x + 1 /\ nextId = x /\ terminal' = terminal /\ x \in Int
    BY <2>1
  <2>3. \A y \in unclean \cup terminal \cup prepared : y \in Exec
    BY DEF FlagTypes, AgentTypes, TaskTypes
  <2> QED BY <2>1, <2>2, <2>3 DEF Calmly, Numbers, AgentTypes
<1>2. CASE UNCHANGED <<agent, nextId, unclean, terminal, prepared>>
  BY <1>2 DEF Calmly, Numbers
<1>3. CASE Handover
  <2>1. ASSUME NEW x \in Exec, HandReuse(x) \/ HandSpawn(x) \/ HandSend(x) \/ HandBind(x) \/
       HandRefused(x) \/ HandCanceled(x) PROVE UNCHANGED <<agent, nextId, unclean, terminal,
       prepared>>
    BY <2>1 DEF HandReuse, HandSpawn, HandSend, HandBind, HandRefused, HandCanceled
  <2>2. ASSUME NEW x \in Exec, HandInstall(x) PROVE Numbers'
    BY <2>2 DEF Calmly, Numbers, ClaimTypes, FlagTypes, TaskTypes, AgentTypes, Fresh, PumpOwns,
       RetireOwns, HandInstall
  <2> QED BY <1>3, <1>2, <2>1, <2>2 DEF Handover
<1>4. CASE Retirement
  <2>1. ASSUME NEW t \in Task, StopAsked(t) \/ RetireMark(t) \/ RetireJoin(t) \/ RetireLock(t) PROVE
       UNCHANGED <<agent, nextId, unclean, terminal, prepared>>
    BY <2>1 DEF StopAsked, RetireMark, RetireJoin, RetireLock
  <2>2. ASSUME NEW t \in Task, RetireClose(t) PROVE Numbers'
    BY <2>2 DEF Calmly, Numbers, ClaimTypes, FlagTypes, TaskTypes, AgentTypes, Fresh, PumpOwns,
       RetireOwns, RetireClose
  <2>3. ASSUME NEW t \in Task, RetireCommit(t) PROVE Numbers'
    BY <2>3 DEF Calmly, Numbers, ClaimTypes, FlagTypes, TaskTypes, AgentTypes, Fresh, PumpOwns,
       RetireOwns, RetireCommit
  <2>4. ASSUME NEW t \in Task, RetireLate(t) PROVE Numbers'
    BY <2>4 DEF Calmly, Numbers, ClaimTypes, FlagTypes, TaskTypes, AgentTypes, Fresh, PumpOwns,
       RetireOwns, RetireLate
  <2> QED BY <1>4, <1>2, <2>1, <2>2, <2>3, <2>4 DEF Retirement
<1>5. CASE PumpStep
  <2>1. ASSUME NEW x \in Exec, PumpIgnores(x) \/ PumpRetires(x) PROVE UNCHANGED <<agent, nextId,
       unclean, terminal, prepared>>
    BY <2>1 DEF PumpIgnores, PumpRetires
  <2>2. ASSUME PumpLocks \/ PumpStops \/ PumpExits PROVE UNCHANGED <<agent, nextId, unclean,
       terminal, prepared>>
    BY <2>2 DEF PumpLocks, PumpStops, PumpExits
  <2>3. ASSUME NEW x \in Exec, PumpDefers(x) PROVE Numbers'
    BY <2>3 DEF Calmly, Numbers, ClaimTypes, FlagTypes, TaskTypes, AgentTypes, Fresh, PumpOwns,
       RetireOwns, PumpDefers
  <2>4. ASSUME NEW x \in Exec, PumpCompletes(x) PROVE Numbers'
    BY <2>4 DEF Calmly, Numbers, ClaimTypes, FlagTypes, TaskTypes, AgentTypes, Fresh, PumpOwns,
       RetireOwns, PumpCompletes
  <2>5. CASE PumpCloses
    BY <2>5 DEF Calmly, Numbers, ClaimTypes, FlagTypes, TaskTypes, AgentTypes, Fresh, PumpOwns,
       RetireOwns, PumpCloses
  <2>6. CASE PumpCommits
    BY <2>6 DEF Calmly, Numbers, ClaimTypes, FlagTypes, TaskTypes, AgentTypes, Fresh, PumpOwns,
       RetireOwns, PumpCommits
  <2> QED BY <1>5, <1>2, <2>1, <2>2, <2>3, <2>4, <2>5, <2>6 DEF PumpStep
<1>6. CASE Delivery
  <2>1. ASSUME DeliverBegin \/ DeliverRefused \/ DeliverLook \/ DeliverSteered \/ DeliverInterrupt
       PROVE UNCHANGED <<agent, nextId, unclean, terminal, prepared>>
    BY <2>1 DEF DeliverBegin, DeliverRefused, DeliverLook, DeliverSteered, DeliverInterrupt
  <2> QED BY <1>6, <1>2, <1>1, <2>1 DEF Delivery
<1>7. CASE StopEnter
  BY <1>2, <1>7 DEF StopEnter
<1>8. CASE SwitchStep
  <2>1. ASSUME SwitchEnter \/ SwitchCheck \/ SwitchRefused \/ SwitchStopsPump PROVE UNCHANGED
       <<agent, nextId, unclean, terminal, prepared>>
    BY <2>1 DEF SwitchEnter, SwitchCheck, SwitchRefused, SwitchStopsPump
  <2>2. CASE SwitchCloses
    BY <2>2 DEF Calmly, Numbers, ClaimTypes, FlagTypes, TaskTypes, AgentTypes, Fresh, PumpOwns,
       RetireOwns, SwitchCloses
  <2> QED BY <1>8, <1>2, <2>1, <2>2 DEF SwitchStep
<1>9. CASE DownStep
  <2>1. ASSUME CloseEnter \/ DownBegin \/ DownWaited \/ DownTimesOut \/ DownReap PROVE UNCHANGED
       <<agent, nextId, unclean, terminal, prepared>>
    BY <2>1 DEF CloseEnter, DownBegin, DownWaited, DownTimesOut, DownReap
  <2>2. CASE DownInsert
    BY <2>2 DEF Calmly, Numbers, ClaimTypes, FlagTypes, TaskTypes, AgentTypes, Fresh, PumpOwns,
       RetireOwns, DownInsert
  <2> QED BY <1>9, <1>2, <2>1, <2>2 DEF DownStep
<1>10. CASE Requests
  <2>1. ASSUME AcceptInput \/ StopRequest \/ SwitchRequest \/ CloseRequest \/ DaemonExit PROVE
       UNCHANGED <<agent, nextId, unclean, terminal, prepared>>
    BY <2>1 DEF AcceptInput, StopRequest, SwitchRequest, CloseRequest, DaemonExit
  <2>2. ASSUME NEW x \in Exec, DirectSend(x) PROVE Numbers'
    BY <2>2 DEF Calmly, CalmStep, Numbers, ClaimTypes, FlagTypes, TaskTypes, AgentTypes, Fresh,
       PumpOwns, RetireOwns, DirectSend
  <2> QED BY <1>10, <1>2, <2>1, <2>2 DEF Requests
<1>11. CASE Failures
  <2>1. ASSUME NEW x \in Exec, HandFails(x) \/ HandBindUnsaved(x) \/ HandDropped(x) \/ AgentCrash(x)
       \/ AgentRepeats(x) PROVE UNCHANGED <<agent, nextId, unclean, terminal, prepared>>
    BY <2>1 DEF HandFails, HandBindUnsaved, HandDropped, AgentCrash, AgentRepeats
  <2>2. ASSUME NEW t \in Task, RetireCloseFails(t) PROVE Numbers'
    BY <2>2 DEF Calmly, Numbers, ClaimTypes, FlagTypes, TaskTypes, AgentTypes, Fresh, PumpOwns,
       RetireOwns, RetireCloseFails
  <2>3. ASSUME NEW t \in Task, RetireCommitUnsaved(t) PROVE Numbers'
    BY <2>3 DEF Calmly, Numbers, ClaimTypes, FlagTypes, TaskTypes, AgentTypes, Fresh, PumpOwns,
       RetireOwns, RetireCommitUnsaved
  <2>4. CASE PumpCloseFails
    BY <2>4 DEF Calmly, Numbers, ClaimTypes, FlagTypes, TaskTypes, AgentTypes, Fresh, PumpOwns,
       RetireOwns, PumpCloseFails
  <2>5. CASE SwitchCloseFails
    BY <2>5 DEF Calmly, CalmStep, Numbers, ClaimTypes, FlagTypes, TaskTypes, AgentTypes, Fresh,
       PumpOwns, RetireOwns, SwitchCloseFails
  <2> QED BY <1>11, <1>2, <2>1, <2>2, <2>3, <2>4, <2>5 DEF Failures, CalmStep
<1>12. CASE AgentStep
  BY <1>2, <1>12 DEF AgentStep, AgentEnds
<1>13. CASE Rest \/ UNCHANGED vars
  BY <1>2, <1>13 DEF Rest, vars
<1> QED BY <1>3, <1>4, <1>5, <1>6, <1>7, <1>8, <1>9, <1>10, <1>11, <1>12, <1>13 DEF Next

(* A process is not named before its handover spawns it. *)
LEMMA KeepsNew == ASSUME IInv, Calmly, CalmStep, [Next]_vars PROVE New'
<1>1. ASSUME NEW x \in Exec, DirectSend(x) \/ DeliverClaim(x) PROVE New'
  <2>1. UNCHANGED <<agent, unclean>> /\ ClaimAs(x)
    BY <1>1 DEF DirectSend, DeliverClaim
  <2>2. agent # x /\ x \notin unclean
    BY <2>1, Claimed
  <2>0. /\ \A y \in Exec : ~Starting(y)
        /\ \A y \in Exec, kind \in {"hand", "drop", "stop", "down"} :
             task'[<<kind, y>>] = IF kind = "hand" /\ y = x THEN "start" ELSE task[<<kind, y>>]
    BY <2>1, Claimed
  <2>3. \A y \in Exec : Begun(y)' => y = x
    <3> HIDE DEF Task, Exec
    <3> QED BY <2>0 DEF Begun
  <2> QED BY <2>1, <2>2, <2>3 DEF New
<1>2. ASSUME NEW x \in Exec, HandReuse(x) \/ HandSpawn(x) \/ HandSend(x) \/ HandBind(x) PROVE New'
  <2>1. \A y \in Exec : Begun(y)' => Begun(y)
    BY <1>2 DEF HandReuse, HandSpawn, HandSend, HandBind, Begun, TaskTypes
  <2>2. UNCHANGED <<agent, unclean>>
    BY <1>2 DEF HandReuse, HandSpawn, HandSend, HandBind
  <2> QED BY <2>1, <2>2 DEF Calmly, New
<1>3. ASSUME NEW t \in Task, StopAsked(t) \/ RetireMark(t) \/ RetireJoin(t) \/ RetireLock(t) PROVE
     New'
  <2>1. \A y \in Exec : Begun(y)' => Begun(y)
    BY <1>3 DEF StopAsked, RetireMark, RetireJoin, RetireLock, Begun, TaskTypes
  <2>2. UNCHANGED <<agent, unclean>>
    BY <1>3 DEF StopAsked, RetireMark, RetireJoin, RetireLock
  <2> QED BY <2>1, <2>2 DEF Calmly, New
<1>4. CASE PumpCloseFails \/ SwitchCloseFails
  <2>1. unclean' = unclean \cup {agent} /\ UNCHANGED <<agent, task>>
    BY <1>4 DEF PumpCloseFails, SwitchCloseFails
  <2> QED BY <2>1 DEF Calmly, New, Begun
<1>5. CASE UNCHANGED <<task, agent, unclean>>
  BY <1>5 DEF Calmly, New, Begun
<1>6. CASE Handover
  <2>1. ASSUME NEW x \in Exec, HandInstall(x) PROVE New'
    BY <2>1 DEF Calmly, New, Begun, AgentTypes, TaskTypes, ClaimTypes, FlagTypes, Fresh, Numbers,
       HandOwns, Unclean, Starts, Processes, HandInstall
  <2>2. ASSUME NEW x \in Exec, HandRefused(x) PROVE New'
    BY <2>2 DEF Calmly, New, Begun, AgentTypes, TaskTypes, ClaimTypes, FlagTypes, Fresh, Numbers,
       HandOwns, Unclean, Starts, Processes, HandRefused
  <2>3. ASSUME NEW x \in Exec, HandCanceled(x) PROVE New'
    BY <2>3 DEF Calmly, New, Begun, AgentTypes, TaskTypes, ClaimTypes, FlagTypes, Fresh, Numbers,
       HandOwns, Unclean, Starts, Processes, HandCanceled
  <2> QED BY <1>6, <1>2, <2>1, <2>2, <2>3 DEF Handover
<1>7. CASE Retirement
  <2>1. ASSUME NEW t \in Task, RetireClose(t) PROVE New'
    BY <2>1 DEF Calmly, New, Begun, AgentTypes, TaskTypes, ClaimTypes, FlagTypes, Fresh, Numbers,
       HandOwns, Unclean, Starts, Processes, RetireClose
  <2>2. ASSUME NEW t \in Task, RetireCommit(t) PROVE New'
    BY <2>2 DEF Calmly, New, Begun, AgentTypes, TaskTypes, ClaimTypes, FlagTypes, Fresh, Numbers,
       HandOwns, Unclean, Starts, Processes, RetireCommit
  <2>3. ASSUME NEW t \in Task, RetireLate(t) PROVE New'
    BY <2>3 DEF Calmly, New, Begun, AgentTypes, TaskTypes, ClaimTypes, FlagTypes, Fresh, Numbers,
       HandOwns, Unclean, Starts, Processes, RetireLate
  <2> QED BY <1>7, <1>3, <2>1, <2>2, <2>3 DEF Retirement
<1>8. CASE PumpStep
  <2>1. ASSUME NEW x \in Exec, PumpIgnores(x) \/ PumpDefers(x) \/ PumpCompletes(x) \/ PumpRetires(x)
       PROVE UNCHANGED <<task, agent, unclean>>
    BY <2>1 DEF PumpIgnores, PumpDefers, PumpCompletes, PumpRetires
  <2>2. ASSUME PumpLocks \/ PumpCommits \/ PumpStops \/ PumpExits PROVE UNCHANGED <<task, agent,
       unclean>>
    BY <2>2 DEF PumpLocks, PumpCommits, PumpStops, PumpExits
  <2>3. CASE PumpCloses
    BY <2>3 DEF Calmly, New, Begun, AgentTypes, TaskTypes, ClaimTypes, FlagTypes, Fresh, Numbers,
       HandOwns, Unclean, Starts, Processes, PumpCloses
  <2> QED BY <1>8, <1>5, <2>1, <2>2, <2>3 DEF PumpStep
<1>9. CASE Delivery
  <2>1. ASSUME DeliverBegin \/ DeliverRefused \/ DeliverLook \/ DeliverSteered PROVE UNCHANGED
       <<task, agent, unclean>>
    BY <2>1 DEF DeliverBegin, DeliverRefused, DeliverLook, DeliverSteered
  <2>2. CASE DeliverInterrupt
    BY <2>2 DEF Calmly, New, Begun, AgentTypes, TaskTypes, ClaimTypes, FlagTypes, Fresh, Numbers,
       HandOwns, Unclean, Starts, Processes, DeliverInterrupt
  <2> QED BY <1>9, <1>5, <1>1, <2>1, <2>2 DEF Delivery
<1>10. CASE StopEnter
  BY <1>10 DEF Calmly, New, Begun, AgentTypes, TaskTypes, ClaimTypes, FlagTypes, Fresh, Numbers,
     HandOwns, Unclean, Starts, Processes, StopEnter
<1>11. CASE SwitchStep
  <2>1. ASSUME SwitchEnter \/ SwitchCheck \/ SwitchRefused \/ SwitchStopsPump PROVE UNCHANGED
       <<task, agent, unclean>>
    BY <2>1 DEF SwitchEnter, SwitchCheck, SwitchRefused, SwitchStopsPump
  <2>2. CASE SwitchCloses
    BY <2>2 DEF Calmly, New, Begun, AgentTypes, TaskTypes, ClaimTypes, FlagTypes, Fresh, Numbers,
       HandOwns, Unclean, Starts, Processes, SwitchCloses
  <2> QED BY <1>11, <1>5, <2>1, <2>2 DEF SwitchStep
<1>12. CASE DownStep
  <2>1. ASSUME CloseEnter \/ DownBegin \/ DownWaited \/ DownTimesOut PROVE UNCHANGED <<task, agent,
       unclean>>
    BY <2>1 DEF CloseEnter, DownBegin, DownWaited, DownTimesOut
  <2>2. CASE DownReap
    BY <2>2 DEF Calmly, New, Begun, AgentTypes, TaskTypes, ClaimTypes, FlagTypes, Fresh, Numbers,
       HandOwns, Unclean, Starts, Processes, DownReap
  <2>3. CASE DownInsert
    BY <2>3 DEF Calmly, New, Begun, AgentTypes, TaskTypes, ClaimTypes, FlagTypes, Fresh, Numbers,
       HandOwns, Unclean, Starts, Processes, DownInsert
  <2> QED BY <1>12, <1>5, <2>1, <2>2, <2>3 DEF DownStep
<1>13. CASE Requests
  <2>1. ASSUME AcceptInput \/ StopRequest \/ SwitchRequest \/ CloseRequest \/ DaemonExit PROVE
       UNCHANGED <<task, agent, unclean>>
    BY <2>1 DEF AcceptInput, StopRequest, SwitchRequest, CloseRequest, DaemonExit
  <2> QED BY <1>13, <1>5, <1>1, <2>1 DEF Requests
<1>14. CASE Failures
  <2>1. ASSUME NEW x \in Exec, AgentCrash(x) \/ AgentRepeats(x) PROVE UNCHANGED <<task, agent,
       unclean>>
    BY <2>1 DEF AgentCrash, AgentRepeats
  <2>2. ASSUME NEW x \in Exec, HandFails(x) PROVE New'
    BY <2>2 DEF Calmly, New, Begun, AgentTypes, TaskTypes, ClaimTypes, FlagTypes, Fresh, Numbers,
       HandOwns, Unclean, Starts, Processes, HandFails
  <2>3. ASSUME NEW x \in Exec, HandBindUnsaved(x) PROVE New'
    BY <2>3 DEF Calmly, New, Begun, AgentTypes, TaskTypes, ClaimTypes, FlagTypes, Fresh, Numbers,
       HandOwns, Unclean, Starts, Processes, HandBindUnsaved
  <2>4. ASSUME NEW x \in Exec, HandDropped(x) PROVE New'
    BY <2>4 DEF Calmly, New, Begun, AgentTypes, TaskTypes, ClaimTypes, FlagTypes, Fresh, Numbers,
       HandOwns, Unclean, Starts, Processes, HandDropped
  <2>5. ASSUME NEW t \in Task, RetireCloseFails(t) PROVE New'
    BY <2>5 DEF Calmly, New, Begun, AgentTypes, TaskTypes, ClaimTypes, FlagTypes, Fresh, Numbers,
       HandOwns, Unclean, Starts, Processes, RetireCloseFails
  <2>6. ASSUME NEW t \in Task, RetireCommitUnsaved(t) PROVE New'
    BY <2>6 DEF Calmly, New, Begun, AgentTypes, TaskTypes, ClaimTypes, FlagTypes, Fresh, Numbers,
       HandOwns, Unclean, Starts, Processes, RetireCommitUnsaved
  <2> QED BY <1>14, <1>5, <1>4, <2>1, <2>2, <2>3, <2>4, <2>5, <2>6 DEF Failures, CalmStep
<1>15. CASE AgentStep
  BY <1>5, <1>15 DEF AgentStep, AgentEnds
<1>16. CASE Rest \/ UNCHANGED vars
  BY <1>5, <1>16 DEF Rest, vars
<1> QED BY <1>6, <1>7, <1>8, <1>9, <1>10, <1>11, <1>12, <1>13, <1>14, <1>15, <1>16 DEF Next

(* A process replaced by another is gone. *)
LEMMA KeepsProcesses == ASSUME IInv, Calmly, CalmStep, [Next]_vars PROVE Processes'
<1>1. ASSUME NEW x \in Exec, HandSpawn(x) PROVE Processes'
  <2>1. \A u \in Task : task'[u] = IF u = <<"hand", x>> THEN "joinOld" ELSE task[u]
    BY <1>1 DEF HandSpawn, TaskTypes
  <2>2. procs' = procs \cup {x} /\ agent' = agent /\ procs \subseteq Exec
    BY <1>1 DEF HandSpawn, AgentTypes
  <2>3. ASSUME NEW p \in procs', p # agent' PROVE task'[<<"hand", p>>] = "joinOld"
    <3>1. <<"hand", p>> \in Task /\ <<"hand", x>> \in Task
      BY <2>2, TaskOf
    <3>2. p # x => task[<<"hand", p>>] = "joinOld"
      BY <2>2, <2>3 DEF Calmly, Processes
    <3> QED BY <2>1, <3>1, <3>2
  <2> QED BY <2>3 DEF Processes
<1>2. ASSUME NEW x \in Exec, HandInstall(x) PROVE Processes'
  <2>1. agent = NoExec /\ agent' = x /\ procs' = procs /\ procs \subseteq Exec
    BY <1>2 DEF HandInstall, HandOwns, AgentTypes
  <2>2. ASSUME NEW p \in procs PROVE p = x
    <3>1. p \in Exec /\ p # NoExec
      BY <2>1
    <3>2. Starting(p) /\ Starting(x)
      BY <2>1, <3>1, <1>2 DEF Calmly, Processes, HandInstall
    <3> QED BY <3>1, <3>2 DEF Calmly, Starts
  <2> QED BY <2>1, <2>2 DEF Processes
<1>3. ASSUME NEW x \in Exec, DirectSend(x) \/ DeliverClaim(x) PROVE Processes'
  <2>1. UNCHANGED <<agent, procs>> /\ ClaimAs(x) /\ procs \subseteq Exec
    BY <1>3 DEF DirectSend, DeliverClaim, AgentTypes
  <2>2. /\ ~Active(<<"hand", x>>)
        /\ \A y \in Exec, kind \in {"hand", "drop", "stop", "down"} :
             task'[<<kind, y>>] = IF kind = "hand" /\ y = x THEN "start" ELSE task[<<kind, y>>]
    BY <2>1, Claimed
  <2>3. ASSUME NEW p \in procs, p # agent PROVE task'[<<"hand", p>>] = "joinOld"
    <3>1. task[<<"hand", p>>] = "joinOld" /\ p \in Exec
      BY <2>1, <2>3 DEF Calmly, Processes
    <3>2. p # x
      BY <2>2, <3>1
    <3> HIDE DEF Task, Exec
    <3> QED BY <2>2, <3>1, <3>2
  <2> QED BY <2>1, <2>3 DEF Processes
<1>4. CASE UNCHANGED <<procs, agent, task>>
  BY <1>4 DEF Calmly, Processes
<1>5. CASE Handover
  <2>1. ASSUME NEW x \in Exec, HandReuse(x) \/ HandSend(x) \/ HandBind(x) PROVE Processes'
    BY <2>1 DEF Calmly, Processes, AgentTypes, TaskTypes, HandOwns, Starts, Fresh, HandReuse,
       HandSend, HandBind
  <2>2. ASSUME NEW x \in Exec, HandRefused(x) PROVE Processes'
    BY <2>2 DEF Calmly, Processes, AgentTypes, TaskTypes, HandOwns, Starts, Fresh, HandRefused
  <2>3. ASSUME NEW x \in Exec, HandCanceled(x) PROVE Processes'
    BY <2>3 DEF Calmly, Processes, AgentTypes, TaskTypes, HandOwns, Starts, Fresh, HandCanceled
  <2> QED BY <1>5, <1>1, <1>2, <2>1, <2>2, <2>3 DEF Handover
<1>6. CASE Retirement
  <2>1. ASSUME NEW t \in Task, StopAsked(t) PROVE Processes'
    BY <2>1 DEF Calmly, Processes, AgentTypes, TaskTypes, HandOwns, Starts, Fresh, StopAsked
  <2>2. ASSUME NEW t \in Task, RetireMark(t) PROVE Processes'
    BY <2>2 DEF Calmly, Processes, AgentTypes, TaskTypes, HandOwns, Starts, Fresh, RetireMark
  <2>3. ASSUME NEW t \in Task, RetireJoin(t) PROVE Processes'
    BY <2>3 DEF Calmly, Processes, AgentTypes, TaskTypes, HandOwns, Starts, Fresh, RetireJoin
  <2>4. ASSUME NEW t \in Task, RetireLock(t) PROVE Processes'
    BY <2>4 DEF Calmly, Processes, AgentTypes, TaskTypes, HandOwns, Starts, Fresh, RetireLock
  <2>5. ASSUME NEW t \in Task, RetireClose(t) PROVE Processes'
    BY <2>5 DEF Calmly, Processes, AgentTypes, TaskTypes, HandOwns, Starts, Fresh, RetireClose
  <2>6. ASSUME NEW t \in Task, RetireCommit(t) PROVE Processes'
    BY <2>6 DEF Calmly, Processes, AgentTypes, TaskTypes, HandOwns, Starts, Fresh, RetireCommit
  <2>7. ASSUME NEW t \in Task, RetireLate(t) PROVE Processes'
    BY <2>7 DEF Calmly, Processes, AgentTypes, TaskTypes, HandOwns, Starts, Fresh, RetireLate
  <2> QED BY <1>6, <2>1, <2>2, <2>3, <2>4, <2>5, <2>6, <2>7 DEF Retirement
<1>7. CASE PumpStep
  <2>1. ASSUME NEW x \in Exec, PumpIgnores(x) \/ PumpDefers(x) \/ PumpCompletes(x) \/ PumpRetires(x)
       PROVE UNCHANGED <<procs, agent, task>>
    BY <2>1 DEF PumpIgnores, PumpDefers, PumpCompletes, PumpRetires
  <2>2. ASSUME PumpLocks \/ PumpCommits \/ PumpStops \/ PumpExits PROVE UNCHANGED <<procs, agent,
       task>>
    BY <2>2 DEF PumpLocks, PumpCommits, PumpStops, PumpExits
  <2>3. CASE PumpCloses
    BY <2>3 DEF Calmly, Processes, AgentTypes, TaskTypes, HandOwns, Starts, Fresh, PumpCloses
  <2> QED BY <1>7, <1>4, <2>1, <2>2, <2>3 DEF PumpStep
<1>8. CASE Delivery
  <2>1. ASSUME DeliverBegin \/ DeliverRefused \/ DeliverLook \/ DeliverSteered PROVE UNCHANGED
       <<procs, agent, task>>
    BY <2>1 DEF DeliverBegin, DeliverRefused, DeliverLook, DeliverSteered
  <2>2. CASE DeliverInterrupt
    BY <2>2 DEF Calmly, Processes, AgentTypes, TaskTypes, HandOwns, Starts, Fresh, DeliverInterrupt
  <2> QED BY <1>8, <1>4, <1>3, <2>1, <2>2 DEF Delivery
<1>9. CASE StopEnter
  BY <1>9 DEF Calmly, Processes, AgentTypes, TaskTypes, HandOwns, Starts, Fresh, StopEnter
<1>10. CASE SwitchStep
  <2>1. ASSUME SwitchEnter \/ SwitchCheck \/ SwitchRefused \/ SwitchStopsPump PROVE UNCHANGED
       <<procs, agent, task>>
    BY <2>1 DEF SwitchEnter, SwitchCheck, SwitchRefused, SwitchStopsPump
  <2>2. CASE SwitchCloses
    BY <2>2 DEF Calmly, Processes, AgentTypes, TaskTypes, HandOwns, Starts, Fresh, SwitchCloses
  <2> QED BY <1>10, <1>4, <2>1, <2>2 DEF SwitchStep
<1>11. CASE DownStep
  <2>1. ASSUME CloseEnter \/ DownBegin \/ DownWaited \/ DownTimesOut PROVE UNCHANGED <<procs, agent,
       task>>
    BY <2>1 DEF CloseEnter, DownBegin, DownWaited, DownTimesOut
  <2>2. CASE DownReap
    BY <2>2 DEF Calmly, Processes, AgentTypes, TaskTypes, HandOwns, Starts, Fresh, DownReap
  <2>3. CASE DownInsert
    BY <2>3 DEF Calmly, Processes, AgentTypes, TaskTypes, HandOwns, Starts, Fresh, DownInsert
  <2> QED BY <1>11, <1>4, <2>1, <2>2, <2>3 DEF DownStep
<1>12. CASE Requests
  <2>1. ASSUME AcceptInput \/ StopRequest \/ SwitchRequest \/ CloseRequest \/ DaemonExit PROVE
       UNCHANGED <<procs, agent, task>>
    BY <2>1 DEF AcceptInput, StopRequest, SwitchRequest, CloseRequest, DaemonExit
  <2> QED BY <1>12, <1>4, <1>3, <2>1 DEF Requests
<1>13. CASE Failures
  <2>1. ASSUME NEW x \in Exec, AgentRepeats(x) PROVE UNCHANGED <<procs, agent, task>>
    BY <2>1 DEF AgentRepeats
  <2>2. ASSUME PumpCloseFails \/ SwitchCloseFails PROVE UNCHANGED <<procs, agent, task>>
    BY <2>2 DEF PumpCloseFails, SwitchCloseFails
  <2>3. ASSUME NEW x \in Exec, HandFails(x) PROVE Processes'
    BY <2>3 DEF Calmly, Processes, AgentTypes, TaskTypes, HandOwns, Starts, Fresh, HandFails
  <2>4. ASSUME NEW x \in Exec, HandBindUnsaved(x) PROVE Processes'
    BY <2>4 DEF Calmly, Processes, AgentTypes, TaskTypes, HandOwns, Starts, Fresh, HandBindUnsaved
  <2>5. ASSUME NEW x \in Exec, HandDropped(x) PROVE Processes'
    BY <2>5 DEF Calmly, Processes, AgentTypes, TaskTypes, HandOwns, Starts, Fresh, HandDropped
  <2>6. ASSUME NEW x \in Exec, AgentCrash(x) PROVE Processes'
    BY <2>6 DEF Calmly, Processes, AgentTypes, TaskTypes, HandOwns, Starts, Fresh, AgentCrash
  <2>7. ASSUME NEW t \in Task, RetireCloseFails(t) PROVE Processes'
    BY <2>7 DEF Calmly, Processes, AgentTypes, TaskTypes, HandOwns, Starts, Fresh, RetireCloseFails
  <2>8. ASSUME NEW t \in Task, RetireCommitUnsaved(t) PROVE Processes'
    BY <2>8 DEF Calmly, Processes, AgentTypes, TaskTypes, HandOwns, Starts, Fresh,
       RetireCommitUnsaved
  <2> QED BY <1>13, <1>4, <2>1, <2>2, <2>3, <2>4, <2>5, <2>6, <2>7, <2>8 DEF Failures, CalmStep
<1>14. CASE AgentStep
  BY <1>4, <1>14 DEF AgentStep, AgentEnds
<1>15. CASE Rest \/ UNCHANGED vars
  BY <1>4, <1>15 DEF Rest, vars
<1> QED BY <1>5, <1>6, <1>7, <1>8, <1>9, <1>10, <1>11, <1>12, <1>13, <1>14, <1>15 DEF Next

(* A process that could not be closed stays with an owner nobody prompts for. *)
LEMMA KeepsUnclean == ASSUME IInv, Calmly, CalmStep, [Next]_vars PROVE Unclean'
<1>1. ASSUME NEW t \in Task, RetireClose(t) PROVE Unclean'
  <2>1. agent' = NoExec /\ unclean' = unclean /\ NoExec \notin unclean
    BY <1>1 DEF RetireClose, AgentTypes
  <2> QED BY <2>1 DEF Unclean
<1>2. CASE PumpCloses \/ SwitchCloses
  <2>1. agent' = NoExec /\ unclean' = unclean /\ NoExec \notin unclean
    BY <1>2 DEF PumpCloses, SwitchCloses, AgentTypes
  <2> QED BY <2>1 DEF Unclean
<1>3. ASSUME NEW t \in Task, RetireCommit(t) \/ RetireCommitUnsaved(t) PROVE Unclean'
  <2>1. agent = NoExec /\ UNCHANGED <<agent, unclean>> /\ NoExec \notin unclean
    BY <1>3 DEF RetireCommit, RetireCommitUnsaved, RetireOwns, AgentTypes
  <2> QED BY <2>1 DEF Unclean
<1>4. CASE PumpCommits
  <2>1. agent = NoExec /\ UNCHANGED <<agent, unclean>> /\ NoExec \notin unclean
    BY <1>4 DEF PumpCommits, PumpOwns, AgentTypes
  <2> QED BY <2>1 DEF Unclean
<1>5. CASE UNCHANGED <<agent, unclean, phase>>
  BY <1>5 DEF Calmly, Unclean
<1>6. CASE Handover
  <2>1. ASSUME NEW x \in Exec, HandReuse(x) \/ HandSpawn(x) \/ HandSend(x) \/ HandRefused(x) \/
       HandCanceled(x) PROVE UNCHANGED <<agent, unclean, phase>>
    BY <2>1 DEF HandReuse, HandSpawn, HandSend, HandRefused, HandCanceled
  <2>2. ASSUME NEW x \in Exec, HandInstall(x) PROVE Unclean'
    BY <2>2 DEF Calmly, Unclean, New, Begun, ClaimHasPhase, PumpOwns, RetireOwns, Starts,
       HandInstall
  <2>3. ASSUME NEW x \in Exec, HandBind(x) PROVE Unclean'
    BY <2>3 DEF Calmly, Unclean, New, Begun, ClaimHasPhase, PumpOwns, RetireOwns, Starts, HandBind
  <2> QED BY <1>6, <1>5, <2>1, <2>2, <2>3 DEF Handover
<1>7. CASE Retirement
  <2>1. ASSUME NEW t \in Task, StopAsked(t) \/ RetireJoin(t) \/ RetireLock(t) PROVE UNCHANGED
       <<agent, unclean, phase>>
    BY <2>1 DEF StopAsked, RetireJoin, RetireLock
  <2>2. ASSUME NEW t \in Task, RetireMark(t) \/ RetireLate(t) PROVE Unclean'
    BY <2>2 DEF Calmly, Unclean, New, Begun, ClaimHasPhase, PumpOwns, RetireOwns, Starts,
       RetireMark, RetireLate
  <2> QED BY <1>7, <1>5, <1>1, <1>3, <2>1, <2>2 DEF Retirement
<1>8. CASE PumpStep
  <2>1. ASSUME NEW x \in Exec, PumpIgnores(x) \/ PumpDefers(x) PROVE UNCHANGED <<agent, unclean,
       phase>>
    BY <2>1 DEF PumpIgnores, PumpDefers
  <2>2. ASSUME PumpLocks \/ PumpStops \/ PumpExits PROVE UNCHANGED <<agent, unclean, phase>>
    BY <2>2 DEF PumpLocks, PumpStops, PumpExits
  <2>3. ASSUME NEW x \in Exec, PumpCompletes(x) \/ PumpRetires(x) PROVE Unclean'
    BY <2>3 DEF Calmly, Unclean, New, Begun, ClaimHasPhase, PumpOwns, RetireOwns, Starts,
       PumpCompletes, PumpRetires
  <2> QED BY <1>8, <1>5, <1>2, <1>4, <2>1, <2>2, <2>3 DEF PumpStep
<1>9. CASE Delivery
  <2>1. ASSUME DeliverBegin \/ DeliverRefused \/ DeliverLook \/ DeliverSteered PROVE UNCHANGED
       <<agent, unclean, phase>>
    BY <2>1 DEF DeliverBegin, DeliverRefused, DeliverLook, DeliverSteered
  <2>2. CASE DeliverInterrupt
    BY <2>2 DEF Calmly, Unclean, New, Begun, ClaimHasPhase, PumpOwns, RetireOwns, Starts,
       DeliverInterrupt
  <2>3. ASSUME NEW x \in Exec, DeliverClaim(x) PROVE Unclean'
    BY <2>3 DEF Calmly, Unclean, New, Begun, ClaimHasPhase, PumpOwns, RetireOwns, Starts,
       DeliverClaim
  <2> QED BY <1>9, <1>5, <2>1, <2>2, <2>3 DEF Delivery
<1>10. CASE StopEnter
  BY <1>10 DEF Calmly, Unclean, New, Begun, ClaimHasPhase, PumpOwns, RetireOwns, Starts, StopEnter
<1>11. CASE SwitchStep
  <2>1. ASSUME SwitchEnter \/ SwitchRefused \/ SwitchStopsPump PROVE UNCHANGED <<agent, unclean,
       phase>>
    BY <2>1 DEF SwitchEnter, SwitchRefused, SwitchStopsPump
  <2>2. CASE SwitchCheck
    BY <2>2 DEF Calmly, Unclean, New, Begun, ClaimHasPhase, PumpOwns, RetireOwns, Starts,
       SwitchCheck
  <2> QED BY <1>11, <1>5, <1>2, <2>1, <2>2 DEF SwitchStep
<1>12. CASE DownStep
  BY <1>12 DEF Calmly, Unclean, New, Begun, ClaimHasPhase, PumpOwns, RetireOwns, Starts, DownStep,
     CloseEnter, DownBegin, DownWaited, DownTimesOut, DownReap, DownInsert
<1>13. CASE Requests
  <2>1. ASSUME AcceptInput \/ StopRequest \/ SwitchRequest \/ CloseRequest \/ DaemonExit PROVE
       UNCHANGED <<agent, unclean, phase>>
    BY <2>1 DEF AcceptInput, StopRequest, SwitchRequest, CloseRequest, DaemonExit
  <2>2. ASSUME NEW x \in Exec, DirectSend(x) PROVE Unclean'
    BY <2>2 DEF Calmly, CalmStep, Unclean, New, Begun, ClaimHasPhase, PumpOwns, RetireOwns, Starts,
       DirectSend
  <2> QED BY <1>13, <1>5, <2>1, <2>2 DEF Requests
<1>14. CASE Failures
  <2>1. ASSUME NEW x \in Exec, HandFails(x) \/ HandDropped(x) \/ AgentCrash(x) \/ AgentRepeats(x)
       PROVE UNCHANGED <<agent, unclean, phase>>
    BY <2>1 DEF HandFails, HandDropped, AgentCrash, AgentRepeats
  <2>2. ASSUME NEW x \in Exec, HandBindUnsaved(x) PROVE Unclean'
    BY <2>2 DEF Calmly, Unclean, New, Begun, ClaimHasPhase, PumpOwns, RetireOwns, Starts,
       HandBindUnsaved
  <2>3. ASSUME NEW t \in Task, RetireCloseFails(t) PROVE Unclean'
    BY <2>3 DEF Calmly, Unclean, New, Begun, ClaimHasPhase, PumpOwns, RetireOwns, Starts,
       RetireCloseFails
  <2>4. CASE PumpCloseFails \/ SwitchCloseFails
    BY <2>4 DEF Calmly, CalmStep, Unclean, New, Begun, ClaimHasPhase, PumpOwns, RetireOwns, Starts,
       PumpCloseFails, SwitchCloseFails
  <2> QED BY <1>14, <1>5, <1>3, <2>1, <2>2, <2>3, <2>4 DEF Failures, CalmStep
<1>15. CASE AgentStep
  BY <1>5, <1>15 DEF AgentStep, AgentEnds
<1>16. CASE Rest \/ UNCHANGED vars
  BY <1>5, <1>16 DEF Rest, vars
<1> QED BY <1>6, <1>7, <1>8, <1>9, <1>10, <1>11, <1>12, <1>13, <1>14, <1>15, <1>16 DEF Next

(* A retirement that ends leaves the phase it found, or another retirement. *)
LEMMA KeepsStoppingHasOwner == ASSUME IInv, Calmly, CalmStep, [Next]_vars PROVE StoppingHasOwner'
<1>1. ASSUME NEW t \in Task, RetireMark(t) PROVE StoppingHasOwner'
  <2>1. claim' = claim /\ claim = t[2] /\ down' = down /\ task[t] = "mark"
    BY <1>1 DEF RetireMark
  <2>2. t = <<t[1], t[2]>> /\ t[1] \in {"hand", "drop", "stop", "down"} /\ t[2] \in Exec
    BY TaskOf
  <2>3. task'[t] = "join"
    BY <1>1 DEF RetireMark, TaskTypes
  <2>4. CASE t[1] = "down"
    BY <2>1, <2>2, <2>4 DEF Calmly, Downs, StoppingHasOwner, Responsible
  <2>5. CASE t[1] # "down"
    <3>1. Active(<<t[1], claim>>)'
      BY <2>1, <2>2, <2>3
    <3> QED BY <2>1, <2>2, <2>5, <3>1 DEF StoppingHasOwner, Responsible
  <2> QED BY <2>4, <2>5
<1>2. ASSUME NEW t \in Task, RetireLate(t) PROVE StoppingHasOwner'
  <2> SUFFICES ASSUME phase' = "stopping" PROVE Responsible(claim)'
    BY DEF StoppingHasOwner
  <2>1. UNCHANGED <<claim, phase, pumpAt, pumpOf>> /\ claim # t[2] /\ task[t] # "idle"
    BY <1>2 DEF RetireLate, ClaimHasPhase
  <2>2. claim \in Exec
    BY <2>1 DEF ClaimHasPhase, ClaimTypes
  <2>3. t = <<t[1], t[2]>> /\ t[2] \in Exec
    BY TaskOf
  <2>4. t[1] # "down"
    BY <2>1, <2>2, <2>3 DEF Calmly, Downs
  <2>5. down' = down
    BY <1>2, <2>4 DEF RetireLate
  <2>6. \A kind \in {"hand", "drop", "stop"} : task'[<<kind, claim>>] = task[<<kind, claim>>]
    <3>1. \A u \in Task : u # t => task'[u] = task[u]
      BY <1>2 DEF RetireLate, TaskTypes
    <3>2. \A kind \in {"hand", "drop", "stop"} : <<kind, claim>> \in Task /\ <<kind, claim>> # t
      BY <2>1, <2>2, <2>3, TaskOf
    <3> QED BY <3>1, <3>2
  <2> QED BY <2>1, <2>5, <2>6 DEF Calmly, StoppingHasOwner, Responsible
<1>3. CASE UNCHANGED <<phase, claim, task, pumpAt, pumpOf, down>>
  BY <1>3 DEF Calmly, StoppingHasOwner, Responsible
<1>4. CASE Handover
  <2>1. ASSUME NEW x \in Exec, HandReuse(x) PROVE StoppingHasOwner'
    BY <2>1 DEF Calmly, StoppingHasOwner, Responsible, ClaimTypes, TaskTypes, PumpOwns,
       ClaimHasPhase, Downs, HandOwns, HandReuse
  <2>2. ASSUME NEW x \in Exec, HandSpawn(x) PROVE StoppingHasOwner'
    BY <2>2 DEF Calmly, StoppingHasOwner, Responsible, ClaimTypes, TaskTypes, PumpOwns,
       ClaimHasPhase, Downs, HandOwns, HandSpawn
  <2>3. ASSUME NEW x \in Exec, HandInstall(x) PROVE StoppingHasOwner'
    BY <2>3 DEF Calmly, StoppingHasOwner, Responsible, ClaimTypes, TaskTypes, PumpOwns,
       ClaimHasPhase, Downs, HandOwns, HandInstall
  <2>4. ASSUME NEW x \in Exec, HandSend(x) PROVE StoppingHasOwner'
    BY <2>4 DEF Calmly, StoppingHasOwner, Responsible, ClaimTypes, TaskTypes, PumpOwns,
       ClaimHasPhase, Downs, HandOwns, HandSend
  <2>5. ASSUME NEW x \in Exec, HandBind(x) PROVE StoppingHasOwner'
    BY <2>5 DEF Calmly, StoppingHasOwner, Responsible, ClaimTypes, TaskTypes, PumpOwns,
       ClaimHasPhase, Downs, HandOwns, HandBind
  <2>6. ASSUME NEW x \in Exec, HandRefused(x) PROVE StoppingHasOwner'
    BY <2>6 DEF Calmly, StoppingHasOwner, Responsible, ClaimTypes, TaskTypes, PumpOwns,
       ClaimHasPhase, Downs, HandOwns, HandRefused
  <2>7. ASSUME NEW x \in Exec, HandCanceled(x) PROVE StoppingHasOwner'
    BY <2>7 DEF Calmly, StoppingHasOwner, Responsible, ClaimTypes, TaskTypes, PumpOwns,
       ClaimHasPhase, Downs, HandOwns, HandCanceled
  <2> QED BY <1>4, <2>1, <2>2, <2>3, <2>4, <2>5, <2>6, <2>7 DEF Handover
<1>5. CASE Retirement
  <2>1. ASSUME NEW t \in Task, StopAsked(t) PROVE StoppingHasOwner'
    BY <2>1 DEF Calmly, StoppingHasOwner, Responsible, ClaimTypes, TaskTypes, PumpOwns,
       ClaimHasPhase, Downs, HandOwns, StopAsked
  <2>2. ASSUME NEW t \in Task, RetireJoin(t) PROVE StoppingHasOwner'
    BY <2>2 DEF Calmly, StoppingHasOwner, Responsible, ClaimTypes, TaskTypes, PumpOwns,
       ClaimHasPhase, Downs, HandOwns, RetireJoin
  <2>3. ASSUME NEW t \in Task, RetireLock(t) PROVE StoppingHasOwner'
    BY <2>3 DEF Calmly, StoppingHasOwner, Responsible, ClaimTypes, TaskTypes, PumpOwns,
       ClaimHasPhase, Downs, HandOwns, RetireLock
  <2>4. ASSUME NEW t \in Task, RetireClose(t) \/ RetireCommit(t) PROVE StoppingHasOwner'
    BY <2>4 DEF Calmly, StoppingHasOwner, Responsible, ClaimTypes, TaskTypes, PumpOwns,
       ClaimHasPhase, Downs, HandOwns, RetireClose, RetireCommit
  <2> QED BY <1>5, <1>1, <1>2, <2>1, <2>2, <2>3, <2>4 DEF Retirement
<1>6. CASE PumpStep
  <2>1. ASSUME NEW x \in Exec, PumpIgnores(x) \/ PumpDefers(x) PROVE UNCHANGED <<phase, claim, task,
       pumpAt, pumpOf, down>>
    BY <2>1 DEF PumpIgnores, PumpDefers
  <2>2. ASSUME NEW x \in Exec, PumpCompletes(x) \/ PumpRetires(x) PROVE StoppingHasOwner'
    BY <2>2 DEF Calmly, StoppingHasOwner, Responsible, ClaimTypes, TaskTypes, PumpOwns,
       ClaimHasPhase, Downs, HandOwns, PumpCompletes, PumpRetires
  <2>3. CASE PumpLocks \/ PumpCloses \/ PumpCommits \/ PumpStops \/ PumpExits
    BY <2>3 DEF Calmly, StoppingHasOwner, Responsible, ClaimTypes, TaskTypes, PumpOwns,
       ClaimHasPhase, Downs, HandOwns, PumpLocks, PumpCloses, PumpCommits, PumpStops, PumpExits
  <2> QED BY <1>6, <1>3, <2>1, <2>2, <2>3 DEF PumpStep
<1>7. CASE Delivery
  <2>1. ASSUME DeliverBegin \/ DeliverRefused \/ DeliverLook \/ DeliverSteered PROVE UNCHANGED
       <<phase, claim, task, pumpAt, pumpOf, down>>
    BY <2>1 DEF DeliverBegin, DeliverRefused, DeliverLook, DeliverSteered
  <2>2. CASE DeliverInterrupt
    BY <2>2 DEF Calmly, StoppingHasOwner, Responsible, ClaimTypes, TaskTypes, PumpOwns,
       ClaimHasPhase, Downs, HandOwns, DeliverInterrupt
  <2>3. ASSUME NEW x \in Exec, DeliverClaim(x) PROVE StoppingHasOwner'
    BY <2>3 DEF Calmly, StoppingHasOwner, Responsible, ClaimTypes, TaskTypes, PumpOwns,
       ClaimHasPhase, Downs, HandOwns, DeliverClaim
  <2> QED BY <1>7, <1>3, <2>1, <2>2, <2>3 DEF Delivery
<1>8. CASE StopEnter
  BY <1>8 DEF Calmly, StoppingHasOwner, Responsible, ClaimTypes, TaskTypes, PumpOwns, ClaimHasPhase,
     Downs, HandOwns, StopEnter
<1>9. CASE SwitchStep
  BY <1>9 DEF Calmly, CalmStep, StoppingHasOwner, Responsible, ClaimTypes, TaskTypes, PumpOwns,
     ClaimHasPhase, Downs, HandOwns, SwitchStep, SwitchEnter, SwitchCheck, SwitchRefused,
     SwitchStopsPump, SwitchCloses
<1>10. CASE DownStep
  BY <1>10 DEF Calmly, StoppingHasOwner, Responsible, ClaimTypes, TaskTypes, PumpOwns,
     ClaimHasPhase, Downs, HandOwns, DownStep, CloseEnter, DownBegin, DownWaited, DownTimesOut,
     DownReap, DownInsert
<1>11. CASE Requests
  BY <1>11 DEF Calmly, CalmStep, StoppingHasOwner, Responsible, ClaimTypes, TaskTypes, PumpOwns,
     ClaimHasPhase, Downs, HandOwns, Requests, DirectSend, AcceptInput, StopRequest, SwitchRequest,
     CloseRequest, DaemonExit
<1>12. CASE Failures
  <2>1. ASSUME NEW x \in Exec, AgentCrash(x) \/ AgentRepeats(x) PROVE UNCHANGED <<phase, claim,
       task, pumpAt, pumpOf, down>>
    BY <2>1 DEF AgentCrash, AgentRepeats
  <2>2. ASSUME NEW x \in Exec, HandFails(x) PROVE StoppingHasOwner'
    BY <2>2 DEF Calmly, StoppingHasOwner, Responsible, ClaimTypes, TaskTypes, PumpOwns,
       ClaimHasPhase, Downs, HandOwns, HandFails
  <2>3. ASSUME NEW x \in Exec, HandBindUnsaved(x) PROVE StoppingHasOwner'
    BY <2>3 DEF Calmly, StoppingHasOwner, Responsible, ClaimTypes, TaskTypes, PumpOwns,
       ClaimHasPhase, Downs, HandOwns, HandBindUnsaved
  <2>4. ASSUME NEW x \in Exec, HandDropped(x) PROVE StoppingHasOwner'
    BY <2>4 DEF Calmly, StoppingHasOwner, Responsible, ClaimTypes, TaskTypes, PumpOwns,
       ClaimHasPhase, Downs, HandOwns, HandDropped
  <2>5. ASSUME NEW t \in Task, RetireCloseFails(t) \/ RetireCommitUnsaved(t) PROVE StoppingHasOwner'
    BY <2>5 DEF Calmly, StoppingHasOwner, Responsible, ClaimTypes, TaskTypes, PumpOwns,
       ClaimHasPhase, Downs, HandOwns, RetireCloseFails, RetireCommitUnsaved
  <2>6. CASE PumpCloseFails \/ SwitchCloseFails
    BY <2>6 DEF Calmly, CalmStep, StoppingHasOwner, Responsible, ClaimTypes, TaskTypes, PumpOwns,
       ClaimHasPhase, Downs, HandOwns, PumpCloseFails, SwitchCloseFails
  <2> QED BY <1>12, <1>3, <2>1, <2>2, <2>3, <2>4, <2>5, <2>6 DEF Failures, CalmStep
<1>13. CASE AgentStep
  BY <1>3, <1>13 DEF AgentStep, AgentEnds
<1>14. CASE Rest \/ UNCHANGED vars
  BY <1>3, <1>14 DEF Rest, vars
<1> QED BY <1>4, <1>5, <1>6, <1>7, <1>8, <1>9, <1>10, <1>11, <1>12, <1>13, <1>14 DEF Next

(* A session is told closed when all of it is gone. *)
LEMMA KeepsClosed == ASSUME IInv, Calmly, CalmStep, [Next]_vars PROVE Closed'
<1>1. ASSUME NEW t \in Task, RetireCommit(t) PROVE Closed'
  <2>1. agent' = agent /\ agent = NoExec /\ claim' = NoExec
    BY <1>1 DEF RetireCommit, RetireOwns
  <2>2. CASE t[1] = "down"
    BY <2>1, <2>2, <1>1 DEF RetireCommit, Closed
  <2>3. CASE t[1] # "down"
    BY <2>1, <2>3, <1>1 DEF RetireCommit, Closed
  <2> QED BY <2>2, <2>3
<1>2. ASSUME NEW t \in Task, RetireLate(t) PROVE Closed'
  <2>1. CASE t[1] = "down"
    <3>1. down' = "done" /\ agent' = agent /\ t = <<"down", t[2]>> /\ Active(t) /\ t[2] \in Exec
      BY <2>1, <1>2, TaskOf DEF RetireLate
    <3>2. down = "retire" /\ (task[t] # "mark" /\ claim = NoExec => agent = NoExec)
      BY <3>1 DEF Calmly, Downs
    <3>3. status # "closed"
      BY <3>2 DEF Calmly, Closed
    <3> QED BY <2>1, <3>1, <3>2, <3>3, <1>2 DEF RetireLate, Closed
  <2>2. CASE t[1] # "down"
    <3>1. UNCHANGED <<status, claim, agent, down>>
      BY <2>2, <1>2 DEF RetireLate
    <3> QED BY <3>1 DEF Calmly, Closed
  <2> QED BY <2>1, <2>2
<1>3. ASSUME NEW x \in Exec, HandInstall(x) PROVE Closed'
  <2>1. status' = status /\ down # "done"
    BY <1>3 DEF HandInstall, Calmly, NoneStarts
  <2> QED BY <2>1 DEF Calmly, Closed
<1>4. CASE UNCHANGED <<status, down, claim, agent>>
  BY <1>4 DEF Calmly, Closed
<1>5. CASE Handover
  <2>1. ASSUME NEW x \in Exec, HandReuse(x) \/ HandSpawn(x) \/ HandSend(x) \/ HandBind(x) \/
       HandRefused(x) \/ HandCanceled(x) PROVE UNCHANGED <<status, down, claim, agent>>
    BY <2>1 DEF HandReuse, HandSpawn, HandSend, HandBind, HandRefused, HandCanceled
  <2> QED BY <1>5, <1>4, <1>3, <2>1 DEF Handover
<1>6. CASE Retirement
  <2>1. ASSUME NEW t \in Task, StopAsked(t) \/ RetireMark(t) \/ RetireJoin(t) \/ RetireLock(t) PROVE
       UNCHANGED <<status, down, claim, agent>>
    BY <2>1 DEF StopAsked, RetireMark, RetireJoin, RetireLock
  <2>2. ASSUME NEW t \in Task, RetireClose(t) PROVE Closed'
    BY <2>2 DEF Calmly, Closed, Fenced, Downs, ClaimTypes, Starts, ClaimHasPhase, RetireClose
  <2> QED BY <1>6, <1>4, <1>1, <1>2, <2>1, <2>2 DEF Retirement
<1>7. CASE PumpStep
  BY <1>7 DEF Calmly, Closed, Fenced, Downs, ClaimTypes, Starts, ClaimHasPhase, PumpStep,
     PumpIgnores, PumpDefers, PumpCompletes, PumpRetires, PumpLocks, PumpCloses, PumpCommits,
     PumpStops, PumpExits
<1>8. CASE Delivery
  BY <1>8 DEF Calmly, Closed, Fenced, Downs, ClaimTypes, Starts, ClaimHasPhase, Delivery,
     DeliverBegin, DeliverClaim, DeliverRefused, DeliverLook, DeliverSteered, DeliverInterrupt
<1>9. CASE StopEnter
  BY <1>4, <1>9 DEF StopEnter
<1>10. CASE SwitchStep
  BY <1>10 DEF Calmly, CalmStep, Closed, Fenced, Downs, ClaimTypes, Starts, ClaimHasPhase,
     SwitchStep, SwitchEnter, SwitchCheck, SwitchRefused, SwitchStopsPump, SwitchCloses
<1>11. CASE DownStep
  BY <1>11 DEF Calmly, Closed, Fenced, Downs, ClaimTypes, Starts, ClaimHasPhase, DownStep,
     CloseEnter, DownBegin, DownWaited, DownTimesOut, DownReap, DownInsert
<1>12. CASE Requests
  BY <1>12 DEF Calmly, CalmStep, Closed, Fenced, Downs, ClaimTypes, Starts, ClaimHasPhase, Requests,
     DirectSend, AcceptInput, StopRequest, SwitchRequest, CloseRequest, DaemonExit
<1>13. CASE Failures
  <2>1. ASSUME NEW x \in Exec, HandFails(x) \/ HandBindUnsaved(x) \/ HandDropped(x) \/ AgentCrash(x)
       \/ AgentRepeats(x) PROVE UNCHANGED <<status, down, claim, agent>>
    BY <2>1 DEF HandFails, HandBindUnsaved, HandDropped, AgentCrash, AgentRepeats
  <2>2. ASSUME NEW t \in Task, RetireCloseFails(t) \/ RetireCommitUnsaved(t) PROVE Closed'
    BY <2>2 DEF Calmly, Closed, Fenced, Downs, ClaimTypes, Starts, ClaimHasPhase, RetireCloseFails,
       RetireCommitUnsaved
  <2>3. CASE PumpCloseFails \/ SwitchCloseFails
    BY <2>3 DEF Calmly, CalmStep, Closed, Fenced, Downs, ClaimTypes, Starts, ClaimHasPhase,
       PumpCloseFails, SwitchCloseFails
  <2> QED BY <1>13, <1>4, <2>1, <2>2, <2>3 DEF Failures, CalmStep
<1>14. CASE AgentStep
  BY <1>4, <1>14 DEF AgentStep, AgentEnds
<1>15. CASE Rest \/ UNCHANGED vars
  BY <1>4, <1>15 DEF Rest, vars
<1> QED BY <1>5, <1>6, <1>7, <1>8, <1>9, <1>10, <1>11, <1>12, <1>13, <1>14, <1>15 DEF Next

-----------------------------------------------------------------------------
(* What Calm rules out, and what cannot happen then: a switch does not have to abort
   the pump, for a pump that waits for its lock retires an owner that runs. *)
LEMMA CalmSteps == ASSUME IInv, Calmly, Calm, [Next]_vars PROVE CalmStep
<1>1. \A kind \in Kinds : budget[kind] \in Nat
  BY DEF UserTypes
<1>2. ~Spend("abort")
  BY <1>1 DEF Calm, UserTypes
<1>3. switch # "idle" => ~Spend("closeFail") /\ ~Spend("direct")
  BY <1>1 DEF Calm, UserTypes
<1>4. ~SwitchJoinAborts
  <2> SUFFICES ASSUME SwitchJoinAborts, pumpAt = "lock" PROVE FALSE
    BY <1>2 DEF SwitchJoinAborts
  <2>1. claim \in bound /\ claim # NoExec
    BY DEF PumpOwns, ClaimHasPhase
  <2> QED BY <2>1 DEF SwitchJoinAborts, Calmly, Switches
<1> QED BY <1>2, <1>3, <1>4 DEF CalmStep, HandAborts, RetireJoinAborts, SwitchCloseFails, DirectSend

(* It holds at first. *)
LEMMA CalmlyInit == Init => Calmly
<1> SUFFICES ASSUME Init PROVE Calmly
  OBVIOUS
<1>1. \A t \in Task : task[t] = "idle"
  BY DEF Init
<1>2. \A x \in Exec : task[<<"hand", x>>] = "idle" /\ task[<<"down", x>>] = "idle"
  BY <1>1
<1>3. Starts /\ NoneStarts /\ Downs /\ OneDown /\ Sent /\ New
  BY <1>2 DEF Starts, NoneStarts, Downs, OneDown, Sent, New, Begun
<1>4. Fenced /\ Waits /\ Delivers /\ OneHand /\ Locks /\ Switches /\ Loose /\ Runs /\ Numbers
      /\ Processes /\ Unclean /\ StoppingHasOwner /\ Closed
  BY DEF Init, Fenced, Waits, Delivers, OneHand, Locks, Switches, Loose, Runs, Numbers, Processes,
     Unclean, StoppingHasOwner, Closed
<1> QED BY <1>3, <1>4 DEF Calmly

LEMMA Heard == ASSUME IInv, Calmly PROVE SomebodyEndsIt
<1> SUFFICES ASSUME phase = "running", ~closing
             PROVE  /\ by[claim] = agent /\ pump = agent /\ pumpAt = "idle" /\ ~pumpStop
                    /\ said[claim] # "heard"
                    /\ (agent \in procs /\ serves[agent] = claim) \/ said[claim] # "none"
  BY DEF SomebodyEndsIt, RunningIsHeard, Calmly
<1>1. WorksFor(claim) /\ claim # NoExec
  BY DEF Calmly, Runs, ClaimHasPhase
<1>2. switch # "join"
  BY <1>1 DEF Calmly, Switches
<1> QED BY <1>1, <1>2 DEF Calmly, Loose, WorksFor

LEMMA Gone == ASSUME IInv, Calmly PROVE ClosedMeansGone
<1> SUFFICES ASSUME status = "closed" PROVE claim = NoExec /\ agent = NoExec /\ procs = {}
  BY DEF ClosedMeansGone
<1>1. down = "done" /\ claim = NoExec /\ agent = NoExec
  BY DEF Calmly, Closed
<1>2. ASSUME NEW p \in procs PROVE FALSE
  <2>1. p \in Exec /\ p # 0
    BY DEF AgentTypes
  <2>2. task[<<"hand", p>>] = "joinOld"
    BY <1>1, <2>1 DEF Calmly, Processes
  <2> QED BY <1>1, <2>1, <2>2 DEF Calmly, NoneStarts
<1> QED BY <1>1, <1>2

(* The one step that hands a prompt to a process is HandSend. *)
LEMMA Prompts ==
  ASSUME IInv, [Next]_vars, NEW x \in Exec, by[x] # by'[x]
  PROVE  HandSend(x) /\ by'[x] = agent
<1>1. CASE Handover
  <2>1. PICK y \in Exec : HandSend(y)
    BY <1>1 DEF Handover, HandReuse, HandSpawn, HandInstall, HandBind, HandRefused, HandCanceled
  <2>2. by' = [by EXCEPT ![y] = agent] /\ by \in [Exec -> Exec \cup {NoExec}]
    BY <2>1 DEF HandSend, AgentTypes
  <2>3. x = y
    BY <2>2
  <2> QED BY <2>1, <2>2, <2>3
<1>2. CASE Retirement
  BY <1>2 DEF Retirement, StopAsked, RetireMark, RetireJoin, RetireLock, RetireClose,
     RetireCommit, RetireLate
<1>3. CASE PumpStep
  BY <1>3 DEF PumpStep, PumpIgnores, PumpDefers, PumpCompletes, PumpRetires, PumpLocks,
     PumpCloses, PumpCommits, PumpStops, PumpExits
<1>4. CASE Delivery \/ StopEnter
  BY <1>4 DEF Delivery, DeliverBegin, DeliverClaim, DeliverRefused, DeliverLook, DeliverSteered,
     DeliverInterrupt, StopEnter
<1>5. CASE SwitchStep
  BY <1>5 DEF SwitchStep, SwitchEnter, SwitchCheck, SwitchRefused, SwitchStopsPump, SwitchCloses
<1>9. CASE DownStep
  BY <1>9 DEF DownStep, CloseEnter, DownBegin, DownWaited, DownTimesOut, DownReap, DownInsert
<1>6. CASE Requests
  BY <1>6 DEF Requests, DirectSend, AcceptInput, StopRequest, SwitchRequest, CloseRequest, DaemonExit
<1>7. CASE Failures
  <2>1. ASSUME NEW z \in Exec, HandFails(z) \/ HandAborts(z) \/ HandBindUnsaved(z) \/ HandDropped(z)
                              \/ AgentCrash(z) \/ AgentRepeats(z)
        PROVE  FALSE
    BY <2>1 DEF HandFails, HandAborts, HandBindUnsaved, HandDropped, AgentCrash, AgentRepeats
  <2>2. ASSUME NEW t \in Task, RetireJoinAborts(t) \/ RetireCloseFails(t) \/ RetireCommitUnsaved(t)
        PROVE  FALSE
    BY <2>2 DEF RetireJoinAborts, RetireCloseFails, RetireCommitUnsaved
  <2>3. CASE PumpCloseFails \/ SwitchJoinAborts \/ SwitchCloseFails
    BY <2>3 DEF PumpCloseFails, SwitchJoinAborts, SwitchCloseFails
  <2> QED BY <1>7, <2>1, <2>2, <2>3 DEF Failures
<1>8. CASE AgentStep \/ Rest \/ UNCHANGED vars
  BY <1>8 DEF AgentStep, AgentEnds, Rest, vars
<1> QED BY <1>1, <1>2, <1>3, <1>4, <1>5, <1>6, <1>7, <1>8, <1>9 DEF Next

LEMMA Spared ==
  ASSUME IInv, Calmly, [Next]_vars, NEW x \in Exec, by[x] = NoExec, by'[x] # NoExec
  PROVE  by'[x] \notin unclean
<1>1. HandSend(x) /\ by'[x] = agent
  BY Prompts
<1>2. phase = "starting"
  BY <1>1 DEF HandSend, Calmly, Starts
<1> QED BY <1>1, <1>2 DEF Calmly, Unclean

(* A step of a calm session keeps what is known of it. *)
LEMMA CalmlyStep == ASSUME IInv, Calmly, Calm, [Next]_vars PROVE Calmly'
<1>1. CalmStep
  BY CalmSteps
<1>2. /\ Starts' /\ Fenced' /\ Waits' /\ NoneStarts' /\ Downs' /\ OneDown' /\ Delivers'
      /\ OneHand' /\ Locks' /\ Switches'
  BY <1>1, KeepsStarts, KeepsFenced, KeepsWaits, KeepsNoneStarts, KeepsDowns, KeepsOneDown,
     KeepsDelivers, KeepsOneHand, KeepsLocks, KeepsSwitches
<1>3. /\ Loose' /\ Sent' /\ Runs' /\ Numbers' /\ New' /\ Processes' /\ Unclean'
      /\ StoppingHasOwner' /\ Closed'
  BY <1>1, KeepsLoose, KeepsSent, KeepsRuns, KeepsNumbers, KeepsNew, KeepsProcesses, KeepsUnclean,
     KeepsStoppingHasOwner, KeepsClosed
<1> QED BY <1>2, <1>3 DEF Calmly

LEMMA CalmlyHolds == Spec /\ [][Calm]_vars => []Calmly
<1>1. Init => Calmly
  BY CalmlyInit
<1>2. IInv /\ Calmly /\ [Next]_vars /\ [Calm]_vars => Calmly'
  <2> SUFFICES ASSUME IInv, Calmly, [Next]_vars, [Calm]_vars PROVE Calmly'
    OBVIOUS
  <2>1. CASE Calm
    BY <2>1, CalmlyStep
  <2>2. CASE UNCHANGED vars
    <3>1. Calm
      BY <2>2 DEF Calm, vars
    <3> QED BY <3>1, CalmlyStep
  <2> QED BY <2>1, <2>2
<1> QED BY <1>1, <1>2, InvHolds, PTL DEF Spec

(* Whatever became of its senders, stoppers and processes, an execution being
   stopped has a future that carries the stop out, and one that runs has a process
   that works for it, or has told its end to the pump that listens. *)
THEOREM EndsAreSeenTo == Spec /\ [][Calm]_vars => []SomebodyEndsIt
<1>1. IInv /\ Calmly => SomebodyEndsIt
  BY Heard
<1> QED BY <1>1, InvHolds, CalmlyHolds, PTL

(* A session told closed has no execution, no agent and no process left. *)
THEOREM ClosedAreGone == Spec /\ [][Calm]_vars => []ClosedMeansGone
<1>1. IInv /\ Calmly => ClosedMeansGone
  BY Gone
<1> QED BY <1>1, InvHolds, CalmlyHolds, PTL

(* A process whose close failed is not given another prompt. *)
THEOREM UncleanAreSpared == Spec /\ [][Calm]_vars => UncleanTakesNoPrompt
<1> DEFINE Spares == \A x \in Exec : by[x] = NoExec /\ by'[x] # NoExec => by'[x] \notin unclean
<1>1. IInv /\ Calmly /\ [Next]_vars => [Spares]_vars
  BY Spared
<1>2. UncleanTakesNoPrompt <=> [][Spares]_vars
  BY DEF UncleanTakesNoPrompt
<1> HIDE DEF Spares
<1> QED BY <1>1, <1>2, InvHolds, CalmlyHolds, PTL DEF Spec
=============================================================================

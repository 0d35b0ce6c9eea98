-------------------------- MODULE SessionExecution --------------------------
(***************************************************************************)
(* One live session of the daemon: who may occupy it, who hands a prompt   *)
(* to its agent process, who hears the turn end and who retires it.        *)
(*                                                                         *)
(* `execution' is the only claim on the session.  It is taken by a sender, *)
(* bound to a turn by the handover, and released by whichever of the event *)
(* pump, a failed handover, a stop task or a shutdown commits first.  All  *)
(* of them talk to a process, so all of them await; the claim, two locks   *)
(* and a stop flag are what keeps them apart.                              *)
(*                                                                         *)
(* An execution is named by the number next_execution gave it, an agent    *)
(* process by the execution whose handover spawned it, a turn by the       *)
(* execution it belongs to.  The guest runtime is single-threaded: an      *)
(* action is what runs between two awaits.  Sessions whose agents ask a    *)
(* Human something are not in this module.                                 *)
(***************************************************************************)
EXTENDS Integers

CONSTANTS MaxExec,    \* how many sends may claim the session
          Shutdowns,  \* how many shutdowns may be asked for
          Allowances  \* how often each of the environment's moves may happen:
                      \* the mixtures one run explores

(* What the environment may do to the session.  The first five are requests,
   the others failures. *)
Kinds == {"direct", "stop", "close", "exit", "switch", "drop",
          "crash", "repeat", "handFail", "abort", "closeFail", "saveFail"}

ASSUME BoundsAssumption ==
  /\ MaxExec \in Nat \ {0} /\ Shutdowns \in Nat
  /\ \A some \in Allowances : /\ some \in [Kinds -> Nat]
                              /\ some["close"] + some["exit"] <= Shutdowns

(* A shutdown claims a session nobody owns, so each may need one more id. *)
LastExec == MaxExec + Shutdowns
Exec == 1 .. LastExec
NoExec == 0
Phases == {"none", "starting", "running", "stopping", "saving", "cleanupFailed"}
Ends == {"completed", "failed", "canceled"}

(* The futures that may retire an execution: its handover, the task a dropped
   handover leaves behind, the task of a stop, and a shutdown. *)
Task == {"hand", "drop", "stop", "down"} \X Exec
HandStages == {"start", "joinOld", "send", "sent"}
RetireStages == {"mark", "join", "lock", "close", "commit"}
TaskStages == {"idle", "ask"} \cup HandStages \cup RetireStages
Pump == <<"pump", NoExec>>
Switcher == <<"switch", NoExec>>
NoOne == <<"none", NoExec>>

VARIABLES
  claim,       \* the execution that owns the session, or NoExec
  phase,       \* its phase
  nextId,      \* next_execution
  status,      \* what clients are told: idle, running, failed, closed
  canceled,    \* executions whose cancel flag is set
  terminal,    \* executions whose terminal flag is set
  bound,       \* executions whose turn id is known
  outcome,     \* history: how each execution was released
  agent,       \* the installed agent process
  procs,       \* the agent processes that are alive
  serves,      \* the turn each process is working on
  by,          \* the process each turn was handed to
  said,        \* how the process said its turn ended, "heard" once received
  unclean,     \* history: processes whose close was reported as failed
  pump,        \* the process the event pump listens to
  pumpAt,      \* where the pump stands
  pumpOf,      \* the execution whose terminal event it is carrying out
  pumpEnd,     \* and that event
  pumpStop,    \* the pump's stop flag
  task,        \* where each task stands
  prepared,    \* executions claimed for inbox entries, not for a direct send
  interaction, \* holder of interaction_lock
  retirement,  \* holder of retirement
  paused,      \* inbox.paused
  deliver,     \* the delivery task: idle, looked, claim or hand
  saw,         \* the execution the delivery task saw running
  stop,        \* a stop request: idle or lock
  switch,      \* a switch of Agent: idle, lock, check, probe, join
  down,        \* a shutdown: idle, lock, begin, wait, reap, insert, retire, ...
  downId,      \* the starting execution it waits for
  closing,     \* closing
  budget       \* what is left of the mixture's allowance

claimVars == <<claim, phase, nextId, status, canceled, terminal, bound, outcome>>
agentVars == <<agent, procs, serves, by, said, unclean>>
pumpVars == <<pump, pumpAt, pumpOf, pumpEnd, pumpStop>>
taskVars == <<task, prepared>>
lockVars == <<interaction, retirement>>
userVars == <<paused, deliver, saw, stop, switch, down, downId, closing>>
vars == <<claimVars, agentVars, pumpVars, taskVars, lockVars, userVars, budget>>

ClaimTypes ==
  /\ claim \in Exec \cup {NoExec} /\ phase \in Phases
  /\ nextId \in 1 .. LastExec + 1
  /\ status \in {"idle", "running", "failed", "closed"}
  /\ outcome \in [Exec -> Ends \cup {"none", "retried"}]
FlagTypes ==
  /\ canceled \subseteq Exec /\ terminal \subseteq Exec /\ bound \subseteq Exec
  /\ pumpStop \in BOOLEAN /\ paused \in BOOLEAN /\ closing \in BOOLEAN
AgentTypes ==
  /\ agent \in Exec \cup {NoExec} /\ procs \subseteq Exec /\ unclean \subseteq Exec
  /\ serves \in [Exec -> Exec \cup {NoExec}] /\ by \in [Exec -> Exec \cup {NoExec}]
  /\ said \in [Exec -> Ends \cup {"none", "crashed", "heard"}]
PumpTypes ==
  /\ pump \in Exec \cup {NoExec} /\ pumpOf \in Exec \cup {NoExec}
  /\ pumpAt \in {"off", "idle", "lock", "close", "commit", "tail"}
  /\ pumpEnd \in Ends \cup {"none"}
TaskTypes ==
  /\ task \in [Task -> TaskStages] /\ prepared \subseteq Exec
  /\ interaction \in {"none", "deliver", "switch", "close"}
  /\ retirement \in Task \cup {Pump, Switcher, NoOne}
UserTypes ==
  /\ deliver \in {"idle", "looked", "claim", "hand"} /\ saw \in Exec \cup {NoExec}
  /\ stop \in {"idle", "lock"}
  /\ switch \in {"idle", "lock", "check", "probe", "join"}
  /\ down \in {"idle", "lock", "begin", "wait", "reap", "insert", "retire", "failed", "done"}
  /\ downId \in Exec \cup {NoExec}
  /\ budget \in [Kinds -> Nat]
TypeOK == ClaimTypes /\ FlagTypes /\ AgentTypes /\ PumpTypes /\ TaskTypes /\ UserTypes

Init ==
  /\ claim = NoExec /\ phase = "none" /\ nextId = 1 /\ status = "idle"
  /\ canceled = {} /\ terminal = {} /\ bound = {} /\ outcome = [x \in Exec |-> "none"]
  /\ agent = NoExec /\ procs = {} /\ unclean = {}
  /\ serves = [x \in Exec |-> NoExec] /\ by = [x \in Exec |-> NoExec]
  /\ said = [x \in Exec |-> "none"]
  /\ pump = NoExec /\ pumpAt = "off" /\ pumpOf = NoExec /\ pumpEnd = "none"
  /\ pumpStop = FALSE
  /\ task = [t \in Task |-> "idle"] /\ prepared = {}
  /\ interaction = "none" /\ retirement = NoOne
  /\ paused = FALSE /\ deliver = "idle" /\ saw = NoExec /\ stop = "idle"
  /\ switch = "idle" /\ down = "idle" /\ downId = NoExec /\ closing = FALSE
  /\ budget \in Allowances

-----------------------------------------------------------------------------
Spend(kind) == budget[kind] > 0 /\ budget' = [budget EXCEPT ![kind] = @ - 1]

Active(t) == task[t] # "idle"
Starting(x) == task[<<"hand", x>>] \in HandStages

(* claim_execution admits a new owner: the session is free, or its last answer
   could not be saved and the flush it retries now succeeds. *)
AdmitsUnclean == ~closing /\ (claim = NoExec \/ phase \in {"saving", "cleanupFailed"})
Admits == ~closing /\ (claim = NoExec \/ phase = "saving")
ClaimAs(x) ==
  /\ Admits /\ x = nextId /\ x <= MaxExec
  /\ outcome' = IF claim = NoExec THEN outcome ELSE [outcome EXCEPT ![claim] = "retried"]
  /\ claim' = x /\ phase' = "starting" /\ nextId' = x + 1 /\ status' = "running"
  /\ task' = [task EXCEPT ![<<"hand", x>>] = "start"]
  /\ UNCHANGED <<canceled, terminal, bound>>

(* An agent process ends; nothing is being worked on there any more. *)
Killed(gone) ==
  /\ procs' = procs \ gone
  /\ serves' = [p \in Exec |-> IF p \in gone THEN NoExec ELSE serves[p]]

(* finish_execution, saved: the claim is released with how it ended. *)
Saved(x, end, closed) ==
  /\ claim' = NoExec /\ phase' = "none"
  /\ terminal' = terminal \cup ({x} \ {NoExec})
  /\ outcome' = IF x = NoExec THEN outcome ELSE [outcome EXCEPT ![x] = end]
  /\ status' = IF closed THEN "closed" ELSE IF end = "failed" THEN "failed" ELSE "idle"
  /\ UNCHANGED <<nextId, canceled, bound, budget>>

(* finish_execution, not saved: the claim stays, waiting for a retry.  The status
   is told when the answer was not written, not when a record after it was not. *)
SaveFailed(x) ==
  /\ Spend("saveFail")
  /\ phase' = "saving" /\ terminal' = terminal \cup {x} /\ status' \in {"failed", status}
  /\ UNCHANGED <<claim, nextId, canceled, bound, outcome>>

(* settle_inputs: the inputs of a failed execution pause the inbox. *)
PausedBy(x, end) == paused \/ (x \in prepared /\ end = "failed" /\ ~closing)

(* report_cleanup_failure: the claim, if there is one, keeps its process. *)
CleanupFailed ==
  /\ phase' = IF claim = NoExec THEN phase ELSE "cleanupFailed"
  /\ status' = "running"
  /\ UNCHANGED <<claim, nextId, canceled, terminal, bound, outcome>>

(* A retiring future returns: a delivery lets go of the interaction lock, and
   the error it returns pauses the inbox; a shutdown ends one way or another. *)
IsDelivery(t) == t[1] = "hand" /\ t[2] \in prepared
LetGo(t) ==
  /\ interaction' = IF IsDelivery(t) \/ (t[1] = "down" /\ interaction = "close")
                    THEN "none" ELSE interaction
  /\ deliver' = IF IsDelivery(t) THEN "idle" ELSE deliver
Returns(t) ==
  /\ task' = [task EXCEPT ![t] = "idle"]
  /\ LetGo(t)
  /\ down' = IF t[1] = "down" THEN "done" ELSE down
(* ... with an error: an unfinished Handover is dropped and spawns its task. *)
Fails(t) ==
  /\ task' = IF t[1] = "hand"
             THEN [task EXCEPT ![t] = "idle", ![<<"drop", t[2]>>] = "mark"]
             ELSE [task EXCEPT ![t] = "idle"]
  /\ LetGo(t)
  /\ down' = IF t[1] = "down" THEN "failed" ELSE down
-----------------------------------------------------------------------------
(* session.send without a message id: claimed with no lock but the claim's.
   The last execution the bound allows is left to a delivery that has begun. *)
DirectSend(x) ==
  /\ Spend("direct") /\ ClaimAs(x)
  /\ x < MaxExec \/ deliver # "claim"
  /\ UNCHANGED <<agentVars, pumpVars, lockVars, userVars, prepared>>

(* accept_input: any new message makes the inbox deliverable again. *)
AcceptInput ==
  /\ paused /\ paused' = FALSE
  /\ UNCHANGED <<claimVars, agentVars, pumpVars, taskVars, lockVars, budget,
                 deliver, saw, stop, switch, down, downId, closing>>

(* deliver_inputs takes interaction_lock and looks at claim and pause. *)
DeliverBegin ==
  /\ deliver = "idle" /\ ~closing /\ ~paused /\ nextId <= MaxExec
  /\ interaction = "none" /\ claim = NoExec
  /\ interaction' = "deliver" /\ deliver' = "claim"
  /\ UNCHANGED <<claimVars, agentVars, pumpVars, taskVars, retirement, budget,
                 paused, saw, stop, switch, down, downId, closing>>

(* send_prepared claims; the lock stays with it until the handover ends. *)
DeliverClaim(x) ==
  /\ deliver = "claim" /\ ClaimAs(x)
  /\ prepared' = prepared \cup {x} /\ deliver' = "hand"
  /\ UNCHANGED <<agentVars, pumpVars, lockVars, budget,
                 paused, saw, stop, switch, down, downId, closing>>

(* ... or finds that somebody else did, or what is still to be saved cannot be: the
   error pauses the inbox. *)
DeliverRefused ==
  /\ deliver = "claim"
  /\ (~Admits /\ UNCHANGED budget) \/ Spend("saveFail")
  /\ deliver' = "idle" /\ interaction' = "none" /\ paused' = TRUE
  /\ UNCHANGED <<claimVars, agentVars, pumpVars, taskVars, retirement,
                 saw, stop, switch, down, downId, closing>>

(* deliver_inputs with an execution in the way: it clones what it sees, offers
   the input to the agent, and only then falls back to interrupting. *)
DeliverLook ==
  /\ deliver = "idle" /\ ~closing /\ ~paused /\ phase = "running"
  /\ deliver' = "looked" /\ saw' = claim
  /\ UNCHANGED <<claimVars, agentVars, pumpVars, taskVars, lockVars, budget,
                 paused, stop, switch, down, downId, closing>>
DeliverSteered ==
  /\ deliver = "looked" /\ deliver' = "idle" /\ saw' = NoExec
  /\ UNCHANGED <<claimVars, agentVars, pumpVars, taskVars, lockVars, budget,
                 paused, stop, switch, down, downId, closing>>

(* interrupt_execution.  A starting execution only gets its cancel flag: the
   handover retires it.  A stopping one is left alone.  Any other is marked and
   a cleanup task is spawned for it; a task that is still there is not doubled. *)
InterruptExecution ==
  /\ phase' = IF phase \in {"running", "saving", "cleanupFailed"} THEN "stopping" ELSE phase
  /\ canceled' = IF phase = "starting" THEN canceled \cup {claim} ELSE canceled
  /\ task' = IF phase \in {"running", "saving", "cleanupFailed"} /\ ~Active(<<"stop", claim>>)
             THEN [task EXCEPT ![<<"stop", claim>>] = "ask"] ELSE task
  /\ UNCHANGED <<claim, nextId, status, terminal, bound, outcome>>

DeliverInterrupt ==
  /\ deliver = "looked" /\ deliver' = "idle" /\ saw' = NoExec
  /\ InterruptExecution
  /\ UNCHANGED <<agentVars, pumpVars, lockVars, prepared, budget,
                 paused, stop, switch, down, downId, closing>>

(* interrupt: the inbox is paused at once, the rest waits for interaction_lock. *)
StopRequest ==
  /\ stop = "idle" /\ down # "done" /\ Spend("stop")
  /\ paused' = TRUE /\ stop' = "lock"
  /\ UNCHANGED <<claimVars, agentVars, pumpVars, taskVars, lockVars,
                 deliver, saw, switch, down, downId, closing>>
StopEnter ==
  /\ stop = "lock" /\ interaction = "none"
  /\ stop' = "idle" /\ InterruptExecution
  /\ UNCHANGED <<agentVars, pumpVars, lockVars, prepared, budget,
                 paused, deliver, saw, switch, down, downId, closing>>
-----------------------------------------------------------------------------
(* The handover of x: start_turn, raced against x's cancel flag.  The flag is
   looked at first, so once it is set no other step of the handover happens. *)
Handing(x, stage) == task[<<"hand", x>>] = stage /\ x \notin canceled
HandAt(x, stage) == task' = [task EXCEPT ![<<"hand", x>>] = stage]

(* ensure_started finds the agent it needs. *)
HandReuse(x) ==
  /\ Handing(x, "start") /\ agent # NoExec
  /\ HandAt(x, "send")
  /\ UNCHANGED <<claimVars, agentVars, pumpVars, lockVars, userVars, prepared, budget>>

(* ensure_started spawns a process and tells the pump of an earlier one to go. *)
HandSpawn(x) ==
  /\ Handing(x, "start") /\ agent = NoExec
  /\ procs' = procs \cup {x} /\ pumpStop' = TRUE
  /\ HandAt(x, "joinOld")
  /\ UNCHANGED <<claimVars, agent, serves, by, said, unclean, pump, pumpAt, pumpOf, pumpEnd,
                 lockVars, userVars, prepared, budget>>

(* ... installs the process and starts its pump.  Whoever else waits for the
   old pump holds, or queues for, the lock this needs, and so goes first. *)
Joining == switch = "join" \/ \E t \in Task : task[t] = "join"
HandInstallStopped(x) ==  \* the new pump inherits the old one's stop flag
  /\ Handing(x, "joinOld") /\ pumpAt = "off" /\ ~Joining
  /\ agent' = x /\ pump' = x /\ pumpAt' = "idle"
  /\ HandAt(x, "send")
  /\ UNCHANGED <<claimVars, procs, serves, by, said, unclean, pumpOf, pumpEnd, pumpStop,
                 lockVars, userVars, prepared, budget>>
HandInstall(x) ==
  /\ Handing(x, "joinOld") /\ pumpAt = "off" /\ ~Joining
  /\ agent' = x /\ pump' = x /\ pumpAt' = "idle" /\ pumpStop' = FALSE
  /\ HandAt(x, "send")
  /\ UNCHANGED <<claimVars, procs, serves, by, said, unclean, pumpOf, pumpEnd,
                 lockVars, userVars, prepared, budget>>

(* The prompt reaches the process; it works on x from here, whatever becomes
   of the answer.  A dead process refuses it (HandRefused). *)
HandSend(x) ==
  /\ Handing(x, "send") /\ agent \in procs
  /\ ~(x \in prepared /\ paused)
  /\ serves' = [serves EXCEPT ![agent] = x] /\ by' = [by EXCEPT ![x] = agent]
  /\ HandAt(x, "sent")
  /\ UNCHANGED <<claimVars, agent, procs, said, unclean, pumpVars, lockVars, userVars,
                 prepared, budget>>

(* The claim is bound to the turn the process named. *)
Bound(x) == /\ claim = x
            /\ bound' = bound \cup {x} /\ phase' = "running"
            /\ UNCHANGED <<claim, nextId, status, canceled, terminal, outcome>>
HandBindCanceled(x) ==  \* the answer is looked at before the cancel flag
  /\ task[<<"hand", x>>] = "sent" /\ Bound(x)
  /\ task' = [task EXCEPT ![<<"hand", x>>] = "idle"]
  /\ LetGo(<<"hand", x>>)
  /\ UNCHANGED <<agentVars, pumpVars, retirement, prepared, budget,
                 paused, saw, stop, switch, down, downId, closing>>
HandBind(x) ==
  /\ Handing(x, "sent") /\ Bound(x)
  /\ task' = [task EXCEPT ![<<"hand", x>>] = "idle"]
  /\ LetGo(<<"hand", x>>)
  /\ UNCHANGED <<agentVars, pumpVars, retirement, prepared, budget,
                 paused, saw, stop, switch, down, downId, closing>>

(* A handover that ends with an error retires its own execution.  What it had
   spawned and not yet installed dies with it. *)
HandGivesUp(x) ==
  /\ HandAt(x, "mark")
  /\ Killed(IF task[<<"hand", x>>] = "joinOld" THEN {x} ELSE {})
  /\ UNCHANGED <<agent, by, said, unclean>>
(* ... because no agent is there to take the prompt, or the inbox was paused. *)
HandRefusedDead(x) ==  \* a pause is not looked at again before the prompt
  /\ Handing(x, "send") /\ agent \notin procs
  /\ HandGivesUp(x)
  /\ UNCHANGED <<claimVars, pumpVars, lockVars, userVars, prepared, budget>>
HandRefused(x) ==
  /\ Handing(x, "send") /\ (agent \notin procs \/ (x \in prepared /\ paused))
  /\ HandGivesUp(x)
  /\ UNCHANGED <<claimVars, pumpVars, lockVars, userVars, prepared, budget>>
(* ... because starting, saving or sending failed or took longer than
   HANDOVER_BUDGET; an error of send leaves open whether the turn began. *)
HandFails(x) ==
  /\ task[<<"hand", x>>] \in HandStages /\ x \notin canceled /\ Spend("handFail")
  /\ HandGivesUp(x)
  /\ UNCHANGED <<claimVars, pumpVars, lockVars, userVars, prepared>>
(* ... because stop_pump gave up on the old pump and aborted it. *)
HandAborts(x) ==
  /\ Handing(x, "joinOld") /\ pumpAt # "off" /\ Spend("abort")
  /\ HandGivesUp(x)
  /\ pump' = NoExec /\ pumpAt' = "off" /\ pumpOf' = NoExec /\ pumpEnd' = "none"
  /\ retirement' = IF retirement = Pump THEN NoOne ELSE retirement
  /\ UNCHANGED <<claimVars, userVars, prepared, pumpStop, interaction>>
(* ... because it was stopped. *)
HandCanceled(x) ==
  /\ task[<<"hand", x>>] \in HandStages /\ x \in canceled
  /\ HandGivesUp(x)
  /\ UNCHANGED <<claimVars, pumpVars, lockVars, userVars, prepared, budget>>
(* ... because the receipt of a delivery could not be saved after binding. *)
HandBindUnsaved(x) ==
  /\ Handing(x, "sent") /\ x \in prepared /\ Spend("saveFail") /\ Bound(x)
  /\ HandGivesUp(x)
  /\ UNCHANGED <<pumpVars, lockVars, userVars, prepared>>

(* The transport drops the request of a direct send, wherever it is. *)
HandDropped(x) ==
  /\ Active(<<"hand", x>>) /\ x \notin prepared /\ Spend("drop")
  /\ task' = [task EXCEPT ![<<"hand", x>>] = "idle", ![<<"drop", x>>] = "mark"]
  /\ Killed(IF task[<<"hand", x>>] = "joinOld" THEN {x} ELSE {})
  /\ retirement' = IF retirement = <<"hand", x>> THEN NoOne ELSE retirement
  /\ UNCHANGED <<claimVars, agent, by, said, unclean, pumpVars, interaction, userVars, prepared>>
-----------------------------------------------------------------------------
(* retire_execution, run by task t for the execution t[2].  A stop task first
   asks the agent and gives the turn a moment to end by itself. *)
Retiring(t, stage) == task[t] = stage
NextStage(t, stage) == task' = [task EXCEPT ![t] = stage]
EndOf(t) == IF t[1] \in {"hand", "drop"} THEN "failed" ELSE "canceled"
Closes(t) == t[1] = "down"

StopAsked(t) ==
  /\ Retiring(t, "ask") /\ NextStage(t, "mark")
  /\ UNCHANGED <<claimVars, agentVars, pumpVars, lockVars, userVars, prepared, budget>>

(* Under the execution lock: nobody else may carry x on; the pump is told. *)
RetireMarkUnjoined(t) ==  \* it does not wait for the pump
  /\ Retiring(t, "mark") /\ claim = t[2]
  /\ phase' = "stopping" /\ canceled' = canceled \cup {claim} /\ pumpStop' = TRUE
  /\ NextStage(t, "lock")
  /\ UNCHANGED <<claim, nextId, status, terminal, bound, outcome, agentVars,
                 pump, pumpAt, pumpOf, pumpEnd, lockVars, userVars, prepared, budget>>
RetireMark(t) ==
  /\ Retiring(t, "mark") /\ claim = t[2]
  /\ phase' = "stopping" /\ canceled' = canceled \cup {claim} /\ pumpStop' = TRUE
  /\ NextStage(t, "join")
  /\ UNCHANGED <<claim, nextId, status, terminal, bound, outcome, agentVars,
                 pump, pumpAt, pumpOf, pumpEnd, lockVars, userVars, prepared, budget>>

RetireJoin(t) ==
  /\ Retiring(t, "join") /\ pumpAt = "off"
  /\ NextStage(t, "lock")
  /\ UNCHANGED <<claimVars, agentVars, pumpVars, lockVars, userVars, prepared, budget>>
(* stop_pump waits five seconds, then aborts the pump and reports a failure. *)
RetireJoinAborts(t) ==
  /\ Retiring(t, "join") /\ pumpAt # "off" /\ Spend("abort")
  /\ pump' = NoExec /\ pumpAt' = "off" /\ pumpOf' = NoExec /\ pumpEnd' = "none"
  /\ retirement' = IF retirement = Pump THEN NoOne ELSE retirement
  /\ CleanupFailed /\ Fails(t)
  /\ paused' = (paused \/ IsDelivery(t))
  /\ UNCHANGED <<agentVars, pumpStop, prepared, saw, stop, switch, downId, closing>>

(* Under the retirement lock: is the session still x's? *)
RetireLockKeepsAgent(t) ==  \* it commits without closing the agent
  /\ Retiring(t, "lock") /\ retirement = NoOne /\ claim = t[2]
  /\ retirement' = t /\ NextStage(t, "commit")
  /\ UNCHANGED <<claimVars, agentVars, pumpVars, interaction, userVars, prepared, budget>>
RetireLockClosesNone(t) ==  \* it closes an agent that may not be there
  /\ Retiring(t, "lock") /\ retirement = NoOne /\ claim = t[2]
  /\ retirement' = t /\ NextStage(t, "close")
  /\ UNCHANGED <<claimVars, agentVars, pumpVars, interaction, userVars, prepared, budget>>
RetireLock(t) ==
  /\ Retiring(t, "lock") /\ retirement = NoOne /\ claim = t[2]
  /\ retirement' = t
  /\ NextStage(t, IF agent = NoExec THEN "commit" ELSE "close")
  /\ UNCHANGED <<claimVars, agentVars, pumpVars, interaction, userVars, prepared, budget>>

(* close_current_agent *)
RetireClose(t) ==
  /\ Retiring(t, "close")
  /\ Killed({agent}) /\ agent' = NoExec
  /\ NextStage(t, "commit")
  /\ UNCHANGED <<claimVars, by, said, unclean, pumpVars, lockVars, userVars, prepared, budget>>
RetireCloseFails(t) ==
  /\ Retiring(t, "close") /\ Spend("closeFail")
  /\ unclean' = unclean \cup {agent}
  /\ CleanupFailed /\ Fails(t) /\ retirement' = NoOne
  /\ paused' = (paused \/ IsDelivery(t))
  /\ UNCHANGED <<agent, procs, serves, by, said, pumpVars, prepared,
                 saw, stop, switch, downId, closing>>

RetireCommit(t) ==
  /\ Retiring(t, "commit") /\ claim = t[2]
  /\ Saved(claim, EndOf(t), Closes(t))
  /\ Returns(t) /\ retirement' = NoOne
  /\ paused' = (PausedBy(claim, EndOf(t)) \/ IsDelivery(t))
  /\ UNCHANGED <<agentVars, pumpVars, prepared, saw, stop, switch, downId, closing>>
RetireCommitUnsaved(t) ==
  /\ Retiring(t, "commit") /\ claim = t[2]
  /\ SaveFailed(claim)
  /\ Fails(t) /\ retirement' = NoOne
  /\ paused' = (paused \/ IsDelivery(t))
  /\ UNCHANGED <<agentVars, pumpVars, prepared, saw, stop, switch, downId, closing>>

(* Someone else released x first.  A shutdown that sees it before it closes the
   agent still commits Closed. *)
RetireLate(t) ==
  /\ \/ Retiring(t, "mark")
     \/ Retiring(t, "lock") /\ retirement = NoOne
     \/ Retiring(t, "commit")
  /\ claim # t[2]
  /\ IF Closes(t) /\ Retiring(t, "lock") /\ claim = NoExec
     THEN Saved(NoExec, "canceled", TRUE)
     ELSE UNCHANGED <<claimVars, budget>>
  /\ Returns(t)
  /\ retirement' = IF retirement = t THEN NoOne ELSE retirement
  /\ paused' = (paused \/ IsDelivery(t))
  /\ UNCHANGED <<agentVars, pumpVars, prepared, saw, stop, switch, downId, closing>>
-----------------------------------------------------------------------------
(* The agent process: its turn ends one way or another, or it dies. *)
AgentEnds(p, end) ==
  /\ p \in procs /\ serves[p] # NoExec
  /\ said' = [said EXCEPT ![serves[p]] = end]
  /\ serves' = [serves EXCEPT ![p] = NoExec]
  /\ UNCHANGED <<agent, procs, by, unclean, claimVars, pumpVars, taskVars, lockVars,
                 userVars, budget>>
AgentCrash(p) ==
  /\ p \in procs /\ Spend("crash")
  /\ said' = IF serves[p] = NoExec THEN said ELSE [said EXCEPT ![serves[p]] = "crashed"]
  /\ Killed({p})
  /\ UNCHANGED <<agent, by, unclean, claimVars, pumpVars, taskVars, lockVars, userVars>>
(* A script's events are passed on as they come: it may name an ended turn again. *)
AgentRepeats(x) ==
  /\ by[x] \in procs /\ said[x] = "heard" /\ Spend("repeat")
  /\ \E end \in Ends : said' = [said EXCEPT ![x] = end]
  /\ UNCHANGED <<agent, procs, serves, by, unclean, claimVars, pumpVars, taskVars, lockVars,
                 userVars>>
-----------------------------------------------------------------------------
(* pump_events.  A stop is looked at before an event, and an event of a
   starting execution waits until the claim is bound or retired. *)
Hears(x) ==
  /\ pumpAt = "idle" /\ ~pumpStop /\ phase # "starting"
  /\ by[x] = pump /\ said[x] \in Ends \cup {"crashed"}
  /\ said' = [said EXCEPT ![x] = "heard"]
Admitted(x) == claim = x /\ x \in bound /\ phase \notin {"saving", "cleanupFailed"}
(* A crash while closing is the shutdown's doing, and the end of a stopping
   turn belongs to who stops it. *)
LeftToRetirement(x) == phase = "stopping" \/ (closing /\ said[x] = "crashed")

PumpIgnores(x) ==
  /\ Hears(x) /\ ~Admitted(x)
  /\ UNCHANGED <<claimVars, agent, procs, serves, by, unclean, pumpVars, taskVars,
                 lockVars, userVars, budget>>
PumpDefers(x) ==
  /\ Hears(x) /\ Admitted(x) /\ LeftToRetirement(x)
  /\ terminal' = terminal \cup {x}
  /\ UNCHANGED <<claim, phase, nextId, status, canceled, bound, outcome, agent, procs,
                 serves, by, unclean, pumpVars, taskVars, lockVars, userVars, budget>>
PumpCompletes(x) ==
  /\ Hears(x) /\ Admitted(x) /\ ~LeftToRetirement(x) /\ said[x] = "completed"
  /\ Saved(x, "completed", FALSE) \/ SaveFailed(x)
  /\ UNCHANGED <<agent, procs, serves, by, unclean, pumpVars, taskVars, lockVars, userVars>>
PumpRetires(x) ==
  /\ Hears(x) /\ Admitted(x) /\ ~LeftToRetirement(x) /\ said[x] # "completed"
  /\ phase' = "stopping"
  /\ pumpAt' = "lock" /\ pumpOf' = x
  /\ pumpEnd' = IF said[x] = "canceled" THEN "canceled" ELSE "failed"
  /\ UNCHANGED <<claim, nextId, status, canceled, terminal, bound, outcome, agent, procs,
                 serves, by, unclean, pump, pumpStop, taskVars, lockVars, userVars, budget>>

(* The pump retires a failed turn's process itself, without the claim's lock. *)
PumpLocks ==
  /\ pumpAt = "lock" /\ retirement = NoOne
  /\ IF agent = NoExec
     THEN pumpAt' = "commit" /\ UNCHANGED retirement
     ELSE pumpAt' = "close" /\ retirement' = Pump
  /\ UNCHANGED <<claimVars, agentVars, pump, pumpOf, pumpEnd, pumpStop, taskVars,
                 interaction, userVars, budget>>
PumpCloses ==
  /\ pumpAt = "close" /\ pumpAt' = "commit"
  /\ Killed({agent}) /\ agent' = NoExec /\ retirement' = NoOne
  /\ UNCHANGED <<claimVars, by, said, unclean, pump, pumpOf, pumpEnd, pumpStop, taskVars,
                 interaction, userVars, budget>>
PumpCloseFails ==
  /\ pumpAt = "close" /\ pumpAt' = "tail" /\ Spend("closeFail")
  /\ unclean' = unclean \cup {agent}
  /\ CleanupFailed /\ retirement' = NoOne
  /\ UNCHANGED <<agent, procs, serves, by, said, pump, pumpOf, pumpEnd, pumpStop, taskVars,
                 interaction, userVars>>
(* finish_execution is given whatever owner there is now. *)
PumpCommits ==
  /\ pumpAt = "commit" /\ pumpAt' = "tail"
  /\ \/ Saved(claim, pumpEnd, FALSE) /\ paused' = PausedBy(claim, pumpEnd)
     \/ claim # NoExec /\ SaveFailed(claim) /\ UNCHANGED paused
  /\ UNCHANGED <<agentVars, pump, pumpOf, pumpEnd, pumpStop, taskVars, lockVars,
                 deliver, saw, stop, switch, down, downId, closing>>
PumpStops ==
  /\ pumpAt = "idle" /\ pumpStop /\ pumpAt' = "tail"
  /\ UNCHANGED <<claimVars, agentVars, pump, pumpOf, pumpEnd, pumpStop, taskVars, lockVars,
                 userVars, budget>>
PumpExits ==
  /\ pumpAt = "tail" /\ pumpAt' = "off" /\ pump' = NoExec
  /\ pumpOf' = NoExec /\ pumpEnd' = "none"
  /\ UNCHANGED <<claimVars, agentVars, pumpStop, taskVars, lockVars, userVars, budget>>
-----------------------------------------------------------------------------
(* switch_agent_with_routing: refuses a session that has an execution, then
   asks the target for its catalog and reads history before it stops the pump
   and closes the process.  Both locks are held all along, the claim's is not. *)
SwitchRequest ==
  /\ switch = "idle" /\ down # "done" /\ Spend("switch")
  /\ switch' = "lock"
  /\ UNCHANGED <<claimVars, agentVars, pumpVars, taskVars, lockVars,
                 paused, deliver, saw, stop, down, downId, closing>>
SwitchEnter ==
  /\ switch = "lock" /\ interaction = "none"
  /\ interaction' = "switch" /\ switch' = "check"
  /\ UNCHANGED <<claimVars, agentVars, pumpVars, taskVars, retirement, budget,
                 paused, deliver, saw, stop, down, downId, closing>>
SwitchAllowed == claim = NoExec \/ phase = "saving"
SwitchCheck ==
  /\ switch = "check" /\ retirement = NoOne
  /\ SwitchAllowed /\ status \in {"idle", "failed"}
  /\ retirement' = Switcher /\ switch' = "probe"
  /\ IF claim = NoExec THEN UNCHANGED claimVars
     ELSE /\ outcome' = [outcome EXCEPT ![claim] = "retried"]
          /\ claim' = NoExec /\ phase' = "none"
          /\ UNCHANGED <<nextId, status, canceled, terminal, bound>>
  /\ UNCHANGED <<agentVars, pumpVars, taskVars, interaction, budget,
                 paused, deliver, saw, stop, down, downId, closing>>
SwitchEnds == /\ switch' = "idle" /\ interaction' = "none"
              /\ retirement' = IF retirement = Switcher THEN NoOne ELSE retirement
(* It bails: an execution is there, its answer still cannot be saved, or the
   target offers nothing usable. *)
SwitchRefused ==
  /\ \/ switch = "check" /\ retirement = NoOne
        /\ (phase = "saving" \/ ~(SwitchAllowed /\ status \in {"idle", "failed"}))
     \/ switch = "probe"
  /\ SwitchEnds
  /\ UNCHANGED <<claimVars, agentVars, pumpVars, taskVars, budget,
                 paused, deliver, saw, stop, down, downId, closing>>
SwitchStopsPump ==
  /\ switch = "probe" /\ switch' = "join" /\ pumpStop' = TRUE
  /\ UNCHANGED <<claimVars, agentVars, pump, pumpAt, pumpOf, pumpEnd, taskVars, lockVars,
                 budget, paused, deliver, saw, stop, down, downId, closing>>
(* The pump may be waiting for the very lock the switch holds: then it can only
   be aborted.  Unlike a retirement, the switch records no cleanup failure. *)
SwitchJoinAborts ==
  /\ switch = "join" /\ pumpAt # "off"
  /\ IF pumpAt = "lock" THEN UNCHANGED budget ELSE Spend("abort")
  /\ pump' = NoExec /\ pumpAt' = "off" /\ pumpOf' = NoExec /\ pumpEnd' = "none"
  /\ SwitchEnds
  /\ UNCHANGED <<claimVars, agentVars, pumpStop, taskVars,
                 paused, deliver, saw, stop, down, downId, closing>>
SwitchCloses ==
  /\ switch = "join" /\ pumpAt = "off"
  /\ Killed({agent} \ {NoExec}) /\ agent' = NoExec
  /\ SwitchEnds
  /\ UNCHANGED <<claimVars, by, said, unclean, pumpVars, taskVars, budget,
                 paused, deliver, saw, stop, down, downId, closing>>
SwitchCloseFails ==
  /\ switch = "join" /\ pumpAt = "off" /\ agent # NoExec /\ Spend("closeFail")
  /\ unclean' = unclean \cup {agent}
  /\ CleanupFailed /\ SwitchEnds
  /\ UNCHANGED <<agent, procs, serves, by, said, pumpVars, taskVars,
                 paused, deliver, saw, stop, down, downId, closing>>
-----------------------------------------------------------------------------
(* session.close pauses the inbox and takes interaction_lock before it shuts
   the session down; the daemon's own exit does neither. *)
CloseRequest ==
  /\ down \in {"idle", "failed"} /\ Spend("close")
  /\ paused' = TRUE /\ down' = "lock"
  /\ UNCHANGED <<claimVars, agentVars, pumpVars, taskVars, lockVars,
                 deliver, saw, stop, switch, downId, closing>>
CloseEnter ==
  /\ down = "lock" /\ interaction = "none"
  /\ interaction' = "close" /\ down' = "begin"
  /\ UNCHANGED <<claimVars, agentVars, pumpVars, taskVars, retirement, budget,
                 paused, deliver, saw, stop, switch, downId, closing>>
(* prepare_shutdown fences every session before the first one is shut down. *)
DaemonExit ==
  /\ down \in {"idle", "failed"} /\ Spend("exit")
  /\ closing' = TRUE /\ down' = "begin"
  /\ UNCHANGED <<claimVars, agentVars, pumpVars, taskVars, lockVars,
                 paused, deliver, saw, stop, switch, downId>>

(* Live::shutdown.  A starting execution is canceled and waited for. *)
DownBegin ==
  /\ down = "begin" /\ closing' = TRUE
  /\ IF phase = "starting"
     THEN down' = "wait" /\ downId' = claim /\ canceled' = canceled \cup {claim}
     ELSE down' = "reap" /\ UNCHANGED <<downId, canceled>>
  /\ UNCHANGED <<claim, phase, nextId, status, terminal, bound, outcome, agentVars,
                 pumpVars, taskVars, lockVars, paused, deliver, saw, stop, switch, budget>>
DownWaited ==
  /\ down = "wait" /\ downId \in terminal /\ down' = "reap"
  /\ UNCHANGED <<claimVars, agentVars, pumpVars, taskVars, lockVars, budget,
                 paused, deliver, saw, stop, switch, downId, closing>>
DownTimesOut ==
  /\ down = "wait" /\ downId \notin terminal /\ down' = "failed"
  /\ interaction' = IF interaction = "close" THEN "none" ELSE interaction
  /\ UNCHANGED <<claimVars, agentVars, pumpVars, taskVars, retirement,
                 paused, deliver, saw, stop, switch, downId, closing, budget>>

(* cleanup.stop aborts every task the session spawned: stops, the tasks of
   dropped handovers, and a delivery, whose own Handover is dropped with it. *)
Spawned == {t \in Task : Active(t) /\ (t[1] \in {"stop", "drop"} \/ IsDelivery(t))}
DownReap ==
  /\ down = "reap" /\ down' = "insert"
  /\ task' = [t \in Task |->
                IF t \in Spawned THEN "idle"
                ELSE IF t[1] = "drop" /\ <<"hand", t[2]>> \in Spawned THEN "mark"
                ELSE task[t]]
  /\ Killed({x \in Exec : <<"hand", x>> \in Spawned /\ task[<<"hand", x>>] = "joinOld"})
  /\ retirement' = IF retirement \in Spawned THEN NoOne ELSE retirement
  /\ interaction' = IF interaction = "deliver" THEN "none" ELSE interaction
  /\ deliver' = "idle" /\ saw' = NoExec
  /\ UNCHANGED <<claimVars, agent, by, said, unclean, pumpVars, prepared, budget,
                 paused, stop, switch, downId, closing>>
(* get_or_insert_with: a session nobody owns is claimed to be retired. *)
DownInsert ==
  /\ down = "insert" /\ down' = "retire"
  /\ claim' = IF claim = NoExec THEN nextId ELSE claim
  /\ phase' = IF claim = NoExec THEN "starting" ELSE phase
  /\ nextId' = IF claim = NoExec THEN nextId + 1 ELSE nextId
  /\ task' = [task EXCEPT ![<<"down", claim'>>] = "mark"]
  /\ UNCHANGED <<status, canceled, terminal, bound, outcome, agentVars, pumpVars, lockVars,
                 prepared, budget, paused, deliver, saw, stop, switch, downId, closing>>
-----------------------------------------------------------------------------
Handover == \E x \in Exec :
  \/ HandReuse(x) \/ HandSpawn(x) \/ HandInstall(x) \/ HandSend(x) \/ HandBind(x)
  \/ HandRefused(x) \/ HandCanceled(x)
Retirement == \E t \in Task :
  \/ StopAsked(t) \/ RetireMark(t) \/ RetireJoin(t) \/ RetireLock(t) \/ RetireClose(t)
  \/ RetireCommit(t) \/ RetireLate(t)
PumpStep ==
  \/ \E x \in Exec : PumpIgnores(x) \/ PumpDefers(x) \/ PumpCompletes(x) \/ PumpRetires(x)
  \/ PumpLocks \/ PumpCloses \/ PumpCommits \/ PumpStops \/ PumpExits
Delivery == \/ DeliverBegin \/ \E x \in Exec : DeliverClaim(x)
            \/ DeliverRefused \/ DeliverLook \/ DeliverSteered \/ DeliverInterrupt
SwitchStep == SwitchEnter \/ SwitchCheck \/ SwitchRefused \/ SwitchStopsPump \/ SwitchCloses
DownStep == CloseEnter \/ DownBegin \/ DownWaited \/ DownTimesOut \/ DownReap \/ DownInsert
Requests == \/ \E x \in Exec : DirectSend(x)
            \/ AcceptInput \/ StopRequest \/ SwitchRequest \/ CloseRequest \/ DaemonExit
Failures ==
  \/ \E x \in Exec : \/ HandFails(x) \/ HandAborts(x) \/ HandBindUnsaved(x) \/ HandDropped(x)
                     \/ AgentCrash(x) \/ AgentRepeats(x)
  \/ \E t \in Task : RetireJoinAborts(t) \/ RetireCloseFails(t) \/ RetireCommitUnsaved(t)
  \/ PumpCloseFails \/ SwitchJoinAborts \/ SwitchCloseFails
AgentStep == \E p \in Exec, end \in Ends : AgentEnds(p, end)

(* Nothing is under way: the session may rest here for ever. *)
AtRest ==
  /\ \A t \in Task : ~Active(t)
  /\ pumpAt \in {"off", "idle"} /\ deliver = "idle" /\ stop = "idle" /\ switch = "idle"
  /\ down \in {"idle", "failed", "done"}
Rest == AtRest /\ UNCHANGED vars

Next == \/ Handover \/ Retirement \/ PumpStep \/ Delivery \/ StopEnter \/ SwitchStep
        \/ DownStep \/ Requests \/ Failures \/ AgentStep \/ Rest
Spec == Init /\ [][Next]_vars
-----------------------------------------------------------------------------
(* Whatever the calls and failures, a process works only on the turn of the
   execution that owns the session: a claim is not released, and no other one
   taken, while a process still acts on the old prompt. *)
NoUnownedTurn == \A p \in procs : serves[p] # NoExec => claim = serves[p]

(* A stop accepted by a starting or running execution is never overtaken by the
   handover: an execution whose cancel flag is set does not go on running. *)
CancelIsKept == claim \in canceled => phase # "running"

(* finish_execution commits whatever owner it finds after the pump closed the
   process; that it is the execution whose turn failed rests on everyone else
   joining the pump before committing. *)
PumpCommitsItsOwn == pumpAt = "commit" => claim = pumpOf /\ phase = "stopping"

(* The session implements ExecutionClaim: of an execution it keeps only whether
   it owns the session, is worked on, was prompted and has been released. *)
Claim == INSTANCE ExecutionClaim WITH
           Execution <- Exec, Nobody <- NoExec, holder <- claim,
           working <- {serves[p] : p \in procs} \ {NoExec},
           prompted <- {x \in Exec : by[x] # NoExec},
           ended <- {x \in Exec : outcome[x] # "none"}
ImplementsClaim == Claim!Spec

(* An execution being stopped has a future that will carry the stop out. *)
Responsible(x) ==
  \/ \E kind \in {"hand", "drop", "stop"} : Active(<<kind, x>>)
  \/ pumpAt \in {"lock", "close", "commit"} /\ pumpOf = x
  \/ down \in {"reap", "insert", "retire"}
StoppingHasOwner == phase = "stopping" => Responsible(claim)

(* A running execution's end will be heard: its turn was handed to the process
   that is installed, the pump follows that process, and the turn is still
   being worked on or its end has not been received yet. *)
RunningIsHeard ==
  phase = "running" /\ ~closing /\ ~Active(<<"hand", claim>>) =>
    /\ by[claim] = agent /\ pump = agent /\ pumpAt = "idle" /\ ~pumpStop
    /\ said[claim] # "heard"
    /\ (agent \in procs /\ serves[agent] = claim) \/ said[claim] # "none"

(* Whatever became of its senders, stoppers and processes, somebody ends an execution. *)
SomebodyEndsIt == StoppingHasOwner /\ RunningIsHeard

(* A session told closed has no execution, no agent and no process left. *)
ClosedMeansGone == status = "closed" => claim = NoExec /\ agent = NoExec /\ procs = {}

(* A process whose close failed is not given another prompt. *)
UncleanTakesNoPrompt ==
  [][\A x \in Exec : by[x] = NoExec /\ by'[x] # NoExec => by'[x] \notin unclean]_vars

(* Switching Agent waits for the turn: none is running when it stops the pump. *)
SwitchWaitsForTurn == switch = "join" => phase # "running"

(* The delivery's interrupt, a stop or the cancel flag of a handover, falls on the
   execution it found running before it waited for the agent's answer. *)
InterruptHitsWhatItSaw ==
  [][/\ deliver = "looked" /\ deliver' = "idle"
     /\ (phase # "stopping" /\ phase' = "stopping") \/ canceled' # canceled
     => claim = saw]_vars
-----------------------------------------------------------------------------
(* Every await of the code inside a handover, a retirement, the pump and a
   shutdown has a timeout or waits for another of them: each keeps moving.
   Callers, agents and failures owe nothing. *)
Fairness == /\ WF_vars(Handover) /\ WF_vars(Retirement) /\ WF_vars(PumpStep)
            /\ WF_vars(Delivery) /\ WF_vars(StopEnter) /\ WF_vars(SwitchStep)
            /\ WF_vars(DownStep)
FairSpec == Spec /\ Fairness

(* A stop that was asked for reaches the session: whoever holds the lock that
   interrupt waits for lets go of it. *)
StopIsEntered == stop = "lock" ~> stop = "idle"

(* retire_execution comes to an end: an execution being stopped is released, or
   reported as not cleaned up and left to another stop. *)
StoppingEnds ==
  \A x \in Exec : (claim = x /\ phase = "stopping") ~> (claim # x \/ phase # "stopping")

(* A handover is bound to its turn or withdrawn; no session stays starting. *)
StartingEnds == phase = "starting" ~> phase # "starting"

(* A shutdown comes back, with or without an error, whatever it has to wait for. *)
ShutdownEnds == down \notin {"idle", "failed", "done"} ~> down \in {"failed", "done"}

(* Everything the daemon itself has to end comes to its end. *)
ComesToAnEnd == StopIsEntered /\ StoppingEnds /\ StartingEnds /\ ShutdownEnds
=============================================================================

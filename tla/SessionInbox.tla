---------------------------- MODULE SessionInbox ----------------------------
(***************************************************************************)
(* The durable inbox of one session: a message is acknowledged once its    *)
(* receipt and its body are on disk, waits as an entry of the ledger, is   *)
(* handed to the agent either as a turn of its own or into the turn that   *)
(* is running, and is settled when that turn completes.  The daemon may    *)
(* exit or die between any two of these steps and start again.             *)
(*                                                                         *)
(* Every write of the ledger is saved before it is assigned, so `entry' is *)
(* both what is on disk and what the daemon remembers; only the pause has  *)
(* a path that is assigned unsaved.  Of an execution this module keeps its *)
(* phase and its input_ids: SessionExecution has how it is carried out.    *)
(* A turn is named by a number, an agent by what it can do: it takes a     *)
(* message into its running turn, or can at least be interrupted and       *)
(* resumed for it, or neither.                                             *)
(***************************************************************************)
EXTENDS Integers, FiniteSets

CONSTANTS Human,       \* messages typed by a person or written by another agent
          System,      \* notices of scripts
          NoMsg,       \* none of them
          MaxPending,  \* MAX_PENDING_INPUTS
          MaxTurns,    \* how many executions the model numbers
          Settings     \* <<what the agent can do, how often each move may happen>>

Msg == Human \cup System
Turn == 1 .. MaxTurns
NoTurn == 0
Agents == {"steers", "stops", "bare"}
Kinds == {"direct", "stop", "exit", "die", "fail", "handFail", "refuse", "unknown", "saveFail"}

ASSUME InboxAssumption ==
  /\ NoMsg \notin Msg /\ MaxPending \in Nat \ {0} /\ MaxTurns \in Nat
  /\ Settings \subseteq Agents \X [Kinds -> Nat]

VARIABLES
  entry,     \* the ledger: what became of each message
  turnOf,    \* the turn an entry was sent in
  chat,      \* bodies in the chat log
  summed,    \* turns whose completion is in the chat log
  paused,    \* inbox.paused
  onDisk,    \* inbox.paused, as saved
  accepting, \* the message accept_input holds inbox_lock for
  acceptAt,  \* idle, append or queue
  deliver,   \* where the delivery task stands
  carry,     \* the entries it has collected
  fresh,     \* those it labels queued: never sent before
  exec,      \* phase of the execution
  turn,      \* its turn, or the last one there was
  inputs,    \* its input_ids
  unsaved,   \* a completed turn that is only in memory
  stop,      \* a stop request: idle, or waiting for interaction_lock
  agent,     \* what the session's agent can do
  closing,   \* closing
  up,        \* the daemon runs
  acked,     \* history: messages whose sender was told Ack
  offered,   \* history: messages an agent was given, or may have been
  unheard,   \* history: messages of a steer that was never answered
  withdrawn, \* history: messages marked sent whose handover was called off
  budget     \* how often each move may still happen

ledgerVars == <<entry, turnOf, chat, summed>>
pauseVars == <<paused, onDisk>>
acceptVars == <<accepting, acceptAt, acked>>
deliverVars == <<deliver, carry, fresh>>
execVars == <<exec, turn, inputs, unsaved>>
daemonVars == <<agent, stop, closing, up>>
givenVars == <<offered, unheard, withdrawn>>
vars == <<ledgerVars, pauseVars, acceptVars, deliverVars, execVars, daemonVars, givenVars,
          budget>>

EntryStates == {"none", "receiving", "queued", "sent", "handled"}
Handing == {"starting", "marked", "sent"}

TypeOK ==
  /\ entry \in [Msg -> EntryStates] /\ turnOf \in [Msg -> Turn \cup {NoTurn}]
  /\ chat \subseteq Msg /\ summed \subseteq Turn
  /\ paused \in BOOLEAN /\ onDisk \in BOOLEAN /\ closing \in BOOLEAN /\ up \in BOOLEAN
  /\ agent \in Agents /\ stop \in {"idle", "lock"}
  /\ accepting \in Msg \cup {NoMsg} /\ acceptAt \in {"idle", "append", "queue"}
  /\ acceptAt = "idle" <=> accepting = NoMsg
  /\ deliver \in {"idle", "steering", "refused", "lock", "claim"} \cup Handing
  /\ carry \subseteq Msg /\ fresh \subseteq carry
  /\ exec \in {"none", "starting", "running", "stopping", "saving"}
  /\ deliver \in Handing <=> exec = "starting"
  /\ turn \in Turn \cup {NoTurn} /\ unsaved \in Turn \cup {NoTurn}
  /\ inputs \subseteq Msg /\ acked \subseteq Msg
  /\ offered \subseteq Msg /\ unheard \subseteq Msg /\ withdrawn \subseteq Msg
  /\ budget \in [Kinds -> Nat]

Init ==
  /\ entry = [m \in Msg |-> "none"] /\ turnOf = [m \in Msg |-> NoTurn]
  /\ chat = {} /\ summed = {} /\ paused = FALSE /\ onDisk = FALSE
  /\ accepting = NoMsg /\ acceptAt = "idle" /\ acked = {}
  /\ deliver = "idle" /\ carry = {} /\ fresh = {}
  /\ exec = "none" /\ turn = NoTurn /\ inputs = {} /\ unsaved = NoTurn
  /\ stop = "idle" /\ closing = FALSE /\ up = TRUE
  /\ offered = {} /\ unheard = {} /\ withdrawn = {}
  /\ \E setting \in Settings : agent = setting[1] /\ budget = setting[2]
-----------------------------------------------------------------------------
Spend(kind) == budget[kind] > 0 /\ budget' = [budget EXCEPT ![kind] = @ - 1]

Set(entries, state) == [m \in Msg |-> IF m \in entries THEN state ELSE entry[m]]
In(state) == {m \in Msg : entry[m] = state}
Pending == {m \in Msg : entry[m] \notin {"none", "handled"}}
Ready == In("queued") \cup In("sent")

(* primary_lane: a waiting person wins the turn, the rest is deferred. *)
PrimaryLane == IF Ready \cap Human # {} THEN Human ELSE System

(* retire_failed_human_inputs *)
Retired == IF paused THEN In("sent") \cap Human ELSE {}
-----------------------------------------------------------------------------
(* accept_input, holding inbox_lock: the receipt is reserved, ... *)
AcceptReserve(m) ==
  /\ up /\ ~closing /\ accepting = NoMsg /\ entry[m] = "none"
  /\ LET retired == IF m \in Human THEN Retired ELSE {} IN
     /\ Cardinality(Pending \ retired) < MaxPending
     /\ entry' = [Set(retired, "handled") EXCEPT ![m] = "receiving"]
  /\ accepting' = m /\ acceptAt' = "append"
  /\ UNCHANGED <<turnOf, chat, summed, pauseVars, acked, deliverVars, execVars, daemonVars,
                 givenVars, budget>>
(* ... or found, when the sender retries: half recorded, ... *)
AcceptResumesAppended(m) ==  \* as if the body were there already
  /\ up /\ ~closing /\ accepting = NoMsg /\ entry[m] = "receiving"
  /\ accepting' = m /\ acceptAt' = "queue"
  /\ UNCHANGED <<ledgerVars, pauseVars, acked, deliverVars, execVars, daemonVars, givenVars,
                 budget>>
AcceptResumes(m) ==
  /\ up /\ ~closing /\ accepting = NoMsg /\ entry[m] = "receiving"
  /\ accepting' = m /\ acceptAt' = "append"
  /\ UNCHANGED <<ledgerVars, pauseVars, acked, deliverVars, execVars, daemonVars, givenVars,
                 budget>>
(* ... or on its way already: it is acknowledged again. *)
AcceptAgain(m) ==
  /\ up /\ ~closing /\ accepting = NoMsg /\ entry[m] \in {"queued", "sent", "handled"}
  /\ acked' = acked \cup {m}
  /\ UNCHANGED <<ledgerVars, pauseVars, accepting, acceptAt, deliverVars, execVars, daemonVars,
                 givenVars, budget>>
(* The body is appended, unless an earlier attempt did. *)
AcceptAppend ==
  /\ up /\ acceptAt = "append" /\ acceptAt' = "queue"
  /\ chat' = chat \cup {accepting}
  /\ UNCHANGED <<entry, turnOf, summed, pauseVars, accepting, acked, deliverVars, execVars,
                 daemonVars, givenVars, budget>>
(* The message is queued; a person's also lifts the pause. *)
AcceptQueue ==
  /\ up /\ acceptAt = "queue"
  /\ entry' = Set({accepting}, "queued") /\ acked' = acked \cup {accepting}
  /\ IF accepting \in Human THEN paused' = FALSE /\ onDisk' = FALSE ELSE UNCHANGED pauseVars
  /\ acceptAt' = "idle" /\ accepting' = NoMsg
  /\ UNCHANGED <<turnOf, chat, summed, deliverVars, execVars, daemonVars, givenVars, budget>>
(* A write fails and the sender hears of it; an append may have happened. *)
AcceptFails ==
  /\ up /\ acceptAt # "idle" /\ Spend("saveFail")
  /\ acceptAt' = "idle" /\ accepting' = NoMsg
  /\ chat' \in {chat, chat \cup {accepting}}
  /\ UNCHANGED <<entry, turnOf, summed, pauseVars, acked, deliverVars, execVars, daemonVars,
                 givenVars>>
-----------------------------------------------------------------------------
(* What is still in memory of an earlier turn is flushed first; its inputs are
   not looked at again. *)
Flushed == summed \cup ({unsaved} \ {NoTurn})
Idle == exec' = "none" /\ inputs' = {} /\ unsaved' = NoTurn /\ UNCHANGED turn
Claims(phase, ids) ==
  /\ ~closing /\ exec \in {"none", "saving"} /\ turn < MaxTurns
  /\ exec' = phase /\ inputs' = ids /\ turn' = turn + 1
  /\ summed' = Flushed /\ unsaved' = NoTurn

(* A send without a message id: it has its turn beside the inbox. *)
DirectSend ==
  /\ up /\ Spend("direct") /\ Claims("running", {})
  /\ UNCHANGED <<entry, turnOf, chat, pauseVars, acceptVars, deliverVars, daemonVars, givenVars>>

(* finish_execution of a completed turn, then settle_inputs.  A steer holds the
   execution lock all the while it waits for the agent. *)
Ending == up /\ exec = "running" /\ deliver # "steering"
TurnCompletes ==
  /\ Ending /\ summed' = summed \cup {turn} /\ entry' = Set(inputs, "handled") /\ Idle
  /\ UNCHANGED <<turnOf, chat, pauseVars, acceptVars, deliverVars, daemonVars, givenVars, budget>>
(* The log or, once that is written, the ledger cannot be saved. *)
TurnCompletesUnsaved ==
  /\ Ending /\ Spend("saveFail") /\ exec' = "saving"
  /\ \/ unsaved' = turn /\ UNCHANGED summed
     \/ summed' = summed \cup {turn} /\ UNCHANGED unsaved
  /\ UNCHANGED <<entry, turnOf, chat, pauseVars, acceptVars, deliverVars, turn, inputs, daemonVars,
                 givenVars>>
(* A failed turn pauses the inbox until a person writes again. *)
TurnFails ==
  /\ Ending /\ Spend("fail") /\ Idle
  /\ LET pauses == inputs # {} /\ ~closing IN
     paused' = (paused \/ pauses) /\ onDisk' = (onDisk \/ pauses)
  /\ UNCHANGED <<ledgerVars, acceptVars, deliverVars, daemonVars, givenVars>>
TurnFailsUnsaved ==
  /\ Ending /\ budget["fail"] > 0 /\ Spend("saveFail") /\ exec' = "saving"
  /\ UNCHANGED <<ledgerVars, pauseVars, acceptVars, deliverVars, turn, inputs, unsaved, daemonVars,
                 givenVars>>

(* interrupt: paused at once, carried out once interaction_lock is free. *)
StopRequest ==
  /\ up /\ stop = "idle" /\ Spend("stop")
  /\ paused' = TRUE /\ onDisk' = TRUE /\ stop' = "lock"
  /\ UNCHANGED <<ledgerVars, acceptVars, deliverVars, execVars, agent, closing, up, givenVars>>
Stopped == IF exec \in {"running", "saving"} THEN "stopping" ELSE exec
StopEnter ==
  /\ up /\ stop = "lock" /\ deliver \notin {"claim", "steering"} \cup Handing
  /\ stop' = "idle" /\ exec' = Stopped
  /\ UNCHANGED <<ledgerVars, pauseVars, acceptVars, deliverVars, turn, inputs, unsaved, agent, closing,
                 up, givenVars, budget>>
(* retire_execution: a canceled turn settles nothing. *)
StopCommits ==
  /\ up /\ exec = "stopping" /\ summed' = Flushed /\ Idle
  /\ UNCHANGED <<entry, turnOf, chat, pauseVars, acceptVars, deliverVars, daemonVars, givenVars,
                 budget>>
-----------------------------------------------------------------------------
(* dispatch_deliveries starts a delivery for an eligible session. *)
Eligible == up /\ ~closing /\ deliver = "idle" /\ ~paused
Ends(d) == deliver' = d /\ carry' = {} /\ fresh' = {}
(* The error a delivery returns pauses the inbox, in memory only if the pause
   itself cannot be saved. *)
Errs == Ends("idle") /\ paused' = TRUE /\ onDisk' \in {TRUE, onDisk}

(* A receipt whose body is in the log is completed. *)
Half == In("receiving") \cap chat
DeliverPromotes ==
  /\ Eligible /\ accepting = NoMsg /\ Half # {}
  /\ entry' = Set(Half, "queued")
  /\ UNCHANGED <<turnOf, chat, summed, pauseVars, acceptVars, deliverVars, execVars, daemonVars,
                 givenVars, budget>>

(* steer_inputs: the entries become the running turn's before it is asked. *)
Typed == In("queued") \cap Human
DeliverSteersUnowned ==  \* its execution does not hear of them
  /\ Eligible /\ exec = "running" /\ Typed # {}
  /\ deliver' = "steering" /\ carry' = Typed /\ fresh' = Typed
  /\ entry' = Set(Typed, "sent")
  /\ turnOf' = [m \in Msg |-> IF m \in Typed THEN turn ELSE turnOf[m]]
  /\ UNCHANGED <<chat, summed, pauseVars, acceptVars, execVars, daemonVars, givenVars, budget>>
DeliverSteers ==
  /\ Eligible /\ exec = "running" /\ Typed # {}
  /\ deliver' = "steering" /\ carry' = Typed /\ fresh' = Typed
  /\ entry' = Set(Typed, "sent")
  /\ turnOf' = [m \in Msg |-> IF m \in Typed THEN turn ELSE turnOf[m]]
  /\ inputs' = inputs \cup Typed
  /\ UNCHANGED <<chat, summed, pauseVars, acceptVars, exec, turn, unsaved, daemonVars, givenVars,
                 budget>>
SteerTakenHeld ==  \* the delivery is not marked over
  /\ up /\ agent = "steers" /\ deliver = "steering" /\ carry # {} /\ carry' = {} /\ fresh' = {} /\ UNCHANGED deliver
  /\ offered' = offered \cup carry /\ UNCHANGED <<unheard, withdrawn>>
  /\ UNCHANGED <<ledgerVars, pauseVars, acceptVars, execVars, daemonVars, budget>>
SteerTaken ==
  /\ up /\ agent = "steers" /\ deliver = "steering" /\ Ends("idle")
  /\ offered' = offered \cup carry /\ UNCHANGED <<unheard, withdrawn>>
  /\ UNCHANGED <<ledgerVars, pauseVars, acceptVars, execVars, daemonVars, budget>>
(* An agent without the means declines at once, and the entries are put back; so
   they are when one refuses, or when its answer does not come. *)
PutBack ==
  /\ up /\ deliver = "steering"
  /\ entry' = Set(carry, "queued")
  /\ turnOf' = [m \in Msg |-> IF m \in carry THEN NoTurn ELSE turnOf[m]]
  /\ inputs' = inputs \ carry /\ Ends("refused")
  /\ UNCHANGED <<chat, summed, pauseVars, acceptVars, exec, turn, unsaved, daemonVars, offered,
                 withdrawn>>
SteerDeclined == agent # "steers" /\ PutBack /\ UNCHANGED <<unheard, budget>>
SteerRefused ==
  /\ agent = "steers" /\ PutBack
  /\ \/ Spend("refuse") /\ UNCHANGED unheard
     \/ Spend("unknown") /\ unheard' = unheard \cup carry
SteerUndoFails ==
  /\ up /\ deliver = "steering" /\ Spend("saveFail")
  /\ agent # "steers" \/ budget["refuse"] > 0
  /\ inputs' = inputs \ carry /\ Errs /\ withdrawn' = withdrawn \cup carry
  /\ UNCHANGED <<ledgerVars, acceptVars, exec, turn, unsaved, daemonVars, offered, unheard>>
(* Without the agent's consent the turn is interrupted instead, if its agent can
   be interrupted and go on later; otherwise the message waits for its end. *)
DeliverCannotSteer ==
  /\ Eligible /\ exec = "running" /\ Typed # {} /\ Spend("refuse") /\ Ends("refused")
  /\ UNCHANGED <<ledgerVars, pauseVars, acceptVars, execVars, daemonVars, givenVars>>
DeliverInterrupts ==
  /\ up /\ deliver = "refused" /\ Ends("idle")
  /\ exec' = IF agent = "bare" THEN exec ELSE Stopped
  /\ UNCHANGED <<ledgerVars, pauseVars, acceptVars, turn, inputs, unsaved, daemonVars, givenVars,
                 budget>>

(* With no execution in the way, one lane's entries are collected under
   interaction_lock and their turn is claimed. *)
DeliverBegins ==
  /\ Eligible /\ exec = "none" /\ Ready # {} /\ Ends("lock")
  /\ UNCHANGED <<ledgerVars, pauseVars, acceptVars, execVars, daemonVars, givenVars, budget>>
DeliverCollects ==
  /\ up /\ deliver = "lock"
  /\ LET ready == Ready \cap PrimaryLane IN
     IF exec # "none" \/ paused \/ ready = {} THEN Ends("idle")
     ELSE deliver' = "claim" /\ carry' = ready /\ fresh' = ready \cap In("queued")
  /\ UNCHANGED <<ledgerVars, pauseVars, acceptVars, execVars, daemonVars, givenVars, budget>>
DeliverClaims ==
  /\ up /\ deliver = "claim" /\ Claims("starting", carry)
  /\ deliver' = "starting" /\ UNCHANGED <<carry, fresh>>
  /\ UNCHANGED <<entry, turnOf, chat, pauseVars, acceptVars, daemonVars, givenVars, budget>>
DeliverRefused ==
  /\ up /\ deliver = "claim" /\ (closing \/ exec \notin {"none", "saving"}) /\ Errs
  /\ UNCHANGED <<ledgerVars, acceptVars, execVars, daemonVars, givenVars, budget>>
(* What an earlier turn left in memory cannot be saved now either. *)
DeliverClaimFails ==
  /\ up /\ deliver = "claim" /\ ~closing /\ unsaved # NoTurn /\ Spend("saveFail") /\ Errs
  /\ UNCHANGED <<ledgerVars, acceptVars, execVars, daemonVars, givenVars>>

(* start_turn: the agent is there, the entries are marked before it is asked. *)
HandMarkLate ==  \* they stay queued until the turn is bound
  /\ up /\ deliver = "starting" /\ deliver' = "marked"
  /\ UNCHANGED <<ledgerVars, carry, fresh, pauseVars, acceptVars, execVars, daemonVars, givenVars,
                 budget>>
HandMark ==
  /\ up /\ deliver = "starting" /\ deliver' = "marked"
  /\ entry' = Set(carry, "sent")
  /\ UNCHANGED <<turnOf, chat, summed, carry, fresh, pauseVars, acceptVars, execVars, daemonVars,
                 givenVars, budget>>
HandSend ==
  /\ up /\ deliver = "marked" /\ ~paused /\ deliver' = "sent"
  /\ offered' = offered \cup carry /\ UNCHANGED <<unheard, withdrawn>>
  /\ UNCHANGED <<ledgerVars, carry, fresh, pauseVars, acceptVars, execVars, daemonVars, budget>>
HandBind ==
  /\ up /\ deliver = "sent" /\ Ends("idle") /\ exec' = "running"
  /\ turnOf' = [m \in Msg |-> IF m \in inputs THEN turn ELSE turnOf[m]]
  /\ UNCHANGED <<entry, chat, summed, pauseVars, acceptVars, turn, inputs, unsaved, daemonVars,
                 givenVars, budget>>
(* A handover that fails pauses the inbox, and its entries stay as they are.
   What an error of send means for the prompt is unknown. *)
HandFailsClaimed ==  \* the execution stays claimed
  /\ up /\ deliver \in Handing /\ Spend("handFail")
  /\ offered' = IF deliver = "marked" THEN offered \cup carry ELSE offered
  /\ Errs
  /\ UNCHANGED <<ledgerVars, acceptVars, execVars, daemonVars, unheard, withdrawn>>
HandFails ==
  /\ up /\ deliver \in Handing /\ Spend("handFail")
  /\ offered' = IF deliver = "marked" THEN offered \cup carry ELSE offered
  /\ Errs /\ Idle
  /\ UNCHANGED <<ledgerVars, acceptVars, daemonVars, unheard, withdrawn>>
(* The pause is looked at once more, when they are marked already. *)
HandPaused ==
  /\ up /\ deliver = "marked" /\ paused
  /\ withdrawn' = withdrawn \cup carry /\ Errs /\ Idle
  /\ UNCHANGED <<ledgerVars, acceptVars, daemonVars, offered, unheard, budget>>
(* Cut off once its entries are marked, the agent has them or has not; cut off
   while it is asked to take a steer, it may have. *)
CutOff ==
  \/ /\ withdrawn' = withdrawn \cup (IF deliver = "marked" THEN carry ELSE {})
     /\ offered' = offered \cup (IF deliver = "steering" THEN carry ELSE {})
     /\ UNCHANGED unheard
  \/ deliver = "marked" /\ offered' = offered \cup carry /\ UNCHANGED <<unheard, withdrawn>>
(* A shutdown cancels it.  settle_inputs leaves the inbox alone then; the task
   still pauses it, unless it is aborted first. *)
HandCanceled ==
  /\ up /\ deliver \in Handing /\ closing /\ CutOff
  /\ Idle /\ (Errs \/ (Ends("idle") /\ UNCHANGED pauseVars))
  /\ UNCHANGED <<ledgerVars, acceptVars, daemonVars, budget>>
-----------------------------------------------------------------------------
(* The daemon exits: deliveries are fenced, then the sessions are shut down. *)
Exit ==
  /\ up /\ ~closing /\ Spend("exit") /\ closing' = TRUE
  /\ UNCHANGED <<ledgerVars, pauseVars, acceptVars, deliverVars, execVars, agent, stop, up,
                 givenVars>>
Forgets ==
  /\ up' = FALSE /\ closing' = FALSE /\ stop' = "idle" /\ paused' = onDisk
  /\ accepting' = NoMsg /\ acceptAt' = "idle" /\ CutOff /\ Ends("idle") /\ Idle
Down ==
  /\ up /\ closing /\ deliver \notin Handing
  /\ Forgets /\ summed' = Flushed
  /\ UNCHANGED <<entry, turnOf, chat, onDisk, acked, agent, budget>>
Die ==
  /\ up /\ Spend("die") /\ Forgets /\ summed' \in {summed, Flushed}
  /\ UNCHANGED <<entry, turnOf, chat, onDisk, acked, agent>>

(* recover_deliveries *)
Recovered(m) ==
  IF entry[m] = "receiving" /\ m \in chat THEN "queued"
  ELSE IF entry[m] = "sent" /\ turnOf[m] \in summed THEN "handled" ELSE entry[m]
Boot ==
  /\ ~up /\ up' = TRUE /\ entry' = [m \in Msg |-> Recovered(m)]
  /\ UNCHANGED <<turnOf, chat, summed, pauseVars, acceptVars, deliverVars, execVars, agent, stop,
                 closing, givenVars, budget>>
BootUnsaved ==
  /\ ~up /\ up' = TRUE /\ Spend("saveFail")
  /\ UNCHANGED <<ledgerVars, pauseVars, acceptVars, deliverVars, execVars, agent, stop,
                 closing, givenVars>>
-----------------------------------------------------------------------------
Accept == AcceptAppend \/ AcceptQueue
Senders == AcceptFails \/ \E m \in Msg : AcceptReserve(m) \/ AcceptResumes(m) \/ AcceptAgain(m)
Delivery ==
  \/ DeliverPromotes \/ DeliverSteers \/ SteerTaken \/ SteerDeclined \/ DeliverInterrupts
  \/ DeliverBegins \/ DeliverCollects \/ DeliverClaims \/ DeliverRefused
  \/ HandMark \/ HandSend \/ HandBind \/ HandPaused \/ HandCanceled
Failures == DeliverClaimFails \/ SteerRefused \/ SteerUndoFails \/ DeliverCannotSteer \/ HandFails
Agent == TurnCompletes \/ TurnCompletesUnsaved \/ TurnFails \/ TurnFailsUnsaved
Stopping == StopEnter \/ StopCommits
Daemon == Exit \/ Down \/ Die \/ Boot \/ BootUnsaved

(* Every message has been dealt with, or waits for a person. *)
AtRest ==
  /\ up /\ ~closing /\ accepting = NoMsg /\ deliver = "idle" /\ stop = "idle"
  /\ exec \in {"none", "saving"}
Rest == AtRest /\ UNCHANGED vars
Next == \/ Senders \/ Accept \/ DirectSend \/ StopRequest \/ Stopping \/ Delivery \/ Failures
        \/ Agent \/ Daemon \/ Rest
Spec == Init /\ [][Next]_vars

(* The dispatcher ticks, an agent answers a steer or a handover or runs into its
   budget, a stop is carried out; no turn has to end, nobody has to send. *)
Fairness == WF_vars(Accept) /\ WF_vars(Delivery) /\ WF_vars(Stopping) /\ WF_vars(Boot)
FairSpec == Spec /\ Fairness
-----------------------------------------------------------------------------
(* An acknowledged message keeps its body and its entry, whatever dies when. *)
AckedIsKept == \A m \in acked : m \in chat /\ entry[m] \in {"queued", "sent", "handled"}

(* A message an agent was given is never handed over as a new command: it
   is labelled sent. *)
SentIsNotNew == deliver \in {"claim", "starting", "marked"} => fresh \cap offered = {}

(* What an agent may have read is not sent to it again as a new command because the
   answer to its steer did not come. *)
UnheardIsNotResent == deliver \in {"claim", "starting", "marked"} => fresh \cap unheard = {}

(* A message is taken off the ledger only after an agent was offered it, is
   being offered it, or its handover was called off when it was marked already. *)
HandledWasOffered ==
  \A m \in Msg : entry[m] = "handled" => m \in offered \cup unheard \cup carry \cup withdrawn

(* The ledger says of a message what an agent may know of it, in both directions. *)
LedgerTellsTruth == SentIsNotNew /\ HandledWasOffered

(* The acknowledgement covers the obligation to deliver: what is taken off the
   ledger has been offered to an agent. *)
NothingIsDropped == \A m \in Msg : entry[m] = "handled" => m \in offered \cup unheard \cup carry

(* The ledger and the execution agree on what a running turn has to settle, but
   for a steer that was refused and whose mark could not be taken back. *)
RunningOwnsItsInputs ==
  exec = "running" =>
    /\ \A m \in inputs : entry[m] \in {"sent", "handled"}
    /\ \A m \in Msg : entry[m] = "sent" /\ turnOf[m] = turn => m \in inputs \cup withdrawn

(* A queued message of a person is handed over, or the inbox says why not: it is
   paused, the daemon is on its way out, the turn before it cannot be saved, or its
   agent can neither take a message into its turn nor be interrupted for one. *)
QueuedIsDelivered ==
  \A m \in Human : (entry[m] = "queued" /\ up)
                     ~> (m \in offered \/ paused \/ closing \/ ~up \/ exec = "saving"
                         \/ (exec = "running" /\ agent = "bare"))

(* A turn that could not be saved is saved again for the next message: it does
   not keep an acknowledged message waiting for good. *)
SavingIsRetried ==
  \A m \in Human : (entry[m] = "queued" /\ exec = "saving" /\ up)
                     ~> (exec # "saving" \/ paused \/ closing \/ ~up)
=============================================================================

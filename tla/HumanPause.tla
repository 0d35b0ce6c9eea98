----------------------------- MODULE HumanPause -----------------------------
(***************************************************************************)
(* A turn that needs its user.  The agent raises a request; the daemon     *)
(* saves it, stops the agent and shows a card; nothing of the turn is left *)
(* waiting.  An answer is recorded in the chat, becomes a saved decision   *)
(* and is told to a new turn of the same native session, alone or together *)
(* with what the person wrote meanwhile.  A message that arrives while the *)
(* card is open is a consultation: a turn that may explain and nothing     *)
(* else.  How a message reaches a turn that runs depends on what the agent *)
(* can do (SessionInbox).                                                  *)
(*                                                                         *)
(* The inbox is reduced to the state of its entries (SessionInbox has its  *)
(* writes), a direct send to its turn (SessionExecution has its handover). *)
(* An agent whose close fails is left to SessionExecution as well.  Of an  *)
(* answer only what follows is kept: `allow' has a continuation, `deny'    *)
(* has none.  Recording the grant writes what later steps already know, so *)
(* the write is a point where they can fail or be cut off.                 *)
(***************************************************************************)
EXTENDS Integers, FiniteSets

CONSTANTS Msg,        \* messages of a person
          MaxReq,     \* how many requests the model numbers
          Settings    \* <<what the agent can do, how often each move may happen>>

Req == 1 .. MaxReq
NoReq == 0
Answers == {"allow", "deny"}
Agents == {"steers", "stops", "bare"}
Kinds == {"ask", "cli", "direct", "stop", "exit", "die", "fail", "handFail", "saveFail",
          "refuse", "late", "over", "between", "change"}

ASSUME PauseAssumption ==
  MaxReq \in Nat \ {0} /\ Settings \subseteq Agents \X [Kinds -> Nat]

VARIABLES
  entry,      \* the ledger
  paused,     \* inbox.paused
  pending,    \* pending_permission, as saved
  decision,   \* human_continuation: the request it answers
  done,       \* human_continuation.completed
  outcome,    \* the answers, as decided
  chat,       \* the answers, as the chat log shows them
  card,       \* pending_permissions: what clients are shown
  dispatched, \* continuation_dispatched
  status,     \* the session's status
  exec,       \* phase of the execution
  retiring,   \* a stopping execution has a task that retires it
  consult,    \* its consultation
  carries,    \* its human_request_id
  inputs,     \* its input_ids
  proc,       \* the agent process: none, or the mode it was started in
  ask,        \* a request on its way: idle, lock, persist or close
  asker,      \* who holds it: the event pump or a submission of the CLI
  last,       \* the requests raised so far
  kind,       \* tool (a permission) or question
  answer,     \* respond_permission: idle, save, hand or clear
  deliver,    \* the delivery task: idle, claim, starting or marked
  carry,      \* the entries it has collected
  stop,       \* a stop request: idle, or waiting for interaction_lock
  agent,      \* what the session's agent can do
  closing,    \* closing
  up,         \* the daemon runs
  answered,   \* history: requests whose answer was acknowledged
  told,       \* history: requests whose answer an agent was given
  canceled,   \* history: requests a stop withdrew
  given,      \* history: messages an agent was given
  budget      \* how often each move may still happen

inboxVars == <<entry, paused>>
humanVars == <<pending, decision, done, outcome, chat>>
shownVars == <<card, dispatched, status>>
execVars == <<exec, retiring, consult, carries, inputs, proc>>
askVars == <<ask, asker, last, kind>>
deliverVars == <<deliver, carry>>
daemonVars == <<agent, stop, closing, up>>
pastVars == <<answered, told, canceled, given>>
vars == <<inboxVars, humanVars, shownVars, execVars, askVars, answer, deliverVars, daemonVars,
          pastVars, budget>>

Handing == {"starting", "marked"}

TypeOK ==
  /\ entry \in [Msg -> {"none", "queued", "sent", "handled"}] /\ paused \in BOOLEAN
  /\ pending \in Req \cup {NoReq} /\ card \in Req \cup {NoReq}
  /\ decision \in Req \cup {NoReq} /\ done \in BOOLEAN /\ dispatched \in BOOLEAN
  /\ outcome \in [Req -> Answers \cup {"none"}] /\ chat \in [Req -> Answers \cup {"none"}]
  /\ status \in {"idle", "running", "waiting", "failed"}
  /\ exec \in {"none", "starting", "running", "stopping", "saving"}
  /\ retiring \in BOOLEAN /\ consult \in BOOLEAN
  /\ carries \in Req \cup {NoReq} /\ inputs \subseteq Msg
  /\ proc \in {"none", "plain", "elevated"}
  /\ ask \in {"idle", "lock", "persist", "close"} /\ asker \in {"pump", "cli"}
  /\ last \in 0 .. MaxReq /\ kind \in [Req -> {"tool", "question"}]
  /\ answer \in {"idle", "save", "hand", "clear"}
  /\ deliver \in {"idle", "claim"} \cup Handing /\ carry \subseteq Msg
  /\ deliver \in Handing <=> exec = "starting"
  /\ exec = "none" => ~retiring /\ ~consult /\ carries = NoReq /\ inputs = {}
  /\ agent \in Agents /\ stop \in {"idle", "lock"} /\ closing \in BOOLEAN /\ up \in BOOLEAN
  /\ answered \subseteq Req /\ told \subseteq Req /\ canceled \subseteq Req
  /\ given \subseteq Msg /\ budget \in [Kinds -> Nat]

Init ==
  /\ entry = [m \in Msg |-> "none"] /\ paused = FALSE
  /\ pending = NoReq /\ decision = NoReq /\ done = FALSE
  /\ outcome = [r \in Req |-> "none"] /\ chat = [r \in Req |-> "none"]
  /\ card = NoReq /\ dispatched = FALSE /\ status = "idle"
  /\ exec = "none" /\ retiring = FALSE /\ consult = FALSE /\ carries = NoReq
  /\ inputs = {} /\ proc = "none"
  /\ ask = "idle" /\ asker = "pump" /\ last = 0 /\ kind = [r \in Req |-> "tool"]
  /\ answer = "idle" /\ deliver = "idle" /\ carry = {}
  /\ stop = "idle" /\ closing = FALSE /\ up = TRUE
  /\ answered = {} /\ told = {} /\ canceled = {} /\ given = {}
  /\ \E setting \in Settings : agent = setting[1] /\ budget = setting[2]
-----------------------------------------------------------------------------
Spend(move) == budget[move] > 0 /\ budget' = [budget EXCEPT ![move] = @ - 1]

Set(entries, state) == [m \in Msg |-> IF m \in entries THEN state ELSE entry[m]]
In(state) == {m \in Msg : entry[m] = state}
InboxUsed == \E m \in Msg : entry[m] # "none"

(* An accepted decision that has not been carried out. *)
Open == decision # NoReq /\ ~done
Elevates(r) == r # NoReq /\ kind[r] = "tool" /\ outcome[r] = "allow"

(* Who holds interaction_lock. *)
Locked == answer # "idle" \/ ask \in {"persist", "close"} \/ deliver # "idle"

(* The status a turn leaves behind. *)
Rests == IF card # NoReq THEN "waiting" ELSE "idle"
Failed == IF card # NoReq THEN "waiting" ELSE "failed"

(* The execution is gone.  One that carried a decision and did not complete
   leaves it to the dispatcher. *)
GoneKeepsCarries ==
  exec' = "none" /\ retiring' = FALSE /\ consult' = FALSE /\ inputs' = {} /\ UNCHANGED carries
Gone == exec' = "none" /\ retiring' = FALSE /\ consult' = FALSE /\ carries' = NoReq /\ inputs' = {}
Releases == dispatched' = (dispatched /\ carries = NoReq)
(* finish_execution and settle_inputs of a failed turn. *)
FailedTurn ==
  /\ Gone /\ Releases /\ proc' = "none" /\ status' = Failed
  /\ paused' = (paused \/ (inputs # {} /\ ~closing) \/ carries # NoReq)

(* ensure_started_in_mode: a process that is there is taken as it is. *)
StartedFor(r) ==
  IF proc # "none" THEN proc ELSE IF Elevates(r) THEN "elevated" ELSE "plain"
-----------------------------------------------------------------------------
(* accept_input: a person's message lifts the pause; what a pause had left sent
   is retired. *)
Accept(m) ==
  /\ up /\ ~closing /\ entry[m] = "none"
  /\ entry' = [Set(IF paused THEN In("sent") ELSE {}, "handled") EXCEPT ![m] = "queued"]
  /\ paused' = FALSE
  /\ UNCHANGED <<humanVars, shownVars, execVars, askVars, answer, deliverVars, daemonVars,
                 pastVars, budget>>

(* A send without a message id is refused while the session is waiting.  A save that
   failed leaves it failed instead, the card still shown: the send then goes past
   the card.  It may also come between a decision and its delivery. *)
DirectSend ==
  /\ up /\ ~closing /\ exec \in {"none", "saving"} /\ status # "waiting"
  /\ Spend(IF card # NoReq THEN "over" ELSE IF Open THEN "between" ELSE "direct")
  /\ exec' = "running" /\ consult' = FALSE /\ carries' = NoReq /\ inputs' = {}
  /\ retiring' = FALSE /\ proc' = StartedFor(NoReq) /\ status' = "running"
  /\ UNCHANGED <<inboxVars, humanVars, card, dispatched, askVars, answer, deliverVars, daemonVars,
                 pastVars>>

(* pump_events: a turn's end behind a saved request is the pause's doing, unless
   it is a consultation's.  A consultation takes its process with it. *)
Paused == ~consult /\ pending # NoReq
TurnCompletesKeeps ==
  /\ up /\ exec = "running" /\ ~Paused /\ Gone
  /\ entry' = Set(inputs, "handled") /\ done' = (done \/ (carries # NoReq /\ carries = decision))
  /\ proc' = proc
  /\ status' = Rests
  /\ UNCHANGED <<paused, pending, decision, outcome, chat, card, dispatched, askVars, answer,
                 deliverVars, daemonVars, pastVars, budget>>
TurnCompletes ==
  /\ up /\ exec = "running" /\ ~Paused /\ Gone
  /\ entry' = Set(inputs, "handled") /\ done' = (done \/ (carries # NoReq /\ carries = decision))
  /\ proc' = IF consult THEN "none" ELSE proc
  /\ status' = Rests
  /\ UNCHANGED <<paused, pending, decision, outcome, chat, card, dispatched, askVars, answer,
                 deliverVars, daemonVars, pastVars, budget>>
(* One of the writes fails: the answer, the ledger or the decision. *)
TurnCompletesUnsaved ==
  /\ up /\ exec = "running" /\ ~Paused /\ Spend("saveFail") /\ exec' = "saving"
  /\ proc' = IF consult THEN "none" ELSE proc
  /\ \/ status' = "failed" /\ UNCHANGED entry
     \/ inputs # {} /\ UNCHANGED <<entry, status>>
     \/ carries # NoReq /\ entry' = Set(inputs, "handled") /\ UNCHANGED status
  /\ UNCHANGED <<paused, humanVars, card, dispatched, retiring, consult, carries, inputs, askVars,
                 answer, deliverVars, daemonVars, pastVars>>
TurnFails ==
  /\ up /\ exec = "running" /\ ~Paused /\ Spend("fail") /\ FailedTurn
  /\ UNCHANGED <<entry, humanVars, card, askVars, answer, deliverVars, daemonVars, pastVars>>
TurnEndsPaused ==
  /\ up /\ exec = "running" /\ Paused
  /\ Gone /\ Releases /\ proc' = "none" /\ status' = Rests
  /\ UNCHANGED <<inboxVars, humanVars, card, askVars, answer, deliverVars, daemonVars, pastVars,
                 budget>>
-----------------------------------------------------------------------------
(* The agent raises a request: an event the pump holds the turn for, while it
   waits for interaction_lock, or a question submitted through the CLI. *)
Raises(move) ==
  /\ up /\ last < MaxReq /\ last' = last + 1
  /\ IF answer = "save" \/ (Open /\ carries # decision) THEN Spend("late") ELSE Spend(move)
AskRaise ==
  /\ exec \in {"running", "stopping"} /\ ask = "idle" /\ proc # "none" /\ Raises("ask")
  /\ ask' = "lock" /\ asker' = "pump" /\ exec' = "stopping"
  /\ \E k \in {"tool", "question"} : kind' = [kind EXCEPT ![last'] = k]
  /\ UNCHANGED <<inboxVars, humanVars, shownVars, retiring, consult, carries, inputs, proc, answer,
                 deliverVars, daemonVars, pastVars>>
AskEnters ==
  /\ up /\ ask = "lock" /\ ~Locked /\ ask' = "persist"
  /\ UNCHANGED <<inboxVars, humanVars, shownVars, execVars, asker, last, kind, answer, deliverVars,
                 daemonVars, pastVars, budget>>
(* request_question, holding the lock: a pump that waits for it is retired, and its
   event with it. *)
AskSubmit ==
  /\ exec \in {"running", "stopping", "saving"} /\ card = NoReq /\ ~Locked /\ Raises("cli")
  /\ ask' = "persist" /\ asker' = "cli" /\ kind' = [kind EXCEPT ![last'] = "question"]
  /\ UNCHANGED <<inboxVars, humanVars, shownVars, execVars, answer, deliverVars, daemonVars,
                 pastVars>>
(* stop_agent_for_interaction: the request replaces the decision that led here,
   on disk, before the agent is stopped. *)
AskPersist ==
  /\ up /\ ask = "persist" /\ pending = NoReq
  /\ pending' = last /\ decision' = NoReq /\ done' = FALSE /\ ask' = "close"
  /\ status' = "waiting" /\ exec' = IF exec = "none" THEN exec ELSE "stopping"
  /\ UNCHANGED <<inboxVars, outcome, chat, card, dispatched, retiring, consult, carries, inputs,
                 proc, asker, last, kind, answer, deliverVars, daemonVars, pastVars, budget>>
(* The card is shown once the agent is gone, and the turn is over. *)
AskExpose ==
  /\ up /\ ask = "close" /\ ask' = "idle"
  /\ card' = pending /\ status' = "waiting" /\ proc' = "none" /\ Gone /\ Releases
  /\ UNCHANGED <<inboxVars, humanVars, asker, last, kind, answer, deliverVars, daemonVars, pastVars,
                 budget>>
AskExposeUnsaved ==
  /\ up /\ ask = "close" /\ Spend("saveFail") /\ ask' = "idle"
  /\ card' = pending /\ status' = "failed" /\ proc' = "none" /\ retiring' = FALSE
  /\ exec' = IF exec = "none" THEN exec ELSE "saving"
  /\ UNCHANGED <<inboxVars, humanVars, dispatched, consult, carries, inputs, asker, last, kind,
                 answer, deliverVars, daemonVars, pastVars>>
(* fail_human_pause: another request is pending, or this one cannot be saved. *)
AskFails ==
  /\ up /\ ask = "persist" /\ ask' = "idle" /\ FailedTurn
  /\ IF pending # NoReq THEN UNCHANGED budget ELSE Spend("saveFail")
  /\ UNCHANGED <<entry, humanVars, card, asker, last, kind, answer, deliverVars, daemonVars,
                 pastVars>>
-----------------------------------------------------------------------------
(* respond_permission, holding the lock: the answer is in the chat first. *)
AnswerRecord ==
  /\ up /\ card # NoReq /\ ~Locked
  /\ \E a \in Answers :
       /\ IF ask = "lock" THEN Spend("late") /\ chat[card] \in {"none", a}
          ELSE IF chat[card] \in {"none", a} THEN UNCHANGED budget ELSE Spend("change")
       /\ outcome' = [outcome EXCEPT ![card] = a]
       /\ chat' = IF chat[card] = "none" THEN [chat EXCEPT ![card] = a] ELSE chat
       /\ answer' = IF kind[card] = "question" \/ InboxUsed THEN "save"
                    ELSE IF a = "allow" THEN "hand" ELSE "clear"
  /\ UNCHANGED <<inboxVars, pending, decision, done, shownVars, execVars, askVars, deliverVars,
                 daemonVars, pastVars>>
(* ... then one save makes it the decision and withdraws the request.  With no
   continuation, what was sent before is settled. *)
AnswerSave ==
  /\ up /\ answer = "save" /\ answer' = "idle"
  /\ entry' = IF outcome[card] = "deny" THEN Set(In("sent"), "handled") ELSE entry
  /\ decision' = card /\ done' = FALSE /\ pending' = NoReq
  /\ dispatched' = FALSE /\ card' = NoReq /\ answered' = answered \cup {card}
  /\ status' = IF exec = "none" THEN "waiting" ELSE IF status = "waiting" THEN "idle" ELSE status
  /\ UNCHANGED <<paused, outcome, chat, execVars, askVars, deliverVars, daemonVars, told, canceled,
                 given, budget>>
AnswerFails ==
  /\ up /\ answer = "save" /\ Spend("saveFail") /\ answer' = "idle"
  /\ UNCHANGED <<inboxVars, humanVars, shownVars, execVars, askVars, deliverVars, daemonVars,
                 pastVars>>
(* A permission of a session without an inbox is continued on the spot. *)
AnswerHands ==
  /\ up /\ answer = "hand" /\ ~closing /\ exec \in {"none", "saving"} /\ answer' = "clear"
  /\ exec' = "running" /\ consult' = FALSE /\ carries' = NoReq /\ inputs' = {}
  /\ retiring' = FALSE /\ proc' = StartedFor(card) /\ status' = "running"
  /\ told' = told \cup {card}
  /\ UNCHANGED <<inboxVars, humanVars, card, dispatched, askVars, deliverVars, daemonVars, answered,
                 canceled, given, budget>>
AnswerHandFails ==
  /\ up /\ answer = "hand" /\ answer' = "idle"
  /\ IF closing \/ exec \notin {"none", "saving"}
     THEN UNCHANGED <<execVars, status, budget>>
     ELSE Spend("handFail") /\ Gone /\ proc' = "none" /\ status' = Failed
  /\ UNCHANGED <<inboxVars, humanVars, card, dispatched, askVars, deliverVars, daemonVars,
                 pastVars>>
AnswerClears ==
  /\ up /\ answer = "clear" /\ answer' = "idle"
  /\ card' = NoReq /\ pending' = NoReq /\ answered' = answered \cup {card}
  /\ status' = IF status = "waiting" THEN "idle" ELSE status
  /\ UNCHANGED <<inboxVars, decision, done, outcome, chat, dispatched, execVars, askVars,
                 deliverVars, daemonVars, told, canceled, given, budget>>
(* The same answer again retries a continuation that failed. *)
AnswerAgain ==
  /\ up /\ ~Locked /\ Open /\ status = "failed"
  /\ paused' = FALSE /\ dispatched' = FALSE /\ status' = "waiting"
  /\ UNCHANGED <<entry, humanVars, card, execVars, askVars, answer, deliverVars, daemonVars,
                 pastVars, budget>>
-----------------------------------------------------------------------------
(* dispatch_deliveries *)
Eligible == up /\ ~closing /\ deliver = "idle" /\ ~paused
Dispatchable == In("queued") \cup (IF pending = NoReq THEN In("sent") ELSE {})

(* steer_inputs: not into a consultation, nor past a decision or a request. *)
Steerable == exec = "running" /\ ~consult /\ card = NoReq /\ pending = NoReq /\ ~Open
DeliverSteers ==
  /\ Eligible /\ agent = "steers" /\ In("queued") # {} /\ Steerable
  /\ entry' = Set(In("queued"), "sent") /\ inputs' = inputs \cup In("queued")
  /\ given' = given \cup In("queued")
  /\ UNCHANGED <<paused, humanVars, shownVars, exec, retiring, consult, carries, proc, askVars,
                 answer, deliverVars, daemonVars, answered, told, canceled, budget>>
(* Otherwise what runs is interrupted for the message, and a consultation for the
   answer it was not told, if the agent can be interrupted and go on later. *)
DeliverInterruptsTyped ==
  /\ Eligible /\ agent # "bare" /\ Dispatchable # {} /\ exec = "running"
  /\ In("queued") # {}
  /\ IF Steerable /\ agent = "steers" THEN Spend("refuse") ELSE UNCHANGED budget
  /\ exec' = "stopping" /\ retiring' = TRUE
  /\ UNCHANGED <<inboxVars, humanVars, shownVars, consult, carries, inputs, proc, askVars, answer,
                 deliverVars, daemonVars, pastVars>>
DeliverInterrupts ==
  /\ Eligible /\ agent # "bare" /\ Dispatchable # {} /\ exec = "running"
  /\ In("queued") # {} \/ (consult /\ Open)
  /\ IF Steerable /\ agent = "steers" THEN Spend("refuse") ELSE UNCHANGED budget
  /\ exec' = "stopping" /\ retiring' = TRUE
  /\ UNCHANGED <<inboxVars, humanVars, shownVars, consult, carries, inputs, proc, askVars, answer,
                 deliverVars, daemonVars, pastVars>>

(* prepare_human_delivery: a decision without a continuation is carried out by
   recording it. *)
Prepares == done' = (done \/ (Open /\ outcome[decision] = "deny"))
IdleIfPrepared == status' = IF Open /\ outcome[decision] = "deny" THEN "idle" ELSE status
(* deliver_inputs: the batch takes the accepted decision with it. *)
DeliverCollects ==
  /\ Eligible /\ ~Locked /\ exec = "none" /\ Dispatchable # {}
  /\ Prepares /\ IdleIfPrepared /\ deliver' = "claim" /\ carry' = Dispatchable
  /\ UNCHANGED <<inboxVars, pending, decision, outcome, chat, card, dispatched, execVars, askVars,
                 answer, daemonVars, pastVars, budget>>
(* deliver_human_continuation: nothing waits in the inbox. *)
DeliverDecides ==
  /\ Eligible /\ ~Locked /\ exec = "none" /\ Dispatchable = {} /\ Open /\ ~dispatched
  /\ In("queued") \cup In("sent") = {} /\ dispatched' = TRUE /\ carry' = {}
  /\ Prepares /\ IdleIfPrepared /\ deliver' = IF done' THEN "idle" ELSE "claim"
  /\ UNCHANGED <<inboxVars, pending, decision, outcome, chat, card, execVars, askVars, answer,
                 daemonVars, pastVars, budget>>
(* The grant cannot be recorded, or what an earlier turn left cannot be saved:
   the inbox is paused, or the decision is left for a retry. *)
DeliverGives == deliver' = "idle" /\ carry' = {}
Errs == DeliverGives /\ IF carry = {} THEN status' = "failed" /\ UNCHANGED paused
                        ELSE paused' = TRUE /\ UNCHANGED status
DeliverFails ==
  /\ up /\ deliver = "claim" /\ Errs
  /\ IF closing \/ exec \notin {"none", "saving"} THEN UNCHANGED budget ELSE Spend("saveFail")
  /\ UNCHANGED <<entry, humanVars, card, dispatched, execVars, askVars, answer, daemonVars,
                 pastVars>>
(* send_prepared and continue_after_human_response *)
DeliverClaimsPlain ==
  /\ up /\ deliver = "claim" /\ ~closing /\ exec \in {"none", "saving"}
  /\ deliver' = "starting" /\ exec' = "starting" /\ status' = "running" /\ retiring' = FALSE
  /\ consult' = FALSE /\ inputs' = carry /\ carries' = IF Open THEN decision ELSE NoReq
  /\ UNCHANGED <<inboxVars, humanVars, card, dispatched, proc, askVars, answer, carry, daemonVars,
                 pastVars, budget>>
DeliverClaims ==
  /\ up /\ deliver = "claim" /\ ~closing /\ exec \in {"none", "saving"}
  /\ deliver' = "starting" /\ exec' = "starting" /\ status' = "running" /\ retiring' = FALSE
  /\ consult' = (card # NoReq) /\ inputs' = carry /\ carries' = IF Open THEN decision ELSE NoReq
  /\ UNCHANGED <<inboxVars, humanVars, card, dispatched, proc, askVars, answer, carry, daemonVars,
                 pastVars, budget>>
(* start_turn: the agent is started, the entries are marked. *)
HandStarts ==
  /\ up /\ deliver = "starting" /\ deliver' = "marked"
  /\ proc' = StartedFor(carries) /\ entry' = Set(carry, "sent")
  /\ UNCHANGED <<paused, humanVars, shownVars, exec, retiring, consult, carries, inputs, askVars,
                 answer, carry, daemonVars, pastVars, budget>>
HandBinds ==
  /\ up /\ deliver = "marked" /\ (paused => carry = {}) /\ DeliverGives /\ exec' = "running"
  /\ told' = told \cup ({carries} \ {NoReq}) /\ given' = given \cup carry
  /\ UNCHANGED <<inboxVars, humanVars, shownVars, retiring, consult, carries, inputs, proc, askVars,
                 answer, daemonVars, answered, canceled, budget>>
(* It fails, is called off because the inbox was paused, or is cancelled by a
   shutdown; the agent is closed. *)
HandFailsCompleted ==
  /\ up /\ deliver \in Handing /\ DeliverGives
  /\ IF (deliver = "marked" /\ paused /\ carry # {}) \/ closing THEN UNCHANGED budget
     ELSE Spend("handFail")
  /\ Gone /\ Releases /\ proc' = "none"
  /\ status' = IF carry = {} THEN "failed" ELSE Failed
  /\ paused' = TRUE \/ (closing /\ carries = NoReq /\ UNCHANGED paused)
  /\ given' = IF deliver = "marked" THEN given \cup carry ELSE given
  /\ done' = (done \/ carries # NoReq)
  /\ UNCHANGED <<entry, pending, decision, outcome, chat, card, askVars, answer, daemonVars,
                 answered, told, canceled>>
HandFails ==
  /\ up /\ deliver \in Handing /\ DeliverGives
  /\ IF (deliver = "marked" /\ paused /\ carry # {}) \/ closing THEN UNCHANGED budget
     ELSE Spend("handFail")
  /\ Gone /\ Releases /\ proc' = "none"
  /\ status' = IF carry = {} THEN "failed" ELSE Failed
  /\ paused' = TRUE \/ (closing /\ carries = NoReq /\ UNCHANGED paused)
  /\ given' = IF deliver = "marked" THEN given \cup carry ELSE given
  /\ UNCHANGED <<entry, humanVars, card, askVars, answer, daemonVars, answered, told, canceled>>
-----------------------------------------------------------------------------
(* interrupt: paused at once, the rest holding the lock. *)
StopRequest ==
  /\ up /\ stop = "idle" /\ Spend("stop") /\ paused' = TRUE /\ stop' = "lock"
  /\ UNCHANGED <<entry, humanVars, shownVars, execVars, askVars, answer, deliverVars, agent,
                 closing, up, pastVars>>
(* cancel_human_continuation: without an inbox a stop withdraws the interaction. *)
StopWithdraws == ~InboxUsed /\ (pending # NoReq \/ Open)
Withdraw ==
  IF StopWithdraws
  THEN /\ canceled' = canceled \cup ({pending, decision} \ {NoReq})
       /\ pending' = NoReq /\ card' = NoReq /\ dispatched' = TRUE
       /\ done' = (decision # NoReq)
       /\ status' = IF exec = "none" \/ status = "waiting" THEN "idle" ELSE status
  ELSE UNCHANGED <<canceled, pending, done, card, dispatched, status>>
StopEnter ==
  /\ up /\ stop = "lock" /\ ~Locked /\ stop' = "idle" /\ Withdraw
  /\ IF exec \in {"running", "saving"} THEN exec' = "stopping" /\ retiring' = TRUE
     ELSE UNCHANGED <<exec, retiring>>
  /\ UNCHANGED <<inboxVars, decision, outcome, chat, consult, carries, inputs, proc, askVars,
                 answer, deliverVars, agent, closing, up, answered, told, given, budget>>
(* retire_execution joins the pump: a request that waits for the lock is dropped,
   one that is being carried out is waited for. *)
StopCommits ==
  /\ up /\ exec = "stopping" /\ retiring
  /\ ask \in {"idle", "lock"} \/ (asker = "cli" /\ ask = "persist")
  /\ ask' = IF ask = "lock" THEN "idle" ELSE ask
  /\ Gone /\ Releases /\ proc' = "none" /\ status' = Rests
  /\ UNCHANGED <<inboxVars, humanVars, card, asker, last, kind, answer, deliverVars, daemonVars,
                 pastVars, budget>>

(* The daemon exits, dies and starts again. *)
Exit ==
  /\ up /\ ~closing /\ Spend("exit") /\ closing' = TRUE
  /\ UNCHANGED <<inboxVars, humanVars, shownVars, execVars, askVars, answer, deliverVars, agent,
                 stop, up, pastVars>>
Forgets ==
  /\ up' = FALSE /\ closing' = FALSE /\ stop' = "idle" /\ ask' = "idle" /\ answer' = "idle"
  /\ DeliverGives /\ Gone /\ proc' = "none" /\ card' = NoReq /\ dispatched' = FALSE
  /\ status' = "idle"
Down ==
  /\ up /\ closing /\ deliver \notin Handing /\ ask \notin {"persist", "close"} /\ Forgets
  /\ UNCHANGED <<inboxVars, humanVars, asker, last, kind, agent, pastVars, budget>>
(* The turn may have completed and its messages been settled, its decision not. *)
Die ==
  /\ up /\ Spend("die") /\ Forgets
  /\ entry' \in {entry, IF exec = "running" THEN Set(inputs, "handled") ELSE entry}
  /\ UNCHANGED <<paused, humanVars, asker, last, kind, agent, pastVars>>
(* Live::new and recover_deliveries *)
BootWithoutCard ==
  /\ ~up /\ up' = TRUE /\ card' = NoReq
  /\ status' = IF pending # NoReq \/ Open THEN "waiting" ELSE "idle"
  /\ UNCHANGED <<inboxVars, humanVars, dispatched, execVars, askVars, answer, deliverVars, agent,
                 stop, closing, pastVars, budget>>
Boot ==
  /\ ~up /\ up' = TRUE /\ card' = pending
  /\ status' = IF pending # NoReq \/ Open THEN "waiting" ELSE "idle"
  /\ UNCHANGED <<inboxVars, humanVars, dispatched, execVars, askVars, answer, deliverVars, agent,
                 stop, closing, pastVars, budget>>
-----------------------------------------------------------------------------
Turns ==
  \/ TurnCompletes \/ TurnCompletesUnsaved \/ TurnFails \/ TurnEndsPaused \/ AskRaise \/ AskSubmit
People == AnswerRecord \/ AnswerAgain \/ StopRequest \/ DirectSend \/ \E m \in Msg : Accept(m)
Asking == AskEnters \/ AskPersist \/ AskExpose
Answering == AnswerSave \/ AnswerHands \/ AnswerClears
Delivery ==
  \/ DeliverSteers \/ DeliverInterrupts \/ DeliverCollects \/ DeliverDecides \/ DeliverClaims
  \/ HandStarts \/ HandBinds \/ HandFails \/ DeliverFails
Stopping == StopEnter \/ StopCommits
Failures == AskExposeUnsaved \/ AskFails \/ AnswerFails \/ AnswerHandFails
Daemon == Exit \/ Down \/ Die \/ Boot

(* Nothing is on its way: what comes next is somebody's move. *)
AtRest == up /\ ~Locked /\ ask = "idle" /\ stop = "idle" /\ exec \in {"none", "saving"}
Rest == AtRest /\ UNCHANGED vars
Next == \/ Turns \/ People \/ Asking \/ Answering \/ Delivery \/ Stopping \/ Failures \/ Daemon
        \/ Rest
Spec == Init /\ [][Next]_vars

(* The daemon's own tasks go on: the dispatcher ticks, a request that has the lock
   is carried out, an answer being saved is saved or fails, a stop is entered and
   carried out, a daemon that is down is started.  No turn has to end and nobody
   has to answer. *)
Fairness ==
  /\ WF_vars(Delivery) /\ WF_vars(Asking \/ AskFails) /\ WF_vars(Answering \/ AnswerHandFails)
  /\ WF_vars(Stopping) /\ WF_vars(Boot)
FairSpec == Spec /\ Fairness
-----------------------------------------------------------------------------
(* An answer that was acknowledged is in the chat as it was given, and lives on as
   the open decision until an agent was told, unless there was nothing to tell or
   the user took it back: no second request, failed turn, stop, crash or restart
   loses it. *)
AnswerIsKept ==
  \A r \in answered :
    /\ chat[r] = outcome[r]
    /\ outcome[r] = "deny" \/ r \in told \/ r \in canceled \/ (decision = r /\ ~done)

(* What the metadata says is pending is what the clients are shown, after a
   restart too, except while the agent is still being stopped. *)
PendingIsShown == up => card = pending \/ ask = "close"

(* While a card waits for its answer no agent works, except on a consultation,
   which cannot take the answer's place; and what the agent was given before it
   asked is not handed over again. *)
CardStopsWork ==
  /\ card # NoReq /\ exec \in {"starting", "running"}
       => (consult /\ carries = NoReq) \/ answer = "clear"
  /\ pending # NoReq /\ deliver # "idle" => carry \cap given = {}

(* A granted permission is carried out by a process started with it, and no other
   answer starts one. *)
GrantIsApplied ==
  /\ exec = "running" /\ Elevates(carries) => proc = "elevated"
  /\ proc = "elevated" => \E r \in told \cup {carries} : Elevates(r)

(* An accepted decision that has a continuation reaches an agent, or there is a
   visible reason: the session is paused or failed, it cannot save, the daemon is
   going down, or a consultation is running that its agent cannot be taken off. *)
DecisionIsTold ==
  \A r \in Req :
    (up /\ decision = r /\ ~done /\ outcome[r] = "allow")
      ~> (r \in told \/ decision # r \/ done \/ paused \/ status = "failed" \/ exec = "saving"
          \/ closing \/ ~up \/ (consult /\ exec = "running" /\ agent = "bare"))

(* A continuation that failed, with nothing in the inbox, is tried again by the
   restart its user is told to make. *)
RestartRetriesDecision ==
  \A r \in Req :
    []((Open /\ decision = r /\ status = "failed" /\ In("queued") \cup In("sent") = {} /\ <>(~up))
         => <>(r \in told \/ decision # r \/ done \/ closing))
=============================================================================

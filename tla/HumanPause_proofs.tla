------------------------- MODULE HumanPause_proofs -------------------------
(***************************************************************************)
(* Proofs about HumanPause, for any messages, any number of requests and   *)
(* any budgets: what an answer, a card and a grant promise.                *)
(***************************************************************************)
EXTENDS HumanPause, TLAPS

(* The moves that each break one property (see Raises, AnswerRecord and DirectSend)
   do not happen. *)
NoneLate == [][budget'["late"] = budget["late"] /\ budget'["change"] = budget["change"]]_vars
NoneOver == [][budget'["over"] = budget["over"]]_vars
NoneBetween == [][budget'["between"] = budget["between"]]_vars
(* Every save succeeds. *)
NoneUnsaved == [][budget'["saveFail"] = budget["saveFail"]]_vars

(* interaction_lock: an answer, a request being carried out and a delivery exclude one
   another, and an answer is an answer to a card. *)
Apart ==
  /\ answer # "idle" => ask \notin {"persist", "close"} /\ deliver = "idle" /\ card # NoReq
  /\ deliver # "idle" => ask \notin {"persist", "close"}
(* A daemon that is down has nothing in memory. *)
Off == ~up => /\ ask = "idle" /\ answer = "idle" /\ deliver = "idle" /\ exec = "none"
              /\ proc = "none" /\ card = NoReq
(* Requests are numbered as they are raised, and one on its way is nowhere yet. *)
Numbered ==
  /\ {pending, card, decision, carries} \cup told \cup answered \subseteq 0 .. last
  /\ ask # "idle" => last > 0
  /\ ask \in {"lock", "persist"} => last \notin {pending, card} \cup answered
(* What is pending has no answer yet, and replaced the decision before it. *)
Asked ==
  /\ pending # NoReq => decision = NoReq
  /\ pending \notin answered
  /\ {decision, carries} \subseteq answered \cup {NoReq}
  /\ ask = "close" => card = NoReq
(* A turn beyond its start has told its decision. *)
Heard == exec \notin {"none", "starting"} => carries \in told \cup {NoReq}
(* The turn being handed over carries the decision, unless it is a consultation. *)
Handed ==
  deliver \in Handing => /\ carries = (IF Open THEN decision ELSE NoReq)
                         /\ consult => pending # NoReq
(* What an agent was given is no longer queued. *)
Marked ==
  /\ \A m \in given : entry[m] \in {"sent", "handled"}
  /\ deliver = "marked" => \A m \in carry : entry[m] \in {"sent", "handled"}
  /\ pending # NoReq /\ deliver # "idle" => carry \cap given = {}
TInv == TypeOK /\ Apart /\ Off /\ Numbered
Base == TInv /\ PendingIsShown /\ Asked /\ Heard /\ Handed /\ Marked

(* The chat shows each answer as it was decided. *)
Recorded == chat = outcome
(* An answer that is being cleared has been told, or has no continuation. *)
Cleared == answer = "clear" => outcome[card] = "deny" \/ card \in told
(* A request on its way replaces no decision its agent has not heard of. *)
Replaced == ask \in {"lock", "persist"} => answer # "save" /\ (Open => decision \in told)
Keeps == Recorded /\ Cleared /\ Replaced /\ AnswerIsKept

(* Behind a card works nothing but a consultation. *)
Stopped ==
  card # NoReq /\ exec \in {"starting", "running"} =>
    (consult /\ carries = NoReq) \/ answer = "clear"
(* A card says it waits whenever a turn could begin without an answer. *)
Guarded == card # NoReq /\ exec \in {"none", "saving"} => status = "waiting"
(* A delivery without entries carries the open decision, and nothing is claimed for
   one that has not begun. *)
Alone == /\ deliver # "idle" /\ carry = {} => Open
         /\ deliver = "claim" => carries = NoReq
Cards == Stopped /\ Guarded /\ Alone
(* Behind a card there is a consultation's process, or one that is being stopped. *)
Quiet ==
  card # NoReq /\ answer # "clear" =>
    proc # "elevated" /\ (exec \in {"none", "saving"} => proc = "none")
(* A process that is there while a grant waits ends before the grant is told. *)
Prepared ==
  Open /\ Elevates(decision) /\ proc = "plain" =>
    (consult /\ exec = "running") \/ exec = "stopping"
Ready == deliver = "marked" /\ Elevates(carries) => proc = "elevated"
(* The two halves of GrantIsApplied. *)
Granted == exec = "running" /\ Elevates(carries) => proc = "elevated"
Warranted == proc = "elevated" => \E r \in told \cup {carries} : Elevates(r)
Grants == Stopped /\ Quiet /\ Prepared /\ Ready /\ Granted /\ Warranted
-----------------------------------------------------------------------------
LEMMA Spent ==
  ASSUME budget \in [Kinds -> Nat], NEW move \in Kinds, Spend(move)
  PROVE  budget' \in [Kinds -> Nat] /\ budget'[move] # budget[move]
  BY DEF Spend

LEMMA Spending == \A move : Spend(move) <=>
    budget[move] > 0 /\ budget' = [budget EXCEPT ![move] = budget[move] - 1]
  BY DEF Spend

LEMMA SetType ==
  ASSUME entry \in [Msg -> {"none", "queued", "sent", "handled"}], NEW entries,
         NEW state \in {"none", "queued", "sent", "handled"}
  PROVE  /\ Set(entries, state) \in [Msg -> {"none", "queued", "sent", "handled"}]
         /\ \A m \in Msg : Set(entries, state)[m] = IF m \in entries THEN state ELSE entry[m]
  BY DEF Set

(* TypeOK in parts. *)
Messages ==
  /\ entry \in [Msg -> {"none", "queued", "sent", "handled"}]
  /\ inputs \subseteq Msg /\ carry \subseteq Msg /\ given \subseteq Msg
Requests ==
  /\ pending \in Req \cup {NoReq} /\ card \in Req \cup {NoReq}
  /\ decision \in Req \cup {NoReq} /\ carries \in Req \cup {NoReq}
  /\ answered \subseteq Req /\ told \subseteq Req /\ canceled \subseteq Req
Decisions ==
  /\ outcome \in [Req -> Answers \cup {"none"}] /\ chat \in [Req -> Answers \cup {"none"}]
  /\ last \in 0 .. MaxReq /\ kind \in [Req -> {"tool", "question"}]
Phases ==
  /\ exec \in {"none", "starting", "running", "stopping", "saving"}
  /\ ask \in {"idle", "lock", "persist", "close"} /\ asker \in {"pump", "cli"}
  /\ deliver \in {"idle", "claim"} \cup Handing
  /\ deliver \in Handing <=> exec = "starting"
  /\ exec = "none" => ~retiring /\ ~consult /\ carries = NoReq /\ inputs = {}
Flags ==
  /\ done \in BOOLEAN /\ dispatched \in BOOLEAN /\ paused \in BOOLEAN
  /\ status \in {"idle", "running", "waiting", "failed"}
  /\ retiring \in BOOLEAN /\ consult \in BOOLEAN
  /\ proc \in {"none", "plain", "elevated"}
  /\ answer \in {"idle", "save", "hand", "clear"}
  /\ stop \in {"idle", "lock"} /\ closing \in BOOLEAN /\ up \in BOOLEAN

LEMMA Parts ==
  TypeOK <=> /\ Messages /\ Requests /\ Decisions /\ Phases /\ Flags
             /\ agent \in Agents /\ budget \in [Kinds -> Nat]
  BY Zenon DEF TypeOK, Messages, Requests, Decisions, Phases, Flags

-----------------------------------------------------------------------------
(* One case per action. *)
LEMMA Cases ==
  [Next]_vars =>
    \/ (\E m \in Msg : Accept(m)) \/ DirectSend \/ TurnCompletes \/ TurnCompletesUnsaved
    \/ TurnFails \/ TurnEndsPaused \/ AskRaise \/ AskSubmit \/ AskEnters \/ AskPersist
    \/ AskExpose \/ AskExposeUnsaved \/ AskFails \/ AnswerRecord \/ AnswerSave \/ AnswerFails
    \/ AnswerHands \/ AnswerHandFails \/ AnswerClears \/ AnswerAgain \/ DeliverSteers
    \/ DeliverInterrupts \/ DeliverCollects \/ DeliverDecides \/ DeliverFails \/ DeliverClaims
    \/ HandStarts \/ HandBinds \/ HandFails \/ StopRequest \/ StopEnter \/ StopCommits \/ Exit
    \/ Down \/ Die \/ Boot \/ UNCHANGED vars
  BY DEF Next, Turns, People, Asking, Answering, Delivery, Stopping, Failures, Daemon, Rest

(* Each part of the types through each action. *)
LEMMA MessagesStep ==
  ASSUME Messages, Requests, Decisions, Phases, Flags, Apart, Off, Numbered, [Next]_vars
  PROVE  Messages'
  <1> USE SetType DEF Messages, In, Dispatchable, inboxVars, humanVars, shownVars, execVars,
          askVars, deliverVars, daemonVars, pastVars
  <1>1. CASE \E m \in Msg : Accept(m)
    BY <1>1 DEF Accept
  <1>2. CASE DirectSend \/ TurnCompletes \/ TurnCompletesUnsaved \/ TurnFails \/ TurnEndsPaused
    BY <1>2 DEF DirectSend, StartedFor, TurnCompletes, Paused, Gone, Rests,
         TurnCompletesUnsaved, TurnFails, FailedTurn, Releases, Failed, TurnEndsPaused
  <1>3. CASE AskRaise \/ AskSubmit \/ AskEnters \/ AskPersist \/ AskExpose
    BY <1>3 DEF AskRaise, Raises, Open, AskSubmit, Locked, AskEnters, AskPersist, AskExpose,
         Gone, Releases
  <1>4. CASE AskExposeUnsaved \/ AskFails \/ AnswerRecord \/ AnswerSave \/ AnswerFails
    BY <1>4 DEF AskExposeUnsaved, AskFails, FailedTurn, Gone, Releases, Failed, AnswerRecord,
         Locked, Answers, AnswerSave, AnswerFails
  <1>5. CASE AnswerHands \/ AnswerHandFails \/ AnswerClears \/ AnswerAgain \/ DeliverSteers
    BY <1>5 DEF AnswerHands, StartedFor, Elevates, AnswerHandFails, Gone, Failed, AnswerClears,
         AnswerAgain, Locked, Open, DeliverSteers, Eligible, Steerable
  <1>6. CASE \/ DeliverInterrupts \/ DeliverCollects
             \/ DeliverDecides \/ DeliverFails \/ DeliverClaims
    BY <1>6 DEF DeliverInterrupts, Eligible, DeliverCollects, Locked, Prepares, Open,
         IdleIfPrepared, DeliverDecides, DeliverFails, Errs, DeliverGives, DeliverClaims
  <1>7. CASE HandStarts \/ HandBinds \/ HandFails \/ StopRequest \/ StopEnter
    BY <1>7 DEF HandStarts, StartedFor, HandBinds, DeliverGives, HandFails, Gone, Releases,
         Failed, StopRequest, StopEnter, Locked, Withdraw, StopWithdraws, Open
  <1>8. CASE StopCommits \/ Exit \/ Down \/ Die \/ Boot
    BY <1>8 DEF StopCommits, Gone, Releases, Rests, Exit, Down, Forgets, DeliverGives, Die, Boot
  <1>9. CASE UNCHANGED vars
    BY <1>9 DEF vars
  <1> QED BY Cases, <1>1, <1>2, <1>3, <1>4, <1>5, <1>6, <1>7, <1>8, <1>9

LEMMA RequestsStep ==
  ASSUME Messages, Requests, Decisions, Phases, Flags, Apart, Off, Numbered, [Next]_vars
  PROVE  Requests'
  <1> USE DEF Requests, Apart, NoReq, inboxVars, humanVars, shownVars, execVars, askVars,
          deliverVars, daemonVars, pastVars
  <1>1. CASE \E m \in Msg : Accept(m)
    BY <1>1 DEF Accept
  <1>2. CASE DirectSend \/ TurnCompletes \/ TurnCompletesUnsaved \/ TurnFails \/ TurnEndsPaused
    BY <1>2 DEF DirectSend, StartedFor, TurnCompletes, Paused, Gone, Rests,
         TurnCompletesUnsaved, TurnFails, FailedTurn, Releases, Failed, TurnEndsPaused
  <1>3. CASE AskRaise \/ AskSubmit \/ AskEnters
    BY <1>3 DEF AskRaise, Raises, Open, AskSubmit, Locked, AskEnters
  <1>4. CASE AskPersist
    <2>1. last \in Req
      BY <1>4, PauseAssumption DEF AskPersist, Numbered, Decisions, Req
    <2> QED BY <1>4, <2>1 DEF AskPersist
  <1>5. CASE AskExpose \/ AskExposeUnsaved \/ AskFails \/ AnswerRecord \/ AnswerSave
    BY <1>5 DEF AskExpose, Gone, Releases, AskExposeUnsaved, AskFails, FailedTurn, Failed,
         AnswerRecord, Locked, Answers, AnswerSave
  <1>6. CASE AnswerFails \/ AnswerHands \/ AnswerHandFails \/ AnswerClears \/ AnswerAgain
    BY <1>6 DEF AnswerFails, AnswerHands, StartedFor, Elevates, AnswerHandFails, Gone, Failed,
         AnswerClears, AnswerAgain, Locked, Open
  <1>7. CASE \/ DeliverSteers \/ DeliverInterrupts
             \/ DeliverCollects \/ DeliverDecides \/ DeliverFails
    BY <1>7 DEF DeliverSteers, Eligible, Steerable, Open, DeliverInterrupts, DeliverCollects,
         Locked, Prepares, IdleIfPrepared, DeliverDecides, DeliverFails, Errs, DeliverGives
  <1>8. CASE DeliverClaims \/ HandStarts \/ HandBinds \/ HandFails \/ StopRequest
    BY <1>8 DEF DeliverClaims, Open, HandStarts, StartedFor, HandBinds, DeliverGives, HandFails,
         Gone, Releases, Failed, StopRequest
  <1>9. CASE StopEnter \/ StopCommits \/ Exit \/ Down \/ Die
    BY <1>9 DEF StopEnter, Locked, Withdraw, StopWithdraws, Open, StopCommits, Gone, Releases,
         Rests, Exit, Down, Forgets, DeliverGives, Die
  <1>10. CASE Boot \/ UNCHANGED vars
    BY <1>10 DEF Boot, vars
  <1> QED BY Cases, <1>1, <1>2, <1>3, <1>4, <1>5, <1>6, <1>7, <1>8, <1>9, <1>10

LEMMA DecisionsStep ==
  ASSUME Messages, Requests, Decisions, Phases, Flags, Apart, Off, Numbered, [Next]_vars
  PROVE  Decisions'
  <1> USE PauseAssumption DEF Decisions, Requests, Apart, Req, NoReq, Answers, inboxVars,
          humanVars, shownVars, execVars, askVars, deliverVars, daemonVars, pastVars
  <1>1. CASE \E m \in Msg : Accept(m)
    BY <1>1 DEF Accept
  <1>2. CASE DirectSend \/ TurnCompletes \/ TurnCompletesUnsaved \/ TurnFails \/ TurnEndsPaused
    BY <1>2 DEF DirectSend, StartedFor, TurnCompletes, Paused, Gone, Rests,
         TurnCompletesUnsaved, TurnFails, FailedTurn, Releases, Failed, TurnEndsPaused
  <1>3. CASE AskRaise
    BY <1>3 DEF AskRaise, Raises, Open
  <1>4. CASE AskSubmit
    BY <1>4 DEF AskSubmit, Raises, Locked, Open
  <1>5. CASE AskEnters
    BY <1>5 DEF AskEnters, Locked
  <1>6. CASE AskPersist \/ AskExpose
    BY <1>6 DEF AskPersist, AskExpose, Gone, Releases
  <1>7. CASE AskExposeUnsaved \/ AskFails \/ AnswerRecord \/ AnswerSave \/ AnswerFails
    BY <1>7 DEF AskExposeUnsaved, AskFails, FailedTurn, Gone, Releases, Failed, AnswerRecord,
         Locked, AnswerSave, AnswerFails
  <1>8. CASE AnswerHands \/ AnswerHandFails \/ AnswerClears \/ AnswerAgain \/ DeliverSteers
    BY <1>8 DEF AnswerHands, StartedFor, Elevates, AnswerHandFails, Gone, Failed, AnswerClears,
         AnswerAgain, Locked, Open, DeliverSteers, Eligible, Steerable
  <1>9. CASE \/ DeliverInterrupts \/ DeliverCollects
             \/ DeliverDecides \/ DeliverFails \/ DeliverClaims
    BY <1>9 DEF DeliverInterrupts, Eligible, DeliverCollects, Locked, Prepares, Open,
         IdleIfPrepared, DeliverDecides, DeliverFails, Errs, DeliverGives, DeliverClaims
  <1>10. CASE HandStarts \/ HandBinds \/ HandFails \/ StopRequest \/ StopEnter
    BY <1>10 DEF HandStarts, StartedFor, HandBinds, DeliverGives, HandFails, Gone, Releases,
         Failed, StopRequest, StopEnter, Locked, Withdraw, StopWithdraws, Open
  <1>11. CASE StopCommits \/ Exit \/ Down \/ Die \/ Boot
    BY <1>11 DEF StopCommits, Gone, Releases, Rests, Exit, Down, Forgets, DeliverGives, Die,
         Boot
  <1>12. CASE UNCHANGED vars
    BY <1>12 DEF vars
  <1> QED BY Cases, <1>1, <1>2, <1>3, <1>4, <1>5, <1>6, <1>7, <1>8, <1>9, <1>10, <1>11, <1>12

LEMMA PhasesStep ==
  ASSUME Messages, Requests, Decisions, Phases, Flags, Apart, Off, Numbered, [Next]_vars
  PROVE  Phases'
  <1> USE DEF Phases, Apart, Off, Handing, NoReq, inboxVars, humanVars, shownVars, execVars,
          askVars, deliverVars, daemonVars, pastVars
  <1>1. CASE \E m \in Msg : Accept(m)
    BY <1>1 DEF Accept
  <1>2. CASE DirectSend \/ TurnCompletes \/ TurnCompletesUnsaved \/ TurnFails \/ TurnEndsPaused
    BY <1>2 DEF DirectSend, StartedFor, TurnCompletes, Paused, Gone, Rests,
         TurnCompletesUnsaved, TurnFails, FailedTurn, Releases, Failed, TurnEndsPaused
  <1>3. CASE AskRaise \/ AskSubmit \/ AskEnters \/ AskPersist \/ AskExpose
    BY <1>3 DEF AskRaise, Raises, Open, AskSubmit, Locked, AskEnters, AskPersist, AskExpose,
         Gone, Releases
  <1>4. CASE AskExposeUnsaved \/ AskFails \/ AnswerRecord \/ AnswerSave \/ AnswerFails
    BY <1>4 DEF AskExposeUnsaved, AskFails, FailedTurn, Gone, Releases, Failed, AnswerRecord,
         Locked, Answers, AnswerSave, AnswerFails
  <1>5. CASE AnswerHands \/ AnswerHandFails \/ AnswerClears \/ AnswerAgain \/ DeliverSteers
    BY <1>5 DEF AnswerHands, StartedFor, Elevates, AnswerHandFails, Gone, Failed, AnswerClears,
         AnswerAgain, Locked, Open, DeliverSteers, Eligible, Steerable
  <1>6. CASE \/ DeliverInterrupts \/ DeliverCollects
             \/ DeliverDecides \/ DeliverFails \/ DeliverClaims
    BY <1>6 DEF DeliverInterrupts, Eligible, DeliverCollects, Locked, Prepares, Open,
         IdleIfPrepared, DeliverDecides, DeliverFails, Errs, DeliverGives, DeliverClaims
  <1>7. CASE HandStarts \/ HandBinds \/ HandFails \/ StopRequest \/ StopEnter
    BY <1>7 DEF HandStarts, StartedFor, HandBinds, DeliverGives, HandFails, Gone, Releases,
         Failed, StopRequest, StopEnter, Locked, Withdraw, StopWithdraws, Open
  <1>8. CASE StopCommits \/ Exit \/ Down \/ Die \/ Boot
    BY <1>8 DEF StopCommits, Gone, Releases, Rests, Exit, Down, Forgets, DeliverGives, Die, Boot
  <1>9. CASE UNCHANGED vars
    BY <1>9 DEF vars
  <1> QED BY Cases, <1>1, <1>2, <1>3, <1>4, <1>5, <1>6, <1>7, <1>8, <1>9

LEMMA FlagsStep ==
  ASSUME Messages, Requests, Decisions, Phases, Flags, Apart, Off, Numbered, [Next]_vars
  PROVE  Flags'
  <1> USE DEF Flags, NoReq, inboxVars, humanVars, shownVars, execVars, askVars, deliverVars,
          daemonVars, pastVars
  <1>1. CASE \E m \in Msg : Accept(m)
    BY <1>1, Zenon DEF Accept
  <1>2. CASE DirectSend \/ TurnCompletes
    BY <1>2 DEF DirectSend, StartedFor, TurnCompletes, Gone, Rests
  <1>a. CASE TurnCompletesUnsaved
    BY <1>a DEF TurnCompletesUnsaved
  <1>b. CASE TurnFails \/ TurnEndsPaused
    BY <1>b DEF Gone, Rests, TurnFails, FailedTurn, Releases, Failed, TurnEndsPaused
  <1>3. CASE AskRaise \/ AskSubmit \/ AskEnters \/ AskPersist \/ AskExpose
    BY <1>3 DEF AskRaise, Raises, Open, AskSubmit, Locked, AskEnters, AskPersist, AskExpose,
         Gone, Releases
  <1>4. CASE AskExposeUnsaved \/ AskFails \/ AnswerRecord \/ AnswerSave \/ AnswerFails
    BY <1>4 DEF AskExposeUnsaved, AskFails, FailedTurn, Gone, Releases, Failed, AnswerRecord,
         Locked, Answers, AnswerSave, AnswerFails
  <1>5. CASE AnswerHands \/ AnswerHandFails \/ AnswerClears \/ AnswerAgain \/ DeliverSteers
    BY <1>5 DEF AnswerHands, StartedFor, Elevates, AnswerHandFails, Gone, Failed, AnswerClears,
         AnswerAgain, Locked, Open, DeliverSteers, Eligible, Steerable
  <1>6. CASE DeliverInterrupts \/ DeliverCollects \/ DeliverDecides
    BY <1>6 DEF DeliverInterrupts, Eligible, DeliverCollects, Locked, Prepares, Open,
         IdleIfPrepared, DeliverDecides
  <1>7. CASE DeliverFails
    <2>1. paused' \in BOOLEAN /\ status' \in {"idle", "running", "waiting", "failed"}
      BY <1>7, Zenon DEF DeliverFails, Errs
    <2>2. UNCHANGED <<done, dispatched, retiring, consult, proc, answer, stop, closing, up>>
      BY <1>7 DEF DeliverFails
    <2> QED BY <2>1, <2>2
  <1>8. CASE DeliverClaims
    <2>1. consult' \in BOOLEAN /\ status' = "running" /\ retiring' = FALSE
      BY <1>8 DEF DeliverClaims
    <2>2. UNCHANGED <<done, dispatched, paused, proc, answer, stop, closing, up>>
      BY <1>8 DEF DeliverClaims
    <2> QED BY <2>1, <2>2
  <1>d. CASE HandStarts \/ HandBinds
    BY <1>d DEF HandStarts, StartedFor, HandBinds
  <1>c. CASE HandFails \/ StopRequest
    BY <1>c DEF HandFails, Gone, Releases, Failed, StopRequest
  <1>9. CASE StopEnter
    BY <1>9 DEF StopEnter, Locked, Withdraw, StopWithdraws, Open
  <1>10. CASE StopCommits
    BY <1>10 DEF StopCommits, Gone, Releases, Rests
  <1>11. CASE Exit
    BY <1>11 DEF Exit
  <1>12. CASE Down \/ Die
    BY <1>12 DEF Down, Forgets, DeliverGives, Gone, Die
  <1>13. CASE Boot
    BY <1>13 DEF Boot
  <1>14. CASE UNCHANGED vars
    BY <1>14 DEF vars
  <1> QED BY Cases, <1>1, <1>2, <1>3, <1>4, <1>5, <1>6, <1>7, <1>8, <1>9, <1>10, <1>11, <1>12,
         <1>13, <1>14, <1>a, <1>b, <1>c, <1>d

(* A session keeps its agent. *)
LEMMA AgentKept == [Next]_vars => agent' = agent
  <1> SUFFICES ASSUME [Next]_vars PROVE agent' = agent
    OBVIOUS
  <1> USE DEF daemonVars
  <1>1. CASE \/ \E m \in Msg : Accept(m)
             \/ DirectSend \/ TurnCompletes \/ TurnCompletesUnsaved \/ TurnFails
             \/ TurnEndsPaused \/ AskRaise \/ AskSubmit \/ AskEnters \/ AskPersist
    BY <1>1, Zenon DEF Accept, DirectSend, TurnCompletes, TurnCompletesUnsaved, TurnFails,
         TurnEndsPaused, AskRaise, AskSubmit, AskEnters, AskPersist
  <1>2. CASE \/ AskExpose \/ AskExposeUnsaved \/ AskFails \/ AnswerRecord \/ AnswerSave
             \/ AnswerFails \/ AnswerHands \/ AnswerHandFails \/ AnswerClears \/ AnswerAgain
    BY <1>2, Zenon DEF AskExpose, AskExposeUnsaved, AskFails, AnswerRecord, AnswerSave,
         AnswerFails, AnswerHands, AnswerHandFails, AnswerClears, AnswerAgain
  <1>3. CASE \/ DeliverSteers \/ DeliverInterrupts \/ DeliverCollects \/ DeliverDecides
             \/ DeliverFails \/ DeliverClaims \/ HandStarts \/ HandBinds \/ HandFails
    BY <1>3, Zenon DEF DeliverSteers, DeliverInterrupts, DeliverCollects, DeliverDecides,
         DeliverFails, DeliverClaims, HandStarts, HandBinds, HandFails
  <1>4. CASE \/ StopRequest \/ StopEnter \/ StopCommits \/ Exit \/ Down \/ Die \/ Boot
             \/ UNCHANGED vars
    BY <1>4, Zenon DEF StopRequest, StopEnter, StopCommits, Exit, Down, Die, Boot, vars
  <1> QED BY Cases, <1>1, <1>2, <1>3, <1>4

LEMMA BudgetStep ==
  ASSUME budget \in [Kinds -> Nat], [Next]_vars
  PROVE  budget' \in [Kinds -> Nat]
  <1> USE Spending DEF Kinds, inboxVars, humanVars, shownVars, execVars, askVars, deliverVars,
          daemonVars, pastVars
  <1>1. CASE \E m \in Msg : Accept(m)
    BY <1>1 DEF Accept
  <1>2. CASE DirectSend \/ TurnCompletes \/ TurnCompletesUnsaved \/ TurnFails \/ TurnEndsPaused
    BY <1>2 DEF DirectSend, StartedFor, TurnCompletes, Paused, Gone, Rests,
         TurnCompletesUnsaved, TurnFails, FailedTurn, Releases, Failed, TurnEndsPaused
  <1>3. CASE AskRaise
    BY <1>3 DEF AskRaise, Raises, Open, Raises
  <1>4. CASE AskSubmit
    BY <1>4 DEF AskSubmit, Raises, Locked, Open, Raises
  <1>5. CASE AskEnters \/ AskPersist \/ AskExpose \/ AskExposeUnsaved \/ AskFails
    BY <1>5 DEF AskEnters, Locked, AskPersist, AskExpose, Gone, Releases, AskExposeUnsaved,
         AskFails, FailedTurn, Failed
  <1>6. CASE AnswerRecord \/ AnswerSave \/ AnswerFails \/ AnswerHands \/ AnswerHandFails
    BY <1>6 DEF AnswerRecord, Locked, Answers, AnswerSave, AnswerFails, AnswerHands, StartedFor,
         Elevates, AnswerHandFails, Gone, Failed
  <1>7. CASE AnswerClears \/ AnswerAgain \/ DeliverSteers \/ DeliverInterrupts \/ DeliverCollects
    BY <1>7 DEF AnswerClears, AnswerAgain, Locked, Open, DeliverSteers, Eligible, Steerable,
         DeliverInterrupts, DeliverCollects, Prepares, IdleIfPrepared
  <1>8. CASE DeliverDecides \/ DeliverFails \/ DeliverClaims \/ HandStarts \/ HandBinds
    BY <1>8 DEF DeliverDecides, Eligible, Locked, Prepares, Open, IdleIfPrepared, DeliverFails,
         Errs, DeliverGives, DeliverClaims, HandStarts, StartedFor, HandBinds
  <1>9. CASE HandFails \/ StopRequest \/ StopEnter \/ StopCommits \/ Exit
    BY <1>9 DEF HandFails, DeliverGives, Gone, Releases, Failed, StopRequest, StopEnter, Locked,
         Withdraw, StopWithdraws, Open, StopCommits, Rests, Exit
  <1>10. CASE Down \/ Die \/ Boot \/ UNCHANGED vars
    BY <1>10 DEF Down, Forgets, DeliverGives, Gone, Die, Boot, vars
  <1> QED BY Cases, <1>1, <1>2, <1>3, <1>4, <1>5, <1>6, <1>7, <1>8, <1>9, <1>10

(* One at a time holds interaction_lock. *)
LEMMA ApartStep ==
  ASSUME Messages, Requests, Decisions, Phases, Flags, Apart, Off, Numbered, [Next]_vars
  PROVE  Apart'
  <1> USE DEF Apart, Phases, Off, NoReq, Handing, inboxVars, humanVars, shownVars, execVars,
          askVars, deliverVars, daemonVars, pastVars
  <1>1. CASE \E m \in Msg : Accept(m)
    BY <1>1 DEF Accept
  <1>2. CASE DirectSend \/ TurnCompletes \/ TurnCompletesUnsaved \/ TurnFails \/ TurnEndsPaused
    BY <1>2 DEF DirectSend, StartedFor, TurnCompletes, Paused, Gone, Rests,
         TurnCompletesUnsaved, TurnFails, FailedTurn, Releases, Failed, TurnEndsPaused
  <1>3. CASE AskRaise \/ AskSubmit \/ AskEnters \/ AskPersist \/ AskExpose
    BY <1>3 DEF AskRaise, Raises, Open, AskSubmit, Locked, AskEnters, AskPersist, AskExpose,
         Gone, Releases
  <1>4. CASE AskExposeUnsaved \/ AskFails \/ AnswerRecord \/ AnswerSave \/ AnswerFails
    BY <1>4 DEF AskExposeUnsaved, AskFails, FailedTurn, Gone, Releases, Failed, AnswerRecord,
         Locked, Answers, AnswerSave, AnswerFails
  <1>5. CASE AnswerHands \/ AnswerHandFails \/ AnswerClears \/ AnswerAgain \/ DeliverSteers
    BY <1>5 DEF AnswerHands, StartedFor, Elevates, AnswerHandFails, Gone, Failed, AnswerClears,
         AnswerAgain, Locked, Open, DeliverSteers, Eligible, Steerable
  <1>6. CASE \/ DeliverInterrupts \/ DeliverCollects
             \/ DeliverDecides \/ DeliverFails \/ DeliverClaims
    BY <1>6 DEF DeliverInterrupts, Eligible, DeliverCollects, Locked, Prepares, Open,
         IdleIfPrepared, DeliverDecides, DeliverFails, Errs, DeliverGives, DeliverClaims
  <1>7. CASE HandStarts \/ HandBinds \/ HandFails \/ StopRequest \/ StopEnter
    BY <1>7 DEF HandStarts, StartedFor, HandBinds, DeliverGives, HandFails, Gone, Releases,
         Failed, StopRequest, StopEnter, Locked, Withdraw, StopWithdraws, Open
  <1>8. CASE StopCommits \/ Exit \/ Down \/ Die \/ Boot
    BY <1>8 DEF StopCommits, Gone, Releases, Rests, Exit, Down, Forgets, DeliverGives, Die, Boot
  <1>9. CASE UNCHANGED vars
    BY <1>9 DEF vars
  <1> QED BY Cases, <1>1, <1>2, <1>3, <1>4, <1>5, <1>6, <1>7, <1>8, <1>9

(* A daemon that is down holds nothing. *)
LEMMA OffStep ==
  ASSUME Messages, Requests, Decisions, Phases, Flags, Apart, Off, Numbered, [Next]_vars
  PROVE  Off'
  <1> USE DEF Off, Phases, NoReq, inboxVars, humanVars, shownVars, execVars, askVars,
          deliverVars, daemonVars, pastVars
  <1>1. CASE \E m \in Msg : Accept(m)
    BY <1>1 DEF Accept
  <1>2. CASE DirectSend \/ TurnCompletes \/ TurnCompletesUnsaved \/ TurnFails \/ TurnEndsPaused
    BY <1>2 DEF DirectSend, StartedFor, TurnCompletes, Paused, Gone, Rests,
         TurnCompletesUnsaved, TurnFails, FailedTurn, Releases, Failed, TurnEndsPaused
  <1>3. CASE AskRaise \/ AskSubmit \/ AskEnters \/ AskPersist \/ AskExpose
    BY <1>3 DEF AskRaise, Raises, Open, AskSubmit, Locked, AskEnters, AskPersist, AskExpose,
         Gone, Releases
  <1>4. CASE AskExposeUnsaved \/ AskFails \/ AnswerRecord \/ AnswerSave \/ AnswerFails
    BY <1>4 DEF AskExposeUnsaved, AskFails, FailedTurn, Gone, Releases, Failed, AnswerRecord,
         Locked, Answers, AnswerSave, AnswerFails
  <1>5. CASE AnswerHands \/ AnswerHandFails \/ AnswerClears \/ AnswerAgain \/ DeliverSteers
    BY <1>5 DEF AnswerHands, StartedFor, Elevates, AnswerHandFails, Gone, Failed, AnswerClears,
         AnswerAgain, Locked, Open, DeliverSteers, Eligible, Steerable
  <1>6. CASE \/ DeliverInterrupts \/ DeliverCollects
             \/ DeliverDecides \/ DeliverFails \/ DeliverClaims
    BY <1>6 DEF DeliverInterrupts, Eligible, DeliverCollects, Locked, Prepares, Open,
         IdleIfPrepared, DeliverDecides, DeliverFails, Errs, DeliverGives, DeliverClaims
  <1>7. CASE HandStarts \/ HandBinds \/ HandFails \/ StopRequest \/ StopEnter
    BY <1>7 DEF HandStarts, StartedFor, HandBinds, DeliverGives, HandFails, Gone, Releases,
         Failed, StopRequest, StopEnter, Locked, Withdraw, StopWithdraws, Open
  <1>8. CASE StopCommits \/ Exit \/ Down \/ Die \/ Boot
    BY <1>8 DEF StopCommits, Gone, Releases, Rests, Exit, Down, Forgets, DeliverGives, Die, Boot
  <1>9. CASE UNCHANGED vars
    BY <1>9 DEF vars
  <1> QED BY Cases, <1>1, <1>2, <1>3, <1>4, <1>5, <1>6, <1>7, <1>8, <1>9

(* A request on its way has a number of its own. *)
LEMMA NumberedStep ==
  ASSUME Messages, Requests, Decisions, Phases, Flags, Apart, Off, Numbered, PendingIsShown,
         [Next]_vars
  PROVE  Numbered'
  <1> USE DEF Numbered, Requests, Decisions, Phases, PendingIsShown, Apart, Off, NoReq, Req,
          inboxVars, humanVars, shownVars, execVars, askVars, deliverVars, daemonVars, pastVars
  <1>1. CASE \E m \in Msg : Accept(m)
    BY <1>1 DEF Accept
  <1>2. CASE DirectSend
    BY <1>2 DEF DirectSend, StartedFor
  <1>3. CASE TurnCompletes
    BY <1>3 DEF TurnCompletes, Paused, Gone, Rests
  <1>4. CASE TurnCompletesUnsaved
    BY <1>4 DEF TurnCompletesUnsaved, Paused
  <1>5. CASE TurnFails
    BY <1>5 DEF TurnFails, Paused, FailedTurn, Gone, Releases, Failed
  <1>6. CASE TurnEndsPaused
    BY <1>6 DEF TurnEndsPaused, Paused, Gone, Releases, Rests
  <1>7. CASE AskRaise
    BY <1>7 DEF AskRaise, Raises, Open
  <1>8. CASE AskSubmit
    BY <1>8 DEF AskSubmit, Raises, Locked, Open
  <1>9. CASE AskEnters
    BY <1>9 DEF AskEnters, Locked
  <1>10. CASE AskPersist
    BY <1>10 DEF AskPersist
  <1>11. CASE AskExpose
    BY <1>11 DEF AskExpose, Gone, Releases
  <1>12. CASE AskExposeUnsaved
    BY <1>12 DEF AskExposeUnsaved
  <1>13. CASE AskFails
    BY <1>13 DEF AskFails, FailedTurn, Gone, Releases, Failed
  <1>14. CASE AnswerRecord
    BY <1>14 DEF AnswerRecord, Locked, Answers
  <1>15. CASE AnswerSave
    BY <1>15 DEF AnswerSave
  <1>16. CASE AnswerFails
    BY <1>16 DEF AnswerFails
  <1>17. CASE AnswerHands
    BY <1>17 DEF AnswerHands, StartedFor, Elevates
  <1>18. CASE AnswerHandFails
    <2>1. UNCHANGED <<pending, card, decision, told, answered, last, ask>>
      BY <1>18 DEF AnswerHandFails
    <2>2. CASE carries' = carries
      BY <2>1, <2>2
    <2>3. CASE carries' = NoReq
      BY <2>1, <2>3
    <2> QED BY <1>18, <2>2, <2>3 DEF AnswerHandFails, Gone
  <1>19. CASE AnswerClears
    BY <1>19 DEF AnswerClears
  <1>20. CASE AnswerAgain
    BY <1>20 DEF AnswerAgain, Locked, Open
  <1>21. CASE DeliverSteers
    BY <1>21 DEF DeliverSteers, Eligible, Steerable, Open
  <1>22. CASE DeliverInterrupts \/ DeliverCollects
    BY <1>22 DEF DeliverInterrupts, Eligible, DeliverCollects, Locked, Prepares, Open,
         IdleIfPrepared
  <1>23. CASE DeliverDecides
    BY <1>23 DEF DeliverDecides, Eligible, Locked, Prepares, Open, IdleIfPrepared
  <1>24. CASE DeliverFails
    BY <1>24 DEF DeliverFails, Errs, DeliverGives
  <1>25. CASE DeliverClaims
    BY <1>25 DEF DeliverClaims, Open
  <1>26. CASE HandStarts \/ HandBinds
    BY <1>26 DEF HandStarts, StartedFor, HandBinds, DeliverGives
  <1>27. CASE HandFails
    BY <1>27 DEF HandFails, DeliverGives, Gone, Releases, Failed
  <1>28. CASE StopRequest
    BY <1>28 DEF StopRequest
  <1>29. CASE StopEnter
    <2>1. UNCHANGED <<decision, carries, told, answered, last, ask>>
      BY <1>29 DEF StopEnter
    <2>2. CASE pending' = pending /\ card' = card
      BY <2>1, <2>2
    <2>3. CASE pending' = NoReq /\ card' = NoReq
      BY <2>1, <2>3, NoReq \notin answered DEF Req
    <2> QED BY <1>29, <2>2, <2>3, Zenon DEF StopEnter, Withdraw
  <1>30. CASE StopCommits
    BY <1>30 DEF StopCommits, Gone, Releases, Rests
  <1>31. CASE Exit
    BY <1>31 DEF Exit
  <1>32. CASE Down
    BY <1>32 DEF Down, Forgets, DeliverGives, Gone
  <1>33. CASE Die
    BY <1>33 DEF Die, Forgets, DeliverGives, Gone
  <1>34. CASE Boot
    BY <1>34 DEF Boot
  <1>35. CASE UNCHANGED vars
    BY <1>35 DEF vars
  <1> QED BY Cases, <1>1, <1>2, <1>3, <1>4, <1>5, <1>6, <1>7, <1>8, <1>9, <1>10, <1>11, <1>12,
         <1>13, <1>14, <1>15, <1>16, <1>17, <1>18, <1>19, <1>20, <1>21, <1>22, <1>23, <1>24,
         <1>25, <1>26, <1>27, <1>28, <1>29, <1>30, <1>31, <1>32, <1>33, <1>34, <1>35

(* The saved request and the shown one change together, but for the agent's close. *)
LEMMA ShownStep ==
  ASSUME Messages, Requests, Decisions, Phases, Flags, Apart, Off, Numbered, PendingIsShown,
         [Next]_vars
  PROVE  PendingIsShown'
  <1> USE DEF PendingIsShown, Apart, Off, Numbered, NoReq, inboxVars, humanVars, shownVars,
          execVars, askVars, deliverVars, daemonVars, pastVars
  <1>1. CASE \E m \in Msg : Accept(m)
    BY <1>1 DEF Accept
  <1>2. CASE DirectSend \/ TurnCompletes \/ TurnCompletesUnsaved \/ TurnFails \/ TurnEndsPaused
    BY <1>2 DEF DirectSend, StartedFor, TurnCompletes, Paused, Gone, Rests,
         TurnCompletesUnsaved, TurnFails, FailedTurn, Releases, Failed, TurnEndsPaused
  <1>3. CASE AskRaise \/ AskSubmit \/ AskEnters \/ AskPersist \/ AskExpose
    BY <1>3 DEF AskRaise, Raises, Open, AskSubmit, Locked, AskEnters, AskPersist, AskExpose,
         Gone, Releases
  <1>4. CASE AskExposeUnsaved \/ AskFails \/ AnswerRecord
    BY <1>4 DEF AskExposeUnsaved, AskFails, FailedTurn, Gone, Releases, Failed, AnswerRecord,
         Locked, Answers
  <1>5. CASE AnswerSave \/ AnswerFails
    BY <1>5 DEF AnswerSave, AnswerFails
  <1>6. CASE AnswerHands \/ AnswerHandFails \/ AnswerClears \/ AnswerAgain \/ DeliverSteers
    BY <1>6 DEF AnswerHands, StartedFor, Elevates, AnswerHandFails, Gone, Failed, AnswerClears,
         AnswerAgain, Locked, Open, DeliverSteers, Eligible, Steerable
  <1>7. CASE \/ DeliverInterrupts \/ DeliverCollects
             \/ DeliverDecides \/ DeliverFails \/ DeliverClaims
    BY <1>7 DEF DeliverInterrupts, Eligible, DeliverCollects, Locked, Prepares, Open,
         IdleIfPrepared, DeliverDecides, DeliverFails, Errs, DeliverGives, DeliverClaims
  <1>8. CASE HandStarts \/ HandBinds \/ HandFails \/ StopRequest \/ StopEnter
    BY <1>8 DEF HandStarts, StartedFor, HandBinds, DeliverGives, HandFails, Gone, Releases,
         Failed, StopRequest, StopEnter, Locked, Withdraw, StopWithdraws, Open
  <1>9. CASE StopCommits \/ Exit \/ Down \/ Die \/ Boot
    BY <1>9 DEF StopCommits, Gone, Releases, Rests, Exit, Down, Forgets, DeliverGives, Die, Boot
  <1>10. CASE UNCHANGED vars
    BY <1>10 DEF vars
  <1> QED BY Cases, <1>1, <1>2, <1>3, <1>4, <1>5, <1>6, <1>7, <1>8, <1>9, <1>10

(* A request that is saved replaces the decision, and its answer the request. *)
LEMMA AskedStep ==
  ASSUME Messages, Requests, Decisions, Phases, Flags, Apart, Off, Numbered, PendingIsShown,
         Asked, [Next]_vars
  PROVE  Asked'
  <1> USE DEF Asked, PendingIsShown, Apart, Off, Numbered, NoReq, Requests, inboxVars,
          humanVars, shownVars, execVars, askVars, deliverVars, daemonVars, pastVars
  <1>1. CASE \E m \in Msg : Accept(m)
    BY <1>1 DEF Accept
  <1>2. CASE DirectSend \/ TurnCompletes \/ TurnCompletesUnsaved \/ TurnFails \/ TurnEndsPaused
    BY <1>2 DEF DirectSend, StartedFor, TurnCompletes, Paused, Gone, Rests,
         TurnCompletesUnsaved, TurnFails, FailedTurn, Releases, Failed, TurnEndsPaused
  <1>3. CASE AskRaise \/ AskSubmit \/ AskEnters \/ AskPersist \/ AskExpose
    BY <1>3 DEF AskRaise, Raises, Open, AskSubmit, Locked, AskEnters, AskPersist, AskExpose,
         Gone, Releases
  <1>4. CASE AskExposeUnsaved \/ AskFails \/ AnswerRecord
    BY <1>4 DEF AskExposeUnsaved, AskFails, FailedTurn, Gone, Releases, Failed, AnswerRecord,
         Locked, Answers
  <1>5. CASE AnswerSave
    <2>1. NoReq \notin answered \cup {card}
      BY <1>5 DEF Req, AnswerSave
    <2> QED BY <1>5, <2>1 DEF AnswerSave
  <1>6. CASE AnswerFails \/ AnswerHands \/ AnswerHandFails
    BY <1>6 DEF AnswerFails, AnswerHands, StartedFor, Elevates, AnswerHandFails, Gone, Failed
  <1>7. CASE AnswerClears
    <2>1. NoReq \notin answered \cup {card}
      BY <1>7 DEF Req, AnswerClears
    <2> QED BY <1>7, <2>1 DEF AnswerClears
  <1>8. CASE \/ AnswerAgain \/ DeliverSteers
             \/ DeliverInterrupts \/ DeliverCollects \/ DeliverDecides
    BY <1>8 DEF AnswerAgain, Locked, Open, DeliverSteers, Eligible, Steerable,
         DeliverInterrupts, DeliverCollects, Prepares, IdleIfPrepared, DeliverDecides
  <1>9. CASE DeliverFails \/ DeliverClaims \/ HandStarts \/ HandBinds \/ HandFails
    BY <1>9 DEF DeliverFails, Errs, DeliverGives, DeliverClaims, Open, HandStarts, StartedFor,
         HandBinds, HandFails, Gone, Releases, Failed
  <1>10. CASE StopRequest
    BY <1>10 DEF StopRequest
  <1>11. CASE StopEnter
    <2>1. UNCHANGED <<decision, carries, told, answered, last, ask>>
      BY <1>11 DEF StopEnter
    <2>2. CASE pending' = pending /\ card' = card
      BY <2>1, <2>2
    <2>3. CASE pending' = NoReq /\ card' = NoReq
      BY <2>1, <2>3, NoReq \notin answered DEF Req
    <2> QED BY <1>11, <2>2, <2>3, Zenon DEF StopEnter, Withdraw
  <1>12. CASE StopCommits \/ Exit \/ Down \/ Die \/ Boot
    BY <1>12 DEF StopCommits, Gone, Releases, Rests, Exit, Down, Forgets, DeliverGives, Die,
         Boot
  <1>13. CASE UNCHANGED vars
    BY <1>13 DEF vars
  <1> QED BY Cases, <1>1, <1>2, <1>3, <1>4, <1>5, <1>6, <1>7, <1>8, <1>9, <1>10, <1>11, <1>12,
         <1>13

(* A turn beyond its start has told its decision. *)
LEMMA HeardStep ==
  ASSUME Messages, Requests, Decisions, Phases, Flags, Apart, Off, Numbered, PendingIsShown,
         Asked, Heard, [Next]_vars
  PROVE  Heard'
  <1> USE DEF Heard, Apart, Off, Phases, Handing, inboxVars, humanVars, shownVars, execVars,
          askVars, deliverVars, daemonVars, pastVars
  <1>1. CASE \E m \in Msg : Accept(m)
    BY <1>1 DEF Accept
  <1>2. CASE DirectSend \/ TurnCompletes \/ TurnCompletesUnsaved \/ TurnFails \/ TurnEndsPaused
    BY <1>2 DEF DirectSend, StartedFor, TurnCompletes, Paused, Gone, Rests,
         TurnCompletesUnsaved, TurnFails, FailedTurn, Releases, Failed, TurnEndsPaused
  <1>3. CASE AskRaise \/ AskSubmit \/ AskEnters \/ AskPersist \/ AskExpose
    BY <1>3 DEF AskRaise, Raises, Open, AskSubmit, Locked, AskEnters, AskPersist, AskExpose,
         Gone, Releases
  <1>4. CASE AskExposeUnsaved \/ AskFails \/ AnswerRecord \/ AnswerSave \/ AnswerFails
    BY <1>4 DEF AskExposeUnsaved, AskFails, FailedTurn, Gone, Releases, Failed, AnswerRecord,
         Locked, Answers, AnswerSave, AnswerFails
  <1>5. CASE AnswerHands \/ AnswerHandFails \/ AnswerClears \/ AnswerAgain \/ DeliverSteers
    BY <1>5 DEF AnswerHands, StartedFor, Elevates, AnswerHandFails, Gone, Failed, AnswerClears,
         AnswerAgain, Locked, Open, DeliverSteers, Eligible, Steerable
  <1>6. CASE \/ DeliverInterrupts \/ DeliverCollects
             \/ DeliverDecides \/ DeliverFails \/ DeliverClaims
    BY <1>6 DEF DeliverInterrupts, Eligible, DeliverCollects, Locked, Prepares, Open,
         IdleIfPrepared, DeliverDecides, DeliverFails, Errs, DeliverGives, DeliverClaims
  <1>7. CASE HandStarts \/ HandBinds \/ HandFails \/ StopRequest \/ StopEnter
    BY <1>7 DEF HandStarts, StartedFor, HandBinds, DeliverGives, HandFails, Gone, Releases,
         Failed, StopRequest, StopEnter, Locked, Withdraw, StopWithdraws, Open
  <1>8. CASE StopCommits \/ Exit \/ Down \/ Die \/ Boot
    BY <1>8 DEF StopCommits, Gone, Releases, Rests, Exit, Down, Forgets, DeliverGives, Die, Boot
  <1>9. CASE UNCHANGED vars
    BY <1>9 DEF vars
  <1> QED BY Cases, <1>1, <1>2, <1>3, <1>4, <1>5, <1>6, <1>7, <1>8, <1>9

(* The turn being handed over carries what was decided when it was claimed. *)
LEMMA HandedStep ==
  ASSUME Messages, Requests, Decisions, Phases, Flags, Apart, Off, Numbered, PendingIsShown,
         Asked, Heard, Handed, [Next]_vars
  PROVE  Handed'
  <1> USE DEF Handed, Apart, Off, Phases, Handing, PendingIsShown, Asked, NoReq, Open,
          inboxVars, humanVars, shownVars, execVars, askVars, deliverVars, daemonVars, pastVars
  <1>1. CASE \E m \in Msg : Accept(m)
    BY <1>1 DEF Accept
  <1>2. CASE DirectSend \/ TurnCompletes \/ TurnCompletesUnsaved \/ TurnFails \/ TurnEndsPaused
    BY <1>2 DEF DirectSend, StartedFor, TurnCompletes, Paused, Gone, Rests,
         TurnCompletesUnsaved, TurnFails, FailedTurn, Releases, Failed, TurnEndsPaused
  <1>3. CASE AskRaise \/ AskSubmit \/ AskEnters \/ AskPersist \/ AskExpose
    BY <1>3 DEF AskRaise, Raises, AskSubmit, Locked, AskEnters, AskPersist, AskExpose, Gone,
         Releases
  <1>4. CASE AskExposeUnsaved \/ AskFails \/ AnswerRecord \/ AnswerSave \/ AnswerFails
    BY <1>4 DEF AskExposeUnsaved, AskFails, FailedTurn, Gone, Releases, Failed, AnswerRecord,
         Locked, Answers, AnswerSave, AnswerFails
  <1>5. CASE AnswerHands \/ AnswerHandFails \/ AnswerClears \/ AnswerAgain \/ DeliverSteers
    BY <1>5 DEF AnswerHands, StartedFor, Elevates, AnswerHandFails, Gone, Failed, AnswerClears,
         AnswerAgain, Locked, DeliverSteers, Eligible, Steerable
  <1>6. CASE DeliverInterrupts \/ DeliverCollects \/ DeliverDecides
    BY <1>6 DEF DeliverInterrupts, Eligible, DeliverCollects, Locked, Prepares, IdleIfPrepared,
         DeliverDecides
  <1>7. CASE DeliverFails
    BY <1>7 DEF DeliverFails, Errs, DeliverGives
  <1>8. CASE DeliverClaims
    BY <1>8 DEF DeliverClaims
  <1>9. CASE HandStarts \/ HandBinds \/ HandFails \/ StopRequest \/ StopEnter
    BY <1>9 DEF HandStarts, StartedFor, HandBinds, DeliverGives, HandFails, Gone, Releases,
         Failed, StopRequest, StopEnter, Locked, Withdraw, StopWithdraws
  <1>10. CASE StopCommits \/ Exit \/ Down \/ Die \/ Boot
    BY <1>10 DEF StopCommits, Gone, Releases, Rests, Exit, Down, Forgets, DeliverGives, Die,
         Boot
  <1>11. CASE UNCHANGED vars
    BY <1>11 DEF vars
  <1> QED BY Cases, <1>1, <1>2, <1>3, <1>4, <1>5, <1>6, <1>7, <1>8, <1>9, <1>10, <1>11

(* An entry is marked before its agent is given it. *)
LEMMA MarkedStep ==
  ASSUME Messages, Requests, Decisions, Phases, Flags, Apart, Off, Numbered, PendingIsShown,
         Asked, Handed, Marked, [Next]_vars
  PROVE  Marked'
  <1> USE SetType DEF Marked, Apart, Off, Phases, Messages, Handing, In, Dispatchable,
          PendingIsShown, Asked, NoReq, inboxVars, humanVars, shownVars, execVars, askVars,
          deliverVars, daemonVars, pastVars
  <1>1. CASE \E m \in Msg : Accept(m)
    BY <1>1 DEF Accept
  <1>2. CASE DirectSend \/ TurnCompletes \/ TurnCompletesUnsaved \/ TurnFails \/ TurnEndsPaused
    BY <1>2 DEF DirectSend, StartedFor, TurnCompletes, Paused, Gone, Rests,
         TurnCompletesUnsaved, TurnFails, FailedTurn, Releases, Failed, TurnEndsPaused
  <1>3. CASE AskRaise \/ AskSubmit \/ AskEnters \/ AskPersist \/ AskExpose
    BY <1>3 DEF AskRaise, Raises, Open, AskSubmit, Locked, AskEnters, AskPersist, AskExpose,
         Gone, Releases
  <1>4. CASE AskExposeUnsaved \/ AskFails \/ AnswerRecord \/ AnswerSave \/ AnswerFails
    BY <1>4 DEF AskExposeUnsaved, AskFails, FailedTurn, Gone, Releases, Failed, AnswerRecord,
         Locked, Answers, AnswerSave, AnswerFails
  <1>5. CASE AnswerHands \/ AnswerHandFails \/ AnswerClears \/ AnswerAgain \/ DeliverSteers
    BY <1>5 DEF AnswerHands, StartedFor, Elevates, AnswerHandFails, Gone, Failed, AnswerClears,
         AnswerAgain, Locked, Open, DeliverSteers, Eligible, Steerable
  <1>6. CASE \/ DeliverInterrupts \/ DeliverCollects
             \/ DeliverDecides \/ DeliverFails \/ DeliverClaims
    BY <1>6 DEF DeliverInterrupts, Eligible, DeliverCollects, Locked, Prepares, Open,
         IdleIfPrepared, DeliverDecides, DeliverFails, Errs, DeliverGives, DeliverClaims
  <1>7. CASE HandStarts \/ HandBinds \/ HandFails \/ StopRequest \/ StopEnter
    BY <1>7 DEF HandStarts, StartedFor, HandBinds, DeliverGives, HandFails, Gone, Releases,
         Failed, StopRequest, StopEnter, Locked, Withdraw, StopWithdraws, Open
  <1>8. CASE StopCommits \/ Exit \/ Down \/ Die \/ Boot
    BY <1>8 DEF StopCommits, Gone, Releases, Rests, Exit, Down, Forgets, DeliverGives, Die, Boot
  <1>9. CASE UNCHANGED vars
    BY <1>9 DEF vars
  <1> QED BY Cases, <1>1, <1>2, <1>3, <1>4, <1>5, <1>6, <1>7, <1>8, <1>9

LEMMA BaseStep == Base /\ [Next]_vars => Base'
  <1> SUFFICES ASSUME Base, [Next]_vars PROVE Base'
    OBVIOUS
  <1>1. /\ Messages /\ Requests /\ Decisions /\ Phases /\ Flags /\ budget \in [Kinds -> Nat]
        /\ Apart /\ Off /\ Numbered /\ PendingIsShown /\ Asked /\ Heard /\ Handed /\ Marked
    BY Parts, Zenon DEF Base, TInv
  <1>2. TypeOK'
    <2>1. Messages'
      BY <1>1, MessagesStep
    <2>2. Requests'
      BY <1>1, RequestsStep
    <2>3. Decisions'
      BY <1>1, DecisionsStep
    <2>4. Phases'
      BY <1>1, PhasesStep
    <2>5. Flags'
      BY <1>1, FlagsStep
    <2>6. (budget \in [Kinds -> Nat])'
      BY <1>1, BudgetStep
    <2>7. (agent \in Agents)'
      BY <1>1, Parts, AgentKept DEF Base, TInv
    <2> QED BY <2>1, <2>2, <2>3, <2>4, <2>5, <2>6, <2>7, Parts, PTL
  <1>3. Apart' /\ Off'
    BY <1>1, ApartStep, OffStep
  <1>4. Numbered' /\ PendingIsShown'
    BY <1>1, NumberedStep, ShownStep
  <1>5. Asked' /\ Heard'
    BY <1>1, AskedStep, HeardStep
  <1>6. Handed' /\ Marked'
    BY <1>1, HandedStep, MarkedStep
  <1> QED BY <1>2, <1>3, <1>4, <1>5, <1>6, Zenon DEF Base, TInv

LEMMA InitBase == Init => Base
  <1> SUFFICES ASSUME Init PROVE Base
    OBVIOUS
  <1> USE DEF Init, NoReq, Handing
  <1>1. Messages /\ Phases
    BY DEF Messages, Phases
  <1>2. Requests
    BY DEF Requests
  <1>3. Decisions
    BY PauseAssumption DEF Decisions, Answers, Req
  <1>4. Flags
    BY DEF Flags
  <1>5. agent \in Agents /\ budget \in [Kinds -> Nat]
    <2>1. PICK setting \in Settings : agent = setting[1] /\ budget = setting[2]
      OBVIOUS
    <2>2. setting \in Agents \X [Kinds -> Nat]
      BY PauseAssumption
    <2> QED BY <2>1, <2>2
  <1>6. Apart /\ Off /\ Numbered
    BY DEF Apart, Off, Numbered
  <1>7. PendingIsShown /\ Asked /\ Heard
    BY DEF PendingIsShown, Asked, Heard
  <1>8. Handed /\ Marked
    BY DEF Handed, Marked
  <1> QED BY <1>1, <1>2, <1>3, <1>4, <1>5, <1>6, <1>7, <1>8, Parts, Zenon DEF Base, TInv

LEMMA BaseHolds == Spec => []Base
  BY InitBase, BaseStep, PTL DEF Spec

(* Every variable has its type, whatever happens. *)
THEOREM TypesKept == Spec => []TypeOK
  BY BaseHolds, PTL DEF Base, TInv

(* What the metadata says is pending is what the clients are shown, after a restart too:
   stop_agent_for_interaction saves the request before it stops the agent and shows it
   after (manager.rs), and no other step parts the two. *)
THEOREM CardsAreShown == Spec => []PendingIsShown
  BY BaseHolds, PTL DEF Base

LEMMA NotLate ==
  ASSUME budget \in [Kinds -> Nat], budget'["late"] = budget["late"]
  PROVE  /\ \A move : Raises(move) => answer # "save" /\ (Open => carries = decision)
         /\ AnswerRecord => ask # "lock"
  <1>1. ~Spend("late")
    BY Spent DEF Kinds
  <1> QED BY <1>1, Zenon DEF Raises, AnswerRecord

LEMMA NotChanged ==
  ASSUME budget \in [Kinds -> Nat], budget'["change"] = budget["change"], AnswerRecord, ask # "lock"
  PROVE  \E a \in Answers : /\ chat[card] \in {"none", a}
                            /\ outcome' = [outcome EXCEPT ![card] = a]
                            /\ chat' = IF chat[card] = "none" THEN [chat EXCEPT ![card] = a] ELSE chat
                            /\ answer' = IF kind[card] = "question" \/ InboxUsed THEN "save"
                                         ELSE IF a = "allow" THEN "hand" ELSE "clear"
  <1>1. ~Spend("change")
    BY Spent DEF Kinds
  <1> QED BY <1>1, Zenon DEF AnswerRecord

LEMMA NotOver ==
  ASSUME budget \in [Kinds -> Nat], budget'["over"] = budget["over"], DirectSend
  PROVE  card = NoReq
  <1>1. ~Spend("over")
    BY Spent DEF Kinds
  <1> QED BY <1>1, Zenon DEF DirectSend

LEMMA NotBetween ==
  ASSUME budget \in [Kinds -> Nat], budget'["between"] = budget["between"], card = NoReq,
         DirectSend
  PROVE  ~Open
  <1>1. ~Spend("between")
    BY Spent DEF Kinds
  <1>2. CASE Open
    <2>1. Spend("between")
      BY <1>2, Zenon DEF DirectSend
    <2> QED BY <1>1, <2>1
  <1> QED BY <1>2

-----------------------------------------------------------------------------
(* Without a late request or a changed answer: the chat is the decision. *)
LEMMA RecordedStep ==
  ASSUME Base, Recorded, Cleared, Replaced, AnswerIsKept, budget'["late"] = budget["late"],
         budget'["change"] = budget["change"], [Next]_vars
  PROVE  Recorded'
  <1> USE DEF Recorded, inboxVars, humanVars, shownVars, execVars, askVars, deliverVars,
          daemonVars, pastVars
  <1>1. CASE \E m \in Msg : Accept(m)
    BY <1>1 DEF Accept
  <1>2. CASE DirectSend \/ TurnCompletes \/ TurnCompletesUnsaved \/ TurnFails \/ TurnEndsPaused
    BY <1>2 DEF DirectSend, StartedFor, TurnCompletes, Paused, Gone, Rests,
         TurnCompletesUnsaved, TurnFails, FailedTurn, Releases, Failed, TurnEndsPaused
  <1>3. CASE AskRaise \/ AskSubmit \/ AskEnters \/ AskPersist \/ AskExpose
    BY <1>3 DEF AskRaise, Raises, Open, AskSubmit, Locked, AskEnters, AskPersist, AskExpose,
         Gone, Releases
  <1>4. CASE AskExposeUnsaved \/ AskFails
    BY <1>4 DEF AskExposeUnsaved, AskFails, FailedTurn, Gone, Releases, Failed
  <1>5. CASE AnswerRecord
    <2>1. ask # "lock"
      BY <1>5, Parts, NotLate DEF Base, TInv
    <2>2. PICK a \in Answers : /\ chat[card] \in {"none", a}
                               /\ outcome' = [outcome EXCEPT ![card] = a]
                               /\ chat' = IF chat[card] = "none" THEN [chat EXCEPT ![card] = a] ELSE chat
                               /\ answer' = IF kind[card] = "question" \/ InboxUsed THEN "save"
                                            ELSE IF a = "allow" THEN "hand" ELSE "clear"
      BY <1>5, <2>1, Parts, NotChanged DEF Base, TInv
    <2>3. chat' = outcome'
      BY <2>2, Parts DEF Base, TInv, Decisions
    <2> QED BY <2>3
  <1>6. CASE AnswerSave \/ AnswerFails \/ AnswerHands \/ AnswerHandFails \/ AnswerClears
    BY <1>6 DEF AnswerSave, AnswerFails, AnswerHands, StartedFor, Elevates, AnswerHandFails,
         Gone, Failed, AnswerClears
  <1>7. CASE \/ AnswerAgain \/ DeliverSteers
             \/ DeliverInterrupts \/ DeliverCollects \/ DeliverDecides
    BY <1>7 DEF AnswerAgain, Locked, Open, DeliverSteers, Eligible, Steerable,
         DeliverInterrupts, DeliverCollects, Prepares, IdleIfPrepared, DeliverDecides
  <1>8. CASE DeliverFails \/ DeliverClaims \/ HandStarts \/ HandBinds \/ HandFails
    BY <1>8 DEF DeliverFails, Errs, DeliverGives, DeliverClaims, Open, HandStarts, StartedFor,
         HandBinds, HandFails, Gone, Releases, Failed
  <1>9. CASE StopRequest \/ StopEnter \/ StopCommits \/ Exit \/ Down
    BY <1>9 DEF StopRequest, StopEnter, Locked, Withdraw, StopWithdraws, Open, StopCommits,
         Gone, Releases, Rests, Exit, Down, Forgets, DeliverGives
  <1>10. CASE Die \/ Boot \/ UNCHANGED vars
    BY <1>10 DEF Die, Forgets, DeliverGives, Gone, Boot, vars
  <1> QED BY Cases, <1>1, <1>2, <1>3, <1>4, <1>5, <1>6, <1>7, <1>8, <1>9, <1>10

(* An answer is cleared once its agent was told. *)
LEMMA ClearedStep ==
  ASSUME Base, Recorded, Cleared, Replaced, AnswerIsKept, budget'["late"] = budget["late"],
         budget'["change"] = budget["change"], [Next]_vars
  PROVE  Cleared'
  <1> USE DEF Cleared, Base, TInv, Apart, Off, inboxVars, humanVars, shownVars, execVars, askVars,
          deliverVars, daemonVars, pastVars
  <1>1. CASE \E m \in Msg : Accept(m)
    BY <1>1 DEF Accept
  <1>2. CASE DirectSend \/ TurnCompletes \/ TurnCompletesUnsaved \/ TurnFails \/ TurnEndsPaused
    BY <1>2 DEF DirectSend, StartedFor, TurnCompletes, Paused, Gone, Rests,
         TurnCompletesUnsaved, TurnFails, FailedTurn, Releases, Failed, TurnEndsPaused
  <1>3. CASE AskRaise \/ AskSubmit \/ AskEnters \/ AskPersist \/ AskExpose
    BY <1>3 DEF AskRaise, Raises, Open, AskSubmit, Locked, AskEnters, AskPersist, AskExpose,
         Gone, Releases
  <1>4. CASE AskExposeUnsaved \/ AskFails
    BY <1>4 DEF AskExposeUnsaved, AskFails, FailedTurn, Gone, Releases, Failed
  <1>5. CASE AnswerRecord
    <2>1. ask # "lock"
      BY <1>5, Parts, NotLate DEF Base, TInv
    <2>2. PICK a \in Answers : /\ chat[card] \in {"none", a}
                               /\ outcome' = [outcome EXCEPT ![card] = a]
                               /\ chat' = IF chat[card] = "none" THEN [chat EXCEPT ![card] = a] ELSE chat
                               /\ answer' = IF kind[card] = "question" \/ InboxUsed THEN "save"
                                            ELSE IF a = "allow" THEN "hand" ELSE "clear"
      BY <1>5, <2>1, Parts, NotChanged DEF Base, TInv
    <2>3. card \in Req
      BY <1>5, Parts DEF AnswerRecord, Requests
    <2>4. outcome'[card] = a /\ card' = card /\ a \in {"allow", "deny"}
      BY <1>5, <2>2, <2>3, Parts DEF AnswerRecord, Decisions, Answers
    <2> QED BY <2>2, <2>4
  <1>6. CASE AnswerSave \/ AnswerFails \/ AnswerHands \/ AnswerHandFails \/ AnswerClears
    BY <1>6 DEF AnswerSave, AnswerFails, AnswerHands, StartedFor, Elevates, AnswerHandFails,
         Gone, Failed, AnswerClears
  <1>7. CASE \/ AnswerAgain \/ DeliverSteers
             \/ DeliverInterrupts \/ DeliverCollects \/ DeliverDecides
    BY <1>7 DEF AnswerAgain, Locked, Open, DeliverSteers, Eligible, Steerable,
         DeliverInterrupts, DeliverCollects, Prepares, IdleIfPrepared, DeliverDecides
  <1>8. CASE DeliverFails \/ DeliverClaims \/ HandStarts \/ HandBinds \/ HandFails
    BY <1>8 DEF DeliverFails, Errs, DeliverGives, DeliverClaims, Open, HandStarts, StartedFor,
         HandBinds, HandFails, Gone, Releases, Failed
  <1>9. CASE StopRequest \/ StopEnter \/ StopCommits \/ Exit \/ Down
    BY <1>9 DEF StopRequest, StopEnter, Locked, Withdraw, StopWithdraws, Open, StopCommits,
         Gone, Releases, Rests, Exit, Down, Forgets, DeliverGives
  <1>10. CASE Die \/ Boot \/ UNCHANGED vars
    BY <1>10 DEF Die, Forgets, DeliverGives, Gone, Boot, vars
  <1> QED BY Cases, <1>1, <1>2, <1>3, <1>4, <1>5, <1>6, <1>7, <1>8, <1>9, <1>10

(* A request that comes after an answer was told replaces nothing. *)
LEMMA ReplacedStep ==
  ASSUME Base, Recorded, Cleared, Replaced, AnswerIsKept, budget'["late"] = budget["late"],
         budget'["change"] = budget["change"], [Next]_vars
  PROVE  Replaced'
  <1> USE DEF Replaced, Base, TInv, Apart, Off, Heard, Open, inboxVars, humanVars, shownVars,
          execVars, askVars, deliverVars, daemonVars, pastVars
  <1>1. CASE \E m \in Msg : Accept(m)
    BY <1>1 DEF Accept
  <1>2. CASE DirectSend
    BY <1>2 DEF DirectSend, StartedFor
  <1>3. CASE TurnCompletes
    BY <1>3 DEF TurnCompletes, Paused, Gone, Rests, Open
  <1>4. CASE TurnCompletesUnsaved \/ TurnFails \/ TurnEndsPaused
    BY <1>4 DEF TurnCompletesUnsaved, Paused, TurnFails, FailedTurn, Gone, Releases, Failed,
         TurnEndsPaused, Rests
  <1>5. CASE AskRaise
    <2>1. answer # "save" /\ (Open => carries = decision)
      BY <1>5, Parts, NotLate DEF AskRaise
    <2> QED BY <1>5, <2>1 DEF AskRaise, Open
  <1>6. CASE AskSubmit
    <2>1. answer # "save" /\ (Open => carries = decision)
      BY <1>6, Parts, NotLate DEF AskSubmit
    <2> QED BY <1>6, <2>1 DEF AskSubmit, Open
  <1>7. CASE AskEnters \/ AskPersist \/ AskExpose \/ AskExposeUnsaved \/ AskFails
    BY <1>7 DEF AskEnters, Locked, AskPersist, AskExpose, Gone, Releases, AskExposeUnsaved,
         AskFails, FailedTurn, Failed
  <1>8. CASE AnswerRecord
    <2>1. ask # "lock"
      BY <1>8, Parts, NotLate
    <2> QED BY <1>8, <2>1 DEF AnswerRecord, Locked
  <1>9. CASE AnswerSave
    BY <1>9 DEF AnswerSave, Open
  <1>10. CASE AnswerFails \/ AnswerHands \/ AnswerHandFails \/ AnswerClears \/ AnswerAgain
    BY <1>10 DEF AnswerFails, AnswerHands, StartedFor, Elevates, AnswerHandFails, Gone, Failed,
         AnswerClears, AnswerAgain, Locked, Open
  <1>11. CASE DeliverSteers
    BY <1>11 DEF DeliverSteers, Eligible, Steerable, Open
  <1>12. CASE DeliverInterrupts
    BY <1>12 DEF DeliverInterrupts, Eligible
  <1>13. CASE DeliverCollects
    BY <1>13 DEF DeliverCollects, Eligible, Locked, Prepares, Open, IdleIfPrepared
  <1>14. CASE DeliverDecides \/ DeliverFails
    BY <1>14 DEF DeliverDecides, Eligible, Locked, Prepares, Open, IdleIfPrepared, DeliverFails,
         Errs, DeliverGives
  <1>15. CASE DeliverClaims \/ HandStarts \/ HandBinds \/ HandFails \/ StopRequest
    BY <1>15 DEF DeliverClaims, Open, HandStarts, StartedFor, HandBinds, DeliverGives,
         HandFails, Gone, Releases, Failed, StopRequest
  <1>16. CASE StopEnter
    BY <1>16 DEF StopEnter, Locked, Withdraw, StopWithdraws, Open
  <1>17. CASE StopCommits
    BY <1>17 DEF StopCommits, Gone, Releases, Rests
  <1>18. CASE Exit
    BY <1>18 DEF Exit
  <1>19. CASE Down \/ Die
    BY <1>19 DEF Down, Forgets, DeliverGives, Gone, Die
  <1>20. CASE Boot \/ UNCHANGED vars
    BY <1>20 DEF Boot, vars
  <1> QED BY Cases, <1>1, <1>2, <1>3, <1>4, <1>5, <1>6, <1>7, <1>8, <1>9, <1>10, <1>11, <1>12,
         <1>13, <1>14, <1>15, <1>16, <1>17, <1>18, <1>19, <1>20

(* The answer itself. *)
LEMMA KeptStep ==
  ASSUME Base, Recorded, Cleared, Replaced, AnswerIsKept, budget'["late"] = budget["late"],
         budget'["change"] = budget["change"], [Next]_vars
  PROVE  AnswerIsKept'
  <1> USE DEF AnswerIsKept, Base, TInv, Apart, Off, Heard, Open, inboxVars, humanVars,
          shownVars, execVars, askVars, deliverVars, daemonVars, pastVars
  <1>1. CASE \E m \in Msg : Accept(m)
    BY <1>1 DEF Accept
  <1>2. CASE DirectSend
    BY <1>2 DEF DirectSend, StartedFor
  <1>3. CASE TurnCompletes
    BY <1>3 DEF TurnCompletes, Paused, Gone, Rests
  <1>4. CASE TurnCompletesUnsaved
    BY <1>4 DEF TurnCompletesUnsaved, Paused
  <1>5. CASE TurnFails \/ TurnEndsPaused
    BY <1>5 DEF TurnFails, Paused, FailedTurn, Gone, Releases, Failed, TurnEndsPaused, Rests
  <1>6. CASE AskRaise \/ AskSubmit \/ AskEnters
    BY <1>6 DEF AskRaise, Raises, AskSubmit, Locked, AskEnters
  <1>7. CASE AskPersist
    BY <1>7 DEF AskPersist, Replaced
  <1>8. CASE AskExpose \/ AskExposeUnsaved \/ AskFails
    BY <1>8 DEF AskExpose, Gone, Releases, AskExposeUnsaved, AskFails, FailedTurn, Failed
  <1>9. CASE AnswerRecord
    <2>1. ask # "lock"
      BY <1>9, Parts, NotLate DEF Base, TInv
    <2>2. PICK a \in Answers : /\ chat[card] \in {"none", a}
                               /\ outcome' = [outcome EXCEPT ![card] = a]
                               /\ chat' = IF chat[card] = "none" THEN [chat EXCEPT ![card] = a] ELSE chat
                               /\ answer' = IF kind[card] = "question" \/ InboxUsed THEN "save"
                                            ELSE IF a = "allow" THEN "hand" ELSE "clear"
      BY <1>9, <2>1, Parts, NotChanged DEF Base, TInv
    <2>3. card \in Req /\ card \notin answered /\ card \in DOMAIN outcome /\ answered \subseteq Req
      BY <1>9, Parts DEF AnswerRecord, Requests, Decisions, PendingIsShown, Asked, Locked
    <2>4. \A r \in answered : outcome'[r] = outcome[r]
      BY <2>2, <2>3, Parts DEF Decisions
    <2>5. \A r \in answered : chat'[r] = outcome'[r]
      <3>1. Recorded'
        BY RecordedStep
      <3> QED BY <3>1 DEF Recorded
    <2> QED BY <1>9, <2>4, <2>5 DEF AnswerRecord
  <1>10. CASE AnswerSave
    <2>1. ~Open /\ chat[card] = outcome[card]
      BY <1>10 DEF AnswerSave, PendingIsShown, Asked, Recorded
    <2>2. card # NoReq /\ UNCHANGED <<chat, outcome, told, canceled>>
          /\ answered' = answered \cup {card} /\ decision' = card /\ done' = FALSE
      BY <1>10 DEF AnswerSave
    <2>3. NoReq \notin answered
      BY Parts DEF Requests, Req, NoReq
    <2> QED BY <2>1, <2>2, <2>3
  <1>11. CASE AnswerFails \/ AnswerHands \/ AnswerHandFails
    BY <1>11 DEF AnswerFails, AnswerHands, StartedFor, Elevates, AnswerHandFails, Gone, Failed
  <1>12. CASE AnswerClears
    <2>1. (outcome[card] = "deny" \/ card \in told) /\ chat[card] = outcome[card]
      BY <1>12 DEF AnswerClears, Cleared, Recorded
    <2> QED BY <1>12, <2>1 DEF AnswerClears
  <1>13. CASE \/ AnswerAgain \/ DeliverSteers
              \/ DeliverInterrupts \/ DeliverCollects \/ DeliverDecides
    BY <1>13 DEF AnswerAgain, Locked, DeliverSteers, Eligible, Steerable, DeliverInterrupts,
         DeliverCollects, Prepares, IdleIfPrepared, DeliverDecides
  <1>14. CASE DeliverFails \/ DeliverClaims \/ HandStarts \/ HandBinds \/ HandFails
    BY <1>14 DEF DeliverFails, Errs, DeliverGives, DeliverClaims, HandStarts, StartedFor,
         HandBinds, HandFails, Gone, Releases, Failed
  <1>15. CASE StopRequest
    BY <1>15 DEF StopRequest
  <1>16. CASE StopEnter
    BY <1>16 DEF StopEnter, Locked, Withdraw, StopWithdraws
  <1>17. CASE StopCommits
    BY <1>17 DEF StopCommits, Gone, Releases, Rests
  <1>18. CASE Exit \/ Down
    BY <1>18 DEF Exit, Down, Forgets, DeliverGives, Gone
  <1>19. CASE Die \/ Boot \/ UNCHANGED vars
    BY <1>19 DEF Die, Forgets, DeliverGives, Gone, Boot, vars
  <1> QED BY Cases, <1>1, <1>2, <1>3, <1>4, <1>5, <1>6, <1>7, <1>8, <1>9, <1>10, <1>11, <1>12,
         <1>13, <1>14, <1>15, <1>16, <1>17, <1>18, <1>19

LEMMA KeepsStep ==
  Base /\ Keeps /\ [Next]_vars /\ budget'["late"] = budget["late"]
  /\ budget'["change"] = budget["change"] => Keeps'
  BY RecordedStep, ClearedStep, ReplacedStep, KeptStep, Zenon DEF Keeps

(* An acknowledged answer stays in the chat as it was given, and stays the open decision
   until an agent was told: no second request, failed turn, stop, crash or restart loses
   it, as long as no agent asks while it has not heard the answer and no answer is
   changed (manager.rs, respond_permission and stop_agent_for_interaction). *)
THEOREM AnswersAreKept == Spec /\ NoneLate => []AnswerIsKept
  <1>1. Init => Keeps
    BY DEF Init, Keeps, Recorded, Cleared, Replaced, AnswerIsKept
  <1>2. Keeps => AnswerIsKept
    BY DEF Keeps
  <1>3. Base /\ Keeps /\ [Next]_vars
        /\ [budget'["late"] = budget["late"] /\ budget'["change"] = budget["change"]]_vars => Keeps'
    <2>1. ASSUME Base, Keeps, vars' = vars PROVE Keeps'
      BY <2>1, KeepsStep DEF vars
    <2> QED BY <2>1, KeepsStep
  <1> QED BY <1>1, <1>2, <1>3, BaseHolds, PTL DEF Spec, NoneLate

-----------------------------------------------------------------------------
(* Without a direct send past a card: behind a card works a consultation at most. *)
LEMMA StoppedStep ==
  ASSUME Base, Stopped, DirectSend => card = NoReq, [Next]_vars
  PROVE  Stopped'
  <1> USE DEF Stopped, Base, TInv, Apart, Off, PendingIsShown, Asked, NoReq, inboxVars,
          humanVars, shownVars, execVars, askVars, deliverVars, daemonVars, pastVars
  <1>1. CASE \E m \in Msg : Accept(m)
    BY <1>1 DEF Accept
  <1>2. CASE DirectSend
    BY <1>2 DEF DirectSend
  <1>3. CASE TurnCompletes \/ TurnCompletesUnsaved \/ TurnFails \/ TurnEndsPaused \/ AskRaise
    BY <1>3 DEF TurnCompletes, Paused, Gone, Rests, TurnCompletesUnsaved, TurnFails, FailedTurn,
         Releases, Failed, TurnEndsPaused, AskRaise, Raises, Open
  <1>4. CASE AskSubmit \/ AskEnters \/ AskPersist \/ AskExpose \/ AskExposeUnsaved
    BY <1>4 DEF AskSubmit, Raises, Locked, Open, AskEnters, AskPersist, AskExpose, Gone,
         Releases, AskExposeUnsaved
  <1>5. CASE AskFails \/ AnswerRecord \/ AnswerSave \/ AnswerFails \/ AnswerHands
    BY <1>5 DEF AskFails, FailedTurn, Gone, Releases, Failed, AnswerRecord, Locked, Answers,
         AnswerSave, AnswerFails, AnswerHands, StartedFor, Elevates
  <1>6. CASE AnswerHandFails \/ AnswerClears \/ AnswerAgain \/ DeliverSteers \/ DeliverInterrupts
    BY <1>6 DEF AnswerHandFails, Gone, Failed, AnswerClears, AnswerAgain, Locked, Open,
         DeliverSteers, Eligible, Steerable, DeliverInterrupts
  <1>7. CASE DeliverCollects \/ DeliverDecides \/ DeliverFails \/ DeliverClaims \/ HandStarts
    BY <1>7 DEF DeliverCollects, Eligible, Locked, Prepares, Open, IdleIfPrepared,
         DeliverDecides, DeliverFails, Errs, DeliverGives, DeliverClaims, HandStarts, StartedFor
  <1>8. CASE HandBinds
    <2>1. UNCHANGED <<card, answer, consult, carries>> /\ exec = "starting"
      BY <1>8, Parts DEF HandBinds, Phases, Handing
    <2> QED BY <2>1
  <1>9. CASE HandFails \/ StopRequest \/ StopEnter \/ StopCommits \/ Exit
    BY <1>9 DEF HandFails, DeliverGives, Gone, Releases, Failed, StopRequest, StopEnter, Locked,
         Withdraw, StopWithdraws, Open, StopCommits, Rests, Exit
  <1>10. CASE Down \/ Die \/ Boot \/ UNCHANGED vars
    BY <1>10 DEF Down, Forgets, DeliverGives, Gone, Die, Boot, vars
  <1> QED BY Cases, <1>1, <1>2, <1>3, <1>4, <1>5, <1>6, <1>7, <1>8, <1>9, <1>10

(* Its process is in the ordinary mode. *)
LEMMA QuietStep ==
  ASSUME Base, Stopped, Quiet, DirectSend => card = NoReq, [Next]_vars
  PROVE  Quiet'
  <1> USE DEF Quiet, Stopped, Base, TInv, Apart, Off, Handing, NoReq, inboxVars, humanVars,
          shownVars, execVars, askVars, deliverVars, daemonVars, pastVars
  <1>1. CASE \E m \in Msg : Accept(m)
    BY <1>1 DEF Accept
  <1>2. CASE DirectSend
    BY <1>2 DEF DirectSend
  <1>3. CASE TurnCompletes \/ TurnCompletesUnsaved \/ TurnFails \/ TurnEndsPaused \/ AskRaise
    BY <1>3 DEF TurnCompletes, Paused, Gone, Rests, TurnCompletesUnsaved, TurnFails, FailedTurn,
         Releases, Failed, TurnEndsPaused, AskRaise, Raises, Open
  <1>4. CASE AskSubmit \/ AskEnters \/ AskPersist \/ AskExpose \/ AskExposeUnsaved
    BY <1>4 DEF AskSubmit, Raises, Locked, Open, AskEnters, AskPersist, AskExpose, Gone,
         Releases, AskExposeUnsaved
  <1>5. CASE AskFails \/ AnswerRecord \/ AnswerSave \/ AnswerFails \/ AnswerHands
    BY <1>5 DEF AskFails, FailedTurn, Gone, Releases, Failed, AnswerRecord, Locked, Answers,
         AnswerSave, AnswerFails, AnswerHands, StartedFor, Elevates
  <1>6. CASE AnswerHandFails \/ AnswerClears \/ AnswerAgain \/ DeliverSteers \/ DeliverInterrupts
    BY <1>6 DEF AnswerHandFails, Gone, Failed, AnswerClears, AnswerAgain, Locked, Open,
         DeliverSteers, Eligible, Steerable, DeliverInterrupts
  <1>7. CASE DeliverCollects \/ DeliverDecides \/ DeliverFails \/ DeliverClaims
    BY <1>7 DEF DeliverCollects, Eligible, Locked, Prepares, Open, IdleIfPrepared,
         DeliverDecides, DeliverFails, Errs, DeliverGives, DeliverClaims
  <1>8. CASE HandStarts
    <2>1. exec = "starting"
      BY <1>8, Parts DEF HandStarts, Phases
    <2> QED BY <1>8, <2>1 DEF HandStarts, StartedFor, Elevates
  <1>9. CASE HandBinds
    <2>1. UNCHANGED <<card, answer, proc>> /\ exec' = "running"
      BY <1>9 DEF HandBinds
    <2> QED BY <2>1
  <1>10. CASE HandFails \/ StopRequest \/ StopEnter \/ StopCommits \/ Exit
    BY <1>10 DEF HandFails, DeliverGives, Gone, Releases, Failed, StopRequest, StopEnter,
         Locked, Withdraw, StopWithdraws, Open, StopCommits, Rests, Exit
  <1>11. CASE Down \/ Die \/ Boot \/ UNCHANGED vars
    BY <1>11 DEF Down, Forgets, DeliverGives, Gone, Die, Boot, vars
  <1> QED BY Cases, <1>1, <1>2, <1>3, <1>4, <1>5, <1>6, <1>7, <1>8, <1>9, <1>10, <1>11

(* What a request grants is settled when it is raised and answered. *)
LEMMA Settled ==
  ASSUME Base, [Next]_vars
  PROVE  /\ ~AnswerRecord => \A r \in 0 .. last : Elevates(r)' = Elevates(r)
         /\ \A r \in answered \cup {NoReq} : Elevates(r)' = Elevates(r)
  <1>1. Messages /\ Requests /\ Decisions /\ Phases /\ Flags /\ Numbered /\ MaxReq \in Nat
    BY Parts, PauseAssumption, Zenon DEF Base, TInv
  <1>2. UNCHANGED <<kind, outcome>> \/ AskRaise \/ AskSubmit \/ AnswerRecord
    <2> USE DEF inboxVars, humanVars, shownVars, execVars, askVars, deliverVars, daemonVars, pastVars
    <2>1. CASE \E m \in Msg : Accept(m)
      BY <2>1 DEF Accept
    <2>2. CASE DirectSend
      BY <2>2 DEF DirectSend
    <2>3. CASE TurnCompletes
      BY <2>3 DEF TurnCompletes
    <2>4. CASE TurnCompletesUnsaved
      BY <2>4 DEF TurnCompletesUnsaved
    <2>5. CASE TurnFails
      BY <2>5 DEF TurnFails
    <2>6. CASE TurnEndsPaused
      BY <2>6 DEF TurnEndsPaused
    <2>7. CASE AskEnters
      BY <2>7 DEF AskEnters
    <2>8. CASE AskPersist
      BY <2>8 DEF AskPersist
    <2>9. CASE AskExpose
      BY <2>9 DEF AskExpose
    <2>10. CASE AskExposeUnsaved
      BY <2>10 DEF AskExposeUnsaved
    <2>11. CASE AskFails
      BY <2>11 DEF AskFails
    <2>12. CASE AnswerSave
      BY <2>12 DEF AnswerSave
    <2>13. CASE AnswerFails
      BY <2>13 DEF AnswerFails
    <2>14. CASE AnswerHands
      BY <2>14 DEF AnswerHands
    <2>15. CASE AnswerHandFails
      BY <2>15 DEF AnswerHandFails
    <2>16. CASE AnswerClears
      BY <2>16 DEF AnswerClears
    <2>17. CASE AnswerAgain
      BY <2>17 DEF AnswerAgain
    <2>18. CASE DeliverSteers
      BY <2>18 DEF DeliverSteers
    <2>19. CASE DeliverInterrupts
      BY <2>19 DEF DeliverInterrupts
    <2>20. CASE DeliverCollects
      BY <2>20 DEF DeliverCollects
    <2>21. CASE DeliverDecides
      BY <2>21 DEF DeliverDecides
    <2>22. CASE DeliverFails
      BY <2>22 DEF DeliverFails
    <2>23. CASE DeliverClaims
      BY <2>23 DEF DeliverClaims
    <2>24. CASE HandStarts
      BY <2>24 DEF HandStarts
    <2>25. CASE HandBinds
      BY <2>25 DEF HandBinds
    <2>26. CASE HandFails
      BY <2>26 DEF HandFails
    <2>27. CASE StopRequest
      BY <2>27 DEF StopRequest
    <2>28. CASE StopEnter
      BY <2>28 DEF StopEnter
    <2>29. CASE StopCommits
      BY <2>29 DEF StopCommits
    <2>30. CASE Exit
      BY <2>30 DEF Exit
    <2>31. CASE Down
      BY <2>31 DEF Down
    <2>32. CASE Die
      BY <2>32 DEF Die
    <2>33. CASE Boot
      BY <2>33 DEF Boot
    <2>34. CASE UNCHANGED vars
      BY <2>34 DEF vars
    <2> QED BY Cases, <2>1, <2>2, <2>3, <2>4, <2>5, <2>6, <2>7, <2>8, <2>9, <2>10, <2>11, <2>12,
           <2>13, <2>14, <2>15, <2>16, <2>17, <2>18, <2>19, <2>20, <2>21, <2>22, <2>23, <2>24,
           <2>25, <2>26, <2>27, <2>28, <2>29, <2>30, <2>31, <2>32, <2>33, <2>34
  <1>3. CASE UNCHANGED <<kind, outcome>>
    BY <1>3 DEF Elevates
  <1>4. CASE AskRaise \/ AskSubmit
    <2>1. UNCHANGED outcome /\ last < MaxReq /\ \E k \in {"tool", "question"} : kind' = [kind EXCEPT ![last + 1] = k]
      BY <1>4 DEF AskRaise, AskSubmit, Raises, humanVars
    <2>2. \A r \in 1 .. last : kind'[r] = kind[r] /\ outcome'[r] = outcome[r]
      BY <1>1, <2>1 DEF Decisions, Req
    <2>3. \A r \in 0 .. last : Elevates(r)' = Elevates(r)
      BY <1>1, <2>2 DEF Elevates, NoReq, Decisions
    <2> QED BY <1>1, <2>3 DEF Numbered, Decisions, NoReq
  <1>5. CASE AnswerRecord
    <2>1. card \in Req /\ card \notin answered
      BY <1>1, <1>5 DEF AnswerRecord, Locked, Base, PendingIsShown, Asked, Requests
    <2>2. UNCHANGED kind /\ \E a \in Answers : outcome' = [outcome EXCEPT ![card] = a]
      BY <1>5 DEF AnswerRecord, askVars
    <2>3. \A r \in answered : kind'[r] = kind[r] /\ outcome'[r] = outcome[r]
      BY <1>1, <2>1, <2>2 DEF Decisions, Requests
    <2> QED BY <1>5, <2>3 DEF Elevates
  <1> QED BY <1>2, <1>3, <1>4, <1>5

(* A process in the ordinary mode is gone before a grant is carried out. *)
LEMMA PreparedStep ==
  ASSUME Base, Stopped, Quiet, Prepared, Ready, DirectSend => card = NoReq,
         budget'["between"] = budget["between"], [Next]_vars
  PROVE  Prepared'
  <1> USE DEF Prepared, Open, NoReq, inboxVars, humanVars, shownVars, execVars, askVars,
          deliverVars, daemonVars, pastVars
  <1>a. Phases /\ \A r \in answered \cup {NoReq} : Elevates(r)' = Elevates(r)
    BY Settled, Parts DEF Base, TInv
  <1>b. decision \in answered \cup {NoReq} /\ carries \in answered \cup {NoReq}
    BY DEF Base, Asked
  <1> USE <1>a, <1>b DEF Elevates
  <1>1. CASE \E m \in Msg : Accept(m)
    BY <1>1 DEF Accept
  <1>2. CASE DirectSend
    <2>1. ~Open
      BY <1>2, Parts, NotBetween DEF Base, TInv
    <2> QED BY <1>2, <2>1 DEF DirectSend
  <1>3. CASE TurnCompletes \/ TurnCompletesUnsaved \/ TurnFails \/ TurnEndsPaused
    BY <1>3 DEF TurnCompletes, Paused, Gone, Rests, TurnCompletesUnsaved, TurnFails, FailedTurn,
         Releases, Failed, TurnEndsPaused
  <1>4. CASE AskRaise
    BY <1>4 DEF AskRaise, Raises, Open, Raises
  <1>5. CASE AskSubmit
    BY <1>5 DEF AskSubmit, Raises, Locked, Open, Raises
  <1>6. CASE AskEnters \/ AskPersist \/ AskExpose \/ AskExposeUnsaved \/ AskFails
    BY <1>6 DEF AskEnters, Locked, AskPersist, AskExpose, Gone, Releases, AskExposeUnsaved,
         AskFails, FailedTurn, Failed
  <1>7. CASE AnswerRecord
    BY <1>7 DEF AnswerRecord, Locked, Answers
  <1>8. CASE AnswerSave
    BY <1>8 DEF AnswerSave, Base, TInv, Apart, Phases, Handing, Quiet, Stopped
  <1>9. CASE AnswerFails
    BY <1>9 DEF AnswerFails
  <1>10. CASE AnswerHands
    BY <1>10 DEF AnswerHands, StartedFor, Elevates, Base, TInv, Apart, PendingIsShown, Asked
  <1>11. CASE AnswerHandFails \/ AnswerClears \/ AnswerAgain \/ DeliverSteers \/ DeliverInterrupts
    BY <1>11 DEF AnswerHandFails, Gone, Failed, AnswerClears, AnswerAgain, Locked,
         DeliverSteers, Eligible, Steerable, DeliverInterrupts
  <1>12. CASE DeliverCollects \/ DeliverDecides \/ DeliverFails \/ DeliverClaims
    BY <1>12 DEF DeliverCollects, Eligible, Locked, Prepares, IdleIfPrepared, DeliverDecides,
         DeliverFails, Errs, DeliverGives, DeliverClaims
  <1>13. CASE HandStarts
    BY <1>13 DEF HandStarts, StartedFor, Base, Handed, Phases, Handing
  <1>14. CASE HandBinds
    BY <1>14 DEF HandBinds, DeliverGives, Base, Phases, Handing
  <1>15. CASE HandFails \/ StopRequest \/ StopEnter \/ StopCommits \/ Exit
    BY <1>15 DEF HandFails, DeliverGives, Gone, Releases, Failed, StopRequest, StopEnter,
         Locked, Withdraw, StopWithdraws, StopCommits, Rests, Exit
  <1>16. CASE Down \/ Die \/ Boot \/ UNCHANGED vars
    BY <1>16 DEF Down, Forgets, DeliverGives, Gone, Die, Boot, vars
  <1> QED BY Cases, <1>1, <1>2, <1>3, <1>4, <1>5, <1>6, <1>7, <1>8, <1>9, <1>10, <1>11, <1>12,
         <1>13, <1>14, <1>15, <1>16

(* The turn of a grant is handed to a process that has it. *)
LEMMA ReadyStep ==
  ASSUME Base, Stopped, Quiet, Prepared, Ready, [Next]_vars
  PROVE  Ready'
  <1> USE DEF Ready, Handing, Phases, Base, TInv, Apart, inboxVars, humanVars, shownVars,
          execVars, askVars, deliverVars, daemonVars, pastVars
  <1>a. Phases /\ \A r \in answered \cup {NoReq} : Elevates(r)' = Elevates(r)
    BY Settled, Parts DEF Base, TInv
  <1>b. decision \in answered \cup {NoReq} /\ carries \in answered \cup {NoReq}
    BY DEF Base, Asked
  <1> USE <1>a, <1>b DEF Elevates
  <1>1. CASE \E m \in Msg : Accept(m)
    BY <1>1 DEF Accept
  <1>2. CASE DirectSend \/ TurnCompletes \/ TurnCompletesUnsaved \/ TurnFails \/ TurnEndsPaused
    BY <1>2 DEF DirectSend, StartedFor, TurnCompletes, Paused, Gone, Rests,
         TurnCompletesUnsaved, TurnFails, FailedTurn, Releases, Failed, TurnEndsPaused
  <1>3. CASE AskRaise \/ AskSubmit \/ AskEnters \/ AskPersist \/ AskExpose
    BY <1>3 DEF AskRaise, Raises, Open, AskSubmit, Locked, AskEnters, AskPersist, AskExpose,
         Gone, Releases
  <1>4. CASE AskExposeUnsaved \/ AskFails \/ AnswerRecord \/ AnswerSave \/ AnswerFails
    BY <1>4 DEF AskExposeUnsaved, AskFails, FailedTurn, Gone, Releases, Failed, AnswerRecord,
         Locked, Answers, AnswerSave, AnswerFails
  <1>5. CASE AnswerHands \/ AnswerHandFails \/ AnswerClears \/ AnswerAgain \/ DeliverSteers
    BY <1>5 DEF AnswerHands, StartedFor, Elevates, AnswerHandFails, Gone, Failed, AnswerClears,
         AnswerAgain, Locked, Open, DeliverSteers, Eligible, Steerable
  <1>6. CASE \/ DeliverInterrupts \/ DeliverCollects
             \/ DeliverDecides \/ DeliverFails \/ DeliverClaims
    BY <1>6 DEF DeliverInterrupts, Eligible, DeliverCollects, Locked, Prepares, Open,
         IdleIfPrepared, DeliverDecides, DeliverFails, Errs, DeliverGives, DeliverClaims
  <1>7. CASE HandStarts
    <2>1. exec = "starting" /\ proc \in {"none", "plain", "elevated"}
      BY <1>7, Parts DEF HandStarts, Flags
    <2> QED BY <1>7, <2>1 DEF HandStarts, StartedFor, Handed, Prepared, Open
  <1>8. CASE HandBinds \/ HandFails \/ StopRequest \/ StopEnter \/ StopCommits
    BY <1>8 DEF HandBinds, DeliverGives, HandFails, Gone, Releases, Failed, StopRequest,
         StopEnter, Locked, Withdraw, StopWithdraws, Open, StopCommits, Rests
  <1>9. CASE Exit \/ Down \/ Die \/ Boot \/ UNCHANGED vars
    BY <1>9 DEF Exit, Down, Forgets, DeliverGives, Gone, Die, Boot, vars
  <1> QED BY Cases, <1>1, <1>2, <1>3, <1>4, <1>5, <1>6, <1>7, <1>8, <1>9

(* It runs in that process. *)
LEMMA GrantedStep ==
  ASSUME Base, Stopped, Quiet, Prepared, Ready, Granted, [Next]_vars
  PROVE  Granted'
  <1> USE DEF Granted, Phases, Handing, NoReq, inboxVars, humanVars, shownVars, execVars,
          askVars, deliverVars, daemonVars, pastVars
  <1>a. Phases /\ \A r \in answered \cup {NoReq} : Elevates(r)' = Elevates(r)
    BY Settled, Parts DEF Base, TInv
  <1>b. decision \in answered \cup {NoReq} /\ carries \in answered \cup {NoReq}
    BY DEF Base, Asked
  <1> USE <1>a, <1>b DEF Elevates
  <1>1. CASE \E m \in Msg : Accept(m)
    BY <1>1 DEF Accept
  <1>2. CASE DirectSend \/ TurnCompletes \/ TurnCompletesUnsaved \/ TurnFails \/ TurnEndsPaused
    BY <1>2 DEF DirectSend, StartedFor, TurnCompletes, Paused, Gone, Rests,
         TurnCompletesUnsaved, TurnFails, FailedTurn, Releases, Failed, TurnEndsPaused
  <1>3. CASE AskRaise \/ AskSubmit \/ AskEnters \/ AskPersist \/ AskExpose
    BY <1>3 DEF AskRaise, Raises, Open, AskSubmit, Locked, AskEnters, AskPersist, AskExpose,
         Gone, Releases
  <1>4. CASE AskExposeUnsaved \/ AskFails \/ AnswerRecord \/ AnswerSave \/ AnswerFails
    BY <1>4 DEF AskExposeUnsaved, AskFails, FailedTurn, Gone, Releases, Failed, AnswerRecord,
         Locked, Answers, AnswerSave, AnswerFails
  <1>5. CASE AnswerHands \/ AnswerHandFails \/ AnswerClears \/ AnswerAgain \/ DeliverSteers
    BY <1>5 DEF AnswerHands, StartedFor, Elevates, AnswerHandFails, Gone, Failed, AnswerClears,
         AnswerAgain, Locked, Open, DeliverSteers, Eligible, Steerable
  <1>6. CASE \/ DeliverInterrupts \/ DeliverCollects
             \/ DeliverDecides \/ DeliverFails \/ DeliverClaims
    BY <1>6 DEF DeliverInterrupts, Eligible, DeliverCollects, Locked, Prepares, Open,
         IdleIfPrepared, DeliverDecides, DeliverFails, Errs, DeliverGives, DeliverClaims
  <1>7. CASE HandStarts
    BY <1>7 DEF HandStarts, StartedFor
  <1>8. CASE HandBinds
    BY <1>8 DEF HandBinds, DeliverGives, Ready
  <1>9. CASE HandFails \/ StopRequest \/ StopEnter \/ StopCommits \/ Exit
    BY <1>9 DEF HandFails, DeliverGives, Gone, Releases, Failed, StopRequest, StopEnter, Locked,
         Withdraw, StopWithdraws, Open, StopCommits, Rests, Exit
  <1>10. CASE Down \/ Die \/ Boot \/ UNCHANGED vars
    BY <1>10 DEF Down, Forgets, DeliverGives, Gone, Die, Boot, vars
  <1> QED BY Cases, <1>1, <1>2, <1>3, <1>4, <1>5, <1>6, <1>7, <1>8, <1>9, <1>10

(* What a process was started for stays known as long as it is there. *)
LEMMA CarriedOn ==
  ASSUME Base, [Next]_vars
  PROVE  proc' # "elevated" \/ (told \cup {carries}) \ {NoReq} \subseteq told' \cup {carries'}
  <1> USE DEF Base, Heard, NoReq, inboxVars, humanVars, shownVars, execVars, askVars,
          deliverVars, daemonVars, pastVars
  <1>a. Phases
    BY Parts DEF TInv
  <1> USE <1>a DEF Phases
  <1>1. CASE \E m \in Msg : Accept(m)
    BY <1>1 DEF Accept
  <1>2. CASE DirectSend \/ TurnCompletes \/ TurnCompletesUnsaved \/ TurnFails \/ TurnEndsPaused
    BY <1>2 DEF DirectSend, StartedFor, TurnCompletes, Paused, Gone, Rests,
         TurnCompletesUnsaved, TurnFails, FailedTurn, Releases, Failed, TurnEndsPaused
  <1>3. CASE AskRaise \/ AskSubmit \/ AskEnters \/ AskPersist \/ AskExpose
    BY <1>3 DEF AskRaise, Raises, Open, AskSubmit, Locked, AskEnters, AskPersist, AskExpose,
         Gone, Releases
  <1>4. CASE AskExposeUnsaved \/ AskFails \/ AnswerRecord \/ AnswerSave \/ AnswerFails
    BY <1>4 DEF AskExposeUnsaved, AskFails, FailedTurn, Gone, Releases, Failed, AnswerRecord,
         Locked, Answers, AnswerSave, AnswerFails
  <1>5. CASE AnswerHands \/ AnswerHandFails \/ AnswerClears \/ AnswerAgain \/ DeliverSteers
    BY <1>5 DEF AnswerHands, StartedFor, Elevates, AnswerHandFails, Gone, Failed, AnswerClears,
         AnswerAgain, Locked, Open, DeliverSteers, Eligible, Steerable
  <1>6. CASE DeliverInterrupts \/ DeliverCollects \/ DeliverDecides \/ DeliverFails
    BY <1>6 DEF DeliverInterrupts, Eligible, DeliverCollects, Locked, Prepares, Open,
         IdleIfPrepared, DeliverDecides, DeliverFails, Errs, DeliverGives
  <1>7. CASE DeliverClaims
    BY <1>7 DEF DeliverClaims, Open, TInv, Off
  <1>8. CASE HandStarts \/ HandBinds \/ HandFails \/ StopRequest \/ StopEnter
    BY <1>8 DEF HandStarts, StartedFor, HandBinds, DeliverGives, HandFails, Gone, Releases,
         Failed, StopRequest, StopEnter, Locked, Withdraw, StopWithdraws, Open
  <1>9. CASE StopCommits \/ Exit \/ Down \/ Die \/ Boot
    BY <1>9 DEF StopCommits, Gone, Releases, Rests, Exit, Down, Forgets, DeliverGives, Die, Boot
  <1>10. CASE UNCHANGED vars
    BY <1>10 DEF vars
  <1> QED BY Cases, <1>1, <1>2, <1>3, <1>4, <1>5, <1>6, <1>7, <1>8, <1>9, <1>10

(* A process is started elevated for the grant it is told. *)
LEMMA ElevatedFor ==
  ASSUME proc # "elevated", proc' = "elevated", [Next]_vars
  PROVE  (HandStarts /\ Elevates(carries)) \/ (AnswerHands /\ Elevates(card))
  <1> USE DEF NoReq, inboxVars, humanVars, shownVars, execVars, askVars, deliverVars,
          daemonVars, pastVars
  <1>1. CASE \E m \in Msg : Accept(m)
    BY <1>1 DEF Accept
  <1>2. CASE DirectSend
    BY <1>2 DEF DirectSend, StartedFor, Elevates
  <1>3. CASE TurnCompletes \/ TurnCompletesUnsaved \/ TurnFails \/ TurnEndsPaused \/ AskRaise
    BY <1>3 DEF TurnCompletes, Paused, Gone, Rests, TurnCompletesUnsaved, TurnFails, FailedTurn,
         Releases, Failed, TurnEndsPaused, AskRaise, Raises, Open
  <1>4. CASE AskSubmit \/ AskEnters \/ AskPersist \/ AskExpose \/ AskExposeUnsaved
    BY <1>4 DEF AskSubmit, Raises, Locked, Open, AskEnters, AskPersist, AskExpose, Gone,
         Releases, AskExposeUnsaved
  <1>5. CASE AskFails \/ AnswerRecord \/ AnswerSave \/ AnswerFails \/ AnswerHands
    BY <1>5 DEF AskFails, FailedTurn, Gone, Releases, Failed, AnswerRecord, Locked, Answers,
         AnswerSave, AnswerFails, AnswerHands, StartedFor, Elevates
  <1>6. CASE AnswerHandFails \/ AnswerClears \/ AnswerAgain \/ DeliverSteers \/ DeliverInterrupts
    BY <1>6 DEF AnswerHandFails, Gone, Failed, AnswerClears, AnswerAgain, Locked, Open,
         DeliverSteers, Eligible, Steerable, DeliverInterrupts
  <1>7. CASE DeliverCollects \/ DeliverDecides \/ DeliverFails \/ DeliverClaims \/ HandStarts
    BY <1>7 DEF DeliverCollects, Eligible, Locked, Prepares, Open, IdleIfPrepared,
         DeliverDecides, DeliverFails, Errs, DeliverGives, DeliverClaims, HandStarts, StartedFor
  <1>8. CASE HandBinds \/ HandFails \/ StopRequest \/ StopEnter \/ StopCommits
    BY <1>8 DEF HandBinds, DeliverGives, HandFails, Gone, Releases, Failed, StopRequest,
         StopEnter, Locked, Withdraw, StopWithdraws, Open, StopCommits, Rests
  <1>9. CASE Exit \/ Down \/ Die \/ Boot \/ UNCHANGED vars
    BY <1>9 DEF Exit, Down, Forgets, DeliverGives, Gone, Die, Boot, vars
  <1> QED BY Cases, <1>1, <1>2, <1>3, <1>4, <1>5, <1>6, <1>7, <1>8, <1>9

(* So an elevated process has a grant. *)
LEMMA WarrantedStep ==
  ASSUME Base, Quiet, Warranted, [Next]_vars
  PROVE  Warranted'
  <1> SUFFICES ASSUME proc' = "elevated" PROVE \E r \in told' \cup {carries'} : Elevates(r)'
    BY Zenon DEF Warranted
  <1>1. told \cup {carries} \subseteq 0 .. last /\ card \in 0 .. last
    BY DEF Base, TInv, Numbered
  <1>2. ~AnswerRecord => \A r \in 0 .. last : Elevates(r)' = Elevates(r)
    BY Settled
  <1>3. CASE proc = "elevated"
    <2>1. ~AnswerRecord
      <3>1. AnswerRecord => answer = "idle" /\ card # NoReq
        BY DEF AnswerRecord, Locked
      <3> QED BY <1>3, <3>1 DEF Quiet
    <2>2. PICK r \in told \cup {carries} : Elevates(r)
      BY <1>3, Zenon DEF Warranted
    <2>3. r # NoReq /\ Elevates(r)'
      BY <1>1, <1>2, <2>1, <2>2 DEF Elevates
    <2>4. r \in told' \cup {carries'}
      BY <1>3, <2>2, <2>3, CarriedOn
    <2> QED BY <2>3, <2>4
  <1>4. CASE proc # "elevated"
    <2>1. CASE HandStarts /\ Elevates(carries)
      <3>1. carries' = carries /\ ~AnswerRecord
        BY <2>1 DEF HandStarts, AnswerRecord, Handing, deliverVars
      <3> QED BY <1>1, <1>2, <2>1, <3>1
    <2>2. CASE AnswerHands /\ Elevates(card)
      <3>1. card \in told' /\ ~AnswerRecord
        BY <2>2 DEF AnswerHands, AnswerRecord, Locked
      <3> QED BY <1>1, <1>2, <2>2, <3>1
    <2> QED BY <1>4, <2>1, <2>2, ElevatedFor
  <1> QED BY <1>3, <1>4

LEMMA GrantsStep ==
  Base /\ Grants /\ [Next]_vars
    /\ budget'["over"] = budget["over"] /\ budget'["between"] = budget["between"] => Grants'
  <1> SUFFICES ASSUME Base, Grants, [Next]_vars, budget'["over"] = budget["over"],
                      budget'["between"] = budget["between"]
               PROVE  Grants'
    OBVIOUS
  <1>1. DirectSend => card = NoReq
    BY NotOver, Parts DEF Base, TInv
  <1> QED
    BY <1>1, StoppedStep, QuietStep, PreparedStep, ReadyStep, GrantedStep, WarrantedStep, Zenon
    DEF Grants

LEMMA GrantsHold == Spec /\ NoneOver /\ NoneBetween => []Grants
  <1>1. Init => Grants
    BY DEF Init, Grants, Stopped, Quiet, Prepared, Ready, Granted, Warranted, Open, NoReq
  <1>2. Base /\ Grants /\ [Next]_vars /\ [budget'["over"] = budget["over"]]_vars
        /\ [budget'["between"] = budget["between"]]_vars => Grants'
    <2>1. ASSUME Base, Grants, vars' = vars PROVE Grants'
      BY <2>1, GrantsStep DEF vars
    <2> QED BY <2>1, GrantsStep
  <1> QED BY <1>1, <1>2, BaseHolds, PTL DEF Spec, NoneOver, NoneBetween

(* A granted permission is carried out by a process started with it, and no other answer
   starts one, as long as nobody sends without a message id past the card or before the
   decision is carried out: ensure_started takes a process that is there as it is
   (manager.rs). *)
THEOREM GrantsAreApplied == Spec /\ NoneOver /\ NoneBetween => []GrantIsApplied
  <1>1. Grants => GrantIsApplied
    BY DEF Grants, Granted, Warranted, GrantIsApplied
  <1> QED BY <1>1, GrantsHold, PTL
-----------------------------------------------------------------------------
(* If every save succeeds, a card keeps the status that says it waits. *)
LEMMA GuardedStep ==
  ASSUME Base, Stopped, Guarded, Alone, budget'["saveFail"] = budget["saveFail"], [Next]_vars
  PROVE  Guarded'
  <1> USE DEF Guarded, Base, TInv, Apart, Off, PendingIsShown, Asked, NoReq, inboxVars,
          humanVars, shownVars, execVars, askVars, deliverVars, daemonVars, pastVars
  <1>a. ~Spend("saveFail")
    BY Spent, Parts DEF Kinds
  <1>b. card # NoReq => ~Open
    BY DEF Open
  <1>1. CASE \E m \in Msg : Accept(m)
    BY <1>1 DEF Accept
  <1>2. CASE DirectSend \/ TurnCompletes \/ TurnFails \/ TurnEndsPaused \/ AskRaise
    BY <1>2 DEF DirectSend, TurnCompletes, Gone, Rests, TurnFails, FailedTurn, Failed,
         TurnEndsPaused, AskRaise
  <1>3. CASE TurnCompletesUnsaved \/ AskExposeUnsaved \/ AnswerFails
    BY <1>3, <1>a, Zenon DEF TurnCompletesUnsaved, AskExposeUnsaved, AnswerFails
  <1>4. CASE AskSubmit \/ AskEnters \/ AskPersist \/ AskExpose \/ AskFails
    BY <1>4 DEF AskSubmit, AskEnters, AskPersist, AskExpose, Gone, AskFails, FailedTurn, Failed
  <1>5. CASE AnswerRecord \/ AnswerSave \/ AnswerHands
    BY <1>5 DEF AnswerRecord, AnswerSave, AnswerHands
  <1>6. CASE AnswerHandFails \/ AnswerClears \/ AnswerAgain \/ DeliverSteers \/ DeliverInterrupts
    BY <1>6, <1>b DEF AnswerHandFails, Gone, Failed, AnswerClears, AnswerAgain, DeliverSteers,
         DeliverInterrupts
  <1>7. CASE DeliverCollects \/ DeliverDecides \/ DeliverClaims \/ HandStarts
    BY <1>7, <1>b DEF DeliverCollects, IdleIfPrepared, DeliverDecides, DeliverClaims, HandStarts
  <1>8. CASE DeliverFails
    BY <1>8, <1>b DEF DeliverFails, Errs, DeliverGives, Alone
  <1>9. CASE HandBinds \/ StopRequest \/ Exit
    BY <1>9 DEF HandBinds, StopRequest, Exit
  <1>10. CASE HandFails
    BY <1>10, <1>b DEF HandFails, Gone, Failed, Alone, Handing
  <1>11. CASE StopEnter \/ StopCommits
    BY <1>11 DEF StopEnter, Withdraw, StopCommits, Gone, Rests
  <1>12. CASE Down \/ Die \/ Boot \/ UNCHANGED vars
    BY <1>12 DEF Down, Forgets, Gone, Die, Boot, vars
  <1> QED BY Cases, <1>1, <1>2, <1>3, <1>4, <1>5, <1>6, <1>7, <1>8, <1>9, <1>10, <1>11, <1>12

(* A delivery keeps what it collected: interaction_lock is its own. *)
LEMMA AloneStep ==
  ASSUME Base, Alone, [Next]_vars
  PROVE  Alone'
  <1> USE DEF Alone, Base, TInv, Apart, Open, NoReq, inboxVars, humanVars, shownVars, execVars,
          askVars, deliverVars, daemonVars, pastVars
  <1>a. Phases
    BY Parts
  <1>1. CASE \E m \in Msg : Accept(m)
    BY <1>1 DEF Accept
  <1>2. CASE DirectSend \/ TurnCompletesUnsaved \/ TurnFails \/ TurnEndsPaused \/ AskRaise
    BY <1>2 DEF DirectSend, TurnCompletesUnsaved, TurnFails, FailedTurn, Gone, TurnEndsPaused,
         AskRaise
  <1>3. CASE TurnCompletes
    <2>1. deliver \in {"idle", "claim"} /\ UNCHANGED <<deliver, carry, decision>>
      BY <1>3, <1>a DEF TurnCompletes, Phases
    <2>2. deliver = "claim" => (done' <=> done) /\ carries' = NoReq
      BY <1>3 DEF TurnCompletes, Gone
    <2> QED BY <2>1, <2>2, Zenon
  <1>4. CASE AskSubmit \/ AskEnters \/ AskPersist \/ AskExpose \/ AskExposeUnsaved \/ AskFails
    BY <1>4 DEF AskSubmit, Locked, AskEnters, AskPersist, AskExpose, Gone, AskExposeUnsaved,
         AskFails, FailedTurn
  <1>5. CASE AnswerRecord \/ AnswerSave \/ AnswerFails \/ AnswerHands
    BY <1>5 DEF AnswerRecord, Locked, AnswerSave, AnswerFails, AnswerHands
  <1>6. CASE AnswerHandFails \/ AnswerClears \/ AnswerAgain \/ DeliverSteers \/ DeliverInterrupts
    BY <1>6 DEF AnswerHandFails, Gone, AnswerClears, AnswerAgain, DeliverSteers, Eligible,
         DeliverInterrupts
  <1>7. CASE DeliverCollects
    BY <1>7, <1>a DEF DeliverCollects, Phases
  <1>8. CASE DeliverDecides
    BY <1>8, <1>a DEF DeliverDecides, Prepares, Phases
  <1>9. CASE DeliverFails \/ DeliverClaims \/ HandStarts \/ HandBinds \/ HandFails
    BY <1>9 DEF DeliverFails, Errs, DeliverGives, DeliverClaims, HandStarts, HandBinds, HandFails
  <1>10. CASE StopRequest \/ StopEnter \/ StopCommits \/ Exit
    BY <1>10 DEF StopRequest, StopEnter, Locked, StopCommits, Gone, Exit
  <1>11. CASE Down \/ Die \/ Boot \/ UNCHANGED vars
    BY <1>11 DEF Down, Forgets, DeliverGives, Die, Boot, vars
  <1> QED BY Cases, <1>1, <1>2, <1>3, <1>4, <1>5, <1>6, <1>7, <1>8, <1>9, <1>10, <1>11

(* While a card waits no agent works but on a consultation, and what the agent was given
   before it asked is not handed over again, whatever is sent, stopped, cut off or cannot
   be delivered, as long as every save succeeds: a send without a message id is refused
   while the session waits (manager.rs, claim_execution). *)
THEOREM CardsStopWork == Spec /\ NoneUnsaved => []CardStopsWork
  <1>1. Init => Cards
    BY DEF Init, Cards, Stopped, Guarded, Alone, NoReq
  <1>2. Base /\ Cards /\ [Next]_vars /\ [budget'["saveFail"] = budget["saveFail"]]_vars => Cards'
    <2> SUFFICES ASSUME Base, Cards, [Next]_vars, budget'["saveFail"] = budget["saveFail"]
                 PROVE  Cards'
      BY DEF vars
    <2>1. DirectSend => card = NoReq
      BY DEF DirectSend, Cards, Guarded
    <2> QED BY <2>1, StoppedStep, GuardedStep, AloneStep, Zenon DEF Cards
  <1>3. Base /\ Cards => CardStopsWork
    BY DEF Base, Cards, Stopped, Marked, CardStopsWork
  <1> QED BY <1>1, <1>2, <1>3, BaseHolds, PTL DEF Spec, NoneUnsaved

(* It is that send alone that a failed save lets past the card: without it, the same
   holds whatever cannot be saved (manager.rs, finish_execution). *)
THEOREM CardsStopWorkUnlessOver == Spec /\ NoneOver => []CardStopsWork
  <1>1. Init => Stopped
    BY DEF Init, Stopped, NoReq
  <1>2. Base /\ Stopped /\ [Next]_vars /\ [budget'["over"] = budget["over"]]_vars => Stopped'
    <2> SUFFICES ASSUME Base, Stopped, [Next]_vars, budget'["over"] = budget["over"]
                 PROVE  Stopped'
      BY DEF vars
    <2>1. DirectSend => card = NoReq
      BY NotOver, Parts DEF Base, TInv
    <2> QED BY <2>1, StoppedStep
  <1>3. Base /\ Stopped => CardStopsWork
    BY DEF Base, Stopped, Marked, CardStopsWork
  <1> QED BY <1>1, <1>2, <1>3, BaseHolds, PTL DEF Spec, NoneOver
=============================================================================

------------------------- MODULE SessionInbox_proofs -------------------------
(***************************************************************************)
(* Proofs about SessionInbox, for any number of messages and turns and any *)
(* number of failures, exits and deaths.  What has to be added to the      *)
(* properties is what the daemon knows of the entries it is busy with: of  *)
(* the message being accepted (Body), of those a delivery has collected    *)
(* (Carried), of what an agent was given (Given) and of the turns entries  *)
(* were sent in (Numbered).                                                *)
(***************************************************************************)
EXTENDS SessionInbox, TLAPS

Queued == {"queued", "sent", "handled"}
Told == {"sent", "handled"}

(* An entry is queued only with its body in the log, and the one that is being
   accepted is queued by nobody else. *)
Body ==
  /\ \A m \in Msg : entry[m] \in Queued => m \in chat
  /\ acceptAt # "idle" => up /\ entry[accepting] = "receiving"
  /\ acceptAt = "queue" => accepting \in chat
  /\ AckedIsKept

(* What a delivery has collected, while it has it. *)
Carried ==
  /\ deliver \in {"idle", "refused", "lock"} => carry = {}
  /\ \A m \in carry : entry[m] \in Queued
  /\ deliver \in Handing => inputs = carry
  /\ deliver \in {"steering", "marked", "sent"} => \A m \in carry : entry[m] \in Told
  /\ deliver = "steering" => exec = "running"
  /\ exec = "running" => \A m \in inputs : entry[m] \in Told
  /\ ~up => deliver = "idle" /\ exec = "none"

(* What an agent was given, and what it may have been. *)
Known == offered \cup unheard \cup withdrawn
Given ==
  /\ \A m \in Msg : entry[m] \in Told => m \in Known \cup carry
  /\ deliver \in {"claim", "starting"} => \A m \in carry : entry[m] \in Told => m \in Known
  /\ deliver = "sent" => carry \subseteq offered
  /\ deliver = "steering" => carry \cap offered = {}
  /\ \A m \in offered : entry[m] \in Told
  /\ SentIsNotNew

(* A turn that runs has a number, ... *)
HasTurn == exec \in {"starting", "running"} => turn \in Turn
(* ... which is new when it begins. *)
Numbered ==
  /\ \A m \in Msg : turnOf[m] <= turn
  /\ exec = "starting" => \A m \in Msg : turnOf[m] # turn
  /\ exec = "running" => \A m \in Msg : entry[m] = "sent" /\ turnOf[m] = turn
                                          => m \in inputs \cup withdrawn

Types == TypeOK /\ HasTurn
Held == Carried /\ Given /\ Numbered
-----------------------------------------------------------------------------
LEMMA SetEntries ==
  ASSUME TypeOK, NEW E, NEW state \in EntryStates
  PROVE  /\ Set(E, state) \in [Msg -> EntryStates]
         /\ \A m \in Msg : Set(E, state)[m] = IF m \in E THEN state ELSE entry[m]
  BY DEF TypeOK, Set

LEMMA Spent == ASSUME TypeOK, NEW kind \in Kinds, Spend(kind) PROVE budget' \in [Kinds -> Nat]
  BY DEF TypeOK, Spend

LEMMA Begins ==
  ASSUME TypeOK, NEW phase, NEW ids, Claims(phase, ids)
  PROVE  /\ turn' = turn + 1 /\ turn' \in Turn /\ unsaved' = NoTurn /\ summed' \subseteq Turn
         /\ exec' = phase /\ inputs' = ids /\ exec \in {"none", "saving"}
  BY InboxAssumption DEF TypeOK, Claims, Flushed, Turn, NoTurn

LEMMA FlushType == TypeOK => Flushed \subseteq Turn
  BY DEF TypeOK, Flushed, NoTurn

LEMMA TypeInit == Init => TypeOK /\ HasTurn
  <1> SUFFICES ASSUME Init PROVE TypeOK /\ HasTurn
    OBVIOUS
  <1> USE DEF Init
  <1>1. agent \in Agents /\ budget \in [Kinds -> Nat]
    <2>1. PICK setting \in Settings : agent = setting[1] /\ budget = setting[2]
      OBVIOUS
    <2>2. setting \in Agents \X [Kinds -> Nat]
      BY InboxAssumption
    <2> QED BY <2>1, <2>2
  <1>2. entry \in [Msg -> EntryStates] /\ turnOf \in [Msg -> Turn \cup {NoTurn}]
    BY DEF EntryStates
  <1> QED BY <1>1, <1>2 DEF TypeOK, Handing, HasTurn

(* The types of a step, the moves of the senders first. *)
LEMMA SendersType == Types /\ (Senders \/ Accept) => Types'
  <1> SUFFICES ASSUME Types, Senders \/ Accept PROVE Types'
    OBVIOUS
  <1>0. TypeOK /\ HasTurn
    BY DEF Types
  <1> USE DEF pauseVars, ledgerVars, deliverVars, execVars, daemonVars, givenVars
  <1>1. ASSUME NEW m \in Msg, AcceptReserve(m) PROVE Types'
    <2>1. accepting' = m /\ acceptAt' = "append" /\ m # NoMsg
      BY <1>1, InboxAssumption DEF AcceptReserve
    <2>2. entry' \in [Msg -> EntryStates]
      BY <1>1, <1>0, SetEntries DEF AcceptReserve, EntryStates
    <2> QED BY <1>1, <2>1, <2>2 DEF AcceptReserve, TypeOK, Types, HasTurn
  <1>2. ASSUME NEW m \in Msg, AcceptResumes(m) PROVE Types'
    <2>1. accepting' = m /\ acceptAt' = "append" /\ m # NoMsg
      BY <1>2, InboxAssumption DEF AcceptResumes
    <2> QED BY <1>2, <2>1 DEF AcceptResumes, TypeOK, Types, HasTurn
  <1>3. ASSUME NEW m \in Msg, AcceptAgain(m) PROVE Types'
    BY <1>3 DEF AcceptAgain, TypeOK, Types, HasTurn
  <1>4. CASE AcceptFails
    <2>1. budget' \in [Kinds -> Nat]
      BY <1>4, <1>0, Spent DEF AcceptFails, Kinds
    <2> QED BY <1>4, <2>1 DEF AcceptFails, TypeOK, Types, HasTurn
  <1>5. CASE AcceptAppend
    BY <1>5 DEF AcceptAppend, TypeOK, Types, HasTurn
  <1>6. CASE AcceptQueue
    <2>1. entry' \in [Msg -> EntryStates]
      BY <1>6, <1>0, SetEntries DEF AcceptQueue, EntryStates
    <2>2. paused' \in BOOLEAN /\ onDisk' \in BOOLEAN
      BY <1>6, Zenon DEF AcceptQueue, TypeOK, Types, HasTurn
    <2> QED BY <1>6, <2>1, <2>2 DEF AcceptQueue, TypeOK, Types, HasTurn
  <1> QED BY <1>1, <1>2, <1>3, <1>4, <1>5, <1>6 DEF Senders, Accept

LEMMA AgentType == Types /\ (Agent \/ DirectSend \/ StopRequest \/ Stopping) => Types'
  <1> SUFFICES ASSUME TypeOK, HasTurn, Agent \/ DirectSend \/ StopRequest \/ Stopping PROVE Types'
    BY DEF Types
  <1> USE DEF pauseVars, ledgerVars, acceptVars, deliverVars, execVars, daemonVars, givenVars,
              Types, HasTurn
  <1>1. CASE TurnCompletes
    <2>1. entry' \in [Msg -> EntryStates]
      BY <1>1, SetEntries DEF TurnCompletes, EntryStates
    <2>2. deliver \notin Handing /\ exec' \notin {"starting", "running"}
      BY <1>1 DEF TurnCompletes, Ending, TypeOK, Idle
    <2>3. summed' \subseteq Turn
      BY <1>1 DEF TurnCompletes, Ending, TypeOK
    <2> QED BY <1>1, <2>1, <2>2, <2>3 DEF TurnCompletes, Idle, TypeOK
  <1>2. CASE TurnCompletesUnsaved
    <2>1. budget' \in [Kinds -> Nat]
      BY <1>2, Spent DEF TurnCompletesUnsaved, Kinds
    <2>2. summed' \subseteq Turn /\ unsaved' \in Turn \cup {NoTurn}
      BY <1>2 DEF TurnCompletesUnsaved, Ending, TypeOK
    <2> QED BY <1>2, <2>1, <2>2 DEF TurnCompletesUnsaved, Ending, TypeOK
  <1>3. CASE TurnFails
    <2>1. budget' \in [Kinds -> Nat]
      BY <1>3, Spent DEF TurnFails, Kinds
    <2>2. paused' \in BOOLEAN /\ onDisk' \in BOOLEAN
      BY <1>3, Zenon DEF TurnFails, TypeOK
    <2> QED BY <1>3, <2>1, <2>2 DEF TurnFails, Ending, Idle, TypeOK
  <1>4. CASE TurnFailsUnsaved
    <2>1. budget' \in [Kinds -> Nat]
      BY <1>4, Spent DEF TurnFailsUnsaved, Kinds
    <2> QED BY <1>4, <2>1 DEF TurnFailsUnsaved, Ending, TypeOK
  <1>5. CASE DirectSend
    <2>1. budget' \in [Kinds -> Nat]
      BY <1>5, Spent DEF DirectSend, Kinds
    <2>2. Claims("running", {})
      BY <1>5 DEF DirectSend
    <2> QED BY <1>5, <2>1, <2>2, Begins DEF DirectSend, Handing, TypeOK
  <1>6. CASE StopRequest
    <2>1. budget' \in [Kinds -> Nat]
      BY <1>6, Spent DEF StopRequest, Kinds
    <2> QED BY <1>6, <2>1 DEF StopRequest, TypeOK
  <1>7. CASE StopEnter
    BY <1>7 DEF StopEnter, Stopped, TypeOK
  <1>8. CASE StopCommits
    BY <1>8, FlushType DEF StopCommits, Idle, TypeOK
  <1> QED BY <1>1, <1>2, <1>3, <1>4, <1>5, <1>6, <1>7, <1>8 DEF Agent, Stopping

(* Entries whose steer is not taken are put back. *)
LEMMA PutBackType ==
  ASSUME Types, PutBack, unheard' \subseteq Msg, budget' \in [Kinds -> Nat] PROVE Types'
  <1>1. entry' \in [Msg -> EntryStates]
    BY SetEntries DEF PutBack, EntryStates, Types
  <1>2. turnOf' \in [Msg -> Turn \cup {NoTurn}]
    BY DEF PutBack, Types, TypeOK
  <1> QED
    BY <1>1, <1>2
    DEF PutBack, Ends, Handing, Types, HasTurn, TypeOK, pauseVars, acceptVars, daemonVars

LEMMA DeliveryType == Types /\ Delivery => Types'
  <1> SUFFICES ASSUME TypeOK, HasTurn, Delivery PROVE Types'
    BY DEF Types
  <1> USE DEF pauseVars, ledgerVars, acceptVars, deliverVars, execVars, daemonVars, givenVars,
              Types, HasTurn
  <1>1. CASE DeliverPromotes
    <2>1. entry' \in [Msg -> EntryStates]
      BY <1>1, SetEntries DEF DeliverPromotes, EntryStates
    <2> QED BY <1>1, <2>1 DEF DeliverPromotes, TypeOK
  <1>2. CASE DeliverSteers
    <2>1. Typed \subseteq Msg
      BY DEF Typed, In
    <2>2. entry' \in [Msg -> EntryStates]
      BY <1>2, SetEntries DEF DeliverSteers, EntryStates
    <2>3. turnOf' \in [Msg -> Turn \cup {NoTurn}]
      BY <1>2 DEF DeliverSteers, TypeOK
    <2>4. deliver \notin Handing
      BY <1>2 DEF DeliverSteers, Eligible, Handing
    <2> QED BY <1>2, <2>1, <2>2, <2>3, <2>4 DEF DeliverSteers, Handing, TypeOK
  <1>3. CASE SteerTaken
    BY <1>3 DEF SteerTaken, Ends, Handing, TypeOK
  <1>4. CASE DeliverInterrupts
    BY <1>4 DEF DeliverInterrupts, Ends, Stopped, Handing, TypeOK
  <1>5. CASE DeliverBegins
    BY <1>5 DEF DeliverBegins, Eligible, Ends, Handing, TypeOK
  <1>6. CASE DeliverCollects
    <2>1. /\ carry' \subseteq Msg /\ fresh' \subseteq carry' /\ deliver' \in {"idle", "claim"}
      BY <1>6 DEF DeliverCollects, Ends, Ready, In
    <2> QED BY <1>6, <2>1 DEF DeliverCollects, Handing, TypeOK
  <1>7. CASE DeliverClaims
    <2>1. Claims("starting", carry)
      BY <1>7 DEF DeliverClaims
    <2> QED BY <1>7, <2>1, Begins DEF DeliverClaims, Handing, TypeOK
  <1>8. CASE DeliverRefused
    BY <1>8 DEF DeliverRefused, Errs, Ends, Handing, TypeOK
  <1>9. CASE HandMark
    <2>1. entry' \in [Msg -> EntryStates]
      BY <1>9, SetEntries DEF HandMark, EntryStates
    <2> QED BY <1>9, <2>1 DEF HandMark, Handing, TypeOK
  <1>10. CASE HandSend
    BY <1>10 DEF HandSend, Handing, TypeOK
  <1>11. CASE HandBind
    <2>1. turnOf' \in [Msg -> Turn \cup {NoTurn}]
      BY <1>11 DEF HandBind, TypeOK
    <2> QED BY <1>11, <2>1 DEF HandBind, Ends, Handing, TypeOK
  <1>12. CASE HandPaused
    BY <1>12 DEF HandPaused, Errs, Ends, Idle, Handing, TypeOK
  <1>13. CASE HandCanceled
    <2>1. offered' \subseteq Msg /\ unheard' \subseteq Msg /\ withdrawn' \subseteq Msg
      BY <1>13 DEF HandCanceled, CutOff, TypeOK
    <2>2. paused' \in BOOLEAN /\ onDisk' \in BOOLEAN
      BY <1>13 DEF HandCanceled, Errs, TypeOK
    <2>3. Ends("idle")
      BY <1>13 DEF HandCanceled, Errs
    <2> QED BY <1>13, <2>1, <2>2, <2>3 DEF HandCanceled, Ends, Idle, Handing, TypeOK
  <1>14. CASE SteerDeclined
    BY <1>14, PutBackType DEF SteerDeclined, TypeOK
  <1> QED
    BY <1>1, <1>2, <1>3, <1>4, <1>5, <1>6, <1>7, <1>8, <1>9, <1>10, <1>11, <1>12, <1>13, <1>14
    DEF Delivery

LEMMA FailuresType == Types /\ Failures => Types'
  <1> SUFFICES ASSUME TypeOK, HasTurn, Failures PROVE Types'
    BY DEF Types
  <1> USE DEF pauseVars, ledgerVars, acceptVars, deliverVars, execVars, daemonVars, givenVars,
              Types, HasTurn
  <1>1. CASE DeliverClaimFails
    <2>1. budget' \in [Kinds -> Nat]
      BY <1>1, Spent DEF DeliverClaimFails, Kinds
    <2> QED BY <1>1, <2>1 DEF DeliverClaimFails, Errs, Ends, Handing, TypeOK
  <1>2. CASE SteerRefused
    <2>1. budget' \in [Kinds -> Nat]
      BY <1>2, Spent DEF SteerRefused, Kinds
    <2>2. unheard' \subseteq Msg
      BY <1>2 DEF SteerRefused, TypeOK
    <2> QED BY <1>2, <2>1, <2>2, PutBackType DEF SteerRefused
  <1>3. CASE SteerUndoFails
    <2>1. budget' \in [Kinds -> Nat]
      BY <1>3, Spent DEF SteerUndoFails, Kinds
    <2> QED BY <1>3, <2>1 DEF SteerUndoFails, Errs, Ends, Handing, TypeOK
  <1>4. CASE DeliverCannotSteer
    <2>1. budget' \in [Kinds -> Nat]
      BY <1>4, Spent DEF DeliverCannotSteer, Kinds
    <2> QED BY <1>4, <2>1 DEF DeliverCannotSteer, Eligible, Ends, Handing, TypeOK
  <1>5. CASE HandFails
    <2>1. budget' \in [Kinds -> Nat]
      BY <1>5, Spent DEF HandFails, Kinds
    <2>2. offered' \subseteq Msg
      BY <1>5 DEF HandFails, TypeOK
    <2> QED BY <1>5, <2>1, <2>2 DEF HandFails, Errs, Ends, Idle, Handing, TypeOK
  <1> QED BY <1>1, <1>2, <1>3, <1>4, <1>5 DEF Failures

LEMMA DaemonType == Types /\ Daemon => Types'
  <1> SUFFICES ASSUME TypeOK, HasTurn, Daemon PROVE Types'
    BY DEF Types
  <1> USE DEF pauseVars, ledgerVars, acceptVars, deliverVars, execVars, daemonVars, givenVars,
              Types, HasTurn
  <1>1. CASE Exit
    <2>1. budget' \in [Kinds -> Nat]
      BY <1>1, Spent DEF Exit, Kinds
    <2> QED BY <1>1, <2>1 DEF Exit, TypeOK
  <1>2. CASE Down \/ Die
    <2>1. budget' \in [Kinds -> Nat]
      BY <1>2, Spent DEF Down, Die, Kinds, TypeOK
    <2>2. Forgets /\ summed' \subseteq Turn
      BY <1>2, FlushType DEF Down, Die, TypeOK
    <2>3. offered' \subseteq Msg /\ unheard' \subseteq Msg /\ withdrawn' \subseteq Msg
      BY <2>2 DEF Forgets, CutOff, TypeOK
    <2>4. UNCHANGED <<entry, turnOf, chat, onDisk, acked, agent>>
      BY <1>2 DEF Down, Die
    <2> QED BY <2>1, <2>2, <2>3, <2>4 DEF Forgets, Ends, Idle, Handing, TypeOK
  <1>3. CASE Boot
    <2>1. entry' \in [Msg -> EntryStates]
      BY <1>3 DEF Boot, Recovered, EntryStates, TypeOK
    <2> QED BY <1>3, <2>1 DEF Boot, TypeOK
  <1>4. CASE BootUnsaved
    <2>1. budget' \in [Kinds -> Nat]
      BY <1>4, Spent DEF BootUnsaved, Kinds
    <2> QED BY <1>4, <2>1 DEF BootUnsaved, TypeOK
  <1> QED BY <1>1, <1>2, <1>3, <1>4 DEF Daemon

LEMMA TypeStep == Types /\ [Next]_vars => Types'
  <1> SUFFICES ASSUME Types, [Next]_vars PROVE Types'
    OBVIOUS
  <1>1. CASE Rest \/ UNCHANGED vars
    BY <1>1 DEF Rest, vars, pauseVars, ledgerVars, acceptVars, deliverVars, execVars, daemonVars,
                givenVars, Types, HasTurn, TypeOK
  <1> QED
    BY <1>1, SendersType, AgentType, DeliveryType, FailuresType, DaemonType DEF Next
-----------------------------------------------------------------------------
(* Body: what is queued is in the log. *)
LEMMA BodyInit == Init => Body
  BY DEF Init, Body, AckedIsKept, Queued

(* It is enough that an entry is queued with its body and never unqueued, and that
   what is being accepted stays as it is. *)
LEMMA BodyKeeps ==
  ASSUME TypeOK, Body, acked' = acked, chat \subseteq chat',
         \A m \in Msg : /\ entry[m] \in Queued => entry'[m] \in Queued
                        /\ entry'[m] \in Queued => entry[m] \in Queued \/ m \in chat,
         acceptAt' = "idle" \/ (/\ acceptAt' = acceptAt /\ accepting' = accepting /\ up' = up
                                /\ entry'[accepting] = entry[accepting])
  PROVE  Body'
  BY DEF Body, AckedIsKept, Queued, TypeOK

LEMMA BodySame ==
  ASSUME TypeOK, Body, acked' = acked, chat' = chat, entry' = entry,
         acceptAt' = "idle" \/ (acceptAt' = acceptAt /\ accepting' = accepting /\ up' = up)
  PROVE  Body'
  BY DEF Body, AckedIsKept, Queued, TypeOK

LEMMA BodyStep == Types /\ Body /\ Carried /\ [Next]_vars => Body'
  <1> SUFFICES ASSUME Types, TypeOK, Body, Carried, [Next]_vars PROVE Body'
    BY DEF Types
  <1> USE DEF pauseVars, ledgerVars, acceptVars, deliverVars, execVars, daemonVars, givenVars
  <1>1. ASSUME NEW m \in Msg, AcceptReserve(m) PROVE Body'
    <2>1. Retired \subseteq In("sent")
      BY DEF Retired
    <2>2. PICK R \in SUBSET In("sent") : entry' = [Set(R, "handled") EXCEPT ![m] = "receiving"]
      BY <1>1, <2>1 DEF AcceptReserve
    <2>3. \A k \in Msg : entry'[k] = IF k = m THEN "receiving"
                                     ELSE IF k \in R THEN "handled" ELSE entry[k]
      BY <2>2 DEF Set
    <2> QED
      BY <1>1, <2>3 DEF AcceptReserve, Body, AckedIsKept, Queued, In, TypeOK
  <1>2. ASSUME NEW m \in Msg, AcceptResumes(m) \/ AcceptAgain(m) PROVE Body'
    BY <1>2 DEF AcceptResumes, AcceptAgain, Body, AckedIsKept, Queued, TypeOK
  <1>3. CASE AcceptFails
    <2>1. acceptAt' = "idle" /\ chat \subseteq chat' /\ entry' = entry /\ acked' = acked
      BY <1>3 DEF AcceptFails
    <2> QED BY <2>1, BodyKeeps
  <1>4. CASE AcceptAppend
    BY <1>4 DEF AcceptAppend, Body, AckedIsKept, Queued, TypeOK
  <1>5. CASE AcceptQueue
    <2>1. \A k \in Msg : entry'[k] = IF k = accepting THEN "queued" ELSE entry[k]
      BY <1>5 DEF AcceptQueue, Set
    <2> QED BY <1>5, <2>1 DEF AcceptQueue, Body, AckedIsKept, Queued, TypeOK
  <1>6. CASE TurnCompletes
    <2>1. \A m \in Msg : entry'[m] = IF m \in inputs THEN "handled" ELSE entry[m]
      BY <1>6 DEF TurnCompletes, Set
    <2>2. \A m \in inputs : entry[m] \in Told
      BY <1>6 DEF TurnCompletes, Ending, Carried
    <2> QED
      BY <1>6, <2>1, <2>2 DEF TurnCompletes, Body, AckedIsKept, Queued, Told, TypeOK
  <1>7. CASE DeliverPromotes
    <2>1. \A m \in Msg : entry'[m] = IF m \in Half THEN "queued" ELSE entry[m]
      BY <1>7 DEF DeliverPromotes, Set
    <2>2. Half \subseteq chat /\ \A m \in Half : entry[m] = "receiving"
      BY DEF Half, In
    <2> QED
      BY <1>7, <2>1, <2>2 DEF DeliverPromotes, Body, AckedIsKept, Queued, TypeOK
  <1>8. CASE DeliverSteers
    <2>1. \A m \in Msg : entry'[m] = IF m \in Typed THEN "sent" ELSE entry[m]
      BY <1>8 DEF DeliverSteers, Set
    <2>2. \A m \in Typed : entry[m] = "queued"
      BY DEF Typed, In
    <2> QED
      BY <1>8, <2>1, <2>2 DEF DeliverSteers, Body, AckedIsKept, Queued, TypeOK
  <1>9. CASE HandMark \/ SteerDeclined \/ SteerRefused
    <2>1. /\ \A m \in Msg : entry'[m] = IF m \in carry
                                       THEN IF HandMark THEN "sent" ELSE "queued" ELSE entry[m]
          /\ acked' = acked /\ chat' = chat /\ up' = up
          /\ acceptAt' = acceptAt /\ accepting' = accepting
      BY <1>9 DEF HandMark, SteerDeclined, SteerRefused, PutBack, Set
    <2>2. \A m \in carry : entry[m] \in Queued
      BY DEF Carried
    <2> QED BY <2>1, <2>2 DEF Body, AckedIsKept, Queued, TypeOK
  <1>10. CASE Boot
    <2>1. \A m \in Msg : \/ entry'[m] = entry[m]
                         \/ entry[m] = "receiving" /\ m \in chat /\ entry'[m] = "queued"
                         \/ entry[m] = "sent" /\ entry'[m] = "handled"
      BY <1>10 DEF Boot, Recovered
    <2>2. acceptAt' = "idle"
      BY <1>10 DEF Boot, Body
    <2> QED BY <1>10, <2>1, <2>2 DEF Boot, Body, AckedIsKept, Queued, TypeOK
  <1>11. CASE BootUnsaved
    BY <1>11, BodySame DEF BootUnsaved, Body
  <1>12. CASE Down \/ Die
    BY <1>12, BodySame DEF Down, Die, Forgets
  <1>13. CASE DirectSend \/ StopRequest \/ Stopping \/ Exit
    BY <1>13, BodySame
    DEF DirectSend, StopRequest, Stopping, StopEnter, StopCommits, Exit
  <1>14. CASE TurnCompletesUnsaved \/ TurnFails \/ TurnFailsUnsaved
    BY <1>14, BodySame DEF TurnCompletesUnsaved, TurnFails, TurnFailsUnsaved
  <1>15. CASE \/ SteerTaken \/ DeliverInterrupts \/ DeliverBegins \/ DeliverCollects
              \/ DeliverClaims \/ DeliverRefused \/ HandSend
    BY <1>15, BodySame
    DEF SteerTaken, DeliverInterrupts, DeliverBegins, DeliverCollects, DeliverClaims,
        DeliverRefused, HandSend
  <1>16. CASE HandBind \/ HandPaused \/ HandCanceled \/ DeliverClaimFails \/ SteerUndoFails
    BY <1>16, BodySame
    DEF HandBind, HandPaused, HandCanceled, DeliverClaimFails, SteerUndoFails
  <1>17. CASE DeliverCannotSteer \/ HandFails \/ Rest \/ UNCHANGED vars
    BY <1>17, BodySame DEF DeliverCannotSteer, HandFails, Rest, vars
  <1> QED
    BY <1>1, <1>2, <1>3, <1>4, <1>5, <1>6, <1>7, <1>8, <1>9, <1>10, <1>11, <1>12, <1>13, <1>14,
       <1>15, <1>16, <1>17
    DEF Next, Senders, Accept, Agent, Delivery, Failures, Daemon
-----------------------------------------------------------------------------
(* Held: what a delivery has, what an agent was given and which turn is whose. *)

(* The ledger moves on, but no entry is sent or unsent. *)
Steady ==
  \A m \in Msg : /\ entry'[m] \in Told <=> entry[m] \in Told
                 /\ entry[m] \in Queued => entry'[m] \in Queued
                 /\ entry'[m] = "sent" => entry[m] = "sent"

LEMMA HeldInit == Init => Held
  BY InboxAssumption
  DEF Init, Held, Carried, Given, Numbered, Known, SentIsNotNew, Told, Queued, Handing, NoTurn, Turn

LEMMA HeldSteady ==
  ASSUME Types, Held, Steady, UNCHANGED <<deliverVars, execVars, turnOf, givenVars>>, up' = up \/ up'
  PROVE  Held'
  BY DEF Held, Carried, Given, Numbered, Known, SentIsNotNew, Steady, Types, TypeOK, deliverVars,
         execVars, givenVars

(* Nothing of the ledger changes, and the execution does not begin to run. *)
LEMMA HeldIdle ==
  ASSUME Types, Held, Steady, UNCHANGED <<deliverVars, turnOf, givenVars, up>>, up,
         turn' = turn, deliver # "steering", deliver \notin Handing,
         \/ exec' \in {"none", "stopping", "saving"}
         \/ exec' = exec /\ inputs' = inputs
  PROVE  Held'
  BY DEF Held, Carried, Given, Numbered, Known, SentIsNotNew, Steady, Types, TypeOK, deliverVars,
         givenVars, Handing

LEMMA SteadySame == entry' = entry => Steady
  BY DEF Steady

LEMMA HeldLedger ==
  Types /\ Body /\ Held
    /\ (Senders \/ Accept \/ StopRequest \/ DeliverPromotes \/ Exit \/ Boot \/ BootUnsaved \/ Rest
          \/ UNCHANGED vars)
    => Held'
  <1> SUFFICES ASSUME Types, TypeOK, Body, Held,
                      \/ Senders \/ Accept \/ StopRequest \/ DeliverPromotes \/ Exit
                      \/ Boot \/ BootUnsaved \/ Rest \/ UNCHANGED vars
               PROVE  Held'
    BY DEF Types
  <1> USE DEF pauseVars, ledgerVars, acceptVars, deliverVars, execVars, daemonVars, givenVars
  <1>1. ASSUME NEW m \in Msg, AcceptReserve(m) PROVE Held'
    <2>1. PICK R \in SUBSET In("sent") : entry' = [Set(R, "handled") EXCEPT ![m] = "receiving"]
      BY <1>1 DEF AcceptReserve, Retired
    <2>2. \A k \in Msg : entry'[k] = IF k = m THEN "receiving"
                                     ELSE IF k \in R THEN "handled" ELSE entry[k]
      BY <2>1 DEF Set
    <2>3. Steady
      BY <1>1, <2>2 DEF AcceptReserve, Steady, Told, Queued, In
    <2> QED BY <1>1, <2>3, HeldSteady DEF AcceptReserve
  <1>2. ASSUME NEW m \in Msg, AcceptResumes(m) \/ AcceptAgain(m) PROVE Held'
    BY <1>2, HeldSteady, SteadySame DEF AcceptResumes, AcceptAgain
  <1>3. CASE AcceptFails \/ AcceptAppend \/ StopRequest \/ Exit
    BY <1>3, HeldSteady, SteadySame DEF AcceptFails, AcceptAppend, StopRequest, Exit
  <1>4. CASE AcceptQueue
    <2>1. \A k \in Msg : entry'[k] = IF k = accepting THEN "queued" ELSE entry[k]
      BY <1>4 DEF AcceptQueue, Set
    <2>2. Steady
      BY <1>4, <2>1 DEF AcceptQueue, Body, Steady, Told, Queued
    <2> QED BY <1>4, <2>2, HeldSteady DEF AcceptQueue
  <1>5. CASE DeliverPromotes
    <2>1. \A k \in Msg : entry'[k] = IF k \in Half THEN "queued" ELSE entry[k]
      BY <1>5 DEF DeliverPromotes, Set
    <2>2. Steady
      BY <2>1 DEF Half, In, Steady, Told, Queued
    <2> QED BY <1>5, <2>2, HeldSteady DEF DeliverPromotes
  <1>6. CASE Boot
    <2>1. Steady
      BY <1>6 DEF Boot, Recovered, Steady, Told, Queued
    <2> QED BY <1>6, <2>1, HeldSteady DEF Boot
  <1>7. CASE BootUnsaved \/ Rest \/ UNCHANGED vars
    BY <1>7, HeldSteady, SteadySame DEF BootUnsaved, Rest, vars
  <1> QED BY <1>1, <1>2, <1>3, <1>4, <1>5, <1>6, <1>7 DEF Senders, Accept

LEMMA HeldAgent == Types /\ Held /\ (Agent \/ DirectSend \/ Stopping) => Held'
  <1> SUFFICES ASSUME Types, TypeOK, Held, Agent \/ DirectSend \/ Stopping PROVE Held'
    BY DEF Types
  <1> USE DEF pauseVars, ledgerVars, acceptVars, deliverVars, execVars, daemonVars, givenVars
  <1>1. CASE TurnCompletes
    <2>1. \A k \in Msg : entry'[k] = IF k \in inputs THEN "handled" ELSE entry[k]
      BY <1>1 DEF TurnCompletes, Set
    <2>2. \A k \in inputs : entry[k] \in Told
      BY <1>1 DEF TurnCompletes, Ending, Held, Carried
    <2>3. Steady
      BY <2>1, <2>2 DEF Steady, Told, Queued
    <2>4. deliver # "steering" /\ deliver \notin Handing
      BY <1>1 DEF TurnCompletes, Ending, TypeOK
    <2> QED BY <1>1, <2>3, <2>4, HeldIdle DEF TurnCompletes, Ending, Idle
  <1>2. CASE TurnCompletesUnsaved \/ TurnFails \/ TurnFailsUnsaved
    <2>1. deliver # "steering" /\ deliver \notin Handing
      BY <1>2 DEF TurnCompletesUnsaved, TurnFails, TurnFailsUnsaved, Ending, TypeOK
    <2> QED
      BY <1>2, <2>1, HeldIdle, SteadySame
      DEF TurnCompletesUnsaved, TurnFails, TurnFailsUnsaved, Ending, Idle
  <1>3. CASE StopEnter
    <2>1. deliver # "steering" /\ deliver \notin Handing
      BY <1>3 DEF StopEnter
    <2> QED BY <1>3, <2>1, HeldIdle, SteadySame DEF StopEnter, Stopped
  <1>4. CASE StopCommits
    <2>1. deliver # "steering" /\ deliver \notin Handing
      BY <1>4 DEF StopCommits, Held, Carried, TypeOK
    <2> QED BY <1>4, <2>1, HeldIdle, SteadySame DEF StopCommits, Idle, Held, Carried
  <1>5. CASE DirectSend
    <2>1. Claims("running", {})
      BY <1>5 DEF DirectSend
    <2>2. turn' = turn + 1 /\ exec' = "running" /\ inputs' = {} /\ exec \in {"none", "saving"}
      BY <2>1, Begins
    <2>3. deliver # "steering" /\ deliver \notin Handing /\ up
      BY <1>5, <2>2 DEF DirectSend, Held, Carried, TypeOK
    <2>4. \A m \in Msg : turnOf[m] <= turn' /\ turnOf[m] # turn'
      BY <2>2 DEF Held, Numbered, TypeOK, Turn, NoTurn
    <2> QED
      BY <1>5, <2>2, <2>3, <2>4
      DEF DirectSend, Held, Carried, Given, Numbered, Known, SentIsNotNew, Handing
  <1> QED BY <1>1, <1>2, <1>3, <1>4, <1>5 DEF Agent, Stopping

(* A delivery that ends without a word to the agent, and one that is cut off. *)
LEMMA HeldEnds ==
  ASSUME Types, Held, UNCHANGED <<entry, turnOf, up>>, up,
         deliver' \in {"idle", "refused", "lock"}, carry' = {}, offered \subseteq offered',
         unheard \subseteq unheard', withdrawn \subseteq withdrawn', offered' \subseteq offered \cup carry,
         \A m \in carry : entry[m] \in Told => m \in offered' \cup unheard' \cup withdrawn',
         \A m \in offered' \ offered : entry[m] \in Told,
         turn' = turn,
         \/ exec' \in {"none", "stopping", "saving"}
         \/ exec' = exec /\ exec # "starting" /\ inputs' = inputs
         \/ exec' = exec /\ exec # "starting" /\ inputs' = inputs \ carry /\ carry \subseteq withdrawn'
  PROVE  Held'
  BY DEF Held, Carried, Given, Numbered, Known, SentIsNotNew, Types, TypeOK, Handing

LEMMA HeldSteering ==
  Types /\ Held
    /\ (DeliverSteers \/ SteerTaken \/ SteerDeclined \/ SteerRefused \/ SteerUndoFails)
    => Held'
  <1> SUFFICES ASSUME Types, TypeOK, Held,
                      \/ DeliverSteers \/ SteerTaken
                      \/ SteerDeclined \/ SteerRefused \/ SteerUndoFails
               PROVE  Held'
    BY DEF Types
  <1> USE DEF pauseVars, ledgerVars, acceptVars, deliverVars, execVars, daemonVars, givenVars
  <1>1. CASE DeliverSteers
    <2>1. \A k \in Msg : entry'[k] = IF k \in Typed THEN "sent" ELSE entry[k]
      BY <1>1 DEF DeliverSteers, Set
    <2>2. \A k \in Msg : turnOf'[k] = IF k \in Typed THEN turn ELSE turnOf[k]
      BY <1>1 DEF DeliverSteers
    <2>3. /\ \A k \in Typed : entry[k] = "queued" /\ k \notin offered
          /\ Typed \subseteq Msg
      BY DEF Typed, In, Held, Given, Told
    <2>4. /\ deliver = "idle" /\ deliver' = "steering" /\ carry' = Typed /\ up
          /\ exec' = exec /\ exec = "running" /\ inputs' = inputs \cup Typed /\ up' = up
          /\ turn' = turn /\ UNCHANGED givenVars
      BY <1>1 DEF DeliverSteers, Eligible
    <2>5. Carried'
      BY <2>1, <2>3, <2>4 DEF Held, Carried, Told, Queued, Handing, TypeOK
    <2>6. Given'
      BY <2>1, <2>3, <2>4 DEF Held, Given, Carried, Known, SentIsNotNew, Told, TypeOK
    <2>7. Numbered'
      BY <2>1, <2>2, <2>3, <2>4 DEF Held, Numbered, TypeOK, Turn, NoTurn
    <2> QED BY <2>5, <2>6, <2>7 DEF Held
  <1>2. CASE SteerTaken
    <2>1. /\ up /\ up' = up /\ entry' = entry /\ turnOf' = turnOf /\ deliver' = "idle" /\ carry' = {}
          /\ offered' = offered \cup carry /\ unheard' = unheard /\ withdrawn' = withdrawn
          /\ turn' = turn /\ exec' = exec /\ inputs' = inputs
      BY <1>2 DEF SteerTaken, Ends
    <2>2. exec # "starting" /\ \A m \in carry : entry[m] \in Told
      BY <1>2 DEF SteerTaken, Held, Carried
    <2> QED BY <2>1, <2>2, HeldEnds
  <1>3. CASE SteerDeclined \/ SteerRefused
    <2>1. \A k \in Msg : entry'[k] = IF k \in carry THEN "queued" ELSE entry[k]
      BY <1>3 DEF SteerDeclined, SteerRefused, PutBack, Set
    <2>2. \A k \in Msg : turnOf'[k] = IF k \in carry THEN NoTurn ELSE turnOf[k]
      BY <1>3 DEF SteerDeclined, SteerRefused, PutBack
    <2>3. /\ deliver = "steering" /\ deliver' = "refused" /\ carry' = {} /\ up /\ up' = up
          /\ exec' = exec /\ inputs' = inputs \ carry /\ turn' = turn /\ offered' = offered
          /\ unheard \subseteq unheard' /\ withdrawn' = withdrawn
      BY <1>3 DEF SteerDeclined, SteerRefused, PutBack, Ends
    <2>4. exec = "running" /\ carry \cap offered = {}
      BY <2>3 DEF Held, Carried, Given
    <2>5. Carried'
      BY <2>1, <2>3, <2>4 DEF Held, Carried, Told, Queued, Handing, TypeOK
    <2>6. Given'
      BY <2>1, <2>3, <2>4 DEF Held, Given, Known, SentIsNotNew, Told, TypeOK
    <2>7. Numbered'
      BY <2>1, <2>2, <2>3, <2>4 DEF Held, Numbered, TypeOK, Turn, NoTurn
    <2> QED BY <2>5, <2>6, <2>7 DEF Held
  <1>4. CASE SteerUndoFails
    <2>1. /\ up /\ up' = up /\ entry' = entry /\ turnOf' = turnOf /\ deliver' = "idle" /\ carry' = {}
          /\ withdrawn' = withdrawn \cup carry /\ unheard' = unheard /\ offered' = offered
          /\ turn' = turn /\ exec' = exec /\ inputs' = inputs \ carry
      BY <1>4 DEF SteerUndoFails, Errs, Ends
    <2>2. exec # "starting"
      BY <1>4 DEF SteerUndoFails, Held, Carried
    <2> QED BY <2>1, <2>2, HeldEnds
  <1> QED BY <1>1, <1>2, <1>3, <1>4

LEMMA HeldClaiming ==
  Types /\ Held
    /\ (DeliverInterrupts \/ DeliverBegins \/ DeliverCollects \/ DeliverClaims \/ DeliverRefused
          \/ DeliverClaimFails \/ DeliverCannotSteer)
    => Held'
  <1> SUFFICES ASSUME Types, TypeOK, Held,
                      \/ DeliverInterrupts \/ DeliverBegins \/ DeliverCollects \/ DeliverClaims
                      \/ DeliverRefused \/ DeliverClaimFails \/ DeliverCannotSteer
               PROVE  Held'
    BY DEF Types
  <1> USE DEF pauseVars, ledgerVars, acceptVars, deliverVars, execVars, daemonVars, givenVars
  <1>1. CASE DeliverInterrupts \/ DeliverBegins \/ DeliverCannotSteer
    <2>1. carry = {} /\ exec # "starting" /\ up
      BY <1>1 DEF DeliverInterrupts, DeliverBegins, DeliverCannotSteer, Eligible, Held, Carried,
                  Handing, TypeOK
    <2>2. /\ UNCHANGED <<entry, turnOf, up, turn, inputs, offered, unheard, withdrawn>>
          /\ deliver' \in {"idle", "refused", "lock"} /\ carry' = {}
          /\ exec' \in {exec, "stopping"}
      BY <1>1 DEF DeliverInterrupts, DeliverBegins, DeliverCannotSteer, Ends, Stopped
    <2> QED BY <2>1, <2>2, HeldEnds
  <1>2. CASE DeliverCollects
    <2>1. /\ UNCHANGED <<entry, turnOf, up, turn, inputs, exec, offered, unheard, withdrawn>>
          /\ deliver = "lock" /\ up
      BY <1>2 DEF DeliverCollects
    <2>2. CASE deliver' = "idle" /\ carry' = {}
      BY <2>1, <2>2, HeldEnds DEF Held, Carried, Handing, TypeOK
    <2>3. CASE /\ deliver' = "claim" /\ carry' \subseteq Ready
               /\ fresh' \subseteq In("queued")
      <3>1. \A m \in carry' : entry[m] \in Queued
        BY <2>3 DEF Ready, In, Queued
      <3>2. fresh' \cap offered = {}
        BY <2>3 DEF In, Held, Given, Told
      <3>3. Carried'
        BY <2>1, <2>3, <3>1 DEF Held, Carried, Handing
      <3>4. Given'
        BY <2>1, <2>3, <3>2 DEF Held, Given, Carried, Known, SentIsNotNew, Ready, In
      <3> QED BY <2>1, <3>3, <3>4 DEF Held, Numbered
    <2> QED BY <1>2, <2>2, <2>3 DEF DeliverCollects, Ends
  <1>3. CASE DeliverClaims
    <2>1. Claims("starting", carry)
      BY <1>3 DEF DeliverClaims
    <2>2. turn' = turn + 1 /\ exec' = "starting" /\ inputs' = carry
      BY <2>1, Begins
    <2>3. \A m \in Msg : turnOf[m] <= turn' /\ turnOf[m] # turn'
      BY <2>2 DEF Held, Numbered, TypeOK, Turn, NoTurn
    <2>4. Carried'
      BY <1>3, <2>2 DEF DeliverClaims, Held, Carried, Handing
    <2>5. Given'
      BY <1>3 DEF DeliverClaims, Held, Given, Known, SentIsNotNew
    <2> QED BY <1>3, <2>2, <2>3, <2>4, <2>5 DEF DeliverClaims, Held, Numbered
  <1>4. CASE DeliverRefused \/ DeliverClaimFails
    <2>1. /\ UNCHANGED <<entry, turnOf, up, turn, inputs, exec, offered, unheard, withdrawn>>
          /\ deliver = "claim" /\ up /\ deliver' = "idle" /\ carry' = {}
      BY <1>4 DEF DeliverRefused, DeliverClaimFails, Errs, Ends
    <2>2. exec # "starting" /\ \A m \in carry : entry[m] \in Told => m \in Known
      BY <2>1 DEF Held, Given, Handing, TypeOK
    <2> QED BY <2>1, <2>2, HeldEnds DEF Known
  <1> QED BY <1>1, <1>2, <1>3, <1>4

(* However a delivery is cut off, every entry marked sent is accounted for. *)
LEMMA CutOffHeld ==
  ASSUME TypeOK, Held, CutOff
  PROVE  /\ offered \subseteq offered' /\ unheard \subseteq unheard' /\ withdrawn \subseteq withdrawn'
         /\ offered' \subseteq offered \cup carry
         /\ \A m \in carry : entry[m] \in Told => m \in offered' \cup unheard' \cup withdrawn'
         /\ \A m \in offered' \ offered : entry[m] \in Told
  <1>1. deliver \in {"claim", "starting"} => \A m \in carry : entry[m] \in Told => m \in Known
    BY DEF Held, Given
  <1>2. deliver = "sent" => carry \subseteq offered
    BY DEF Held, Given
  <1>3. deliver \in {"idle", "refused", "lock"} => carry = {}
    BY DEF Held, Carried
  <1>4. deliver \in {"steering", "marked"} => \A m \in carry : entry[m] \in Told
    BY DEF Held, Carried
  <1>5. deliver \in {"idle", "refused", "lock", "claim", "starting", "sent", "steering", "marked"}
    BY DEF TypeOK, Handing
  <1> QED BY <1>1, <1>2, <1>3, <1>4, <1>5 DEF CutOff, Known

LEMMA HeldHanding ==
  Types /\ Held
    /\ (HandMark \/ HandSend \/ HandBind \/ HandPaused \/ HandCanceled \/ HandFails)
    => Held'
  <1> SUFFICES ASSUME Types, TypeOK, Held,
                      HandMark \/ HandSend \/ HandBind \/ HandPaused \/ HandCanceled \/ HandFails
               PROVE  Held'
    BY DEF Types
  <1> USE DEF pauseVars, ledgerVars, acceptVars, deliverVars, execVars, daemonVars, givenVars
  <1>1. CASE HandMark
    <2>1. \A k \in Msg : entry'[k] = IF k \in carry THEN "sent" ELSE entry[k]
      BY <1>1 DEF HandMark, Set
    <2>2. deliver = "starting" /\ deliver' = "marked" /\ exec = "starting"
      BY <1>1 DEF HandMark, Handing, TypeOK
    <2>3. Carried'
      BY <1>1, <2>1, <2>2 DEF HandMark, Held, Carried, Told, Queued, Handing, TypeOK
    <2>4. Given'
      BY <1>1, <2>1, <2>2 DEF HandMark, Held, Given, Known, SentIsNotNew, Told, TypeOK
    <2> QED BY <1>1, <2>2, <2>3, <2>4 DEF HandMark, Held, Numbered
  <1>2. CASE HandSend
    <2>1. deliver = "marked" /\ deliver' = "sent" /\ exec = "starting"
      BY <1>2 DEF HandSend, Handing, TypeOK
    <2>2. Carried'
      BY <1>2, <2>1 DEF HandSend, Held, Carried, Handing
    <2>3. Given'
      BY <1>2, <2>1 DEF HandSend, Held, Carried, Given, Known, SentIsNotNew
    <2> QED BY <1>2, <2>2, <2>3 DEF HandSend, Held, Numbered
  <1>3. CASE HandBind
    <2>1. \A k \in Msg : turnOf'[k] = IF k \in inputs THEN turn ELSE turnOf[k]
      BY <1>3 DEF HandBind
    <2>2. deliver = "sent" /\ deliver' = "idle" /\ carry' = {} /\ exec = "starting" /\ exec' = "running"
      BY <1>3 DEF HandBind, Ends, Handing, TypeOK
    <2>3. inputs = carry
      BY <2>2 DEF Held, Carried, Handing
    <2>4. Carried'
      BY <1>3, <2>2, <2>3 DEF HandBind, Held, Carried, Handing
    <2>5. Given'
      BY <1>3, <2>2 DEF HandBind, Held, Given, Known, SentIsNotNew
    <2>6. Numbered'
      BY <1>3, <2>1, <2>2 DEF HandBind, Held, Numbered, TypeOK, Turn, NoTurn
    <2> QED BY <2>4, <2>5, <2>6 DEF Held
  <1>4. CASE HandPaused
    <2>1. /\ UNCHANGED <<entry, turnOf, up, turn, offered, unheard>> /\ up
          /\ withdrawn' = withdrawn \cup carry
          /\ deliver' = "idle" /\ carry' = {} /\ exec' = "none"
      BY <1>4 DEF HandPaused, Errs, Ends, Idle
    <2> QED BY <2>1, HeldEnds
  <1>5. CASE HandCanceled
    <2>1. /\ UNCHANGED <<entry, turnOf, up, turn>> /\ up /\ CutOff
          /\ deliver' = "idle" /\ carry' = {} /\ exec' = "none"
      BY <1>5 DEF HandCanceled, Errs, Ends, Idle
    <2> QED BY <2>1, CutOffHeld, HeldEnds
  <1>6. CASE HandFails
    <2>1. /\ UNCHANGED <<entry, turnOf, up, turn, unheard, withdrawn>> /\ up /\ deliver \in Handing
          /\ offered' = IF deliver = "marked" THEN offered \cup carry ELSE offered
          /\ deliver' = "idle" /\ carry' = {} /\ exec' = "none"
      BY <1>6 DEF HandFails, Errs, Ends, Idle
    <2>2. \A m \in carry : entry[m] \in Told => m \in offered' \cup unheard' \cup withdrawn'
      BY <2>1 DEF Held, Given, Known, Handing
    <2>3. \A m \in offered' \ offered : entry[m] \in Told
      BY <2>1 DEF Held, Carried
    <2> QED BY <2>1, <2>2, <2>3, HeldEnds
  <1> QED BY <1>1, <1>2, <1>3, <1>4, <1>5, <1>6

LEMMA HeldForgets == Types /\ Held /\ (Down \/ Die) => Held'
  <1> SUFFICES ASSUME Types, TypeOK, Held, Down \/ Die PROVE Held'
    BY DEF Types
  <1>1. /\ UNCHANGED <<entry, turnOf, turn>> /\ CutOff
        /\ deliver' = "idle" /\ carry' = {} /\ exec' = "none" /\ up' = FALSE
    BY DEF Down, Die, Forgets, Ends, Idle
  <1>2. Carried'
    BY <1>1 DEF Carried, Handing
  <1>3. Given'
    BY <1>1, CutOffHeld DEF Held, Given, Known, SentIsNotNew, TypeOK
  <1> QED BY <1>1, <1>2, <1>3 DEF Held, Numbered

LEMMA HeldStep == Types /\ Body /\ Held /\ [Next]_vars => Held'
  BY HeldLedger, HeldAgent, HeldSteering, HeldClaiming, HeldHanding, HeldForgets
  DEF Next, Delivery, Failures, Daemon
-----------------------------------------------------------------------------
LEMMA InboxInvariant == Spec => [](Types /\ Body /\ Held)
  <1>1. Init => Types /\ Body /\ Held
    BY TypeInit, BodyInit, HeldInit DEF Types
  <1>2. Types /\ Body /\ Held /\ [Next]_vars => (Types /\ Body /\ Held)'
    BY TypeStep, BodyStep, HeldStep DEF Held
  <1> QED BY <1>1, <1>2, PTL DEF Spec

(* Every variable keeps its type; an execution that hands over is one whose
   delivery does, and a pending acceptance holds a message (accept_input and
   deliver_session of manager.rs, the ledger of inbox.rs). *)
THEOREM TypesKept == Spec => []TypeOK
  <1>1. Types => TypeOK
    BY DEF Types
  <1> QED BY <1>1, InboxInvariant, PTL

(* A message whose sender was told Ack keeps its body in the chat log and its
   entry in the ledger, in whatever order accept_input, deliveries, exits,
   deaths and recover_deliveries follow each other. *)
THEOREM AckedSafe == Spec => []AckedIsKept
  <1>1. Body => AckedIsKept
    BY DEF Body
  <1> QED BY <1>1, InboxInvariant, PTL

(* start_turn labels as queued only what no agent was given, and what the ledger
   calls handled was offered, is being offered, or was called off when it was
   marked already. *)
THEOREM LedgerSafe == Spec => []LedgerTellsTruth
  <1>1. Held => LedgerTellsTruth
    BY DEF Held, Given, Known, Told, LedgerTellsTruth, HandledWasOffered
  <1> QED BY <1>1, InboxInvariant, PTL

(* The running turn's input_ids and the entries the ledger says were sent in that
   turn are the same, but for a refused steer whose mark stayed: what the turn's
   completion settles is what it was given. *)
THEOREM InputsOwned == Spec => []RunningOwnsItsInputs
  <1>1. Held => RunningOwnsItsInputs
    BY DEF Held, Carried, Numbered, Told, RunningOwnsItsInputs, TypeOK
  <1> QED BY <1>1, InboxInvariant, PTL
=============================================================================

----------------------------- MODULE SessionLog -----------------------------
(***************************************************************************)
(* Where the words of a session are kept.  An answer grows in memory; a    *)
(* checkpoint file of its own is rewritten as it grows; when the turn ends *)
(* it is appended to the chat log, the checkpoint is removed and a record  *)
(* says how the round ended.  A daemon that died promotes what the         *)
(* checkpoint holds and the log does not.                                  *)
(*                                                                         *)
(* A text is as long as the number that stands for it.  The log is what a  *)
(* reader of it gets, the last row of an item; an append that fails or is  *)
(* cut off has written some of its rows, from the first on.  Messages of   *)
(* people are appended as they arrive, work items go to trunk files: both  *)
(* are left out.                                                           *)
(***************************************************************************)
EXTENDS Integers, FiniteSets

CONSTANTS MaxItem,    \* how many items the model numbers
          MaxText,    \* how long a text gets
          MaxTurn,    \* how many turns are begun
          Allowances  \* how often each of the environment's moves may happen

Item == 1 .. MaxItem
Turn == 1 .. MaxTurn
Text == 0 .. MaxText
Nothing == [i \in Item |-> 0]
Kinds == {"die", "saveFail", "loadFail", "leftover", "note", "aside"}

ASSUME LogAssumption ==
  /\ MaxItem \in Nat \ {0} /\ MaxText \in Nat \ {0} /\ MaxTurn \in Nat \ {0}
  /\ \A some \in Allowances : some \in [Kinds -> Nat]

VARIABLES
  state,     \* of the session in the daemon: down, loading or up
  items,     \* the texts in memory, 0 for none
  last,      \* the items begun so far
  mine,      \* those of the turn that runs
  turnItems, \* turn_items: what the next flush appends
  dirty,     \* open_turn_dirty
  open,      \* open-turn.jsonl: the checkpoint
  log,       \* the items of chat.jsonl
  exec,      \* phase of the execution: none, running or saving
  turn,      \* the turns begun so far
  round,     \* the rounds in memory: none, open or settled
  record,    \* the rounds of chat.jsonl
  unsaved,   \* unsaved_rounds
  flush,     \* per flush: its step, its items and their texts
  goal,      \* what the flush that holds the execution is for: end or claim
  budget     \* what is left of the mixture's allowance

memVars == <<items, last, mine, turnItems, dirty>>
fileVars == <<open, log>>
turnVars == <<exec, turn, goal>>
roundVars == <<round, record, unsaved>>
vars == <<state, memVars, fileVars, turnVars, roundVars, flush, budget>>

(* Two can flush at a time: who holds the execution, and the dispatcher after an
   error, who does not. *)
Flushers == {"owner", "dispatcher"}
Idle == [step |-> "idle", ids |-> {}, text |-> Nothing]
Rounds == {"none", "open", "settled"}

TypeOK ==
  /\ state \in {"down", "loading", "up"} /\ exec \in {"none", "running", "saving"}
  /\ items \in [Item -> Text] /\ open \in [Item -> Text] /\ log \in [Item -> Text]
  /\ last \in 0 .. MaxItem /\ mine \subseteq Item /\ turnItems \subseteq Item /\ dirty \in BOOLEAN
  /\ turn \in 0 .. MaxTurn /\ goal \in {"end", "claim"}
  /\ round \in [Turn -> Rounds] /\ record \in [Turn -> Rounds] /\ unsaved \subseteq Turn
  /\ flush \in [Flushers -> [step : {"idle", "begin", "append", "forget", "clear"},
                             ids : SUBSET Item, text : [Item -> Text]]]
  /\ budget \in [Kinds -> Nat]
  /\ state # "up" => exec = "none" /\ \A f \in Flushers : flush[f] = Idle
  /\ \A i \in turnItems : items[i] > 0

Init ==
  /\ state = "up" /\ exec = "none" /\ turn = 0 /\ goal = "end"
  /\ items = Nothing /\ open = Nothing /\ log = Nothing
  /\ last = 0 /\ mine = {} /\ turnItems = {} /\ dirty = FALSE
  /\ round = [t \in Turn |-> "none"] /\ record = [t \in Turn |-> "none"] /\ unsaved = {}
  /\ flush = [f \in Flushers |-> Idle] /\ budget \in Allowances
-----------------------------------------------------------------------------
Spend(move) == budget[move] > 0 /\ budget' = [budget EXCEPT ![move] = @ - 1]
Up == state = "up"
Free(f) == flush[f].step = "idle"
(* The execution is locked by whoever flushes for it. *)
OwnerLock == Up /\ Free("owner")
Step(f, to) == flush' = [flush EXCEPT ![f].step = to]

(* The rows of some items, as a reader of the log takes them. *)
Rows(ids, text) == [i \in Item |-> IF i \in ids THEN text[i] ELSE log[i]]
Begun(ids, text) == {Rows({i \in ids : i <= n}, text) : n \in 0 .. MaxItem}

(* record_round: a record that cannot be appended is kept for the next flush. *)
Recorded(t, outcome) ==
  /\ round' = [round EXCEPT ![t] = outcome]
  /\ \/ record' = [record EXCEPT ![t] = outcome] /\ UNCHANGED <<unsaved, budget>>
     \/ unsaved' = unsaved \cup {t} /\ Spend("saveFail") /\ UNCHANGED record
-----------------------------------------------------------------------------
(* Mutant: the checkpoint is not due after what was said. *)
SaysUnseen(i) ==
  /\ OwnerLock /\ exec = "running" /\ items[i] < MaxText
  /\ items' = [items EXCEPT ![i] = @ + 1] /\ UNCHANGED dirty
  /\ UNCHANGED <<state, fileVars, turnVars, roundVars, flush, budget>>
(* apply: an item the agent begins, adds to, or sends again in full. *)
Says(i) ==
  /\ OwnerLock /\ exec = "running" /\ items[i] < MaxText
  /\ items' = [items EXCEPT ![i] = @ + 1] /\ dirty' = TRUE
  /\ UNCHANGED <<state, fileVars, turnVars, roundVars, flush, budget>>
ItemBegins ==
  /\ last < MaxItem /\ last' = last + 1 /\ Says(last')
  /\ mine' = mine \cup {last'} /\ turnItems' = turnItems \cup {last'}
ItemDelta == \E i \in mine : Says(i) /\ UNCHANGED <<last, mine, turnItems>>
ItemAgain ==
  \E i \in mine : Says(i) /\ turnItems' = turnItems \cup {i} /\ UNCHANGED <<last, mine>>

(* persist_open_turn_if_due: the file is rewritten whole.  A write that fails is
   logged and leaves all as it was, still due: no step. *)
Due == dirty /\ turnItems # {}
Checkpoint ==
  /\ OwnerLock /\ Due /\ dirty' = FALSE
  /\ open' = [i \in Item |-> IF i \in turnItems THEN items[i] ELSE 0]
  /\ UNCHANGED <<state, items, last, mine, turnItems, log, turnVars, roundVars, flush, budget>>

(* A notice of the daemon itself, flushed by the dispatcher that made it. *)
Note ==
  /\ Up /\ Free("dispatcher") /\ last < MaxItem
  /\ IF exec = "running" \/ ~Free("owner") THEN Spend("aside") ELSE Spend("note")
  /\ last' = last + 1 /\ items' = [items EXCEPT ![last'] = 1]
  /\ turnItems' = turnItems \cup {last'} /\ dirty' = TRUE /\ Step("dispatcher", "begin")
  /\ UNCHANGED <<state, mine, fileVars, turnVars, roundVars>>
-----------------------------------------------------------------------------
(* A send claims the execution: it first saves what an earlier turn left. *)
Claim ==
  /\ OwnerLock /\ exec \in {"none", "saving"} /\ turn < MaxTurn
  /\ IF Free("dispatcher") THEN UNCHANGED budget ELSE Spend("aside")
  /\ goal' = "claim" /\ Step("owner", "begin")
  /\ UNCHANGED <<state, memVars, fileVars, exec, turn, roundVars>>
(* finish_execution: the round is settled, then the turn is saved. *)
TurnEnds ==
  /\ OwnerLock /\ exec = "running"
  /\ exec' = "saving" /\ goal' = "end" /\ Recorded(turn, "settled") /\ Step("owner", "begin")
  /\ UNCHANGED <<state, memVars, fileVars, turn>>

(* flush_turn *)
FlushRounds(f) ==
  /\ Up /\ flush[f].step = "begin"
  /\ record' = [t \in Turn |-> IF t \in unsaved THEN round[t] ELSE record[t]] /\ unsaved' = {}
  /\ flush' = [flush EXCEPT ![f] = [step |-> IF turnItems = {} THEN "clear" ELSE "append",
                                    ids |-> turnItems, text |-> items]]
  /\ UNCHANGED <<state, memVars, fileVars, turnVars, round, budget>>
FlushAppends(f) ==
  /\ Up /\ flush[f].step = "append"
  /\ log' = Rows(flush[f].ids, flush[f].text) /\ Step(f, "forget")
  /\ UNCHANGED <<state, memVars, open, turnVars, roundVars, budget>>
FlushForgets(f) ==
  /\ Up /\ flush[f].step = "forget"
  /\ turnItems' = turnItems \ flush[f].ids /\ Step(f, "clear")
  /\ UNCHANGED <<state, items, last, mine, dirty, fileVars, turnVars, roundVars, budget>>
(* The checkpoint is removed, or that fails and nobody minds. *)
Clears(f) ==
  IF flush[f].ids = {} THEN UNCHANGED <<open, dirty, budget>>
  ELSE /\ dirty' = FALSE
       /\ \/ open' = Nothing /\ UNCHANGED budget
          \/ UNCHANGED open /\ Spend("leftover")
(* ... and who flushed goes on. *)
Done(f) == flush' = [flush EXCEPT ![f] = Idle]
TurnSaved ==
  /\ Up /\ flush["owner"].step = "clear" /\ goal = "end" /\ Clears("owner") /\ Done("owner")
  /\ exec' = "none" /\ mine' = {}
  /\ UNCHANGED <<state, items, last, turnItems, log, turn, goal, roundVars>>
(* begin_round: recorded before the agent runs. *)
TurnBegins ==
  /\ Up /\ flush["owner"].step = "clear" /\ goal = "claim" /\ Clears("owner") /\ Done("owner")
  /\ exec' = "running" /\ turn' = turn + 1 /\ mine' = {}
  /\ round' = [round EXCEPT ![turn'] = "open"]
  /\ \/ record' = [record EXCEPT ![turn'] = "open"] /\ UNCHANGED unsaved
     \/ unsaved' = unsaved \cup {turn'} /\ budget["saveFail"] > 0 /\ UNCHANGED record
  /\ UNCHANGED <<state, items, last, turnItems, log, goal>>
NoteSaved ==
  /\ Up /\ flush["dispatcher"].step = "clear" /\ Clears("dispatcher") /\ Done("dispatcher")
  /\ UNCHANGED <<state, items, last, mine, turnItems, log, turnVars, roundVars>>
(* Mutant: the checkpoint is removed before the rows are appended. *)
FlushFailsCleared(f) ==
  /\ Up /\ Spend("saveFail") /\ Done(f)
  /\ \/ flush[f].step = "begin" /\ unsaved # {} /\ UNCHANGED <<log, open, dirty>>
     \/ /\ flush[f].step = "append" /\ log' \in Begun(flush[f].ids, flush[f].text)
        /\ open' = Nothing /\ UNCHANGED dirty
     \/ /\ flush[f].step = "clear" /\ flush[f].ids # {}
        /\ open' = Nothing /\ dirty' = FALSE /\ UNCHANGED log
  /\ UNCHANGED <<state, items, last, mine, turnItems, turnVars, roundVars>>
(* A write fails: a round's record, rows of the append or the metadata at the end.
   A turn that was to be saved stays in `saving', a claim is refused. *)
FlushFails(f) ==
  /\ Up /\ Spend("saveFail") /\ Done(f)
  /\ \/ flush[f].step = "begin" /\ unsaved # {} /\ UNCHANGED <<log, open, dirty>>
     \/ /\ flush[f].step = "append" /\ log' \in Begun(flush[f].ids, flush[f].text)
        /\ UNCHANGED <<open, dirty>>
     \/ /\ flush[f].step = "clear" /\ flush[f].ids # {}
        /\ open' = Nothing /\ dirty' = FALSE /\ UNCHANGED log
  /\ UNCHANGED <<state, items, last, mine, turnItems, turnVars, roundVars>>
-----------------------------------------------------------------------------
(* Mutant: a flush outlives its daemon. *)
DieInFlush ==
  /\ state # "down" /\ Spend("die") /\ state' = "down" /\ UNCHANGED log
  /\ items' = Nothing /\ mine' = {} /\ turnItems' = {} /\ dirty' = FALSE
  /\ round' = [t \in Turn |-> "none"] /\ unsaved' = {} /\ exec' = "none"
  /\ UNCHANGED <<last, open, turn, goal, record, flush>>
(* The daemon dies; an append may have begun. *)
Die ==
  /\ state # "down" /\ Spend("die") /\ state' = "down"
  /\ \/ UNCHANGED log
     \/ \E f \in Flushers : /\ flush[f].step = "append"
                            /\ log' \in Begun(flush[f].ids, flush[f].text)
  /\ items' = Nothing /\ mine' = {} /\ turnItems' = {} /\ dirty' = FALSE
  /\ round' = [t \in Turn |-> "none"] /\ unsaved' = {}
  /\ exec' = "none" /\ flush' = [f \in Flushers |-> Idle]
  /\ UNCHANGED <<last, open, turn, goal, record>>
(* Live::new and recover_interrupted_turn: what the log has wins. *)
Fresh == {i \in Item : open[i] > 0 /\ log[i] = 0}
Load ==
  /\ state = "down" /\ state' = "loading"
  /\ log' = Rows(Fresh, open) /\ items' = log' /\ round' = record
  /\ UNCHANGED <<last, mine, turnItems, dirty, open, turnVars, record, unsaved, flush, budget>>
LoadClears ==
  /\ state = "loading" /\ state' = "up"
  /\ \/ open' = Nothing /\ UNCHANGED budget
     \/ UNCHANGED open /\ Spend("leftover")
  /\ UNCHANGED <<memVars, log, turnVars, roundVars, flush>>
(* Mutant: nobody flushes again what could not be promoted. *)
LoadFailsOnce ==
  /\ state = "down" /\ Fresh # {} /\ Spend("loadFail") /\ state' = "up"
  /\ log' \in Begun(Fresh, open) /\ items' = Rows(Fresh, open) /\ UNCHANGED turnItems
  /\ round' = record
  /\ UNCHANGED <<last, mine, dirty, open, turnVars, record, unsaved, flush>>
(* The append fails: the checkpoint stays, and what it held waits for the next
   flush. *)
LoadFails ==
  /\ state = "down" /\ Fresh # {} /\ Spend("loadFail") /\ state' = "up"
  /\ log' \in Begun(Fresh, open) /\ items' = Rows(Fresh, open) /\ turnItems' = Fresh
  /\ round' = record
  /\ UNCHANGED <<last, mine, dirty, open, turnVars, record, unsaved, flush>>
-----------------------------------------------------------------------------
Agent == ItemBegins \/ ItemDelta \/ ItemAgain \/ TurnEnds
Flush(f) == FlushRounds(f) \/ FlushAppends(f) \/ FlushForgets(f)
Saves == TurnSaved \/ TurnBegins \/ NoteSaved \/ \E f \in Flushers : Flush(f)
Failures == \E f \in Flushers : FlushFails(f)
Daemon == Die \/ Load \/ LoadClears \/ LoadFails

AtRest == OwnerLock /\ Free("dispatcher") /\ ~Due
Rest == AtRest /\ UNCHANGED vars
Next == Agent \/ Checkpoint \/ Note \/ Claim \/ Saves \/ Failures \/ Daemon \/ Rest
Spec == Init /\ [][Next]_vars

(* The pump's clock ticks, a flush that has begun goes on, a session is loaded
   again.  No turn has to end and nobody has to send. *)
Fairness ==
  /\ WF_vars(Checkpoint) /\ WF_vars(Load \/ LoadClears)
  /\ WF_vars(Saves)
FairSpec == Spec /\ Fairness
-----------------------------------------------------------------------------
(* What the next flush would not append is in the log as it is in memory, and a
   round is recorded as it stands or waits for the next flush: a turn that ended
   has lost nothing, whatever failed and was tried again in between. *)
NothingIsForgotten ==
  Up => /\ \A i \in Item \ turnItems : log[i] = items[i]
        /\ \A t \in Turn \ unsaved : record[t] = round[t]

(* What a restart would show of an item never shrinks, whenever the daemon dies:
   the log is written before the checkpoint goes, and no checkpoint of a later
   turn replaces words that are nowhere else. *)
Kept(i) == IF log[i] > 0 THEN log[i] ELSE open[i]
KeptNeverShrinks == [][\A i \in Item : Kept(i)' >= Kept(i)]_vars

(* What the agent said is on disk before long, although its turn goes on. *)
SaidIsKept ==
  \A i \in Item, n \in 1 .. MaxText :
    (Up /\ exec = "running" /\ items[i] >= n) ~> (Kept(i) >= n \/ exec # "running" \/ ~Up)
=============================================================================

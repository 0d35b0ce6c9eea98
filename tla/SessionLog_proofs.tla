------------------------- MODULE SessionLog_proofs -------------------------
(***************************************************************************)
(* Proofs about SessionLog, for any number of items, texts, turns and      *)
(* failures: what a flush takes, appends and forgets is what was said.     *)
(***************************************************************************)
EXTENDS SessionLog, TLAPS

(* Nobody flushes beside the one who holds the execution (see Note and Claim). *)
NoneAside == [][budget'["aside"] = budget["aside"]]_vars

(* A daemon that is not up has nothing in memory; one that loads has shown what
   the log has, and the log has what the checkpoint had. *)
Resting ==
  /\ state # "up" => mine = {} /\ turnItems = {} /\ unsaved = {}
  /\ state = "loading" => /\ items = log /\ round = record
                          /\ \A i \in Item : log[i] = 0 => open[i] = 0
(* Turns are numbered as a claim goes through. *)
Counted ==
  /\ exec = "running" => turn > 0
  /\ goal = "claim" /\ ~Free("owner") => turn < MaxTurn
(* Items are numbered as they begin. *)
Numbered ==
  /\ \A i \in mine : i <= last
  /\ \A i \in Item : i > last => items[i] = 0 /\ log[i] = 0 /\ open[i] = 0
(* One flush at a time, and none while the agent speaks. *)
Apart ==
  /\ exec = "running" => Free("owner") /\ Free("dispatcher") /\ mine \subseteq turnItems
  /\ ~Free("dispatcher") => Free("owner")
(* A flush has taken all there was to append, as it still is. *)
Taken ==
  \A f \in Flushers :
    /\ flush[f].step \in {"append", "forget"} => flush[f].ids = turnItems /\ flush[f].text = items
    /\ flush[f].step = "forget" => \A i \in turnItems : log[i] = items[i]
    /\ flush[f].step = "clear" => turnItems = {}
(* What memory would append covers what the files have. *)
Covers ==
  Up => \A i \in Item :
          IF i \in turnItems THEN items[i] >= log[i] /\ (log[i] = 0 => items[i] >= open[i])
                             ELSE log[i] = 0 => open[i] = 0
Held == Numbered /\ Apart /\ Taken /\ Covers /\ NothingIsForgotten
TInv == TypeOK /\ Resting /\ Counted
IInv == TInv /\ Held
-----------------------------------------------------------------------------
(* A reader of the log finds an item as it was or as it was to be appended. *)
LEMMA RowsType ==
  ASSUME NEW ids, NEW text \in [Item -> Text], log \in [Item -> Text]
  PROVE  /\ Rows(ids, text) \in [Item -> Text]
         /\ \A i \in Item : Rows(ids, text)[i] = IF i \in ids THEN text[i] ELSE log[i]
         /\ \A r \in Begun(ids, text) :
              /\ r \in [Item -> Text]
              /\ \A i \in Item : r[i] = log[i] \/ (i \in ids /\ r[i] = text[i])
  <1>1. \A some : /\ Rows(some, text) \in [Item -> Text]
                  /\ \A i \in Item : Rows(some, text)[i] = IF i \in some THEN text[i] ELSE log[i]
    BY DEF Rows
  <1>2. ASSUME NEW r \in Begun(ids, text)
        PROVE  r \in [Item -> Text] /\ \A i \in Item : r[i] = log[i] \/ (i \in ids /\ r[i] = text[i])
    <2>1. PICK n \in 0 .. MaxItem : r = Rows({i \in ids : i <= n}, text)
      BY <1>2 DEF Begun
    <2> QED BY <1>1, <2>1
  <1> QED BY <1>1, <1>2

LEMMA Numbers == Nothing \in [Item -> Text] /\ Item \subseteq Nat /\ Text \subseteq Nat /\ 0 \in Text /\ 1 \in Text
                 /\ MaxItem \in Nat /\ MaxText \in Nat /\ MaxTurn \in Nat
                 /\ \A i \in Item : i \in 1 .. MaxItem
                 /\ \A n \in Text : n < MaxText => n + 1 \in Text
  <1>1. MaxItem \in Nat /\ MaxText \in Nat /\ MaxText > 0 /\ MaxTurn \in Nat
    BY LogAssumption
  <1>2. 0 \in Text /\ 1 \in Text /\ Text \subseteq Nat /\ \A n \in Text : n < MaxText => n + 1 \in Text
    BY <1>1 DEF Text
  <1> QED BY <1>1, <1>2 DEF Nothing, Item

LEMMA Spent ==
  ASSUME budget \in [Kinds -> Nat], NEW move \in Kinds, Spend(move)
  PROVE  budget' \in [Kinds -> Nat] /\ \A other \in Kinds \ {move} : budget'[other] = budget[other]
                                    /\ budget'[move] # budget[move]
  BY DEF Spend

FlushType == [step : {"idle", "begin", "append", "forget", "clear"},
              ids : SUBSET Item, text : [Item -> Text]]
LEMMA IdleType == Idle \in FlushType /\ Idle.step = "idle" /\ Idle.ids = {}
  BY Numbers DEF Idle, FlushType

LEMMA TypeInit == Init => TInv
  <1> SUFFICES ASSUME Init PROVE TInv
    OBVIOUS
  <1>1. flush \in [Flushers -> FlushType]
    BY IdleType DEF Init
  <1>2. items \in [Item -> Text] /\ open \in [Item -> Text] /\ log \in [Item -> Text]
    BY Numbers DEF Init
  <1>3. round \in [Turn -> Rounds] /\ record \in [Turn -> Rounds] /\ budget \in [Kinds -> Nat]
    BY LogAssumption DEF Init, Rounds
  <1>4. last \in 0 .. MaxItem /\ turn \in 0 .. MaxTurn
    BY Numbers DEF Init
  <1>5. TypeOK
    BY <1>1, <1>2, <1>3, <1>4, Zenon DEF Init, TypeOK, FlushType
  <1> QED BY <1>1, <1>5 DEF Init, TInv, Resting, Counted

(* The parts of the types, as the actions change them. *)
MemOK ==
  /\ items \in [Item -> Text] /\ last \in 0 .. MaxItem /\ mine \subseteq Item
  /\ turnItems \subseteq Item /\ dirty \in BOOLEAN /\ \A i \in turnItems : items[i] > 0
FileOK == open \in [Item -> Text] /\ log \in [Item -> Text]
TurnOK ==
  /\ state \in {"down", "loading", "up"} /\ exec \in {"none", "running", "saving"}
  /\ turn \in 0 .. MaxTurn /\ goal \in {"end", "claim"} /\ budget \in [Kinds -> Nat]
RoundOK == round \in [Turn -> Rounds] /\ record \in [Turn -> Rounds] /\ unsaved \subseteq Turn
FlushOK == flush \in [Flushers -> FlushType]
DownOK == Resting /\ (state # "up" => exec = "none" /\ \A f \in Flushers : flush[f] = Idle)

LEMMA Parts == TInv <=> MemOK /\ FileOK /\ TurnOK /\ RoundOK /\ FlushOK /\ DownOK /\ Counted
  BY Zenon DEF TInv, TypeOK, MemOK, FileOK, TurnOK, RoundOK, FlushOK, DownOK, FlushType

LEMMA PartsNext ==
  TInv' <=> MemOK' /\ FileOK' /\ TurnOK' /\ RoundOK' /\ FlushOK' /\ DownOK' /\ Counted'
  BY Zenon DEF TInv, TypeOK, MemOK, FileOK, TurnOK, RoundOK, FlushOK, DownOK, FlushType

LEMMA FlushSteps ==
  ASSUME FlushOK, NEW f \in Flushers, NEW to \in {"idle", "begin", "append", "forget", "clear"}
  PROVE  /\ Step(f, to) => /\ FlushOK' /\ flush'[f].step = to
                           /\ flush'[f].ids = flush[f].ids /\ flush'[f].text = flush[f].text
                           /\ \A g \in Flushers \ {f} : flush'[g] = flush[g]
         /\ Done(f) => /\ FlushOK' /\ flush'[f] = Idle
                       /\ \A g \in Flushers \ {f} : flush'[g] = flush[g]
  <1> USE DEF FlushOK
  <1>1. flush[f] \in FlushType
    OBVIOUS
  <1>2. ASSUME Step(f, to)
        PROVE  /\ FlushOK' /\ flush'[f].step = to
               /\ flush'[f].ids = flush[f].ids /\ flush'[f].text = flush[f].text
               /\ \A g \in Flushers \ {f} : flush'[g] = flush[g]
    <2>1. flush' = [flush EXCEPT ![f] = [flush[f] EXCEPT !.step = to]]
      BY <1>2 DEF Step
    <2>2. [flush[f] EXCEPT !.step = to] \in FlushType
      BY <1>1 DEF FlushType
    <2> QED BY <1>1, <2>1, <2>2 DEF FlushType
  <1>3. ASSUME Done(f)
        PROVE  FlushOK' /\ flush'[f] = Idle /\ \A g \in Flushers \ {f} : flush'[g] = flush[g]
    BY <1>3, IdleType DEF Done
  <1> QED BY <1>2, <1>3

LEMMA Cleared ==
  ASSUME FileOK, dirty \in BOOLEAN, budget \in [Kinds -> Nat], NEW f \in Flushers, Clears(f)
  PROVE  /\ open' \in [Item -> Text] /\ dirty' \in BOOLEAN /\ budget' \in [Kinds -> Nat]
         /\ open' = open \/ (flush[f].ids # {} /\ open' = Nothing)
         /\ budget'["aside"] = budget["aside"]
  <1>1. CASE flush[f].ids = {}
    BY <1>1 DEF Clears, FileOK
  <1>2. CASE flush[f].ids # {}
    <2>1. CASE open' = Nothing /\ UNCHANGED budget
      BY <1>2, <2>1, Numbers DEF Clears
    <2>2. CASE UNCHANGED open /\ Spend("leftover")
      BY <1>2, <2>2, Spent DEF Clears, FileOK, Kinds
    <2> QED BY <1>2, <2>1, <2>2 DEF Clears
  <1> QED BY <1>1, <1>2

LEMMA TypeStep == TInv /\ [Next]_vars => TInv'
  <1> SUFFICES ASSUME TInv, [Next]_vars PROVE TInv'
    OBVIOUS
  <1> USE Numbers
  <1>0. MemOK /\ FileOK /\ TurnOK /\ RoundOK /\ FlushOK /\ DownOK /\ Counted
    BY Parts
  <1>1. UNCHANGED vars => TInv'
    <2> SUFFICES ASSUME UNCHANGED vars PROVE TInv'
      OBVIOUS
    <2>1. UNCHANGED <<state, items, last, mine, turnItems, dirty, open, log, exec, turn, goal, round,
                      record, unsaved, flush, budget>>
      BY DEF vars, memVars, fileVars, turnVars, roundVars
    <2> QED BY <1>0, <2>1, PartsNext
            DEF MemOK, FileOK, TurnOK, RoundOK, FlushOK, DownOK, Resting, Counted, Free
  <1>2. ASSUME state' = "up" PROVE DownOK'
    BY <1>2 DEF DownOK, Resting
  <1>3. ASSUME NEW i \in Item, Says(i), mine' \subseteq Item, last' \in 0 .. MaxItem,
               turnItems' \subseteq turnItems \cup {i}
        PROVE  TInv'
    <2>1. /\ items' = [items EXCEPT ![i] = @ + 1] /\ items[i] < MaxText /\ dirty' = TRUE /\ state' = "up"
          /\ UNCHANGED <<state, open, log, exec, turn, goal, round, record, unsaved, flush, budget>>
      BY <1>3 DEF Says, OwnerLock, Up, fileVars, turnVars, roundVars
    <2>2. items \in [Item -> Text] /\ items[i] \in Nat /\ items[i] + 1 \in Text
      BY <1>0, <2>1 DEF MemOK
    <2>3. \A j \in turnItems' : items'[j] > 0
      BY <1>0, <1>3, <2>1, <2>2 DEF MemOK
    <2>4. MemOK'
      BY <1>0, <1>3, <2>1, <2>2, <2>3 DEF MemOK
    <2>5. FileOK' /\ TurnOK' /\ RoundOK' /\ FlushOK' /\ Counted'
      BY <1>0, <2>1 DEF FileOK, TurnOK, RoundOK, FlushOK, Counted, Free
    <2> QED BY <1>2, <2>1, <2>4, <2>5, PartsNext
  <1>4. CASE Agent
    <2>1. CASE ItemBegins
      <3>1. last' \in Item
        BY <1>0, <2>1 DEF ItemBegins, Item, MemOK
      <3> QED BY <1>0, <2>1, <3>1, <1>3 DEF ItemBegins, MemOK, Item
    <2>2. CASE ItemDelta \/ ItemAgain
      BY <1>0, <2>2, <1>3 DEF ItemDelta, ItemAgain, MemOK
    <2>3. CASE TurnEnds
      <3>1. /\ state' = "up" /\ exec' = "saving" /\ goal' = "end" /\ turn' = turn /\ exec = "running"
            /\ UNCHANGED <<state, items, last, mine, turnItems, dirty, open, log>>
            /\ Recorded(turn, "settled") /\ Step("owner", "begin")
        BY <2>3 DEF TurnEnds, OwnerLock, Up, memVars, fileVars
      <3>2. turn \in Turn
        BY <1>0, <3>1 DEF Counted, TurnOK, Turn
      <3>3. budget' \in [Kinds -> Nat] /\ RoundOK'
        BY <1>0, <3>1, <3>2, Spent DEF Recorded, Kinds, TurnOK, RoundOK, Rounds
      <3>4. FlushOK' /\ Counted'
        BY <1>0, <3>1, FlushSteps DEF Counted, Flushers
      <3>5. MemOK' /\ FileOK' /\ TurnOK'
        BY <1>0, <3>1, <3>3 DEF MemOK, FileOK, TurnOK
      <3> QED BY <1>2, <3>1, <3>3, <3>4, <3>5, PartsNext
    <2> QED BY <1>4, <2>1, <2>2, <2>3 DEF Agent
  <1>5. CASE Checkpoint
    <2>1. /\ state' = "up" /\ dirty' = FALSE /\ open' = [i \in Item |-> IF i \in turnItems THEN items[i] ELSE 0]
          /\ UNCHANGED <<state, items, last, mine, turnItems, log, exec, turn, goal, round, record,
                         unsaved, flush, budget>>
      BY <1>5 DEF Checkpoint, OwnerLock, Up, turnVars, roundVars
    <2>2. MemOK' /\ FileOK'
      BY <1>0, <2>1 DEF MemOK, FileOK
    <2>3. TurnOK' /\ RoundOK' /\ FlushOK' /\ Counted'
      BY <1>0, <2>1 DEF TurnOK, RoundOK, FlushOK, Counted, Free
    <2> QED BY <1>2, <2>1, <2>2, <2>3, PartsNext
  <1>6. CASE Note
    <2>1. /\ state' = "up" /\ last < MaxItem /\ last' = last + 1 /\ items' = [items EXCEPT ![last'] = 1]
          /\ turnItems' = turnItems \cup {last'} /\ dirty' = TRUE /\ Step("dispatcher", "begin")
          /\ UNCHANGED <<state, mine, open, log, exec, turn, goal, round, record, unsaved>>
      BY <1>6 DEF Note, Up, fileVars, turnVars, roundVars
    <2>2. last' \in Item /\ budget' \in [Kinds -> Nat]
      BY <1>0, <1>6, Spent DEF Note, Item, Kinds, MemOK, TurnOK
    <2>3. MemOK'
      BY <1>0, <2>1, <2>2 DEF MemOK, Item
    <2>4. FlushOK' /\ Counted'
      BY <1>0, <2>1, FlushSteps DEF Counted, Flushers, Free
    <2>5. FileOK' /\ TurnOK' /\ RoundOK'
      BY <1>0, <2>1, <2>2 DEF FileOK, TurnOK, RoundOK
    <2> QED BY <1>2, <2>1, <2>3, <2>4, <2>5, PartsNext
  <1>7. CASE Claim
    <2>1. /\ state' = "up" /\ exec # "running" /\ turn < MaxTurn /\ goal' = "claim" /\ Step("owner", "begin")
          /\ UNCHANGED <<state, items, last, mine, turnItems, dirty, open, log, exec, turn, round, record, unsaved>>
      BY <1>7 DEF Claim, OwnerLock, Up, fileVars, memVars, roundVars
    <2>2. budget' \in [Kinds -> Nat]
      BY <1>0, <1>7, Spent DEF Claim, Kinds, TurnOK
    <2>3. FlushOK' /\ Counted'
      BY <1>0, <2>1, FlushSteps DEF Counted, Flushers
    <2>4. MemOK' /\ FileOK' /\ TurnOK' /\ RoundOK'
      BY <1>0, <2>1, <2>2 DEF MemOK, FileOK, TurnOK, RoundOK
    <2> QED BY <1>2, <2>1, <2>3, <2>4, PartsNext
  <1>8. CASE Saves
    <2>1. CASE TurnSaved
      <3>1. /\ state' = "up" /\ Clears("owner") /\ Done("owner") /\ exec' = "none" /\ mine' = {}
            /\ UNCHANGED <<state, items, last, turnItems, log, turn, goal, round, record, unsaved>>
        BY <2>1 DEF TurnSaved, Up, roundVars
      <3>2. FileOK' /\ dirty' \in BOOLEAN /\ budget' \in [Kinds -> Nat]
        BY <1>0, <3>1, Cleared DEF FileOK, MemOK, TurnOK, Flushers
      <3>3. MemOK' /\ TurnOK' /\ RoundOK'
        BY <1>0, <3>1, <3>2 DEF MemOK, TurnOK, RoundOK
      <3>4. FlushOK' /\ Counted'
        BY <1>0, <3>1, FlushSteps, IdleType DEF Counted, Flushers, Free
      <3> QED BY <1>2, <3>1, <3>2, <3>3, <3>4, PartsNext
    <2>2. CASE TurnBegins
      <3>1. /\ state' = "up" /\ Clears("owner") /\ Done("owner") /\ exec' = "running" /\ mine' = {}
            /\ flush["owner"].step = "clear" /\ goal = "claim" /\ turn' = turn + 1
            /\ UNCHANGED <<state, items, last, turnItems, log, goal>>
        BY <2>2 DEF TurnBegins, Up
      <3>2. FileOK' /\ dirty' \in BOOLEAN /\ budget' \in [Kinds -> Nat]
        BY <1>0, <3>1, Cleared DEF FileOK, MemOK, TurnOK, Flushers
      <3>3. turn' \in Turn
        BY <1>0, <3>1 DEF Counted, Free, TurnOK, Turn
      <3>4. RoundOK'
        BY <1>0, <2>2, <3>3 DEF TurnBegins, RoundOK, Rounds
      <3>5. MemOK' /\ TurnOK'
        BY <1>0, <3>1, <3>2, <3>3 DEF MemOK, TurnOK, Turn
      <3>6. FlushOK' /\ Counted'
        BY <1>0, <3>1, <3>3, FlushSteps, IdleType DEF Counted, Flushers, Free, Turn
      <3> QED BY <1>2, <3>1, <3>2, <3>4, <3>5, <3>6, PartsNext
    <2>3. CASE NoteSaved
      <3>1. /\ state' = "up" /\ Clears("dispatcher") /\ Done("dispatcher")
            /\ UNCHANGED <<state, items, last, mine, turnItems, log, exec, turn, goal, round, record, unsaved>>
        BY <2>3 DEF NoteSaved, Up, roundVars, turnVars
      <3>2. FileOK' /\ dirty' \in BOOLEAN /\ budget' \in [Kinds -> Nat]
        BY <1>0, <3>1, Cleared DEF FileOK, MemOK, TurnOK, Flushers
      <3>3. MemOK' /\ TurnOK' /\ RoundOK'
        BY <1>0, <3>1, <3>2 DEF MemOK, TurnOK, RoundOK
      <3>4. FlushOK' /\ Counted'
        BY <1>0, <3>1, FlushSteps DEF Counted, Flushers, Free
      <3> QED BY <1>2, <3>1, <3>2, <3>3, <3>4, PartsNext
    <2>4. ASSUME NEW f \in Flushers, FlushRounds(f) PROVE TInv'
      <3>1. /\ state' = "up" /\ flush[f].step = "begin"
            /\ flush' = [flush EXCEPT ![f] = [step |-> IF turnItems = {} THEN "clear" ELSE "append",
                                              ids |-> turnItems, text |-> items]]
            /\ UNCHANGED <<state, items, last, mine, turnItems, dirty, open, log, exec, turn, goal, round, budget>>
        BY <2>4 DEF FlushRounds, Up, memVars, fileVars, turnVars
      <3>2. RoundOK'
        BY <1>0, <2>4 DEF FlushRounds, RoundOK
      <3>3. MemOK' /\ FileOK' /\ TurnOK'
        BY <1>0, <3>1 DEF MemOK, FileOK, TurnOK
      <3>4. FlushOK'
        BY <1>0, <3>1 DEF FlushOK, FlushType, MemOK
      <3>5. Counted'
        BY <1>0, <3>1 DEF Counted, Free, FlushOK, Flushers
      <3> QED BY <1>2, <3>1, <3>2, <3>3, <3>4, <3>5, PartsNext
    <2>5. ASSUME NEW f \in Flushers, FlushAppends(f) PROVE TInv'
      <3>1. /\ state' = "up" /\ log' = Rows(flush[f].ids, flush[f].text) /\ Step(f, "forget")
            /\ flush[f].step = "append"
            /\ UNCHANGED <<state, items, last, mine, turnItems, dirty, open, exec, turn, goal, round,
                           record, unsaved, budget>>
        BY <2>5 DEF FlushAppends, Up, memVars, turnVars, roundVars
      <3>2. FileOK'
        BY <1>0, <3>1, RowsType DEF FileOK, FlushOK, FlushType
      <3>3. MemOK' /\ TurnOK' /\ RoundOK'
        BY <1>0, <3>1 DEF MemOK, TurnOK, RoundOK
      <3>4. FlushOK' /\ Counted'
        BY <1>0, <3>1, FlushSteps DEF Counted, Flushers, Free
      <3> QED BY <1>2, <3>1, <3>2, <3>3, <3>4, PartsNext
    <2>6. ASSUME NEW f \in Flushers, FlushForgets(f) PROVE TInv'
      <3>1. /\ state' = "up" /\ turnItems' = turnItems \ flush[f].ids /\ Step(f, "clear")
            /\ flush[f].step = "forget"
            /\ UNCHANGED <<state, items, last, mine, dirty, open, log, exec, turn, goal, round,
                           record, unsaved, budget>>
        BY <2>6 DEF FlushForgets, Up, fileVars, turnVars, roundVars
      <3>2. MemOK' /\ FileOK' /\ TurnOK' /\ RoundOK'
        BY <1>0, <3>1 DEF MemOK, FileOK, TurnOK, RoundOK
      <3>3. FlushOK' /\ Counted'
        BY <1>0, <3>1, FlushSteps DEF Counted, Flushers, Free
      <3> QED BY <1>2, <3>1, <3>2, <3>3, PartsNext
    <2> QED BY <1>8, <2>1, <2>2, <2>3, <2>4, <2>5, <2>6 DEF Saves, Flush
  <1>9. ASSUME NEW f \in Flushers, FlushFails(f) PROVE TInv'
    <2>1. /\ state' = "up" /\ Spend("saveFail") /\ Done(f)
          /\ UNCHANGED <<state, items, last, mine, turnItems, exec, turn, goal, round, record, unsaved>>
      BY <1>9 DEF FlushFails, Up, turnVars, roundVars
    <2>2. log' = log \/ log' \in Begun(flush[f].ids, flush[f].text)
      BY <1>9 DEF FlushFails
    <2>3. log' \in [Item -> Text]
      BY <1>0, <2>2, RowsType DEF FileOK, FlushOK, FlushType
    <2>4. (open' = open \/ open' = Nothing) /\ (dirty' = dirty \/ dirty' = FALSE)
      BY <1>9 DEF FlushFails
    <2>5. FileOK' /\ MemOK' /\ RoundOK'
      BY <1>0, <2>1, <2>3, <2>4 DEF FileOK, MemOK, RoundOK
    <2>6. TurnOK'
      BY <1>0, <2>1, Spent DEF TurnOK, Kinds
    <2>7. FlushOK' /\ Counted'
      BY <1>0, <2>1, FlushSteps, IdleType DEF Counted, Flushers, Free
    <2> QED BY <1>2, <2>1, <2>5, <2>6, <2>7, PartsNext
  <1>10. CASE Die
    <2>1. /\ state' = "down" /\ Spend("die") /\ items' = Nothing /\ mine' = {} /\ turnItems' = {} /\ dirty' = FALSE
          /\ unsaved' = {} /\ round' = [t \in Turn |-> "none"] /\ exec' = "none"
          /\ flush' = [f \in Flushers |-> Idle] /\ UNCHANGED <<last, open, turn, goal, record>>
      BY <1>10 DEF Die
    <2>2. log' = log \/ \E f \in Flushers : log' \in Begun(flush[f].ids, flush[f].text)
      BY <1>10 DEF Die
    <2>3. FileOK'
      BY <1>0, <2>1, <2>2, RowsType DEF FileOK, FlushOK, FlushType
    <2>4. MemOK' /\ RoundOK'
      BY <1>0, <2>1 DEF MemOK, RoundOK, Rounds
    <2>5. TurnOK'
      BY <1>0, <2>1, Spent DEF TurnOK, Kinds
    <2>6. FlushOK' /\ Counted' /\ DownOK'
      BY <2>1, IdleType DEF FlushOK, Counted, DownOK, Resting, Free, Flushers
    <2> QED BY <2>3, <2>4, <2>5, <2>6, PartsNext
  <1>11. CASE Load
    <2>1. /\ state = "down" /\ state' = "loading" /\ log' = Rows(Fresh, open) /\ items' = log' /\ round' = record
          /\ UNCHANGED <<last, mine, turnItems, dirty, open, exec, turn, goal, record, unsaved, flush, budget>>
      BY <1>11 DEF Load, turnVars
    <2>2. log' \in [Item -> Text] /\ \A i \in Item : log'[i] = IF i \in Fresh THEN open[i] ELSE log[i]
      BY <1>0, <2>1, RowsType DEF FileOK
    <2>3. turnItems = {} /\ mine = {} /\ unsaved = {} /\ exec = "none" /\ \A f \in Flushers : flush[f] = Idle
      BY <1>0, <2>1 DEF DownOK, Resting
    <2>4. MemOK' /\ FileOK' /\ TurnOK' /\ RoundOK' /\ FlushOK'
      BY <1>0, <2>1, <2>2, <2>3 DEF MemOK, FileOK, TurnOK, RoundOK, FlushOK
    <2>5. \A i \in Item : log'[i] = 0 => open[i] = 0
      <3> SUFFICES ASSUME NEW i \in Item, log'[i] = 0, open[i] # 0 PROVE FALSE
        OBVIOUS
      <3>1. open[i] \in Nat /\ log[i] \in Nat
        BY <1>0 DEF FileOK
      <3> QED BY <2>2, <3>1 DEF Fresh
    <2>6. DownOK' /\ Counted'
      BY <1>0, <2>1, <2>3, <2>5 DEF DownOK, Resting, Counted, Free
    <2> QED BY <2>4, <2>6, PartsNext
  <1>12. CASE LoadClears
    <2>1. /\ state' = "up" /\ (open' = Nothing \/ open' = open)
          /\ UNCHANGED <<items, last, mine, turnItems, dirty, log, exec, turn, goal, round, record, unsaved, flush>>
      BY <1>12 DEF LoadClears, memVars, turnVars, roundVars
    <2>2. budget' \in [Kinds -> Nat]
      BY <1>0, <1>12, Spent DEF LoadClears, Kinds, TurnOK
    <2>3. MemOK' /\ FileOK' /\ TurnOK' /\ RoundOK' /\ FlushOK' /\ Counted'
      BY <1>0, <2>1, <2>2 DEF MemOK, FileOK, TurnOK, RoundOK, FlushOK, Counted, Free
    <2> QED BY <1>2, <2>1, <2>3, PartsNext
  <1>13. CASE LoadFails
    <2>1. /\ state = "down" /\ state' = "up" /\ Spend("loadFail") /\ log' \in Begun(Fresh, open)
          /\ items' = Rows(Fresh, open) /\ turnItems' = Fresh /\ round' = record
          /\ UNCHANGED <<last, mine, dirty, open, exec, turn, goal, record, unsaved, flush>>
      BY <1>13 DEF LoadFails, turnVars
    <2>2. /\ log' \in [Item -> Text] /\ items' \in [Item -> Text]
          /\ \A i \in Item : items'[i] = IF i \in Fresh THEN open[i] ELSE log[i]
      BY <1>0, <2>1, RowsType DEF FileOK
    <2>3. Fresh \subseteq Item /\ \A i \in Fresh : items'[i] > 0
      BY <2>2 DEF Fresh
    <2>4. MemOK' /\ FileOK' /\ RoundOK' /\ FlushOK' /\ Counted'
      BY <1>0, <2>1, <2>2, <2>3 DEF MemOK, FileOK, RoundOK, FlushOK, Counted, Free
    <2>5. TurnOK'
      BY <1>0, <2>1, Spent DEF TurnOK, Kinds
    <2> QED BY <1>2, <2>1, <2>4, <2>5, PartsNext
  <1> QED BY <1>1, <1>4, <1>5, <1>6, <1>7, <1>8, <1>9, <1>10, <1>11, <1>12, <1>13
          DEF Next, Failures, Daemon, Rest

(* Everything a session keeps of its words has its type, at every crash, failed
   write and flush beside the owner's (manager.rs, flush_turn, recover_interrupted_turn). *)
THEOREM TypesKept == Spec => []TypeOK
  <1>1. Spec => []TInv
    BY TypeInit, TypeStep, PTL DEF Spec
  <1> QED BY <1>1, PTL DEF TInv
-----------------------------------------------------------------------------
LEMMA HeldInit == Init => Held
  BY Numbers DEF Init, Held, Numbered, Apart, Taken, Covers, NothingIsForgotten, Free, Idle, Nothing, Flushers

(* What stays true of the parts of Held when nothing they look at changes. *)
LEMMA Quiet ==
  ASSUME UNCHANGED <<state, items, last, mine, turnItems, open, log>>
  PROVE  (Numbered => Numbered') /\ (Covers => Covers')
  BY DEF Numbered, Covers, Up

LEMMA HeldStep ==
  ASSUME TInv, Held, [Next]_vars, budget'["aside"] = budget["aside"]
  PROVE  Held'
  <1> USE Numbers
  <1>0. /\ MemOK /\ FileOK /\ TurnOK /\ RoundOK /\ FlushOK /\ DownOK /\ Counted
        /\ MemOK' /\ FileOK' /\ TurnOK' /\ RoundOK' /\ FlushOK' /\ DownOK' /\ Counted'
    BY Parts, PartsNext, TypeStep
  <1>h. Numbered /\ Apart /\ Taken /\ Covers /\ NothingIsForgotten
    BY DEF Held
  <1>n. /\ items \in [Item -> Nat] /\ log \in [Item -> Nat] /\ open \in [Item -> Nat]
        /\ last \in Nat /\ \A i \in Item : i \in Nat
    <2>1. \A t \in [Item -> Text] : t \in [Item -> Nat]
      OBVIOUS
    <2> QED BY <1>0, <2>1 DEF MemOK, FileOK
  <1>1. CASE UNCHANGED vars
    <2>1. UNCHANGED <<state, items, last, mine, turnItems, dirty, open, log, exec, turn, goal, round,
                      record, unsaved, flush, budget>>
      BY <1>1 DEF vars, memVars, fileVars, turnVars, roundVars
    <2> QED BY <1>h, <2>1 DEF Held, Numbered, Apart, Taken, Covers, NothingIsForgotten, Up, Free
  <1>2. ASSUME NEW i \in Item, Says(i), i \in mine', last' >= last, i <= last',
               mine' = mine \/ (i = last' /\ mine' = mine \cup {i} /\ last' > last),
               turnItems' = turnItems \cup {i} \/ (turnItems' = turnItems /\ i \in mine),
               last' \in Nat
        PROVE  Held'
    <2>1. /\ items' = [items EXCEPT ![i] = @ + 1] /\ state = "up" /\ exec = "running" /\ flush["owner"].step = "idle"
          /\ UNCHANGED <<state, open, log, exec, turn, goal, round, record, unsaved, flush, budget>>
      BY <1>2 DEF Says, OwnerLock, Up, Free, fileVars, turnVars, roundVars
    <2>2. mine \subseteq turnItems /\ \A f \in Flushers : flush[f].step = "idle"
      BY <1>h, <2>1 DEF Apart, Flushers, Free
    <2>3. i \in turnItems' /\ turnItems' = turnItems \cup {i}
      BY <1>2, <2>2
    <2>4. Numbered'
      BY <1>2, <1>h, <1>n, <2>1 DEF Numbered
    <2>5. Apart' /\ Taken'
      BY <1>2, <1>h, <2>1, <2>2, <2>3 DEF Apart, Taken, Free, Flushers
    <2>6. items'[i] = items[i] + 1 /\ \A j \in Item \ {i} : items'[j] = items[j]
      BY <1>n, <2>1
    <2>7. Covers'
      <3>1. items[i] >= log[i] /\ (log[i] = 0 => items[i] >= open[i])
        BY <1>h, <1>n, <2>1 DEF Covers, NothingIsForgotten, Up
      <3> QED BY <1>h, <1>n, <2>1, <2>3, <2>6, <3>1 DEF Covers, Up
    <2>8. NothingIsForgotten'
      BY <1>h, <2>1, <2>3, <2>6 DEF NothingIsForgotten, Up
    <2> QED BY <2>4, <2>5, <2>7, <2>8 DEF Held
  <1>3. CASE Agent
    <2>1. CASE ItemBegins
      <3>1. last' \in Item /\ last' = last + 1
        BY <1>0, <2>1 DEF ItemBegins, Item, MemOK
      <3> QED BY <1>n, <2>1, <3>1, <1>2 DEF ItemBegins
    <2>2. CASE ItemDelta \/ ItemAgain
      <3>1. PICK i \in mine : /\ Says(i) /\ UNCHANGED <<last, mine>>
                              /\ turnItems' = turnItems \/ turnItems' = turnItems \cup {i}
        BY <2>2 DEF ItemDelta, ItemAgain
      <3> QED BY <1>0, <1>h, <1>n, <3>1, <1>2 DEF MemOK, Numbered
    <2>3. CASE TurnEnds
      <3>1. /\ state' = "up" /\ exec' = "saving" /\ exec = "running" /\ Recorded(turn, "settled")
            /\ Step("owner", "begin")
            /\ UNCHANGED <<state, items, last, mine, turnItems, dirty, open, log>>
        BY <2>3 DEF TurnEnds, OwnerLock, Up, memVars, fileVars
      <3>2. /\ flush'["owner"].step = "begin" /\ flush["dispatcher"].step = "idle"
            /\ flush'["dispatcher"] = flush["dispatcher"]
        BY <1>0, <1>h, <3>1, FlushSteps DEF Apart, Free, Flushers
      <3>3. Numbered' /\ Covers'
        BY <1>h, <3>1, Quiet
      <3>4. Apart' /\ Taken'
        BY <3>1, <3>2 DEF Apart, Taken, Free, Flushers
      <3>5. \A t \in Turn \ unsaved' : record'[t] = round'[t]
        BY <1>0, <1>h, <3>1 DEF Recorded, NothingIsForgotten, Up, RoundOK
      <3>6. NothingIsForgotten'
        BY <1>h, <3>1, <3>5 DEF NothingIsForgotten, Up
      <3> QED BY <3>3, <3>4, <3>6 DEF Held
    <2> QED BY <1>3, <2>1, <2>2, <2>3 DEF Agent
  <1>4. CASE Checkpoint
    <2>1. /\ state = "up" /\ open' = [i \in Item |-> IF i \in turnItems THEN items[i] ELSE 0]
          /\ UNCHANGED <<state, items, last, mine, turnItems, log, exec, turn, goal, round, record,
                         unsaved, flush, budget>>
      BY <1>4 DEF Checkpoint, OwnerLock, Up, turnVars, roundVars
    <2>2. Numbered' /\ Covers'
      BY <1>0, <1>h, <1>n, <2>1 DEF Numbered, Covers, Up
    <2>3. Apart' /\ Taken' /\ NothingIsForgotten'
      BY <1>h, <2>1 DEF Apart, Taken, NothingIsForgotten, Up, Free
    <2> QED BY <2>2, <2>3 DEF Held
  <1>5. CASE Note
    <2>1. /\ state = "up" /\ last < MaxItem /\ last' = last + 1 /\ items' = [items EXCEPT ![last'] = 1]
          /\ turnItems' = turnItems \cup {last'} /\ Step("dispatcher", "begin")
          /\ flush["dispatcher"].step = "idle"
          /\ UNCHANGED <<state, mine, open, log, exec, turn, goal, round, record, unsaved>>
      BY <1>5 DEF Note, Up, Free, fileVars, turnVars, roundVars
    <2>2. exec # "running" /\ flush["owner"].step = "idle"
      BY <1>0, <1>5, Spent DEF Note, Free, Kinds, TurnOK
    <2>3. /\ flush'["dispatcher"].step = "begin" /\ flush'["owner"] = flush["owner"]
      BY <1>0, <2>1, FlushSteps DEF Flushers
    <2>4. last' \in Item
      BY <1>0, <2>1 DEF MemOK, Item
    <2>5. items'[last'] = 1 /\ log[last'] = 0 /\ open[last'] = 0 /\ \A j \in Item \ {last'} : items'[j] = items[j]
      BY <1>h, <1>n, <2>1, <2>4 DEF Numbered
    <2>6. Numbered'
      BY <1>h, <1>n, <1>0, <2>1, <2>4, <2>5 DEF Numbered, MemOK
    <2>7. Apart' /\ Taken'
      BY <2>1, <2>2, <2>3 DEF Apart, Taken, Free, Flushers
    <2>8. Covers'
      BY <1>h, <1>n, <2>1, <2>4, <2>5 DEF Covers, Up
    <2>9. NothingIsForgotten'
      BY <1>h, <2>1, <2>5 DEF NothingIsForgotten, Up
    <2> QED BY <2>6, <2>7, <2>8, <2>9 DEF Held
  <1>6. CASE Claim
    <2>1. /\ exec # "running" /\ Step("owner", "begin") /\ flush["owner"].step = "idle"
          /\ UNCHANGED <<state, items, last, mine, turnItems, dirty, open, log, exec, turn, round, record, unsaved>>
      BY <1>6 DEF Claim, OwnerLock, Up, Free, fileVars, memVars, roundVars
    <2>2. flush["dispatcher"].step = "idle"
      BY <1>0, <1>6, Spent DEF Claim, Free, Kinds, TurnOK
    <2>3. flush'["owner"].step = "begin" /\ flush'["dispatcher"] = flush["dispatcher"]
      BY <1>0, <2>1, FlushSteps DEF Flushers
    <2>4. Numbered' /\ Covers'
      BY <1>h, <2>1, Quiet
    <2>5. Apart' /\ Taken' /\ NothingIsForgotten'
      BY <1>h, <2>1, <2>2, <2>3 DEF Apart, Taken, NothingIsForgotten, Up, Free, Flushers
    <2> QED BY <2>4, <2>5 DEF Held
  <1>7. CASE Saves
    <2>1. ASSUME NEW f \in Flushers, state' = "up", flush[f].step = "clear", Clears(f), Done(f),
                 UNCHANGED <<state, items, last, turnItems, log>>,
                 mine' = mine \/ mine' = {}, exec' # "running" \/ (exec' = "running" /\ f = "owner" /\ mine' = {}),
                 \A t \in Turn \ unsaved' : record'[t] = round'[t]
          PROVE  Held'
      <3>1. turnItems = {} /\ (open' = open \/ open' = Nothing)
        BY <1>0, <1>h, <2>1, Cleared DEF Taken, MemOK, TurnOK
      <3>2. flush'[f].step = "idle" /\ \A g \in Flushers \ {f} : flush'[g] = flush[g]
        BY <1>0, <2>1, FlushSteps, IdleType
      <3>3. Numbered'
        BY <1>h, <1>n, <2>1, <3>1 DEF Numbered, Nothing
      <3>4. Covers'
        BY <1>h, <2>1, <3>1 DEF Covers, Up, Nothing
      <3>5. \A g \in Flushers : flush'[g].step = "idle"
        BY <1>h, <2>1, <3>2 DEF Apart, Free, Flushers
      <3>6. Apart' /\ Taken'
        BY <2>1, <3>1, <3>5 DEF Apart, Taken, Free, Flushers
      <3>7. NothingIsForgotten'
        BY <1>h, <2>1 DEF NothingIsForgotten, Up
      <3> QED BY <3>3, <3>4, <3>6, <3>7 DEF Held
    <2>2. CASE TurnSaved
      <3>1. /\ state' = "up" /\ state = "up" /\ Clears("owner") /\ Done("owner") /\ exec' = "none" /\ mine' = {}
            /\ flush["owner"].step = "clear"
            /\ UNCHANGED <<state, items, last, turnItems, log, turn, goal, round, record, unsaved>>
        BY <2>2 DEF TurnSaved, Up, roundVars
      <3>2. \A t \in Turn \ unsaved' : record'[t] = round'[t]
        BY <1>h, <3>1 DEF NothingIsForgotten, Up
      <3> QED BY <2>1, <3>1, <3>2 DEF Flushers
    <2>3. CASE TurnBegins
      <3>1. /\ state' = "up" /\ state = "up" /\ Clears("owner") /\ Done("owner") /\ exec' = "running" /\ mine' = {}
            /\ flush["owner"].step = "clear" /\ UNCHANGED <<state, items, last, turnItems, log, goal>>
            /\ round' = [round EXCEPT ![turn'] = "open"]
            /\ \/ record' = [record EXCEPT ![turn'] = "open"] /\ UNCHANGED unsaved
               \/ unsaved' = unsaved \cup {turn'} /\ UNCHANGED record
        BY <2>3 DEF TurnBegins, Up
      <3>2. \A t \in Turn \ unsaved' : record'[t] = round'[t]
        BY <1>0, <1>h, <3>1 DEF NothingIsForgotten, Up, RoundOK
      <3> QED BY <2>1, <3>1, <3>2 DEF Flushers
    <2>4. CASE NoteSaved
      <3>1. /\ state' = "up" /\ state = "up" /\ Clears("dispatcher") /\ Done("dispatcher")
            /\ flush["dispatcher"].step = "clear"
            /\ UNCHANGED <<state, items, last, mine, turnItems, log, exec, turn, goal, round, record, unsaved>>
        BY <2>4 DEF NoteSaved, Up, roundVars, turnVars
      <3>2. exec # "running" /\ \A t \in Turn \ unsaved' : record'[t] = round'[t]
        BY <1>h, <3>1 DEF Apart, Free, NothingIsForgotten, Up
      <3> QED BY <2>1, <3>1, <3>2 DEF Flushers
    <2>5. ASSUME NEW f \in Flushers, FlushRounds(f) PROVE Held'
      <3>1. /\ state = "up" /\ flush[f].step = "begin" /\ unsaved' = {}
            /\ record' = [t \in Turn |-> IF t \in unsaved THEN round[t] ELSE record[t]]
            /\ flush' = [flush EXCEPT ![f] = [step |-> IF turnItems = {} THEN "clear" ELSE "append",
                                              ids |-> turnItems, text |-> items]]
            /\ UNCHANGED <<state, items, last, mine, turnItems, dirty, open, log, exec, turn, goal, round, budget>>
        BY <2>5 DEF FlushRounds, Up, memVars, fileVars, turnVars
      <3>2. /\ flush'[f].step \in {"clear", "append"} /\ (flush'[f].step = "clear" => turnItems = {})
            /\ flush'[f].ids = turnItems /\ flush'[f].text = items
            /\ \A g \in Flushers \ {f} : flush'[g] = flush[g]
        BY <1>0, <3>1 DEF FlushOK
      <3>3. Numbered' /\ Covers'
        BY <1>h, <3>1, Quiet
      <3>4. Taken'
        BY <1>h, <3>1, <3>2 DEF Taken
      <3>5. Apart'
        BY <1>h, <3>1, <3>2 DEF Apart, Free, Flushers
      <3>6. NothingIsForgotten'
        BY <1>h, <3>1 DEF NothingIsForgotten, Up
      <3> QED BY <3>3, <3>4, <3>5, <3>6 DEF Held
    <2>6. ASSUME NEW f \in Flushers, FlushAppends(f) PROVE Held'
      <3>1. /\ state = "up" /\ log' = Rows(flush[f].ids, flush[f].text) /\ Step(f, "forget")
            /\ flush[f].step = "append"
            /\ UNCHANGED <<state, items, last, mine, turnItems, dirty, open, exec, turn, goal, round,
                           record, unsaved, budget>>
        BY <2>6 DEF FlushAppends, Up, memVars, turnVars, roundVars
      <3>2. flush[f].ids = turnItems /\ flush[f].text = items
        BY <1>h, <3>1 DEF Taken
      <3>3. \A i \in Item : log'[i] = IF i \in turnItems THEN items[i] ELSE log[i]
        BY <1>0, <3>1, <3>2, RowsType DEF FileOK, MemOK
      <3>4. /\ flush'[f].step = "forget" /\ flush'[f].ids = flush[f].ids /\ flush'[f].text = flush[f].text
            /\ \A g \in Flushers \ {f} : flush'[g] = flush[g]
        BY <1>0, <3>1, FlushSteps
      <3>5. Numbered'
        BY <1>0, <1>h, <1>n, <3>1, <3>3 DEF Numbered
      <3>6. Covers'
        BY <1>0, <1>h, <1>n, <3>1, <3>3 DEF Covers, Up, MemOK
      <3>7. Taken'
        BY <1>0, <1>h, <3>1, <3>2, <3>3, <3>4 DEF Taken, MemOK
      <3>8. Apart'
        BY <1>h, <3>1, <3>4 DEF Apart, Free, Flushers
      <3>9. NothingIsForgotten'
        BY <1>h, <3>1, <3>3 DEF NothingIsForgotten, Up
      <3> QED BY <3>5, <3>6, <3>7, <3>8, <3>9 DEF Held
    <2>7. ASSUME NEW f \in Flushers, FlushForgets(f) PROVE Held'
      <3>1. /\ state = "up" /\ turnItems' = turnItems \ flush[f].ids /\ Step(f, "clear")
            /\ flush[f].step = "forget"
            /\ UNCHANGED <<state, items, last, mine, dirty, open, log, exec, turn, goal, round,
                           record, unsaved, budget>>
        BY <2>7 DEF FlushForgets, Up, fileVars, turnVars, roundVars
      <3>2. flush[f].ids = turnItems /\ turnItems' = {} /\ \A i \in turnItems : log[i] = items[i] /\ items[i] > 0
        BY <1>0, <1>h, <3>1 DEF Taken, MemOK
      <3>3. flush'[f].step = "clear" /\ \A g \in Flushers \ {f} : flush'[g] = flush[g]
        BY <1>0, <3>1, FlushSteps
      <3>4. \A g \in Flushers \ {f} : flush[g].step = "idle" /\ exec # "running"
        BY <1>h, <3>1 DEF Apart, Free, Flushers
      <3>5. Numbered' /\ Covers'
        BY <1>h, <3>1, <3>2 DEF Numbered, Covers, Up
      <3>6. Taken' /\ Apart'
        BY <3>1, <3>2, <3>3, <3>4 DEF Taken, Apart, Free, Flushers
      <3>7. NothingIsForgotten'
        BY <1>h, <3>1, <3>2 DEF NothingIsForgotten, Up
      <3> QED BY <3>5, <3>6, <3>7 DEF Held
    <2> QED BY <1>7, <2>2, <2>3, <2>4, <2>5, <2>6, <2>7 DEF Saves, Flush
  <1>8. ASSUME NEW f \in Flushers, FlushFails(f) PROVE Held'
    <2>1. /\ state = "up" /\ Done(f)
          /\ UNCHANGED <<state, items, last, mine, turnItems, exec, turn, goal, round, record, unsaved>>
      BY <1>8 DEF FlushFails, Up, turnVars, roundVars
    <2>2. flush'[f].step = "idle" /\ \A g \in Flushers \ {f} : flush'[g] = flush[g]
      BY <1>0, <2>1, FlushSteps, IdleType
    <2>3. flush[f].step # "idle"
      BY <1>8 DEF FlushFails
    <2>4. \A g \in Flushers : flush'[g].step = "idle" /\ exec # "running"
      BY <1>h, <2>2, <2>3 DEF Apart, Free, Flushers
    <2>5. Taken' /\ Apart'
      BY <2>1, <2>4 DEF Taken, Apart, Free, Flushers
    <2>6. CASE log' = log /\ (open' = open \/ (open' = Nothing /\ flush[f].step = "clear"))
      <3>1. open' = open \/ (open' = Nothing /\ turnItems = {})
        BY <1>h, <2>6 DEF Taken
      <3>2. Numbered' /\ Covers'
        BY <1>h, <2>1, <2>6, <3>1 DEF Numbered, Covers, Up, Nothing
      <3>3. NothingIsForgotten'
        BY <1>h, <2>1, <2>6 DEF NothingIsForgotten, Up
      <3> QED BY <2>5, <3>2, <3>3 DEF Held
    <2>7. CASE flush[f].step = "append" /\ log' \in Begun(flush[f].ids, flush[f].text) /\ UNCHANGED open
      <3>1. flush[f].ids = turnItems /\ flush[f].text = items
        BY <1>h, <2>7 DEF Taken
      <3>2. \A i \in Item : log'[i] = log[i] \/ (i \in turnItems /\ log'[i] = items[i])
        BY <1>0, <2>7, <3>1, RowsType DEF FileOK, MemOK
      <3>3. Numbered' /\ Covers'
        BY <1>0, <1>h, <1>n, <2>1, <2>7, <3>2 DEF Numbered, Covers, Up, MemOK
      <3>4. NothingIsForgotten'
        BY <1>h, <2>1, <3>2 DEF NothingIsForgotten, Up
      <3> QED BY <2>5, <3>3, <3>4 DEF Held
    <2> QED BY <1>8, <2>6, <2>7 DEF FlushFails
  <1>9. CASE Die
    <2>1. /\ state' = "down" /\ items' = Nothing /\ mine' = {} /\ turnItems' = {}
          /\ flush' = [f \in Flushers |-> Idle] /\ exec' = "none" /\ UNCHANGED <<last, open>>
          /\ log' = log \/ \E f \in Flushers : flush[f].step = "append" /\ log' \in Begun(flush[f].ids, flush[f].text)
      BY <1>9 DEF Die
    <2>2. \A i \in Item : log'[i] = log[i] \/ log'[i] = items[i]
      <3>1. ASSUME NEW f \in Flushers, flush[f].step = "append", log' \in Begun(flush[f].ids, flush[f].text)
            PROVE  \A i \in Item : log'[i] = log[i] \/ log'[i] = items[i]
        <4>1. flush[f].ids = turnItems /\ flush[f].text = items
          BY <1>h, <3>1 DEF Taken
        <4> QED BY <1>0, <3>1, <4>1, RowsType DEF FileOK, MemOK
      <3> QED BY <2>1, <3>1
    <2>3. Numbered'
      BY <1>h, <2>1, <2>2 DEF Numbered, Nothing
    <2> QED BY <2>1, <2>3, IdleType DEF Held, Apart, Taken, Covers, NothingIsForgotten, Up, Free, Flushers
  <1>10. CASE Load
    <2>1. /\ state = "down" /\ state' = "loading" /\ log' = Rows(Fresh, open) /\ items' = log'
          /\ UNCHANGED <<last, mine, turnItems, open, exec, flush>>
      BY <1>10 DEF Load, turnVars
    <2>2. \A i \in Item : log'[i] = IF i \in Fresh THEN open[i] ELSE log[i]
      BY <1>0, <2>1, RowsType DEF FileOK
    <2>3. mine = {} /\ turnItems = {} /\ exec = "none" /\ \A f \in Flushers : flush[f].step = "idle"
      BY <1>0, <2>1, IdleType DEF DownOK, Resting
    <2>4. Numbered'
      BY <1>h, <2>1, <2>2, <2>3 DEF Numbered, Fresh
    <2> QED BY <2>1, <2>3, <2>4 DEF Held, Apart, Taken, Covers, NothingIsForgotten, Up, Free, Flushers
  <1>11. CASE LoadClears
    <2>1. /\ state = "loading" /\ state' = "up" /\ (open' = Nothing \/ open' = open)
          /\ UNCHANGED <<items, last, mine, turnItems, log, exec, round, record, unsaved, flush>>
      BY <1>11 DEF LoadClears, memVars, turnVars, roundVars
    <2>2. /\ mine = {} /\ turnItems = {} /\ exec = "none" /\ \A f \in Flushers : flush[f].step = "idle"
          /\ items = log /\ round = record /\ \A i \in Item : log[i] = 0 => open[i] = 0
      BY <1>0, <2>1, IdleType DEF DownOK, Resting
    <2>3. Numbered' /\ Covers' /\ NothingIsForgotten'
      BY <1>h, <2>1, <2>2 DEF Numbered, Covers, NothingIsForgotten, Nothing
    <2> QED BY <2>1, <2>2, <2>3 DEF Held, Apart, Taken, Free, Flushers
  <1>12. CASE LoadFails
    <2>1. /\ state = "down" /\ state' = "up" /\ log' \in Begun(Fresh, open)
          /\ items' = Rows(Fresh, open) /\ turnItems' = Fresh /\ round' = record
          /\ UNCHANGED <<last, mine, open, exec, record, unsaved, flush>>
      BY <1>12 DEF LoadFails, turnVars
    <2>2. /\ \A i \in Item : items'[i] = IF i \in Fresh THEN open[i] ELSE log[i]
          /\ \A i \in Item : log'[i] = log[i] \/ (i \in Fresh /\ log'[i] = open[i])
      BY <1>0, <2>1, RowsType DEF FileOK
    <2>3. mine = {} /\ exec = "none" /\ \A f \in Flushers : flush[f].step = "idle"
      BY <1>0, <2>1, IdleType DEF DownOK, Resting
    <2>4. \A i \in Item : i \in Fresh <=> open[i] > 0 /\ log[i] = 0
      BY DEF Fresh
    <2>5. Numbered'
      BY <1>h, <2>1, <2>2, <2>3 DEF Numbered
    <2>6. Covers'
      BY <1>n, <2>1, <2>2, <2>4 DEF Covers
    <2>7. NothingIsForgotten'
      BY <2>1, <2>2 DEF NothingIsForgotten
    <2> QED BY <2>1, <2>3, <2>5, <2>6, <2>7 DEF Held, Apart, Taken, Free, Flushers
  <1> QED BY <1>1, <1>3, <1>4, <1>5, <1>6, <1>7, <1>8, <1>9, <1>10, <1>11, <1>12
          DEF Next, Failures, Daemon, Rest

LEMMA Inv == Spec /\ NoneAside => []IInv
  <1>1. Init => IInv
    BY TypeInit, HeldInit DEF IInv
  <1>2. IInv /\ [Next]_vars /\ [budget'["aside"] = budget["aside"]]_vars => IInv'
    <2> SUFFICES ASSUME IInv, [Next]_vars, [budget'["aside"] = budget["aside"]]_vars PROVE IInv'
      OBVIOUS
    <2>1. budget'["aside"] = budget["aside"]
      BY DEF vars
    <2> QED BY <2>1, TypeStep, HeldStep DEF IInv
  <1> QED BY <1>1, <1>2, PTL DEF Spec, NoneAside

(* While nobody flushes beside the owner of the execution, what the next flush
   would not append is in the log as it is in memory, whatever write or load failed
   and whenever the daemon died (manager.rs, flush_turn, record_round). *)
THEOREM NothingForgotten == Spec /\ NoneAside => []NothingIsForgotten
  BY Inv, PTL DEF IInv, Held

(* What a restart would show of an item never shrinks, while nobody flushes beside
   the owner: no checkpoint is replaced or removed whose words are nowhere else
   (manager.rs, persist_open_turn_if_due, flush_turn, recover_interrupted_turn). *)
THEOREM KeptGrows == Spec /\ NoneAside => KeptNeverShrinks
  <1>1. ASSUME IInv, IInv', [Next]_vars, budget'["aside"] = budget["aside"], NEW i \in Item
        PROVE  Kept(i)' >= Kept(i)
    <2> USE Numbers
    <2>0. MemOK /\ FileOK /\ FlushOK /\ DownOK /\ FileOK' /\ Taken /\ Covers /\ NothingIsForgotten
      BY <1>1, Parts, PartsNext DEF IInv, Held
    <2>1. /\ log[i] \in Nat /\ open[i] \in Nat /\ items[i] \in Nat
          /\ log'[i] \in Nat /\ open'[i] \in Nat
      BY <2>0 DEF MemOK, FileOK
    <2>2. CASE log' = log /\ open' = open
      BY <2>1, <2>2 DEF Kept
    (* An append, complete or not. *)
    <2>3. ASSUME NEW f \in Flushers, flush[f].step = "append",
                 log' = Rows(flush[f].ids, flush[f].text) \/ log' \in Begun(flush[f].ids, flush[f].text),
                 open' = open, state = "up"
          PROVE  Kept(i)' >= Kept(i)
      <3>1. flush[f].ids = turnItems /\ flush[f].text = items
        BY <2>0, <2>3 DEF Taken
      <3>2. log'[i] = log[i] \/ (i \in turnItems /\ log'[i] = items[i])
        BY <2>0, <2>3, <3>1, RowsType DEF FileOK, MemOK
      <3>3. i \in turnItems => items[i] >= log[i] /\ (log[i] = 0 => items[i] >= open[i])
        BY <2>0, <2>3 DEF Covers, Up
      <3> QED BY <2>1, <2>3, <3>2, <3>3 DEF Kept
    (* The checkpoint is removed when what it holds is in the log. *)
    <2>4. ASSUME log' = log, open' = Nothing, log[i] = 0 => open[i] = 0
          PROVE  Kept(i)' >= Kept(i)
      BY <2>1, <2>4 DEF Kept, Nothing
    <2>5. ASSUME NEW f \in Flushers, flush[f].step = "clear", log' = log, state = "up",
                 open' = open \/ open' = Nothing
          PROVE  Kept(i)' >= Kept(i)
      <3>1. log[i] = 0 => open[i] = 0
        BY <2>0, <2>5 DEF Taken, Covers, Up
      <3> QED BY <2>2, <2>4, <2>5, <3>1
    <2>6. CASE Checkpoint
      <3>1. log' = log /\ open'[i] = (IF i \in turnItems THEN items[i] ELSE 0) /\ state = "up"
        BY <2>6 DEF Checkpoint, OwnerLock, Up
      <3>2. log[i] = 0 => open'[i] >= open[i]
        BY <2>0, <2>1, <3>1 DEF Covers, Up
      <3> QED BY <2>1, <3>1, <3>2 DEF Kept
    <2>7. CASE Saves
      <3>1. ASSUME NEW f \in Flushers, Clears(f) PROVE open' = open \/ open' = Nothing
        BY <3>1 DEF Clears
      <3>2. CASE TurnSaved \/ TurnBegins \/ NoteSaved
        BY <3>1, <3>2, <2>5 DEF TurnSaved, TurnBegins, NoteSaved, Up, Flushers
      <3>3. ASSUME NEW f \in Flushers, Flush(f) PROVE Kept(i)' >= Kept(i)
        BY <3>3, <2>2, <2>3 DEF Flush, FlushRounds, FlushAppends, FlushForgets, Up, fileVars
      <3> QED BY <2>7, <3>2, <3>3 DEF Saves
    <2>8. ASSUME NEW f \in Flushers, FlushFails(f) PROVE Kept(i)' >= Kept(i)
      <3>1. CASE log' = log /\ open' = open
        BY <3>1, <2>2
      <3>2. CASE flush[f].step = "append" /\ log' \in Begun(flush[f].ids, flush[f].text) /\ open' = open
        BY <2>8, <3>2, <2>3 DEF FlushFails, Up
      <3>3. CASE flush[f].step = "clear" /\ open' = Nothing /\ log' = log
        BY <2>8, <3>3, <2>5 DEF FlushFails, Up
      <3> QED BY <2>8, <3>1, <3>2, <3>3 DEF FlushFails
    <2>9. CASE Die
      <3>1. ASSUME NEW f \in Flushers, flush[f].step = "append", log' \in Begun(flush[f].ids, flush[f].text)
            PROVE  Kept(i)' >= Kept(i)
        <4>1. state = "up"
          BY <2>0, <3>1, IdleType DEF DownOK
        <4> QED BY <2>9, <3>1, <4>1, <2>3 DEF Die
      <3> QED BY <2>9, <2>2, <3>1 DEF Die
    <2>10. CASE Load \/ LoadFails
      <3>1. open' = open /\ (log' = Rows(Fresh, open) \/ log' \in Begun(Fresh, open))
        BY <2>10 DEF Load, LoadFails
      <3>2. log'[i] = log[i] \/ (i \in Fresh /\ log'[i] = open[i])
        BY <2>0, <3>1, RowsType DEF FileOK
      <3> QED BY <2>1, <3>1, <3>2 DEF Kept, Fresh
    <2>11. CASE LoadClears
      <3>1. log' = log /\ state = "loading" /\ (open' = open \/ open' = Nothing)
        BY <2>11 DEF LoadClears
      <3>2. log[i] = 0 => open[i] = 0
        BY <2>0, <3>1 DEF DownOK, Resting
      <3> QED BY <2>2, <2>4, <3>1, <3>2
    <2>12. CASE Agent \/ Note \/ Claim \/ Rest \/ UNCHANGED vars
      <3>1. log' = log /\ open' = open
        BY <2>12 DEF Agent, ItemBegins, ItemDelta, ItemAgain, TurnEnds, Says, Note, Claim, Rest, vars, fileVars
      <3> QED BY <2>2, <3>1
    <2> QED BY <1>1, <2>6, <2>7, <2>8, <2>9, <2>10, <2>11, <2>12 DEF Next, Failures, Daemon
  <1>2. IInv /\ IInv' /\ [Next]_vars /\ [budget'["aside"] = budget["aside"]]_vars
          => [\A i \in Item : Kept(i)' >= Kept(i)]_vars
    BY <1>1
  <1> QED BY <1>2, Inv, PTL DEF Spec, NoneAside, KeptNeverShrinks
=============================================================================

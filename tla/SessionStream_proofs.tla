------------------------- MODULE SessionStream_proofs -------------------------
(***************************************************************************)
(* Proofs about SessionStream, for any number of events, any sizes of the  *)
(* replay window, the broadcast and the queues, and any profile: what a    *)
(* client's cursor says is on its screen, and no gap is silent.            *)
(***************************************************************************)
EXTENDS SessionStream, TLAPS

(* The three moves that each lose an event (see Publish, Reconnect and TakeFrame). *)
NoneBeside == [][may'["beside"] = may["beside"] /\ may'["dialing"] = may["dialing"]]_vars
NoneOvertakes == [][may'["overtake"] = may["overtake"]]_vars

CallType == [stage : {"none", "queued"} \cup InFlight, old : BOOLEAN, since : Nat, rx : Nat,
             reset : BOOLEAN, upto : Nat, got : SUBSET (1..Len(kinds)), seq : Nat]
SubType == [phase : {"gone", "init", "live"}, seq : Nat, resync : BOOLEAN, needs : BOOLEAN,
            fresh : BOOLEAN, retry : BOOLEAN, of : Nat]

(* The types, and what keeps an index inside the log: a connection that is down has
   neither tasks nor calls, a subscribe that reads holds the lock, and what a call has
   read of the log is in the log. *)
Events ==
  /\ inst \in Nat /\ known \in Nat
  /\ kinds \in Seq({"text", "item", "meta"}) /\ Len(kinds) <= MaxEvents
  /\ applied \subseteq 1..Len(kinds) /\ owed \subseteq applied
  /\ log \in Seq(applied) /\ trimmed \in 0..Len(log)
Lines ==
  /\ lock \in {"free", "subscribe"} /\ link \in {"up", "down"}
  /\ rx \in -1..Len(log) /\ wire \in Seq(0..Len(log)) /\ Len(wire) <= WireCap
  /\ link = "down" => rx = NoTask /\ wire = <<>> /\ lock = "free" /\ call.stage \notin InFlight
  /\ call.stage \in Reading <=> lock = "subscribe"
Calls ==
  /\ call \in CallType
  /\ call.rx <= Len(log) /\ call.upto <= Len(log) /\ call.seq <= Len(log)
  /\ call.stage \notin InFlight => call.rx = 0 /\ call.upto = 0 /\ call.seq = 0
  /\ call.stage = "answered" => rx # NoTask
Views ==
  /\ sub \in SubType
  /\ view \in [shown : SUBSET (1..Len(kinds)), seq : Nat]
Types == may \in [Kinds -> Nat] /\ Events /\ Lines /\ Calls /\ Views

(* A cursor is of the daemon's numbering it was taken from, and one that is not fresh
   of the last daemon the client knew. *)
Numbering ==
  /\ known <= inst /\ sub.of <= inst /\ (link = "up" => known = inst)
  /\ ~sub.fresh => sub.phase = "live" /\ sub.of = known
(* There is a call while the subscription opens or asks again; it is about the cursor,
   which does not move meanwhile. *)
Asking ==
  /\ call.stage = "none" <=> ~(sub.phase = "init" \/ sub.resync)
  /\ sub.resync \/ sub.retry => sub.phase = "live"
  /\ sub.phase = "init" => sub.seq = 0 /\ call.since = 0
  /\ call.stage # "none" => call.since \in {0, sub.seq}
(* A cursor of this numbering is in the log, and not beyond the reply to come. *)
Ahead ==
  /\ sub.phase = "live" /\ sub.of = inst => sub.seq <= Len(log)
  /\ link = "up" /\ sub.phase = "live" /\ sub.of # inst => sub.resync \/ sub.needs
  /\ call.stage \in {"read", "answered"} =>
       /\ call.rx <= call.seq
       /\ sub.phase = "live" /\ sub.of = inst => sub.seq <= call.seq
Base == Types /\ Numbering /\ Asking /\ Ahead

(* A call made on this connection is about the cursor in this numbering. *)
Ours ==
  call.stage \in InFlight /\ ~call.old => call.since = IF sub.fresh THEN 0 ELSE sub.seq
Level == sub.phase = "live" /\ sub.of = inst => view.seq = sub.seq
(* What a subscribe has read is the whole of the session up to its number. *)
Read ==
  /\ call.stage \in {"replayed", "summed"} => call.upto = Len(log)
  /\ call.stage = "summed" =>
       \A n \in 1..Len(log) : kinds[log[n]] = "meta" => log[n] \in call.got
  /\ call.stage \in {"read", "answered"} =>
       call.upto = call.seq /\ \A n \in 1..call.seq : log[n] \in call.got
  /\ call.stage \in {"replayed", "summed", "read", "answered"} =>
       call.reset \/ call.since \in 1..call.upto
Seen == sub.phase = "live" /\ sub.of = inst => \A n \in 1..sub.seq : log[n] \in view.shown
Whole == Ours /\ Level /\ Read /\ Seen

(* What was forwarded beyond a cursor is on the wire, or a frame that says it is lost. *)
Covered(from) == \A n \in from + 1..rx : \E i \in 1..Len(wire) : wire[i] \in {n, Desync}
Coming == call.stage = "answered" /\ ~sub.needs => Covered(call.seq)
Gaps == Coming /\ NoSilentGap
-----------------------------------------------------------------------------
LEMMA Spent ==
  ASSUME may \in [Kinds -> Nat], NEW move \in Kinds, Spend(move)
  PROVE  may' \in [Kinds -> Nat] /\ may'[move] # may[move]
  BY DEF Spend

LEMMA Numbers ==
  /\ MaxEvents \in Nat /\ Window \in Nat /\ WireCap \in Nat /\ WireCap > 0 /\ Capacity \in Nat
  /\ Capacity > 0 /\ \A some \in Profiles : some \in [Kinds -> Nat]
  BY SessionStreamAssumption

LEMMA Lag ==
  ASSUME NEW n \in Nat, NEW r \in Nat, n - r > 0
  PROVE  (n - r > Capacity => n - Capacity \in 0..n) /\ r + 1 \in 0..n
  BY Numbers

(* The client's records, field by field. *)
LEMMA Fields ==
  /\ NoCall \in CallType /\ NoCall.stage = "none" /\ NoCall.old = FALSE /\ NoCall.since = 0
  /\ NoCall.rx = 0 /\ NoCall.upto = 0 /\ NoCall.seq = 0 /\ NoCall.got = {}
  /\ NoSub \in SubType /\ NoSub.phase = "gone" /\ NoSub.seq = 0 /\ NoSub.resync = FALSE
  /\ NoSub.needs = FALSE /\ NoSub.fresh = TRUE /\ NoSub.retry = FALSE /\ NoSub.of = 0
  BY DEF NoCall, NoSub, CallType, SubType

LEMMA GappedShape ==
  ASSUME NEW s \in SubType
  PROVE  /\ Gapped(s) \in SubType
         /\ Gapped(s).phase = s.phase /\ Gapped(s).seq = s.seq /\ Gapped(s).of = s.of
         /\ Gapped(s).fresh = s.fresh
         /\ Asks(s) <=> s.phase = "live" /\ ~s.resync
         /\ Asks(s) => Gapped(s).resync /\ ~Gapped(s).needs /\ ~Gapped(s).retry
         /\ ~Asks(s) => Gapped(s).resync = s.resync /\ Gapped(s).retry = s.retry
         /\ s.phase # "gone" /\ ~Asks(s) => Gapped(s).needs
         /\ s.phase = "gone" => Gapped(s) = s
  BY DEF Gapped, Asks, SubType

(* A call that was just made: it has read nothing yet. *)
NewCall == {c \in [stage : {"sent", "queued"}, old : {FALSE}, since : Nat, rx : {0},
                   reset : BOOLEAN, upto : {0}, got : {{}}, seq : {0}] :
               c.stage = "queued" <=> link # "up"}
About(s) == IF s.fresh THEN 0 ELSE s.seq
LEMMA AskedShape ==
  ASSUME NEW s \in SubType
  PROVE  Asked(s) \in NewCall' /\ Asked(s).since = About(s)
  BY DEF Asked, NoCall, SubType, NewCall, About

LEMMA FailedShape ==
  ASSUME NEW s \in SubType
  PROVE  /\ Failed(s) \in SubType
         /\ s.phase = "init" => Failed(s) = NoSub
         /\ s.phase # "init" => /\ Failed(s).phase = s.phase /\ Failed(s).seq = s.seq
                                /\ Failed(s).of = s.of /\ Failed(s).fresh = s.fresh
                                /\ ~Failed(s).resync /\ Failed(s).needs /\ Failed(s).retry
  BY Fields DEF Failed, SubType

(* A gap is filled: the client asks, or will when it can. *)
Fills(s) ==
  /\ sub' \in SubType /\ sub'.phase = s.phase /\ sub'.seq = s.seq /\ sub'.of = s.of
  /\ sub'.fresh = s.fresh
  /\ \/ /\ s.phase = "live" /\ ~s.resync /\ sub'.resync /\ ~sub'.needs /\ ~sub'.retry
        /\ call' \in NewCall' /\ call'.since = About(s)
     \/ /\ s.phase # "live" \/ s.resync
        /\ call' = call /\ sub'.resync = s.resync /\ sub'.retry = s.retry
        /\ IF s.phase = "gone" THEN sub' = s ELSE sub'.needs
LEMMA GapFills == ASSUME NEW s \in SubType, FillGap(s) PROVE Fills(s)
  BY GappedShape, AskedShape, Zenon DEF FillGap, Fills

LEMMA StageSets ==
  /\ Reading = {"joined", "replayed", "summed"}
  /\ InFlight = {"sent", "read", "answered", "refused", "joined", "replayed", "summed"}
  BY DEF Reading, InFlight

-----------------------------------------------------------------------------
(* What the client's steps do. *)
LEMMA Opens ==
  ASSUME Open
  PROVE  /\ sub.phase = "gone" /\ sub' \in SubType /\ sub'.phase = "init" /\ sub'.seq = 0
         /\ ~sub'.resync /\ ~sub'.needs /\ sub'.fresh /\ ~sub'.retry /\ sub'.of = 0
         /\ call' \in NewCall' /\ call'.since = 0
         /\ UNCHANGED <<may, daemon, lock, link, rx, wire, view, known>>
  <1>1. /\ sub.phase = "gone" /\ sub' = [NoSub EXCEPT !.phase = "init"]
        /\ UNCHANGED <<may, daemon, lock, link, rx, wire, view, known>>
    BY DEF Open
  <1>2. /\ sub' \in SubType /\ sub'.phase = "init" /\ sub'.seq = 0
        /\ ~sub'.resync /\ ~sub'.needs /\ sub'.fresh /\ ~sub'.retry /\ sub'.of = 0
    BY <1>1, Fields DEF SubType
  <1>3. PICK s \in SubType : s = sub' /\ call' = Asked(s)
    BY <1>2 DEF Open
  <1>4. call' \in NewCall' /\ call'.since = About(s)
    BY <1>3, AskedShape, Zenon
  <1> QED BY <1>1, <1>2, <1>3, <1>4 DEF About

LEMMA Replies ==
  ASSUME TakeReply, sub \in SubType, call \in CallType, inst \in Nat
  PROVE  /\ call.stage = "answered" /\ ~call.old
         /\ view' = IF call.reset THEN FromSnapshot ELSE Shown(view, call.since, call.upto)
         /\ sub' \in SubType /\ sub'.phase = "live" /\ sub'.seq = call.seq /\ ~sub'.fresh
         /\ sub'.of = inst
         /\ \/ ~sub'.resync /\ call' = NoCall /\ (sub.needs => sub'.needs)
               /\ (sub'.retry => sub.retry \/ sub'.needs)
            \/ sub'.resync /\ call' \in NewCall' /\ call'.since = call.seq
         /\ UNCHANGED <<may, daemon, lock, link, rx, wire, known>>
  <1> DEFINE s == [sub EXCEPT !.phase = "live", !.seq = call.seq, !.fresh = FALSE,
                              !.of = inst, !.resync = FALSE]
  <1>1. /\ call.stage = "answered" /\ ~call.old
        /\ view' = IF call.reset THEN FromSnapshot ELSE Shown(view, call.since, call.upto)
        /\ \/ ~sub.needs /\ sub' = s /\ call' = NoCall
           \/ sub.needs /\ sub' = [s EXCEPT !.retry = TRUE] /\ call' = NoCall
           \/ sub.needs /\ sub' = Gapped(s) /\ call' = Asked(s)
        /\ UNCHANGED <<may, daemon, lock, link, rx, wire, known>>
    BY DEF TakeReply
  <1>2. /\ s \in SubType /\ s.phase = "live" /\ s.seq = call.seq /\ ~s.fresh /\ s.of = inst
        /\ ~s.resync /\ s.needs = sub.needs /\ s.retry = sub.retry
    BY DEF SubType, CallType
  <1> HIDE DEF s
  <1>3. CASE ~sub.needs /\ sub' = s /\ call' = NoCall
    BY <1>1, <1>2, <1>3
  <1>4. CASE sub.needs /\ sub' = [s EXCEPT !.retry = TRUE] /\ call' = NoCall
    BY <1>1, <1>2, <1>4 DEF SubType
  <1>5. CASE sub.needs /\ sub' = Gapped(s) /\ call' = Asked(s)
    BY <1>1, <1>2, <1>5, GappedShape, AskedShape DEF About
  <1> QED BY <1>1, <1>3, <1>4, <1>5

LEMMA Fails ==
  ASSUME TakeFailure, sub \in SubType
  PROVE  /\ call.stage = "refused" \/ (call.stage = "answered" /\ call.old)
         /\ sub' = Failed(sub) /\ call' = NoCall
         /\ UNCHANGED <<may, daemon, lock, link, rx, wire, view, known>>
  BY DEF TakeFailure

LEMMA Frames ==
  ASSUME TakeFrame, sub \in SubType, wire \in Seq(Nat)
  PROVE  /\ wire # <<>> /\ wire' = Tail(wire) /\ UNCHANGED <<daemon, lock, link, rx, known>>
         /\ \E n \in Nat :
              /\ n = wire[1]
              /\ IF Overtakes(n) THEN Spend("overtake") ELSE UNCHANGED may
              /\ \/ /\ n # Desync /\ (sub.phase = "gone" \/ n <= sub.seq)
                    /\ UNCHANGED <<sub, call, view>>
                 \/ /\ n = Desync \/ (sub.phase # "gone" /\ n > sub.seq)
                    /\ Fills(sub) /\ UNCHANGED view
                 \/ /\ n # Desync /\ sub.phase = "live" /\ ~sub.resync /\ ~sub.needs
                       /\ n = sub.seq + 1
                    /\ sub' = [sub EXCEPT !.seq = n]
                    /\ view' = Shown(view, n - 1, n) /\ UNCHANGED call
  <1>1. wire # <<>> /\ wire' = Tail(wire) /\ UNCHANGED <<daemon, lock, link, rx, known>>
    BY DEF TakeFrame
  <1>2. PICK n \in Nat : n = Head(wire) /\ n = wire[1]
    BY <1>1
  <1>3. IF Overtakes(n) THEN Spend("overtake") ELSE UNCHANGED may
    BY <1>2 DEF TakeFrame
  <1>4. \/ n = Desync /\ FillGap(sub) /\ UNCHANGED view
        \/ n # Desync /\ (sub.phase = "gone" \/ n <= sub.seq) /\ UNCHANGED <<sub, call, view>>
        \/ n # Desync /\ sub.phase # "gone" /\ ~(n <= sub.seq) /\ Suspect(n) /\ FillGap(sub)
           /\ UNCHANGED view
        \/ /\ n # Desync /\ sub.phase # "gone" /\ ~Suspect(n) /\ sub' = [sub EXCEPT !.seq = n]
           /\ view' = Shown(view, n - 1, n) /\ UNCHANGED call
    BY <1>2, Zenon DEF TakeFrame
  <1>5. ~(n <= sub.seq) => n > sub.seq
    BY DEF SubType
  <1>6. sub.phase # "gone" /\ ~Suspect(n) =>
          sub.phase = "live" /\ ~sub.resync /\ ~sub.needs /\ n = sub.seq + 1
    BY DEF Suspect, SubType
  <1>7. FillGap(sub) => Fills(sub)
    BY GapFills
  <1> QED BY <1>1, <1>2, <1>3, <1>4, <1>5, <1>6, <1>7, Zenon

LEMMA Retries ==
  ASSUME RetryFires, sub \in SubType
  PROVE  /\ sub.retry /\ UNCHANGED <<may, daemon, lock, link, rx, wire, view, known>>
         /\ \E s \in SubType : s = [sub EXCEPT !.retry = FALSE] /\ Fills(s)
  <1>1. [sub EXCEPT !.retry = FALSE] \in SubType
    BY DEF SubType
  <1>2. Fills([sub EXCEPT !.retry = FALSE])
    BY <1>1, GapFills, Zenon DEF RetryFires
  <1> QED BY <1>1, <1>2 DEF RetryFires

LEMMA Disconnects ==
  ASSUME Drop \/ Restart, sub \in SubType
  PROVE  /\ link' = "down" /\ rx' = NoTask /\ wire' = <<>> /\ lock' = "free"
         /\ UNCHANGED <<kinds, view, known>>
         /\ \/ call.stage \in InFlight /\ sub' = Failed(sub) /\ call' = NoCall
            \/ call.stage \notin InFlight /\ UNCHANGED <<sub, call>>
  BY DEF Drop, Restart, Disconnect, daemon

LEMMA Reconnects ==
  ASSUME Reconnect, sub \in SubType
  PROVE  /\ link = "down" /\ link' = "up" /\ known' = inst
         /\ UNCHANGED <<daemon, lock, rx, wire, view>>
         /\ \E s \in SubType :
              /\ s.phase = sub.phase /\ s.seq = sub.seq /\ s.of = sub.of /\ s.resync = sub.resync
              /\ s.needs = sub.needs /\ s.retry = sub.retry
                 /\ (s.fresh <=> sub.fresh \/ known # inst)
              /\ \/ /\ call.stage = "queued" /\ sub' = Gapped(s)
                    /\ \/ call' = [call EXCEPT !.stage = "sent", !.old = TRUE] /\ UNCHANGED may
                       \/ call' = [call EXCEPT !.stage = "sent"] /\ Spend("dialing")
                 \/ call.stage # "queued" /\ Fills(s) /\ UNCHANGED may
  <1> DEFINE s == [sub EXCEPT !.fresh = @ \/ known # inst]
  <1>1. /\ link = "down" /\ link' = "up" /\ known' = inst
        /\ UNCHANGED <<daemon, lock, rx, wire, view>>
    BY DEF Reconnect
  <1>2. /\ s \in SubType /\ s.phase = sub.phase /\ s.seq = sub.seq /\ s.of = sub.of
        /\ s.resync = sub.resync /\ s.needs = sub.needs /\ s.retry = sub.retry
        /\ (s.fresh <=> sub.fresh \/ known # inst)
    BY DEF SubType
  <1>3. \/ /\ call.stage = "queued" /\ sub' = Gapped(s)
           /\ \/ call' = [call EXCEPT !.stage = "sent", !.old = TRUE] /\ UNCHANGED may
              \/ call' = [call EXCEPT !.stage = "sent"] /\ Spend("dialing")
        \/ call.stage # "queued" /\ FillGap(s) /\ UNCHANGED may
    BY Zenon DEF Reconnect
  <1> HIDE DEF s
  <1>4. FillGap(s) => Fills(s)
    BY <1>2, GapFills
  <1> QED BY <1>1, <1>2, <1>3, <1>4, Zenon

LEMMA ReconnectCalls ==
  ASSUME Reconnect, sub \in SubType, call \in CallType, call.stage \notin InFlight, Asking
  PROVE  \/ /\ call.stage = "queued" /\ call'.stage = "sent" /\ call' \in CallType
            /\ call'.since = call.since /\ call'.rx = call.rx /\ call'.upto = call.upto
            /\ call'.seq = call.seq /\ call'.got = call.got
            /\ call'.old \/ Spend("dialing")
         \/ call.stage = "none" /\ call' \in NewCall'
         \/ call.stage = "none" /\ call' = call
  <1>1. call.stage \in {"none", "queued"}
    BY DEF CallType
  <1>2. CASE call.stage = "queued"
    <2>1. \/ call' = [call EXCEPT !.stage = "sent", !.old = TRUE]
          \/ call' = [call EXCEPT !.stage = "sent"] /\ Spend("dialing")
      BY <1>2, Reconnects, Zenon
    <2>2. CASE call' = [call EXCEPT !.stage = "sent", !.old = TRUE]
      BY <1>2, <2>2, StageSets DEF CallType
    <2>3. CASE call' = [call EXCEPT !.stage = "sent"] /\ Spend("dialing")
      BY <1>2, <2>3, StageSets DEF CallType
    <2> QED BY <2>1, <2>2, <2>3
  <1>3. CASE call.stage = "none"
    <2>1. \E s \in SubType : Fills(s)
      BY <1>3, Reconnects
    <2> QED BY <1>3, <2>1 DEF Fills
  <1> QED BY <1>1, <1>2, <1>3

LEMMA LogIn ==
  ASSUME Events
  PROVE  /\ Len(log) \in Nat /\ Len(kinds) \in Nat
         /\ \A n \in 1..Len(log) : log[n] \in applied /\ log[n] \in 1..Len(kinds)
  <1>1. Len(log) \in Nat /\ Len(kinds) \in Nat
    BY DEF Events
  <1>2. ASSUME NEW n \in 1..Len(log) PROVE log[n] \in applied
    BY DEF Events
  <1>3. applied \subseteq 1..Len(kinds)
    BY DEF Events
  <1> QED BY <1>1, <1>2, <1>3, Zenon

LEMMA WireIn ==
  ASSUME Lines PROVE \A i \in 1..Len(wire) : wire[i] \in 0..Len(log)
  <1>1. wire \in Seq(0..Len(log))
    BY DEF Lines
  <1> QED BY <1>1

LEMMA ShownType ==
  ASSUME Events, Views, NEW from \in Nat, NEW to \in 0..Len(log)
  PROVE  /\ Shown(view, from, to) \in [shown : SUBSET (1..Len(kinds)), seq : Nat]
         /\ Shown(view, from, to).seq = Larger(view.seq, to)
         /\ Shown(view, from, to).shown =
              view.shown \cup {log[n] : n \in Larger(from, view.seq) + 1..to}
  <1>1. Larger(from, view.seq) \in Nat /\ Larger(view.seq, to) \in Nat
    BY LogIn DEF Larger, Views
  <1>2. \A n \in Larger(from, view.seq) + 1..to : log[n] \in 1..Len(kinds)
    <2>1. \A n \in Larger(from, view.seq) + 1..to : n \in 1..Len(log)
      BY <1>1, LogIn
    <2> QED BY <2>1, LogIn, Zenon
  <1>3. Ids(Larger(from, view.seq), to) = {log[n] : n \in Larger(from, view.seq) + 1..to}
    BY Zenon DEF Ids
  <1>4. Ids(Larger(from, view.seq), to) \subseteq 1..Len(kinds)
    BY <1>2, <1>3
  <1> QED BY <1>1, <1>3, <1>4 DEF Shown, Views

LEMMA NewCalls ==
  ASSUME Events, UNCHANGED daemon, call' \in NewCall' PROVE Calls'
  <1>1. kinds' = kinds /\ log' = log /\ Len(log) \in Nat
    BY DEF daemon, Events
  <1>2. call' \in [stage : {"sent", "queued"}, old : {FALSE}, since : Nat, rx : {0},
                   reset : BOOLEAN, upto : {0}, got : {{}}, seq : {0}]
    BY DEF NewCall
  <1>3. /\ call'.stage \in {"sent", "queued"} /\ call'.rx = 0 /\ call'.upto = 0 /\ call'.seq = 0
    BY <1>2
  <1>4. call' \in CallType
    <2>1. {"sent", "queued"} \subseteq {"none", "queued"} \cup InFlight
      BY StageSets
    <2>2. {{}} \subseteq SUBSET (1..Len(kinds)) /\ {0} \subseteq Nat /\ {FALSE} \subseteq BOOLEAN
      OBVIOUS
    <2> QED BY <1>2, <2>1, <2>2 DEF CallType
  <1>5. call'.stage # "answered"
    BY <1>3
  <1> QED BY <1>1, <1>3, <1>4, <1>5 DEF Calls, CallType

LEMMA NoCalls ==
  ASSUME Events, kinds' = kinds, log' \in Seq(applied), call' = NoCall PROVE Calls'
  <1>1. Len(log') \in Nat
    OBVIOUS
  <1>2. call'.stage = "none" /\ call'.rx = 0 /\ call'.upto = 0 /\ call'.seq = 0
        /\ call' \in CallType
    BY Fields
  <1> QED BY <1>1, <1>2 DEF Calls, CallType

LEMMA Typed ==
  ASSUME Events, Lines, Calls, Views
  PROVE  sub \in SubType /\ call \in CallType /\ inst \in Nat /\ wire \in Seq(Nat)
  BY DEF Events, Lines, Calls, Views

-----------------------------------------------------------------------------
(* What the daemon's steps do: its publishers add to the log, and a subscribe reads. *)
Publishes == Text \/ (\E kind \in {"item", "meta"} : Apply(kind)) \/ (\E id \in owed : Publish(id))
LEMMA Grows ==
  ASSUME Publishes, Events
  PROVE  /\ UNCHANGED <<inst, lock, link, rx, wire, call, client>>
         /\ \/ UNCHANGED log
            \/ \E id \in applied' : log' = Append(log, id)
         /\ Len(log) \in Nat /\ Len(log') \in Nat /\ Len(log') >= Len(log)
         /\ \A n \in 1..Len(log) : log'[n] = log[n]
         /\ \A id \in 1..Len(kinds) : kinds'[id] = kinds[id]
  <1>0. Len(log) \in Nat /\ Len(kinds) \in Nat
    BY LogIn
  <1>1. UNCHANGED <<inst, lock, link, rx, wire, call, client>>
    BY DEF Publishes, Text, Apply, Publish
  <1>2. \/ UNCHANGED log
        \/ \E id \in applied' : log' = Append(log, id)
    <2>1. CASE Text
      BY <2>1 DEF Text
    <2>2. CASE \E kind \in {"item", "meta"} : Apply(kind)
      BY <2>2 DEF Apply
    <2>3. CASE \E id \in owed : Publish(id)
      BY <2>3 DEF Publish, Events
    <2> QED BY <2>1, <2>2, <2>3 DEF Publishes
  <1>3. \A id \in 1..Len(kinds) : kinds'[id] = kinds[id]
    <2>1. kinds' = kinds \/ \E kind : kinds' = Append(kinds, kind)
      BY DEF Publishes, Text, Apply, Publish
    <2> QED BY <2>1 DEF Events
  <1>4. CASE UNCHANGED log
    BY <1>0, <1>1, <1>2, <1>3, <1>4
  <1>5. CASE \E id \in applied' : log' = Append(log, id)
    <2>1. Len(log') = Len(log) + 1 /\ \A n \in 1..Len(log) : log'[n] = log[n]
      BY <1>5 DEF Events
    <2> QED BY <1>0, <1>1, <1>2, <1>3, <2>1
  <1> QED BY <1>2, <1>4, <1>5

Reads == Join \/ ReadReplay \/ ReadSummary \/ ReadItems \/ Answer \/ Refuse
LEMMA Serves ==
  ASSUME Reads, Events, Lines, Calls, Views
  PROVE  /\ UNCHANGED <<daemon, link, wire, client>>
         /\ call'.since = call.since /\ call'.old = call.old
         /\ call.stage \in InFlight /\ call'.stage \in InFlight
         /\ call'.stage # "sent"
         /\ \/ /\ call'.stage \in {"joined", "replayed", "summed", "refused"} /\ rx' = rx
               /\ call'.stage # "joined" => call'.rx = call.rx
            \/ /\ call.stage = "summed" /\ call'.stage = "read" /\ call'.seq = Len(log) /\ rx' = rx
               /\ call'.rx = call.rx
            \/ /\ call.stage = "read" /\ call'.stage = "answered" /\ rx' = call'.rx
               /\ call'.seq = call.seq /\ call'.rx = call.rx
  <1>0. call \in CallType
    BY DEF Calls
  <1>1. CASE Join
    BY <1>0, <1>1, StageSets DEF Join, CallType
  <1>2. CASE ReadReplay
    BY <1>0, <1>2, StageSets DEF ReadReplay, CallType
  <1>3. CASE ReadSummary
    BY <1>0, <1>3, StageSets DEF ReadSummary, CallType
  <1>4. CASE ReadItems
    BY <1>0, <1>4, StageSets DEF ReadItems, CallType
  <1>5. CASE Answer
    BY <1>0, <1>5, StageSets DEF Answer, StartsAt, CallType
  <1>6. CASE Refuse
    BY <1>0, <1>6, StageSets DEF Refuse, CallType
  <1> QED BY <1>1, <1>2, <1>3, <1>4, <1>5, <1>6 DEF Reads

LEMMA Steps ==
  ASSUME [Next]_vars
  PROVE  \/ Publishes \/ Reads \/ Forward \/ Open \/ TakeReply \/ TakeFailure \/ TakeFrame
         \/ RetryFires \/ Drop \/ Restart \/ Reconnect \/ UNCHANGED vars
  BY DEF Next, Publishes, Reads

LEMMA Forwards ==
  ASSUME Forward, Events, Lines
  PROVE  /\ UNCHANGED <<may, daemon, lock, link, call, client>>
         /\ rx \in Nat /\ rx' \in 0..Len(log) /\ rx' > rx
         /\ \E f \in 0..Len(log) :
              /\ wire' = Append(wire, f)
              /\ f = Desync \/ (f = rx + 1 /\ rx' = rx + 1)
  <1>1. /\ rx # NoTask /\ Len(log) - rx > 0
        /\ IF Len(log) - rx > Capacity
           THEN wire' = Append(wire, 0) /\ rx' = Len(log) - Capacity
           ELSE wire' = Append(wire, rx + 1) /\ rx' = rx + 1
        /\ UNCHANGED <<may, daemon, lock, link, call, client>>
    BY DEF Forward, Behind, Told, Desync
  <1>2. rx \in Nat /\ Len(log) \in Nat
    BY <1>1, LogIn DEF Lines, NoTask
  <1>3. (Len(log) - rx > Capacity => Len(log) - Capacity \in 0..Len(log)) /\ rx + 1 \in 0..Len(log)
    BY <1>1, <1>2, Lag
  <1>4. rx' \in 0..Len(log) /\ rx' > rx
    BY <1>1, <1>2, <1>3, Numbers
  <1>5. 0 \in 0..Len(log)
    BY <1>2
  <1>6. CASE Len(log) - rx > Capacity
    BY <1>1, <1>2, <1>4, <1>5, <1>6 DEF Desync
  <1>7. CASE ~(Len(log) - rx > Capacity)
    BY <1>1, <1>2, <1>3, <1>4, <1>7
  <1> QED BY <1>6, <1>7

LEMMA MayStep ==
  ASSUME may \in [Kinds -> Nat], Events, Lines, Calls, Views, [Next]_vars
  PROVE  may' \in [Kinds -> Nat]
  <1> USE DEF Spend, Kinds, daemon, client
  <1>1. CASE Text
    BY <1>1 DEF Text, PumpMayRun, Larger
  <1>2. CASE \E kind \in {"item", "meta"} : Apply(kind)
    BY <1>2 DEF Apply
  <1>3. CASE \E id \in owed : Publish(id)
    BY <1>3 DEF Publish
  <1>4. CASE Join
    BY <1>4 DEF Join, Receiver
  <1>5. CASE ReadReplay
    BY <1>5 DEF ReadReplay
  <1>6. CASE ReadSummary
    BY <1>6 DEF ReadSummary
  <1>7. CASE ReadItems
    BY <1>7 DEF ReadItems
  <1>8. CASE Answer
    BY <1>8 DEF Answer, StartsAt
  <1>9. CASE Refuse
    BY <1>9 DEF Refuse
  <1>10. CASE Forward
    BY <1>10 DEF Forward, Behind, Told, Desync
  <1>11. CASE Open
    BY <1>11 DEF Open
  <1>12. CASE TakeReply
    BY <1>12 DEF TakeReply
  <1>13. CASE TakeFailure
    BY <1>13 DEF TakeFailure
  <1>14. CASE TakeFrame
    <2>1. Spend("overtake") \/ UNCHANGED may
      BY <1>14, Typed, Frames, Zenon
    <2> QED BY <2>1
  <1>15. CASE RetryFires
    BY <1>15 DEF RetryFires
  <1>16. CASE Drop
    BY <1>16 DEF Drop, Disconnect
  <1>17. CASE Restart
    BY <1>17 DEF Restart, Disconnect
  <1>18. CASE Reconnect
    BY <1>18 DEF Reconnect
  <1>19. CASE UNCHANGED vars
    BY <1>19 DEF vars
  <1> QED BY <1>1, <1>2, <1>3, <1>4, <1>5, <1>6, <1>7, <1>8, <1>9, <1>10, <1>11, <1>12, <1>13,
         <1>14, <1>15, <1>16, <1>17, <1>18, <1>19, Zenon DEF Next

LEMMA EventsStep ==
  ASSUME Events, [Next]_vars
  PROVE  Events'
  <1> USE Numbers DEF Events, daemon, client
  <1>1. CASE Text
    <2> DEFINE id == Len(kinds) + 1
    <2>1. /\ kinds' = Append(kinds, "text") /\ Len(kinds) < MaxEvents
          /\ applied' = applied \cup {Len(kinds')} /\ log' = Append(log, Len(kinds'))
          /\ trimmed' = Larger(trimmed, Len(log') - Window) /\ UNCHANGED <<inst, owed, known>>
      BY <1>1 DEF Text
    <2>2. kinds' \in Seq({"text", "item", "meta"}) /\ Len(kinds') = id /\ id <= MaxEvents
          /\ id \in Nat
      BY <2>1
    <2>0. Len(kinds) \in Nat
      OBVIOUS
    <2>3. applied' = applied \cup {id} /\ applied' \subseteq 1..Len(kinds')
      <3>1. applied' = applied \cup {id} /\ applied \subseteq 1..Len(kinds)
        BY <2>1, <2>2
      <3>2. 1..Len(kinds) \subseteq 1..id /\ id \in 1..id
        BY <2>0
      <3> QED BY <2>2, <3>1, <3>2, Zenon
    <2>4. log' = Append(log, id) /\ log \in Seq(applied')
      BY <2>1, <2>2, <2>3
    <2>5. log' \in Seq(applied') /\ Len(log') = Len(log) + 1
      BY <2>3, <2>4
    <2>6. trimmed' \in 0..Len(log')
      BY <2>1, <2>5 DEF Larger
    <2> QED BY <2>1, <2>2, <2>3, <2>5, <2>6
  <1>2. CASE \E kind \in {"item", "meta"} : Apply(kind)
    <2> DEFINE id == Len(kinds) + 1
    <2>1. PICK kind \in {"item", "meta"} : Apply(kind)
      BY <1>2
    <2>2. /\ kinds' = Append(kinds, kind) /\ Len(kinds) < MaxEvents
          /\ applied' = applied \cup {Len(kinds')} /\ owed' = owed \cup {Len(kinds')}
          /\ UNCHANGED <<inst, log, trimmed, known>>
      BY <2>1 DEF Apply
    <2>3. kinds' \in Seq({"text", "item", "meta"}) /\ Len(kinds') = id /\ id <= MaxEvents
          /\ id \in Nat
      BY <2>2
    <2>0. Len(kinds) \in Nat
      OBVIOUS
    <2>4. applied' = applied \cup {id} /\ applied' \subseteq 1..Len(kinds')
          /\ owed' \subseteq applied'
      <3>1. applied' = applied \cup {id} /\ owed' = owed \cup {id}
            /\ applied \subseteq 1..Len(kinds)
        BY <2>2, <2>3
      <3>2. 1..Len(kinds) \subseteq 1..id /\ id \in 1..id
        BY <2>0
      <3> QED BY <2>3, <3>1, <3>2, Zenon
    <2>5. log \in Seq(applied')
      BY <2>4
    <2> QED BY <2>2, <2>3, <2>4, <2>5
  <1>3. CASE \E id \in owed : Publish(id)
    <2>1. PICK id \in owed : Publish(id)
      BY <1>3
    <2>2. log' = Append(log, id) /\ owed' = owed \ {id}
          /\ UNCHANGED <<inst, kinds, applied, trimmed, known>>
      BY <2>1 DEF Publish
    <2>3. log' \in Seq(applied) /\ Len(log') = Len(log) + 1
      BY <2>2
    <2> QED BY <2>2, <2>3
  <1>4. CASE Join
    BY <1>4 DEF Join, Receiver
  <1>5. CASE ReadReplay
    BY <1>5 DEF ReadReplay
  <1>6. CASE ReadSummary
    BY <1>6 DEF ReadSummary
  <1>7. CASE ReadItems
    BY <1>7 DEF ReadItems
  <1>8. CASE Answer
    BY <1>8 DEF Answer, StartsAt
  <1>9. CASE Refuse
    BY <1>9 DEF Refuse
  <1>10. CASE Forward
    BY <1>10 DEF Forward, Behind, Told, Desync
  <1>11. CASE Open
    BY <1>11 DEF Open
  <1>12. CASE TakeReply
    BY <1>12 DEF TakeReply
  <1>13. CASE TakeFailure
    BY <1>13 DEF TakeFailure
  <1>14. CASE TakeFrame
    BY <1>14 DEF TakeFrame
  <1>15. CASE RetryFires
    BY <1>15 DEF RetryFires
  <1>16. CASE Drop
    BY <1>16 DEF Drop, Disconnect
  <1>17. CASE Restart
    BY <1>17 DEF Restart, Disconnect
  <1>18. CASE Reconnect
    BY <1>18 DEF Reconnect
  <1>19. CASE UNCHANGED vars
    BY <1>19 DEF vars
  <1> QED BY <1>1, <1>2, <1>3, <1>4, <1>5, <1>6, <1>7, <1>8, <1>9, <1>10, <1>11, <1>12, <1>13,
         <1>14, <1>15, <1>16, <1>17, <1>18, <1>19, Zenon DEF Next

LEMMA LinesStep ==
  ASSUME Events, Lines, Calls, Views, Asking, [Next]_vars
  PROVE  Lines'
  <1> USE Numbers, StageSets
      DEF Lines, Calls, Events, NoTask, CallType, daemon, client
  <1>1. CASE Publishes
    <2>1. /\ UNCHANGED <<lock, link, rx, wire, call>>
          /\ Len(log) \in Nat /\ Len(log') \in Nat /\ Len(log') >= Len(log)
      BY <1>1, Grows
    <2>2. \A i \in 1..Len(wire) : wire[i] \in 0..Len(log')
      <3>1. 0..Len(log) \subseteq 0..Len(log')
        BY <2>1
      <3>2. \A i \in 1..Len(wire) : wire[i] \in 0..Len(log)
        BY WireIn, Zenon
      <3> QED BY <3>1, <3>2, Zenon
    <2>3. wire' \in Seq(0..Len(log'))
      BY <2>1, <2>2
    <2> QED BY <2>1, <2>3
  <1>2. CASE Reads
    <2>1. /\ UNCHANGED <<log, link, wire>> /\ Len(log) \in Nat /\ link # "down"
          /\ call'.stage \in InFlight
      BY <1>2, Serves, LogIn
    <2>2. rx' \in -1..Len(log)
      <3>1. rx' \in {rx, call.rx}
        BY <1>2, Serves
      <3>2. call.rx \in 0..Len(log)
        BY <2>1
      <3> QED BY <2>1, <3>1, <3>2
    <2>3. call'.stage \in Reading <=> lock' = "subscribe"
      <3>1. CASE Join
        BY <3>1 DEF Join
      <3>2. CASE ReadReplay
        BY <3>2 DEF ReadReplay
      <3>3. CASE ReadSummary
        BY <3>3 DEF ReadSummary
      <3>4. CASE ReadItems
        BY <3>4 DEF ReadItems
      <3>5. CASE Answer
        BY <3>5 DEF Answer
      <3>6. CASE Refuse
        BY <3>6 DEF Refuse
      <3> QED BY <1>2, <3>1, <3>2, <3>3, <3>4, <3>5, <3>6 DEF Reads
    <2>4. lock' \in {"free", "subscribe"}
      BY <1>2 DEF Reads, Join, ReadReplay, ReadSummary, ReadItems, Answer, Refuse
    <2> QED BY <2>1, <2>2, <2>3, <2>4
  <1>3. CASE Forward
    <2>1. /\ UNCHANGED <<lock, link, call, log>> /\ Len(wire) < WireCap
          /\ rx' \in 0..Len(log) /\ rx \in Nat
      BY <1>3, Forwards DEF Forward
    <2>2. PICK f \in 0..Len(log) : wire' = Append(wire, f)
      BY <1>3, Forwards
    <2>3. wire' \in Seq(0..Len(log)) /\ Len(wire') <= WireCap
      BY <2>1, <2>2
    <2> QED BY <2>1, <2>3
  <1>4. CASE Open
    <2>1. call.stage \notin Reading /\ call'.stage \notin Reading
      BY <1>4, Opens DEF Asking, NewCall
    <2> QED BY <1>4, <2>1, Opens, Typed DEF NewCall
  <1>5. CASE TakeReply
    <2>1. call'.stage \notin Reading /\ call.stage \notin Reading /\ link # "down"
          /\ UNCHANGED <<daemon, lock, link, rx, wire>>
      BY <1>5, Replies, Typed, Fields DEF NewCall
    <2> QED BY <2>1
  <1>6. CASE TakeFailure
    <2>1. call'.stage \notin Reading /\ call.stage \notin Reading /\ link # "down"
          /\ UNCHANGED <<daemon, lock, link, rx, wire>>
      BY <1>6, Fails, Typed, Fields
    <2> QED BY <2>1
  <1>7. CASE TakeFrame
    <2>1. wire' = Tail(wire) /\ wire # <<>> /\ UNCHANGED <<daemon, lock, link, rx>>
      BY <1>7, Typed, Frames
    <2>2. call' = call \/ (call.stage = "none" /\ call' \in NewCall')
      BY <1>7, Typed, Frames DEF Fills, Asking
    <2>3. wire' \in Seq(0..Len(log)) /\ Len(wire') <= WireCap /\ link # "down"
      BY <2>1
    <2>4. call.stage \in Reading <=> call'.stage \in Reading
      BY <2>2 DEF NewCall
    <2> QED BY <2>1, <2>3, <2>4
  <1>8. CASE RetryFires
    <2>1. call' = call \/ (call.stage = "none" /\ call' \in NewCall')
      <3>1. PICK s \in SubType : s = [sub EXCEPT !.retry = FALSE] /\ Fills(s)
        BY <1>8, Typed, Retries
      <3>2. s.phase = sub.phase /\ s.resync = sub.resync
        BY <3>1, Typed DEF SubType
      <3> QED BY <3>1, <3>2 DEF Fills, Asking
    <2>2. UNCHANGED <<daemon, lock, link, rx, wire>>
      BY <1>8, Typed, Retries
    <2> QED BY <2>1, <2>2 DEF NewCall
  <1>9. CASE Drop \/ Restart
    <2>1. /\ call'.stage \notin InFlight
          /\ link' = "down" /\ rx' = NoTask /\ wire' = <<>> /\ lock' = "free"
      BY <1>9, Typed, Disconnects, Fields
    <2>2. Len(log') \in Nat
      BY <1>9, LogIn DEF Drop, Restart
    <2> QED BY <2>1, <2>2
  <1>10. CASE Reconnect
    <2>1. call'.stage \notin Reading
      BY <1>10, Typed, Reconnects, ReconnectCalls DEF NewCall
    <2>2. link = "down" /\ link' = "up" /\ UNCHANGED <<daemon, lock, rx, wire>>
      BY <1>10, Typed, Reconnects
    <2> QED BY <2>1, <2>2
  <1>11. CASE UNCHANGED vars
    BY <1>11 DEF vars
  <1> QED BY <1>1, <1>2, <1>3, <1>4, <1>5, <1>6, <1>7, <1>8, <1>9, <1>10, <1>11, Steps

LEMMA CallsStep ==
  ASSUME Events, Lines, Calls, Views, Asking, [Next]_vars
  PROVE  Calls'
  <1> USE StageSets DEF Calls, CallType, daemon, client
  <1>1. CASE Text
    <2>1. /\ UNCHANGED <<call, rx>> /\ Len(log') >= Len(log)
          /\ Len(kinds') >= Len(kinds) /\ 1..Len(kinds) \subseteq 1..Len(kinds')
      BY <1>1 DEF Text, Events
    <2>2. call \in CallType'
      BY <2>1
    <2> QED BY <2>1, <2>2
  <1>2. CASE \E kind \in {"item", "meta"} : Apply(kind)
    <2>0. PICK kind \in {"item", "meta"} : Apply(kind)
      BY <1>2
    <2>1. /\ UNCHANGED <<call, rx>> /\ Len(log') >= Len(log)
          /\ Len(kinds') >= Len(kinds) /\ 1..Len(kinds) \subseteq 1..Len(kinds')
      BY <1>2, <2>0 DEF Apply, Events
    <2>2. call \in CallType'
      BY <2>1
    <2> QED BY <2>1, <2>2
  <1>3. CASE \E id \in owed : Publish(id)
    <2>0. PICK id \in owed : Publish(id)
      BY <1>3
    <2>1. /\ UNCHANGED <<call, rx>> /\ Len(log') >= Len(log)
          /\ Len(kinds') >= Len(kinds) /\ 1..Len(kinds) \subseteq 1..Len(kinds')
      BY <1>3, <2>0 DEF Publish, Events
    <2>2. call \in CallType'
      BY <2>1
    <2> QED BY <2>1, <2>2
  <1>4. CASE Join
    <2>1. UNCHANGED daemon /\ call' = [call EXCEPT !.stage = "joined", !.rx = Len(log)]
      BY <1>4 DEF Join, Receiver
    <2>2. Len(log) \in Nat /\ "joined" \in InFlight
      BY LogIn, StageSets DEF CallType, StartsOver, Events, Calls
    <2>3. call' \in CallType
      BY <2>1, <2>2 DEF CallType, Calls
    <2>4. call'.stage = "joined" /\ call'.rx = Len(log) /\ call'.upto = call.upto
          /\ call'.seq = call.seq
      BY <2>1 DEF CallType, Calls
    <2>5. kinds' = kinds /\ log' = log
      BY <2>1
    <2> QED BY <2>1, <2>2, <2>3, <2>4, <2>5, StageSets DEF Calls, CallType
  <1>5. CASE ReadReplay
    <2>1. UNCHANGED daemon /\ call' = [call EXCEPT !.stage = "replayed", !.upto = Len(log),
                                                !.reset = StartsOver(call.since)]
      BY <1>5 DEF ReadReplay
    <2>2. Len(log) \in Nat /\ "replayed" \in InFlight /\ StartsOver(call.since) \in BOOLEAN
      BY LogIn, StageSets DEF CallType, StartsOver, Events, Calls
    <2>3. call' \in CallType
      BY <2>1, <2>2 DEF CallType, Calls
    <2>4. call'.stage = "replayed" /\ call'.rx = call.rx /\ call'.upto = Len(log)
          /\ call'.seq = call.seq
      BY <2>1 DEF CallType, Calls
    <2>5. kinds' = kinds /\ log' = log
      BY <2>1
    <2> QED BY <2>1, <2>2, <2>3, <2>4, <2>5, StageSets DEF Calls, CallType
  <1>6. CASE ReadSummary
    <2>1. UNCHANGED daemon /\ call' = [call EXCEPT !.stage = "summed",
                                                !.got = applied \cap Of("meta")]
      BY <1>6 DEF ReadSummary
    <2>2. Len(log) \in Nat /\ "summed" \in InFlight
          /\ applied \cap Of("meta") \subseteq 1..Len(kinds)
      BY LogIn, StageSets DEF CallType, StartsOver, Events, Calls
    <2>3. call' \in CallType
      BY <2>1, <2>2 DEF CallType, Calls
    <2>4. call'.stage = "summed" /\ call'.rx = call.rx /\ call'.upto = call.upto
          /\ call'.seq = call.seq
      BY <2>1 DEF CallType, Calls
    <2>5. kinds' = kinds /\ log' = log
      BY <2>1
    <2> QED BY <2>1, <2>2, <2>3, <2>4, <2>5, StageSets DEF Calls, CallType
  <1>7. CASE ReadItems
    <2>1. UNCHANGED daemon /\ call' = [call EXCEPT !.stage = "read", !.seq = Len(log),
                                                !.got = @ \cup (applied \ Of("meta"))]
      BY <1>7 DEF ReadItems
    <2>2. Len(log) \in Nat /\ "read" \in InFlight
          /\ call.got \cup (applied \ Of("meta")) \subseteq 1..Len(kinds)
      BY LogIn, StageSets DEF CallType, StartsOver, Events, Calls
    <2>3. call' \in CallType
      BY <2>1, <2>2 DEF CallType, Calls
    <2>4. call'.stage = "read" /\ call'.rx = call.rx /\ call'.upto = call.upto
          /\ call'.seq = Len(log)
      BY <2>1 DEF CallType, Calls
    <2>5. kinds' = kinds /\ log' = log
      BY <2>1
    <2> QED BY <2>1, <2>2, <2>3, <2>4, <2>5, StageSets DEF Calls, CallType
  <1>8. CASE Answer
    <2>1. UNCHANGED daemon /\ call' = [call EXCEPT !.stage = "answered"] /\ rx' = call.rx
      BY <1>8 DEF Answer, StartsAt
    <2>2. Len(log) \in Nat /\ "answered" \in InFlight
      BY LogIn, StageSets DEF CallType, StartsOver, Events, Calls
    <2>3. call' \in CallType
      BY <2>1, <2>2 DEF CallType, Calls
    <2>4. call'.stage = "answered" /\ call'.rx = call.rx /\ call'.upto = call.upto
          /\ call'.seq = call.seq
      BY <2>1 DEF CallType, Calls
    <2>5. kinds' = kinds /\ log' = log
      BY <2>1
    <2> QED BY <2>1, <2>2, <2>3, <2>4, <2>5, StageSets DEF Calls, CallType, NoTask
  <1>9. CASE Refuse
    <2>1. UNCHANGED daemon /\ call' = [call EXCEPT !.stage = "refused"]
      BY <1>9 DEF Refuse
    <2>2. Len(log) \in Nat /\ "refused" \in InFlight
      BY LogIn, StageSets DEF CallType, StartsOver, Events, Calls
    <2>3. call' \in CallType
      BY <2>1, <2>2 DEF CallType, Calls
    <2>4. call'.stage = "refused" /\ call'.rx = call.rx /\ call'.upto = call.upto
          /\ call'.seq = call.seq
      BY <2>1 DEF CallType, Calls
    <2>5. kinds' = kinds /\ log' = log
      BY <2>1
    <2> QED BY <2>1, <2>2, <2>3, <2>4, <2>5, StageSets DEF Calls, CallType
  <1>10. CASE Forward
    <2>1. UNCHANGED <<call, daemon>> /\ (rx # NoTask => rx' # NoTask)
      BY <1>10, Forwards DEF NoTask
    <2> QED BY <2>1
  <1>11. CASE Open
    <2>1. UNCHANGED daemon /\ call' \in NewCall'
      BY <1>11, Opens, Typed
    <2> QED BY <2>1, NewCalls
  <1>12. CASE TakeReply
    <2>1. UNCHANGED <<daemon, rx>> /\ (call' = NoCall \/ call' \in NewCall')
      BY <1>12, Replies, Typed
    <2> QED BY <2>1, NewCalls, NoCalls DEF Events
  <1>13. CASE TakeFailure
    <2>1. UNCHANGED <<daemon, rx>> /\ call' = NoCall
      BY <1>13, Fails, Typed
    <2> QED BY <2>1, NoCalls DEF Events
  <1>14. CASE TakeFrame
    <2>1. UNCHANGED <<daemon, rx>> /\ (call' = call \/ call' \in NewCall')
      <3>1. UNCHANGED <<daemon, rx>>
        BY <1>14, Frames, Typed, Zenon
      <3>2. call' = call \/ Fills(sub)
        BY <1>14, Frames, Typed, Zenon
      <3> QED BY <3>1, <3>2 DEF Fills
    <2> QED BY <2>1, NewCalls
  <1>15. CASE RetryFires
    <2>1. UNCHANGED <<daemon, rx>> /\ (call' = call \/ call' \in NewCall')
      <3>1. UNCHANGED <<daemon, rx>> /\ \E s \in SubType : Fills(s)
        BY <1>15, Retries, Typed, Zenon
      <3> QED BY <3>1 DEF Fills
    <2> QED BY <2>1, NewCalls
  <1>16. CASE Drop
    <2>1. UNCHANGED daemon /\ call'.stage \notin InFlight /\ (call' = call \/ call' = NoCall)
      BY <1>16, Disconnects, Typed, Fields DEF Drop
    <2> QED BY <2>1, NoCalls DEF Events
  <1>17. CASE Restart
    <2>1. kinds' = kinds /\ log' = <<>> /\ call'.stage \notin InFlight
          /\ (call' = call \/ call' = NoCall)
      BY <1>17, Disconnects, Typed, Fields DEF Restart
    <2>2. log' \in Seq(applied) /\ Len(log') = 0
      BY <2>1
    <2> QED BY <2>1, <2>2, NoCalls
  <1>18. CASE Reconnect
    <2>1. UNCHANGED <<daemon, rx>> /\ call.stage \notin InFlight
      BY <1>18, Reconnects, Typed DEF Lines
    <2> QED BY <2>1, <1>18, ReconnectCalls, NewCalls, Typed
  <1>19. CASE UNCHANGED vars
    BY <1>19 DEF vars
  <1> QED BY <1>1, <1>2, <1>3, <1>4, <1>5, <1>6, <1>7, <1>8, <1>9, <1>10, <1>11, <1>12, <1>13,
         <1>14, <1>15, <1>16, <1>17, <1>18, <1>19, Zenon DEF Next

LEMMA ViewsStep ==
  ASSUME Events, Lines, Calls, Views, [Next]_vars
  PROVE  Views'
  <1> USE StageSets DEF Views, daemon, client
  <1>1. CASE Text
    <2>1. UNCHANGED <<sub, view>> /\ 1..Len(kinds) \subseteq 1..Len(kinds')
      BY <1>1 DEF Text, Events
    <2> QED BY <2>1
  <1>2. CASE \E kind \in {"item", "meta"} : Apply(kind)
    <2>1. UNCHANGED <<sub, view>> /\ 1..Len(kinds) \subseteq 1..Len(kinds')
      BY <1>2 DEF Apply, Events
    <2> QED BY <2>1
  <1>3. CASE \E id \in owed : Publish(id)
    BY <1>3 DEF Publish
  <1>4. CASE Join
    BY <1>4 DEF Join, Receiver
  <1>5. CASE ReadReplay
    BY <1>5 DEF ReadReplay
  <1>6. CASE ReadSummary
    BY <1>6 DEF ReadSummary
  <1>7. CASE ReadItems
    BY <1>7 DEF ReadItems
  <1>8. CASE Answer
    BY <1>8 DEF Answer, StartsAt
  <1>9. CASE Refuse
    BY <1>9 DEF Refuse
  <1>10. CASE Forward
    BY <1>10 DEF Forward, Behind, Told, Desync
  <1>11. CASE Open
    <2>1. UNCHANGED <<view, daemon>> /\ sub' \in SubType
      BY <1>11, Opens, Typed
    <2> QED BY <2>1
  <1>12. CASE TakeReply
    <2>1. UNCHANGED daemon /\ sub' \in SubType
          /\ view' = IF call.reset THEN FromSnapshot ELSE Shown(view, call.since, call.upto)
      BY <1>12, Replies, Typed, Zenon
    <2>2. FromSnapshot \in [shown : SUBSET (1..Len(kinds)), seq : Nat]
      BY DEF Calls, CallType, FromSnapshot
    <2>3. call.since \in Nat /\ call.upto \in 0..Len(log)
      BY DEF Calls, CallType
    <2>4. Shown(view, call.since, call.upto) \in [shown : SUBSET (1..Len(kinds)), seq : Nat]
      BY <2>3, ShownType
    <2> QED BY <2>1, <2>2, <2>4
  <1>13. CASE TakeFailure
    <2>1. UNCHANGED <<view, daemon>> /\ sub' = Failed(sub)
      BY <1>13, Fails, Typed
    <2> QED BY <2>1, FailedShape
  <1>14. CASE TakeFrame
    <2>0. UNCHANGED daemon
      BY <1>14, Frames, Typed, Zenon
    <2>1. PICK n \in Nat :
              /\ n = wire[1]
              /\ \/ UNCHANGED <<sub, call, view>>
                 \/ Fills(sub) /\ UNCHANGED view
                 \/ sub' = [sub EXCEPT !.seq = n] /\ n = sub.seq + 1
                    /\ view' = Shown(view, n - 1, n)
      BY <1>14, Frames, Typed, Zenon
    <2>2. n \in 0..Len(log)
      BY <1>14, <2>1 DEF TakeFrame, Lines
    <2>3. CASE UNCHANGED <<sub, call, view>> \/ (Fills(sub) /\ UNCHANGED view)
      BY <2>0, <2>3 DEF Fills
    <2>4. CASE sub' = [sub EXCEPT !.seq = n] /\ n = sub.seq + 1 /\ view' = Shown(view, n - 1, n)
      <3>1. n - 1 \in Nat /\ n \in Nat
        BY <2>1, <2>4, Typed DEF SubType
      <3>3. sub' \in SubType
        BY <2>4, <3>1, Typed DEF SubType
      <3>2. view' \in [shown : SUBSET (1..Len(kinds)), seq : Nat]
        BY <2>2, <2>4, <3>1, ShownType
      <3> QED BY <2>0, <3>2, <3>3
    <2> QED BY <2>1, <2>3, <2>4
  <1>15. CASE RetryFires
    <2>1. UNCHANGED <<view, daemon>> /\ sub' \in SubType
      BY <1>15, Retries, Typed DEF Fills
    <2> QED BY <2>1
  <1>16. CASE Drop
    <2>1. UNCHANGED <<view, kinds>> /\ (sub' = sub \/ sub' = Failed(sub))
      BY <1>16, Disconnects, Typed
    <2> QED BY <2>1, FailedShape
  <1>17. CASE Restart
    <2>1. UNCHANGED <<view, kinds>> /\ (sub' = sub \/ sub' = Failed(sub))
      BY <1>17, Disconnects, Typed
    <2> QED BY <2>1, FailedShape
  <1>18. CASE Reconnect
    <2>1. UNCHANGED <<view, daemon>> /\ \E s \in SubType : sub' = Gapped(s) \/ Fills(s)
      BY <1>18, Reconnects, Typed
    <2> QED BY <2>1, GappedShape DEF Fills
  <1>19. CASE UNCHANGED vars
    BY <1>19 DEF vars
  <1> QED BY <1>1, <1>2, <1>3, <1>4, <1>5, <1>6, <1>7, <1>8, <1>9, <1>10, <1>11, <1>12, <1>13,
         <1>14, <1>15, <1>16, <1>17, <1>18, <1>19, Zenon DEF Next

LEMMA NumberingStep ==
  ASSUME Events, Lines, Calls, Views, Numbering, [Next]_vars
  PROVE  Numbering'
  <1> USE DEF daemon, client
  <1>1. CASE Publishes
    BY <1>1, Grows, Typed DEF Numbering, Events
  <1>2. CASE Reads
    BY <1>2, Serves, Typed DEF Numbering, Lines
  <1>3. CASE Forward
    BY <1>3, Forwards, Typed DEF Numbering, Lines
  <1>4. CASE Open
    BY <1>4, Opens, Typed DEF Numbering, Lines
  <1>5. CASE TakeReply
    <2>1. /\ sub'.phase = "live" /\ sub'.of = inst /\ ~sub'.fresh /\ call.stage = "answered"
          /\ UNCHANGED <<inst, known, link>>
      BY <1>5, Replies, Typed, Zenon
    <2>2. link # "down"
      BY <2>1, StageSets DEF Lines
    <2> QED BY <2>1, <2>2, Typed DEF Lines, Numbering
  <1>6. CASE TakeFailure
    <2>1. sub' = Failed(sub) /\ UNCHANGED <<inst, known, link>>
      BY <1>6, Fails, Typed, Zenon
    <2> QED BY <2>1, FailedShape, Fields, Typed DEF Numbering
  <1>7. CASE TakeFrame
    <2>1. UNCHANGED <<inst, known, link>>
      BY <1>7, Frames, Typed, Zenon
    <2>2. sub'.phase = sub.phase /\ sub'.of = sub.of /\ sub'.fresh = sub.fresh
      <3>1. sub' = sub \/ Fills(sub) \/ \E n \in Nat : sub' = [sub EXCEPT !.seq = n]
        BY <1>7, Frames, Typed, Zenon
      <3> QED BY <3>1, Typed DEF Fills, SubType
    <2> QED BY <2>1, <2>2 DEF Numbering
  <1>8. CASE RetryFires
    <2>1. UNCHANGED <<inst, known, link>>
      BY <1>8, Retries, Typed, Zenon
    <2>2. sub'.phase = sub.phase /\ sub'.of = sub.of /\ sub'.fresh = sub.fresh
      <3>1. PICK s \in SubType : s = [sub EXCEPT !.retry = FALSE] /\ Fills(s)
        BY <1>8, Retries, Typed, Zenon
      <3> QED BY <3>1, Typed DEF Fills, SubType
    <2> QED BY <2>1, <2>2 DEF Numbering
  <1>9. CASE Drop \/ Restart
    <2>1. link' = "down" /\ known' = known /\ inst' \in {inst, inst + 1}
      BY <1>9, Disconnects, Typed DEF Drop, Restart
    <2>2. sub' = sub \/ sub' = Failed(sub)
      BY <1>9, Disconnects, Typed, Zenon
    <2>3. inst \in Nat /\ known \in Nat /\ sub.of \in Nat
      BY Typed DEF Events, SubType
    <2> QED BY <2>1, <2>2, <2>3, FailedShape, Fields, Typed DEF Numbering
  <1>10. CASE Reconnect
    <2>1. known' = inst /\ inst' = inst
      BY <1>10, Reconnects, Typed, Zenon
    <2>2. /\ sub'.phase = sub.phase /\ sub'.of = sub.of /\ (~sub'.fresh => ~sub.fresh
             /\ known = inst)
      <3>1. PICK s \in SubType :
              /\ s.phase = sub.phase /\ s.of = sub.of /\ (s.fresh <=> sub.fresh \/ known # inst)
              /\ sub' = Gapped(s) \/ Fills(s)
        BY <1>10, Reconnects, Typed, Zenon
      <3> QED BY <3>1, GappedShape DEF Fills
    <2> QED BY <2>1, <2>2, Typed DEF Numbering
  <1>11. CASE UNCHANGED vars
    BY <1>11 DEF Numbering, vars
  <1> QED BY <1>1, <1>2, <1>3, <1>4, <1>5, <1>6, <1>7, <1>8, <1>9, <1>10, <1>11, Steps

LEMMA AskingStep ==
  ASSUME Events, Lines, Calls, Views, Asking, [Next]_vars
  PROVE  Asking'
  <1> USE DEF daemon, client
  <1>1. CASE Publishes
    BY <1>1, Grows, Typed DEF Asking
  <1>2. CASE Reads
    <2>1. /\ UNCHANGED sub /\ call'.since = call.since
          /\ call.stage \in InFlight /\ call'.stage \in InFlight
      BY <1>2, Serves
    <2> QED BY <2>1, StageSets DEF Asking
  <1>3. CASE Forward
    BY <1>3, Forwards, Typed DEF Asking
  <1>4. CASE Open
    <2> QED BY <1>4, Opens, Typed DEF Asking, NewCall
  <1>5. CASE TakeReply
    <2>1. /\ sub'.phase = "live" /\ sub'.seq = call.seq
          /\ \/ ~sub'.resync /\ call' = NoCall
             \/ sub'.resync /\ call' \in NewCall' /\ call'.since = call.seq
      BY <1>5, Replies, Typed, Zenon
    <2> QED BY <2>1, Fields DEF Asking, NewCall
  <1>6. CASE TakeFailure
    <2>1. sub' = Failed(sub) /\ call' = NoCall /\ call.stage # "none"
      BY <1>6, Fails, Typed
    <2> QED BY <2>1, FailedShape, Fields, Typed DEF Asking
  <1>7. CASE TakeFrame
    <2>1. \/ UNCHANGED <<sub, call>>
          \/ Fills(sub)
          \/ /\ sub.phase = "live" /\ ~sub.resync /\ UNCHANGED call
             /\ \E n \in Nat : sub' = [sub EXCEPT !.seq = n]
      BY <1>7, Frames, Typed, Zenon
    <2>2. CASE UNCHANGED <<sub, call>>
      BY <2>2 DEF Asking
    <2>3. CASE Fills(sub)
      BY <2>3, Typed DEF Asking, Fills, NewCall, About, SubType
    <2>4. CASE /\ sub.phase = "live" /\ ~sub.resync /\ UNCHANGED call
               /\ \E n \in Nat : sub' = [sub EXCEPT !.seq = n]
      BY <2>4, Typed DEF Asking, SubType
    <2> QED BY <2>1, <2>2, <2>3, <2>4
  <1>8. CASE RetryFires
    <2>1. PICK s \in SubType : s = [sub EXCEPT !.retry = FALSE] /\ Fills(s)
      BY <1>8, Retries, Typed, Zenon
    <2>2. s.phase = sub.phase /\ s.seq = sub.seq /\ s.resync = sub.resync /\ ~s.retry
      BY <2>1, Typed DEF SubType
    <2> QED BY <2>1, <2>2, Typed DEF Asking, Fills, NewCall, About, SubType
  <1>9. CASE Drop \/ Restart
    <2>1. \/ call.stage \in InFlight /\ sub' = Failed(sub) /\ call' = NoCall
          \/ UNCHANGED <<sub, call>>
      BY <1>9, Disconnects, Typed, Zenon
    <2> QED BY <2>1, FailedShape, Fields, Typed, StageSets DEF Asking
  <1>10. CASE Reconnect
    <2>1. PICK s \in SubType :
            /\ s.phase = sub.phase /\ s.seq = sub.seq /\ s.resync = sub.resync
               /\ s.retry = sub.retry
            /\ (call.stage = "queued" /\ sub' = Gapped(s)) \/ (call.stage # "queued" /\ Fills(s))
      BY <1>10, Reconnects, Typed, Zenon
    <2>2. call.stage \notin InFlight /\ call.stage \in {"none", "queued"}
      BY <1>10, Reconnects, Typed DEF Lines, CallType
    <2>3. CASE call.stage = "queued" /\ sub' = Gapped(s)
      <3>1. call'.stage = "sent" /\ call'.since = call.since
        BY <1>10, <2>2, <2>3, ReconnectCalls, Typed
      <3> QED BY <2>1, <2>3, <3>1, GappedShape DEF Asking
    <2>4. CASE call.stage = "none" /\ Fills(s)
      BY <2>1, <2>4, Typed DEF Asking, Fills, NewCall, About, SubType
    <2> QED BY <2>1, <2>2, <2>3, <2>4
  <1>11. CASE UNCHANGED vars
    BY <1>11 DEF Asking, vars
  <1> QED BY <1>1, <1>2, <1>3, <1>4, <1>5, <1>6, <1>7, <1>8, <1>9, <1>10, <1>11, Steps

LEMMA AheadStep ==
  ASSUME Events, Lines, Calls, Views, Numbering, Asking, Ahead, [Next]_vars
  PROVE  Ahead'
  <1> USE DEF daemon, client
  <1>1. CASE Publishes
    <2>1. UNCHANGED <<inst, link, call, sub>> /\ Len(log) \in Nat /\ Len(log') \in Nat
          /\ Len(log') >= Len(log)
      BY <1>1, Grows
    <2> QED BY <2>1, Typed DEF Ahead, SubType
  <1>2. CASE Reads
    <2>1. UNCHANGED <<inst, link, log, sub>>
      BY <1>2, Serves
    <2>2. \/ call'.stage \notin {"read", "answered"}
          \/ call'.stage = "read" /\ call'.seq = Len(log) /\ call'.rx = call.rx
          \/ call.stage = "read" /\ call'.stage = "answered" /\ call'.seq = call.seq
             /\ call'.rx = call.rx
      BY <1>2, Serves
    <2> QED BY <2>1, <2>2 DEF Ahead, Calls
  <1>3. CASE Forward
    BY <1>3, Forwards, Typed DEF Ahead
  <1>4. CASE Open
    <2>1. sub'.phase = "init" /\ call'.stage \notin {"read", "answered"}
      BY <1>4, Opens, Typed DEF NewCall
    <2> QED BY <2>1 DEF Ahead
  <1>5. CASE TakeReply
    <2>1. UNCHANGED <<inst, link, log>> /\ sub'.of = inst /\ sub'.seq = call.seq
          /\ (call' = NoCall \/ call' \in NewCall')
      BY <1>5, Replies, Typed, Zenon
    <2> QED BY <2>1, Fields DEF Ahead, NewCall, Calls
  <1>6. CASE TakeFailure
    <2>1. sub' = Failed(sub) /\ call' = NoCall /\ UNCHANGED <<inst, link, log>>
      BY <1>6, Fails, Typed
    <2> QED BY <2>1, FailedShape, Fields, Typed DEF Ahead
  <1>7. CASE TakeFrame
    <2>1. UNCHANGED <<inst, link, log>>
      BY <1>7, Frames, Typed, Zenon
    <2>2. PICK n \in Nat :
            /\ n = wire[1]
            /\ \/ UNCHANGED <<sub, call>>
               \/ Fills(sub)
               \/ /\ sub.phase = "live" /\ ~sub.resync /\ ~sub.needs /\ UNCHANGED call
                  /\ sub' = [sub EXCEPT !.seq = n]
      BY <1>7, Frames, Typed, Zenon
    <2>3. n \in 0..Len(log) /\ link = "up"
      BY <1>7, <2>2 DEF TakeFrame, Lines
    <2>4. CASE UNCHANGED <<sub, call>>
      BY <2>1, <2>4 DEF Ahead
    <2>5. CASE Fills(sub)
      BY <2>1, <2>5, Typed DEF Ahead, Fills, NewCall, SubType
    <2>6. CASE /\ sub.phase = "live" /\ ~sub.resync /\ ~sub.needs /\ UNCHANGED call
               /\ sub' = [sub EXCEPT !.seq = n]
      <3>1. call.stage = "none" /\ sub.of = inst
        BY <2>3, <2>6 DEF Asking, Ahead
      <3>2. sub'.phase = "live" /\ sub'.of = inst /\ sub'.seq = n
        BY <2>6, <3>1, Typed DEF SubType
      <3> QED BY <2>1, <2>3, <2>6, <3>1, <3>2, LogIn DEF Ahead
    <2> QED BY <2>2, <2>4, <2>5, <2>6
  <1>8. CASE RetryFires
    <2>1. PICK s \in SubType : s = [sub EXCEPT !.retry = FALSE] /\ Fills(s)
      BY <1>8, Retries, Typed, Zenon
    <2>2. UNCHANGED <<inst, link, log>>
      BY <1>8, Retries, Typed, Zenon
    <2>3. /\ s.phase = sub.phase /\ s.seq = sub.seq /\ s.resync = sub.resync /\ s.needs = sub.needs
          /\ s.of = sub.of
      BY <2>1, Typed DEF SubType
    <2> QED BY <2>1, <2>2, <2>3, Typed DEF Ahead, Fills, NewCall, SubType
  <1>9. CASE Drop \/ Restart
    <2>1. /\ link' = "down"
          /\ \/ call.stage \in InFlight /\ sub' = Failed(sub) /\ call' = NoCall
             \/ call.stage \notin InFlight /\ UNCHANGED <<sub, call>>
      BY <1>9, Disconnects, Typed, Zenon
    <2>2. call'.stage \notin {"read", "answered"}
      BY <2>1, Fields, StageSets
    <2>3. sub'.phase = "live" => sub.phase = "live" /\ sub'.of = sub.of /\ sub'.seq = sub.seq
      BY <2>1, FailedShape, Fields, Typed
    <2>4. UNCHANGED <<inst, log>> \/ inst' = inst + 1
      BY <1>9 DEF Drop, Restart
    <2>5. inst \in Nat /\ sub.of <= inst /\ sub.of \in Nat
      BY Typed DEF Numbering, SubType
    <2> QED BY <2>1, <2>2, <2>3, <2>4, <2>5 DEF Ahead
  <1>10. CASE Reconnect
    <2>1. PICK s \in SubType :
            /\ s.phase = sub.phase /\ s.seq = sub.seq /\ s.resync = sub.resync /\ s.of = sub.of
            /\ (call.stage = "queued" /\ sub' = Gapped(s)) \/ (call.stage # "queued" /\ Fills(s))
      BY <1>10, Reconnects, Typed, Zenon
    <2>2. /\ call.stage \notin InFlight /\ call.stage \in {"none", "queued"}
          /\ UNCHANGED <<inst, log>>
      BY <1>10, Reconnects, Typed DEF Lines, CallType
    <2>3. CASE call.stage = "queued" /\ sub' = Gapped(s)
      <3>1. call'.stage = "sent"
        BY <1>10, <2>2, <2>3, ReconnectCalls, Typed
      <3>2. sub'.phase = sub.phase /\ sub'.seq = sub.seq /\ sub'.of = sub.of
        BY <2>1, <2>3, GappedShape
      <3>3. sub'.phase = "live" => sub'.resync \/ sub'.needs
        BY <2>1, <2>3, GappedShape
      <3> QED BY <2>2, <3>1, <3>2, <3>3 DEF Ahead
    <2>4. CASE call.stage = "none" /\ Fills(s)
      BY <2>1, <2>2, <2>4, Typed DEF Ahead, Fills, NewCall, SubType
    <2> QED BY <2>1, <2>2, <2>3, <2>4
  <1>11. CASE UNCHANGED vars
    BY <1>11 DEF Ahead, vars
  <1> QED BY <1>1, <1>2, <1>3, <1>4, <1>5, <1>6, <1>7, <1>8, <1>9, <1>10, <1>11, Steps

-----------------------------------------------------------------------------
LEMMA BaseInit == Init => Base
  <1> SUFFICES ASSUME Init PROVE Base
    OBVIOUS
  <1>1. /\ may \in Profiles /\ inst = 1 /\ kinds = <<>> /\ applied = {} /\ owed = {}
        /\ log = <<>> /\ trimmed = 0 /\ lock = "free" /\ link = "up" /\ rx = -1 /\ wire = <<>>
        /\ call = NoCall /\ sub = NoSub /\ view = [shown |-> {}, seq |-> 0] /\ known = 1
    BY DEF Init, NoTask
  <1>2. may \in [Kinds -> Nat]
    BY <1>1, Numbers
  <1>3. Events
    BY <1>1, Numbers DEF Events
  <1>4. Calls
    BY <1>1, Fields DEF Calls
  <1>5. Lines
    BY <1>1, Fields, Numbers, StageSets DEF Lines
  <1>6. Views
    BY <1>1, Fields DEF Views
  <1>7. Numbering /\ Asking /\ Ahead
    BY <1>1, Fields DEF Numbering, Asking, Ahead
  <1> QED BY <1>2, <1>3, <1>4, <1>5, <1>6, <1>7 DEF Base, Types

LEMMA BaseStep == Base /\ [Next]_vars => Base'
  BY MayStep, EventsStep, LinesStep, CallsStep, ViewsStep, NumberingStep, AskingStep, AheadStep
     DEF Base, Types

LEMMA TypesHold == Base => TypeOK
  <1> SUFFICES ASSUME Base PROVE TypeOK
    OBVIOUS
  <1>0. may \in [Kinds -> Nat] /\ Events /\ Lines /\ Calls /\ Views
    BY DEF Base, Types
  <1>1. /\ inst \in Nat /\ known \in Nat /\ kinds \in Seq({"text", "item", "meta"})
        /\ Len(kinds) <= MaxEvents /\ applied \subseteq 1..Len(kinds)
           /\ owed \subseteq 1..Len(kinds)
        /\ trimmed \in 0..Len(log)
    BY <1>0 DEF Events
  <1>2. log \in Seq(1..Len(kinds))
    <2>1. \A n \in 1..Len(log) : log[n] \in 1..Len(kinds)
      BY <1>0, LogIn
    <2>2. log \in Seq(applied) /\ applied \subseteq 1..Len(kinds)
      BY <1>0 DEF Events
    <2> HIDE <1>0
    <2> QED BY <2>1, <2>2, SMT
  <1>3. /\ lock \in {"free", "subscribe"} /\ link \in {"up", "down"} /\ rx \in -1..Len(log)
        /\ wire \in Seq(0..Len(log)) /\ Len(wire) <= WireCap
    BY <1>0 DEF Lines
  <1> QED BY <1>0, <1>1, <1>2, <1>3, Zenon DEF TypeOK, Calls, Views, CallType, SubType

(* Every variable keeps its type, whatever goes wrong. *)
THEOREM TypesKept == Spec => []TypeOK
  <1>1. Spec => []Base
    BY BaseInit, BaseStep, PTL DEF Spec
  <1> QED BY <1>1, TypesHold, PTL

-----------------------------------------------------------------------------
(* A cursor speaks for the timeline, while nothing is published beside a subscribe and
   no call waits for a connection that is being dialled. *)
LEMMA InBase ==
  ASSUME Base
  PROVE  /\ may \in [Kinds -> Nat] /\ Events /\ Lines /\ Calls /\ Views /\ Numbering
         /\ Asking /\ Ahead
         /\ sub \in SubType /\ call \in CallType /\ inst \in Nat /\ wire \in Seq(Nat)
         /\ sub.seq \in Nat /\ call.seq \in Nat /\ call.since \in Nat /\ view.seq \in Nat
         /\ call.upto \in Nat /\ call.rx \in Nat /\ Len(log) \in Nat
  <1>1. /\ may \in [Kinds -> Nat] /\ Events /\ Lines /\ Calls /\ Views /\ Numbering
        /\ Asking /\ Ahead
    BY DEF Base, Types
  <1> QED BY <1>1, Typed, LogIn DEF SubType, CallType, Views

Quietly == may'["beside"] = may["beside"] /\ may'["dialing"] = may["dialing"]
LEMMA NotSpent ==
  ASSUME Base, Quietly PROVE ~Spend("beside") /\ ~Spend("dialing")
  BY InBase, Spent DEF Quietly, Kinds

LEMMA OursStep ==
  ASSUME Base, Quietly, Ours, [Next]_vars
  PROVE  Ours'
  <1> USE InBase DEF daemon, client
  <1>1. CASE Publishes
    <2>1. UNCHANGED <<call, sub>>
      BY <1>1, Grows
    <2> QED BY <2>1 DEF Ours
  <1>2. CASE Reads
    <2>1. /\ UNCHANGED sub /\ call'.since = call.since /\ call'.old = call.old
          /\ call.stage \in InFlight
      BY <1>2, Serves
    <2> QED BY <2>1 DEF Ours
  <1>3. CASE Forward
    <2>1. UNCHANGED <<call, sub>>
      BY <1>3, Forwards
    <2> QED BY <2>1 DEF Ours
  <1>4. CASE Open
    <2>1. sub'.fresh /\ call'.since = 0
      BY <1>4, Opens
    <2> QED BY <2>1 DEF Ours
  <1>5. CASE TakeReply
    <2>1. /\ ~sub'.fresh /\ sub'.seq = call.seq
          /\ call' = NoCall \/ call'.since = call.seq
      BY <1>5, Replies, Zenon
    <2> QED BY <2>1, Fields, StageSets DEF Ours
  <1>6. CASE TakeFailure
    <2>1. call' = NoCall
      BY <1>6, Fails
    <2> QED BY <2>1, Fields, StageSets DEF Ours
  <1>7. CASE TakeFrame
    <2>1. \/ UNCHANGED <<sub, call>>
          \/ Fills(sub)
          \/ sub.phase = "live" /\ ~sub.resync /\ UNCHANGED call
      BY <1>7, Frames, Zenon
    <2>2. CASE UNCHANGED <<sub, call>>
      BY <2>2 DEF Ours
    <2>3. CASE Fills(sub)
      BY <2>3 DEF Ours, Fills, About
    <2>4. CASE sub.phase = "live" /\ ~sub.resync /\ UNCHANGED call
      BY <2>4, StageSets DEF Ours, Asking
    <2> QED BY <2>1, <2>2, <2>3, <2>4
  <1>8. CASE RetryFires
    <2>1. PICK s \in SubType : s = [sub EXCEPT !.retry = FALSE] /\ Fills(s)
      BY <1>8, Retries, Zenon
    <2>2. s.seq = sub.seq /\ s.fresh = sub.fresh
      BY <2>1 DEF SubType
    <2> QED BY <2>1, <2>2 DEF Ours, Fills, About
  <1>9. CASE Drop \/ Restart
    <2>1. \/ call.stage \in InFlight /\ call' = NoCall
          \/ call.stage \notin InFlight /\ UNCHANGED <<sub, call>>
      BY <1>9, Disconnects, Zenon
    <2> QED BY <2>1, Fields, StageSets DEF Ours
  <1>10. CASE Reconnect
    <2>0. call.stage \notin InFlight
      BY <1>10, Reconnects DEF Lines
    <2>1. CASE call.stage = "queued"
      BY <1>10, <2>0, <2>1, ReconnectCalls, NotSpent DEF Ours
    <2>2. CASE call.stage # "queued"
      <3>1. PICK s \in SubType : Fills(s)
        BY <1>10, <2>2, Reconnects, Zenon
      <3> QED BY <2>0, <3>1 DEF Ours, Fills, About
    <2> QED BY <2>1, <2>2
  <1>11. CASE UNCHANGED vars
    BY <1>11 DEF Ours, vars
  <1> QED BY <1>1, <1>2, <1>3, <1>4, <1>5, <1>6, <1>7, <1>8, <1>9, <1>10, <1>11, Steps

LEMMA ReadStep ==
  ASSUME Base, Quietly, Read, [Next]_vars
  PROVE  Read'
  <1> USE InBase DEF daemon, client
  <1>1. CASE Publishes
    <2>1. UNCHANGED call
      BY <1>1, Grows
    <2>2. CASE call.stage \in {"replayed", "summed"}
      <3>1. lock # "free"
        BY <2>2, StageSets DEF Lines
      <3>2. ~Text /\ \A id \in owed : ~Publish(id)
        BY <2>2, <3>1, NotSpent DEF Text, PumpMayRun, Publish
      <3>3. log' = log
        BY <1>1, <3>2 DEF Publishes, Apply
      <3>4. \A n \in 1..Len(log) : kinds'[log[n]] = kinds[log[n]]
        BY <1>1, Grows, LogIn, Zenon
      <3> QED BY <2>1, <3>3, <3>4 DEF Read
    <2>3. CASE call.stage \in {"read", "answered"}
      <3>1. \A n \in 1..call.seq : n \in 1..Len(log)
        BY DEF Calls
      <3>2. \A n \in 1..call.seq : log'[n] = log[n]
        BY <1>1, <3>1, Grows, Zenon
      <3> QED BY <2>1, <2>3, <3>2 DEF Read
    <2>4. CASE call.stage \notin {"replayed", "summed", "read", "answered"}
      BY <2>1, <2>4 DEF Read
    <2> QED BY <2>2, <2>3, <2>4
  <1>2. CASE Reads
    <2>1. UNCHANGED <<kinds, log>>
      BY <1>2, Serves
    <2>2. CASE Join
      BY <2>2 DEF Join, Read, CallType
    <2>3. CASE ReadReplay
      <3>1. call'.stage = "replayed" /\ call'.upto = Len(log) /\ call'.since = call.since
            /\ call'.reset = StartsOver(call.since)
        BY <2>3 DEF ReadReplay, CallType
      <3>2. StartsOver(call.since) \/ call.since \in 1..Len(log)
        BY DEF StartsOver
      <3> QED BY <2>1, <3>1, <3>2 DEF Read
    <2>4. CASE ReadSummary
      <3>1. /\ call.stage = "replayed" /\ call'.stage = "summed" /\ call'.upto = call.upto
            /\ call'.since = call.since /\ call'.reset = call.reset
            /\ call'.got = applied \cap Of("meta")
        BY <2>4 DEF ReadSummary, CallType
      <3>2. \A n \in 1..Len(log) : kinds[log[n]] = "meta" => log[n] \in call'.got
        BY <3>1, LogIn DEF Of
      <3> QED BY <2>1, <3>1, <3>2 DEF Read
    <2>5. CASE ReadItems
      <3>1. /\ call.stage = "summed" /\ call'.stage = "read" /\ call'.upto = call.upto
            /\ call'.since = call.since /\ call'.reset = call.reset /\ call'.seq = Len(log)
            /\ call'.got = call.got \cup (applied \ Of("meta"))
        BY <2>5 DEF ReadItems, CallType
      <3>2. \A n \in 1..Len(log) : log[n] \in call'.got
        <4>1. \A n \in 1..Len(log) : kinds[log[n]] = "meta" => log[n] \in call.got
          BY <3>1 DEF Read
        <4>2. \A n \in 1..Len(log) : log[n] \in applied
              /\ (log[n] \in Of("meta") => kinds[log[n]] = "meta")
          BY LogIn DEF Of
        <4> QED BY <3>1, <4>1, <4>2
      <3> QED BY <2>1, <3>1, <3>2 DEF Read
    <2>6. CASE Answer
      BY <2>1, <2>6 DEF Answer, Read, CallType
    <2>7. CASE Refuse
      BY <2>1, <2>7 DEF Refuse, Read, CallType
    <2> QED BY <1>2, <2>2, <2>3, <2>4, <2>5, <2>6, <2>7 DEF Reads
  <1>3. CASE Forward
    BY <1>3, Forwards DEF Read
  <1>4. CASE Open
    <2>1. call'.stage \in {"sent", "queued"}
      BY <1>4, Opens DEF NewCall
    <2> QED BY <2>1 DEF Read
  <1>5. CASE TakeReply
    <2>1. call'.stage \in {"none", "sent", "queued"}
      BY <1>5, Replies, Fields DEF NewCall
    <2> QED BY <2>1 DEF Read
  <1>6. CASE TakeFailure
    <2>1. call'.stage = "none"
      BY <1>6, Fails, Fields
    <2> QED BY <2>1 DEF Read
  <1>7. CASE TakeFrame
    <2>1. UNCHANGED <<kinds, log>>
      BY <1>7, Frames, Zenon
    <2>2. call' = call \/ Fills(sub)
      BY <1>7, Frames, Zenon
    <2>3. call' = call \/ call'.stage \in {"sent", "queued"}
      BY <2>2 DEF Fills, NewCall
    <2> QED BY <2>1, <2>3 DEF Read
  <1>8. CASE RetryFires
    <2>1. UNCHANGED <<kinds, log>> /\ \E s \in SubType : Fills(s)
      BY <1>8, Retries, Zenon
    <2>2. call' = call \/ call'.stage \in {"sent", "queued"}
      BY <2>1 DEF Fills, NewCall
    <2> QED BY <2>1, <2>2 DEF Read
  <1>9. CASE Drop \/ Restart
    <2>1. call'.stage \notin InFlight
      BY <1>9, Disconnects, Fields, StageSets
    <2> QED BY <2>1, StageSets DEF Read
  <1>10. CASE Reconnect
    <2>0. call.stage \notin InFlight
      BY <1>10, Reconnects DEF Lines
    <2>1. call'.stage \in {"none", "sent", "queued"}
      BY <1>10, <2>0, ReconnectCalls DEF NewCall
    <2> QED BY <2>1 DEF Read
  <1>11. CASE UNCHANGED vars
    BY <1>11 DEF Read, vars
  <1> QED BY <1>1, <1>2, <1>3, <1>4, <1>5, <1>6, <1>7, <1>8, <1>9, <1>10, <1>11, Steps

(* A reply that goes on from a cursor goes on from the one the client has. *)
LEMMA GoesOn ==
  ASSUME Base, Ours, Read, call.stage = "answered", ~call.old, ~call.reset
  PROVE  /\ sub.phase = "live" /\ sub.of = inst /\ call.since = sub.seq
         /\ call.upto = call.seq /\ sub.seq <= call.seq
  <1>1. call.since \in 1..call.upto /\ call.upto = call.seq
    BY DEF Read
  <1>2. call.since = IF sub.fresh THEN 0 ELSE sub.seq
    BY StageSets DEF Ours
  <1>3. ~sub.fresh /\ call.since = sub.seq
    BY <1>1, <1>2, InBase
  <1>4. link = "up"
    BY InBase, StageSets DEF Lines
  <1> QED BY <1>1, <1>3, <1>4, InBase DEF Numbering

(* The step of a live cursor of this numbering that a frame makes. *)
LEMMA Moves ==
  ASSUME Base, TakeFrame, sub.phase = "live", ~sub.resync, ~sub.needs
  PROVE  sub.of = inst /\ wire[1] \in 0..Len(log)
  <1>1. wire # <<>> /\ wire \in Seq(0..Len(log)) /\ (link = "down" => wire = <<>>)
    BY InBase DEF TakeFrame, Lines
  <1>2. link \in {"up", "down"}
    BY InBase DEF Lines
  <1>3. sub.of = inst
    BY <1>1, <1>2, InBase DEF Ahead
  <1> QED BY <1>1, <1>3

LEMMA LevelStep ==
  ASSUME Base, Quietly, Ours, Read, Level, [Next]_vars
  PROVE  Level'
  <1> USE InBase DEF daemon, client
  <1>1. CASE Publishes
    <2>1. UNCHANGED <<inst, sub, view>>
      BY <1>1, Grows
    <2> QED BY <2>1 DEF Level
  <1>2. CASE Reads
    <2>1. UNCHANGED <<inst, log, sub, view>>
      BY <1>2, Serves
    <2> QED BY <2>1 DEF Level
  <1>3. CASE Forward
    <2>1. UNCHANGED <<inst, log, sub, view>>
      BY <1>3, Forwards
    <2> QED BY <2>1 DEF Level
  <1>4. CASE Open
    <2>1. sub'.phase = "init"
      BY <1>4, Opens
    <2> QED BY <2>1 DEF Level
  <1>5. CASE TakeReply
    <2>1. /\ call.stage = "answered" /\ ~call.old /\ sub'.seq = call.seq
          /\ view' = IF call.reset THEN FromSnapshot ELSE Shown(view, call.since, call.upto)
      BY <1>5, Replies, Zenon
    <2>2. CASE call.reset
      BY <2>1, <2>2 DEF FromSnapshot, Level
    <2>3. CASE ~call.reset
      <3>1. view.seq = sub.seq /\ call.upto = call.seq /\ sub.seq <= call.seq
        BY <2>1, <2>3, GoesOn DEF Level
      <3> QED BY <2>1, <2>3, <3>1 DEF Shown, Larger, Level
    <2> QED BY <2>2, <2>3
  <1>6. CASE TakeFailure
    <2>1. UNCHANGED <<inst, log, view>> /\ sub' = Failed(sub)
      BY <1>6, Fails
    <2> QED BY <2>1, FailedShape, Fields DEF Level
  <1>7. CASE TakeFrame
    <2>1. UNCHANGED <<inst, log>>
      BY <1>7, Frames, Zenon
    <2>2. PICK n \in Nat :
            /\ n = wire[1]
            /\ \/ UNCHANGED <<sub, view>>
               \/ Fills(sub) /\ UNCHANGED view
               \/ /\ sub.phase = "live" /\ ~sub.resync /\ ~sub.needs /\ n = sub.seq + 1
                  /\ sub' = [sub EXCEPT !.seq = n] /\ view' = Shown(view, n - 1, n)
      BY <1>7, Frames, Zenon
    <2>3. CASE UNCHANGED <<sub, view>>
      BY <2>1, <2>3 DEF Level
    <2>4. CASE Fills(sub) /\ UNCHANGED view
      BY <2>1, <2>4 DEF Level, Fills
    <2>5. CASE /\ sub.phase = "live" /\ ~sub.resync /\ ~sub.needs /\ n = sub.seq + 1
               /\ sub' = [sub EXCEPT !.seq = n] /\ view' = Shown(view, n - 1, n)
      <3>1. sub.of = inst /\ n \in 0..Len(log) /\ n - 1 = sub.seq /\ view.seq = sub.seq
        BY <1>7, <2>2, <2>5, Moves DEF Level
      <3>2. sub'.seq = n
        BY <2>5 DEF SubType
      <3> QED BY <2>5, <3>1, <3>2 DEF Level, Shown, Larger
    <2> QED BY <2>2, <2>3, <2>4, <2>5
  <1>8. CASE RetryFires
    <2>1. PICK s \in SubType : s = [sub EXCEPT !.retry = FALSE] /\ Fills(s)
      BY <1>8, Retries, Zenon
    <2>2. UNCHANGED <<inst, log, view>>
      BY <1>8, Retries, Zenon
    <2>3. sub'.phase = sub.phase /\ sub'.seq = sub.seq /\ sub'.of = sub.of
      BY <2>1 DEF SubType, Fills
    <2> QED BY <2>2, <2>3 DEF Level
  <1>9. CASE Drop \/ Restart
    <2>1. (sub' = sub \/ sub' = Failed(sub)) /\ UNCHANGED view
      BY <1>9, Disconnects, Zenon
    <2>2. sub'.phase = "live" => sub.phase = "live" /\ sub'.of = sub.of /\ sub'.seq = sub.seq
      <3>1. Failed(sub).phase = "live" =>
              sub.phase = "live" /\ Failed(sub).of = sub.of /\ Failed(sub).seq = sub.seq
        BY InBase, FailedShape, Fields
      <3> QED BY <2>1, <3>1
    <2>3. UNCHANGED <<inst, log>> \/ inst' = inst + 1
      BY <1>9 DEF Drop, Restart
    <2>4. sub.of <= inst /\ sub.of \in Nat
      BY DEF Numbering, SubType
    <2> QED BY <2>1, <2>2, <2>3, <2>4 DEF Level
  <1>10. CASE Reconnect
    <2>1. UNCHANGED <<inst, log, view>>
      BY <1>10, Reconnects, Zenon
    <2>2. sub'.phase = sub.phase /\ sub'.seq = sub.seq /\ sub'.of = sub.of
      <3>1. PICK s \in SubType :
              /\ s.phase = sub.phase /\ s.seq = sub.seq /\ s.of = sub.of
              /\ sub' = Gapped(s) \/ Fills(s)
        BY <1>10, Reconnects, Zenon
      <3> QED BY <3>1, GappedShape DEF Fills
    <2> QED BY <2>1, <2>2 DEF Level
  <1>11. CASE UNCHANGED vars
    BY <1>11 DEF Level, vars
  <1> QED BY <1>1, <1>2, <1>3, <1>4, <1>5, <1>6, <1>7, <1>8, <1>9, <1>10, <1>11, Steps

LEMMA SeenStep ==
  ASSUME Base, Quietly, Ours, Read, Level, Seen, [Next]_vars
  PROVE  Seen'
  <1> USE InBase DEF daemon, client
  <1>1. CASE Publishes
    <2>1. UNCHANGED <<inst, sub, view>>
      BY <1>1, Grows
    <2>2. sub.phase = "live" /\ sub.of = inst => \A n \in 1..sub.seq : n \in 1..Len(log)
      BY DEF Ahead
    <2>3. \A n \in 1..Len(log) : log'[n] = log[n]
      BY <1>1, Grows
    <2> QED BY <2>1, <2>2, <2>3, Zenon DEF Seen
  <1>2. CASE Reads
    <2>1. UNCHANGED <<inst, log, sub, view>>
      BY <1>2, Serves
    <2> QED BY <2>1 DEF Seen
  <1>3. CASE Forward
    <2>1. UNCHANGED <<inst, log, sub, view>>
      BY <1>3, Forwards
    <2> QED BY <2>1 DEF Seen
  <1>4. CASE Open
    <2>1. sub'.phase = "init"
      BY <1>4, Opens
    <2> QED BY <2>1 DEF Seen
  <1>5. CASE TakeReply
    <2>1. /\ call.stage = "answered" /\ ~call.old /\ sub'.seq = call.seq /\ log' = log
          /\ view' = IF call.reset THEN FromSnapshot ELSE Shown(view, call.since, call.upto)
      BY <1>5, Replies, Zenon
    <2>2. CASE call.reset
      <3>1. \A n \in 1..call.seq : log[n] \in call.got
        BY <2>1 DEF Read
      <3> QED BY <2>1, <2>2, <3>1 DEF FromSnapshot, Seen
    <2>3. CASE ~call.reset
      <3>1. /\ view.seq = sub.seq /\ call.since = sub.seq /\ call.upto = call.seq
               /\ sub.seq <= call.seq
            /\ sub.phase = "live" /\ sub.of = inst
        BY <2>1, <2>3, GoesOn DEF Level
      <3>2. Larger(call.since, view.seq) = sub.seq /\ call.upto \in 0..Len(log)
        BY <3>1 DEF Larger, Calls
      <3>3. view'.shown = view.shown \cup {log[n] : n \in sub.seq + 1..call.seq}
        <4>1. view' = Shown(view, call.since, call.upto) /\ call.since \in Nat
          BY <2>1, <2>3
        <4>2. Shown(view, call.since, call.upto).shown
                = view.shown \cup {log[n] : n \in Larger(call.since, view.seq) + 1..call.upto}
          BY <3>2, <4>1, InBase, ShownType, Zenon
        <4> QED BY <3>1, <3>2, <4>1, <4>2
      <3>4. \A n \in 1..call.seq : n \in 1..sub.seq \/ n \in sub.seq + 1..call.seq
        OBVIOUS
      <3> QED BY <2>1, <3>1, <3>3, <3>4 DEF Seen
    <2> QED BY <2>2, <2>3
  <1>6. CASE TakeFailure
    <2>1. UNCHANGED <<inst, log, view>> /\ sub' = Failed(sub)
      BY <1>6, Fails
    <2> QED BY <2>1, FailedShape, Fields DEF Seen
  <1>7. CASE TakeFrame
    <2>1. UNCHANGED <<inst, log>>
      BY <1>7, Frames, Zenon
    <2>2. PICK n \in Nat :
            /\ n = wire[1]
            /\ \/ UNCHANGED <<sub, view>>
               \/ Fills(sub) /\ UNCHANGED view
               \/ /\ sub.phase = "live" /\ ~sub.resync /\ ~sub.needs /\ n = sub.seq + 1
                  /\ sub' = [sub EXCEPT !.seq = n] /\ view' = Shown(view, n - 1, n)
      BY <1>7, Frames, Zenon
    <2>3. CASE UNCHANGED <<sub, view>>
      BY <2>1, <2>3 DEF Seen
    <2>4. CASE Fills(sub) /\ UNCHANGED view
      BY <2>1, <2>4 DEF Seen, Fills
    <2>5. CASE /\ sub.phase = "live" /\ ~sub.resync /\ ~sub.needs /\ n = sub.seq + 1
               /\ sub' = [sub EXCEPT !.seq = n] /\ view' = Shown(view, n - 1, n)
      <3>1. sub.of = inst /\ n \in 0..Len(log) /\ n - 1 = sub.seq /\ view.seq = sub.seq
        BY <1>7, <2>2, <2>5, Moves DEF Level
      <3>2. sub'.seq = n
        BY <2>5 DEF SubType
      <3>3. Larger(n - 1, view.seq) = n - 1 /\ n - 1 \in Nat
        BY <3>1 DEF Larger
      <3>4. view'.shown = view.shown \cup {log[m] : m \in (n - 1) + 1..n}
        BY <2>5, <3>1, <3>3, ShownType
      <3>5. \A m \in 1..n : m \in 1..sub.seq \/ m \in (n - 1) + 1..n
        BY <3>1
      <3> QED BY <2>1, <2>5, <3>1, <3>2, <3>4, <3>5 DEF Seen
    <2> QED BY <2>2, <2>3, <2>4, <2>5
  <1>8. CASE RetryFires
    <2>1. PICK s \in SubType : s = [sub EXCEPT !.retry = FALSE] /\ Fills(s)
      BY <1>8, Retries, Zenon
    <2>2. UNCHANGED <<inst, log, view>>
      BY <1>8, Retries, Zenon
    <2>3. sub'.phase = sub.phase /\ sub'.seq = sub.seq /\ sub'.of = sub.of
      BY <2>1 DEF SubType, Fills
    <2> QED BY <2>2, <2>3 DEF Seen
  <1>9. CASE Drop \/ Restart
    <2>1. (sub' = sub \/ sub' = Failed(sub)) /\ UNCHANGED view
      BY <1>9, Disconnects, Zenon
    <2>2. sub'.phase = "live" => sub.phase = "live" /\ sub'.of = sub.of /\ sub'.seq = sub.seq
      <3>1. Failed(sub).phase = "live" =>
              sub.phase = "live" /\ Failed(sub).of = sub.of /\ Failed(sub).seq = sub.seq
        BY InBase, FailedShape, Fields
      <3> QED BY <2>1, <3>1
    <2>3. UNCHANGED <<inst, log>> \/ inst' = inst + 1
      BY <1>9 DEF Drop, Restart
    <2>4. sub.of <= inst /\ sub.of \in Nat
      BY DEF Numbering, SubType
    <2> QED BY <2>1, <2>2, <2>3, <2>4 DEF Seen
  <1>10. CASE Reconnect
    <2>1. UNCHANGED <<inst, log, view>>
      BY <1>10, Reconnects, Zenon
    <2>2. sub'.phase = sub.phase /\ sub'.seq = sub.seq /\ sub'.of = sub.of
      <3>1. PICK s \in SubType :
              /\ s.phase = sub.phase /\ s.seq = sub.seq /\ s.of = sub.of
              /\ sub' = Gapped(s) \/ Fills(s)
        BY <1>10, Reconnects, Zenon
      <3> QED BY <3>1, GappedShape DEF Fills
    <2> QED BY <2>1, <2>2 DEF Seen
  <1>11. CASE UNCHANGED vars
    BY <1>11 DEF Seen, vars
  <1> QED BY <1>1, <1>2, <1>3, <1>4, <1>5, <1>6, <1>7, <1>8, <1>9, <1>10, <1>11, Steps

LEMMA WholeHolds == Spec /\ NoneBeside => []Whole
  <1>1. Init => Whole
    BY Fields, StageSets DEF Init, Whole, Ours, Level, Read, Seen
  <1>2. Base /\ Whole /\ [Next]_vars /\ [Quietly]_vars => Whole'
    <2>1. CASE Base /\ Whole /\ [Next]_vars /\ Quietly
      BY <2>1, OursStep, LevelStep, ReadStep, SeenStep DEF Whole
    <2>2. CASE Whole /\ UNCHANGED vars
      BY <2>2 DEF Whole, Ours, Level, Read, Seen, vars, daemon, client
    <2> QED BY <2>1, <2>2
  <1> QED BY <1>1, <1>2, BaseInit, BaseStep, PTL DEF Spec, NoneBeside, Quietly

(* Every event up to the cursor of a subscription is on screen: none that was not shown
   is taken for one already seen. *)
THEOREM CursorSpeaks == Spec /\ NoneBeside => []SeenIsShown
  <1>1. Seen => SeenIsShown
    <2> SUFFICES ASSUME Seen, sub.phase = "live", sub.of = inst
                 PROVE  Ids(0, sub.seq) \subseteq view.shown
      BY DEF SeenIsShown
    <2>1. \A n \in 0 + 1..sub.seq : log[n] \in view.shown
      BY DEF Seen
    <2> QED BY <2>1 DEF Ids
  <1> QED BY <1>1, WholeHolds, PTL DEF Whole

-----------------------------------------------------------------------------
(* No gap is silent, while no event of a new numbering arrives before the reply that
   says where that numbering is. *)
LEMMA CoveredMore ==
  ASSUME Base, Forward, NEW from \in Nat, Covered(from)
  PROVE  Covered(from)'
  <1>1. /\ rx \in Nat /\ rx' \in Nat /\ wire \in Seq(Nat)
    BY InBase, Forwards
  <1>2. PICK f \in Nat : wire' = Append(wire, f) /\ (f = Desync \/ (f = rx + 1 /\ rx' = rx + 1))
    BY InBase, Forwards
  <1>3. Len(wire') = Len(wire) + 1 /\ Len(wire) \in Nat /\ wire'[Len(wire) + 1] = f
        /\ \A i \in 1..Len(wire) : wire'[i] = wire[i]
    BY <1>1, <1>2
  <1> SUFFICES ASSUME NEW n \in from + 1..rx'
               PROVE  \E i \in 1..Len(wire') : wire'[i] \in {n, Desync}
    BY DEF Covered
  <1>4. CASE f = Desync \/ f = n
    BY <1>3, <1>4
  <1>5. CASE f # Desync /\ f # n
    <2>1. n \in from + 1..rx
      BY <1>1, <1>2, <1>5
    <2>2. PICK i \in 1..Len(wire) : wire[i] \in {n, Desync}
      BY <2>1 DEF Covered
    <2> QED BY <1>3, <2>2
  <1> QED BY <1>4, <1>5

LEMMA CoveredStill ==
  ASSUME Base, TakeFrame, NEW from \in Nat, NEW now \in Nat, Covered(from), from <= now,
         wire[1] # Desync, wire[1] <= now
  PROVE  Covered(now)'
  <1>1. wire # <<>> /\ wire' = Tail(wire) /\ rx' = rx /\ wire \in Seq(Nat)
    BY InBase, Frames
  <1>2. /\ Len(wire) \in Nat /\ Len(wire') = Len(wire) - 1
        /\ \A i \in 2..Len(wire) : i - 1 \in 1..Len(wire') /\ wire'[i - 1] = wire[i]
    BY <1>1
  <1>3. wire[1] \in Nat /\ rx \in Int
    <2>1. wire[1] \in Nat
      BY <1>1
    <2>2. rx \in -1..Len(log)
      BY InBase DEF Lines
    <2> QED BY <2>1, <2>2
  <1> SUFFICES ASSUME NEW n \in now + 1..rx'
               PROVE  \E i \in 1..Len(wire') : wire'[i] \in {n, Desync}
    BY DEF Covered
  <1>4. n \in from + 1..rx /\ n > now
    BY <1>1, <1>3
  <1>5. PICK i \in 1..Len(wire) : wire[i] \in {n, Desync}
    BY <1>4 DEF Covered
  <1>6. i \in 2..Len(wire)
    BY <1>2, <1>3, <1>4, <1>5
  <1> QED BY <1>2, <1>5, <1>6

InTime == may'["overtake"] = may["overtake"]
LEMMA NotOvertaken ==
  ASSUME Base, InTime PROVE ~Spend("overtake")
  BY InBase, Spent DEF InTime, Kinds

LEMMA ComingStep ==
  ASSUME Base, InTime, Gaps, [Next]_vars
  PROVE  Coming'
  <1> USE InBase DEF daemon, client
  <1>1. CASE Publishes
    <2>1. UNCHANGED <<rx, wire, call, sub>>
      BY <1>1, Grows
    <2> QED BY <2>1 DEF Gaps, Coming, Covered
  <1>2. CASE Reads
    <2>1. CASE call'.stage = "answered"
      <3>1. rx' = call.rx /\ call'.seq = call.seq /\ call.stage = "read"
        BY <1>2, <2>1, Serves
      <3>2. rx' <= call'.seq
        BY <3>1 DEF Ahead
      <3> QED BY <3>1, <3>2 DEF Coming, Covered
    <2>2. CASE call'.stage # "answered"
      BY <2>2 DEF Coming
    <2> QED BY <2>1, <2>2
  <1>3. CASE Forward
    <2>1. UNCHANGED <<call, sub>>
      BY <1>3, Forwards
    <2>2. Covered(call.seq) => Covered(call.seq)'
      BY <1>3, <2>1, CoveredMore
    <2> QED BY <2>1, <2>2 DEF Gaps, Coming, Covered
  <1>4. CASE Open
    <2>1. call'.stage # "answered"
      BY <1>4, Opens DEF NewCall
    <2> QED BY <2>1 DEF Coming
  <1>5. CASE TakeReply
    <2>1. call'.stage # "answered"
      BY <1>5, Replies, Fields DEF NewCall
    <2> QED BY <2>1 DEF Coming
  <1>6. CASE TakeFailure
    <2>1. call'.stage # "answered"
      BY <1>6, Fails, Fields
    <2> QED BY <2>1 DEF Coming
  <1>7. CASE TakeFrame
    <2> SUFFICES ASSUME call'.stage = "answered", ~sub'.needs
                 PROVE Covered(call.seq)' /\ call' = call
      BY DEF Coming, Covered
    <2>1. PICK n \in Nat :
            /\ n = wire[1] /\ (Overtakes(n) => Spend("overtake"))
            /\ \/ /\ n # Desync /\ (sub.phase = "gone" \/ n <= sub.seq)
                  /\ UNCHANGED <<sub, call>>
               \/ Fills(sub)
               \/ sub.phase = "live" /\ ~sub.resync /\ UNCHANGED call
      BY <1>7, Frames, Zenon
    <2>2. call.stage = "answered" /\ call' = call
      BY <2>1 DEF Fills, NewCall
    <2>3. sub.phase = "init" \/ (sub.phase = "live" /\ sub.resync)
      BY <2>2 DEF Asking, SubType
    <2>4. ~Fills(sub)
      BY <2>2, <2>3 DEF Fills, NewCall
    <2>5. n # Desync /\ n <= sub.seq /\ UNCHANGED sub
      BY <2>1, <2>3, <2>4
    <2>6. sub.phase = "live" /\ n \in 1..sub.seq
      BY <2>3, <2>5 DEF Asking, Desync
    <2>7. sub.of = inst
      BY <2>1, <2>6, NotOvertaken DEF Overtakes
    <2>8. n <= call.seq
      BY <2>2, <2>5, <2>6, <2>7 DEF Ahead
    <2>9. Covered(call.seq)
      BY <2>2, <2>5 DEF Gaps, Coming
    <2> QED BY <1>7, <2>1, <2>2, <2>5, <2>8, <2>9, CoveredStill
  <1>8. CASE RetryFires
    <2>1. PICK s \in SubType : s = [sub EXCEPT !.retry = FALSE] /\ Fills(s)
      BY <1>8, Retries, Zenon
    <2>2. s.phase = "live"
      BY <1>8, <2>1, Retries DEF Asking, SubType
    <2> QED BY <2>1, <2>2 DEF Coming, Fills, NewCall
  <1>9. CASE Drop \/ Restart
    <2>1. call'.stage \notin InFlight
      BY <1>9, Disconnects, Fields, StageSets
    <2> QED BY <2>1, StageSets DEF Coming
  <1>10. CASE Reconnect
    <2>0. call.stage \notin InFlight
      BY <1>10, Reconnects DEF Lines
    <2>1. call'.stage \in {"none", "sent", "queued"}
      BY <1>10, <2>0, ReconnectCalls DEF NewCall
    <2> QED BY <2>1 DEF Coming
  <1>11. CASE UNCHANGED vars
    BY <1>11 DEF Gaps, Coming, Covered, vars
  <1> QED BY <1>1, <1>2, <1>3, <1>4, <1>5, <1>6, <1>7, <1>8, <1>9, <1>10, <1>11, Steps

LEMMA GapStep ==
  ASSUME Base, InTime, Gaps, [Next]_vars
  PROVE  NoSilentGap'
  <1> USE InBase DEF daemon, client
  <1>1. CASE Publishes
    <2>1. UNCHANGED <<inst, link, rx, wire, sub>>
      BY <1>1, Grows
    <2> QED BY <2>1 DEF Gaps, NoSilentGap, Repairing
  <1>2. CASE Reads
    <2>1. UNCHANGED sub /\ call.stage \in InFlight
      BY <1>2, Serves
    <2>2. sub.phase = "init" \/ sub.resync
      BY <2>1, StageSets DEF Asking
    <2> QED BY <2>1, <2>2 DEF NoSilentGap, Repairing
  <1>3. CASE Forward
    <2>1. UNCHANGED <<sub, inst, link>> /\ rx' # NoTask
      BY <1>3, Forwards DEF NoTask
    <2>2. Covered(sub.seq) => Covered(sub.seq)'
      BY <1>3, <2>1, CoveredMore
    <2> QED BY <2>1, <2>2 DEF Gaps, NoSilentGap, Repairing, Covered
  <1>4. CASE Open
    <2>1. sub'.phase = "init"
      BY <1>4, Opens
    <2> QED BY <2>1 DEF NoSilentGap
  <1>5. CASE TakeReply
    <2>1. /\ call.stage = "answered" /\ sub'.seq = call.seq /\ sub'.of = inst
          /\ UNCHANGED <<inst, rx, wire>>
          /\ sub'.resync \/ (sub.needs => sub'.needs)
      BY <1>5, Replies, Zenon
    <2>2. rx # NoTask
      BY <2>1 DEF Calls
    <2>3. sub'.resync \/ sub'.needs \/ Covered(call.seq)
      BY <2>1 DEF Gaps, Coming
    <2> QED BY <2>1, <2>2, <2>3 DEF NoSilentGap, Repairing, Covered
  <1>6. CASE TakeFailure
    <2>1. sub' = Failed(sub)
      BY <1>6, Fails
    <2> QED BY <2>1, FailedShape, Fields DEF NoSilentGap, Repairing
  <1>7. CASE TakeFrame
    <2> SUFFICES ASSUME sub'.phase = "live", ~Repairing'
                 PROVE  sub'.of = inst' /\ rx' # NoTask /\ Covered(sub.seq)'
      BY DEF NoSilentGap, Covered
    <2>1. UNCHANGED <<inst, rx>> /\ link = "up"
      BY <1>7, Frames DEF Lines, TakeFrame
    <2>2. PICK n \in Nat :
            /\ n = wire[1]
            /\ \/ /\ n # Desync /\ (sub.phase = "gone" \/ n <= sub.seq) /\ UNCHANGED sub
               \/ Fills(sub)
               \/ /\ n # Desync /\ sub.phase = "live" /\ n = sub.seq + 1
                  /\ sub' = [sub EXCEPT !.seq = n]
      BY <1>7, Frames, Zenon
    <2>3. ~Fills(sub)
      BY DEF Fills, Repairing
    <2>4. /\ n # Desync /\ sub'.of = sub.of /\ sub'.seq \in Nat /\ sub.seq <= sub'.seq
          /\ n <= sub'.seq /\ sub.phase = "live" /\ ~Repairing
      <3>1. CASE n # Desync /\ (sub.phase = "gone" \/ n <= sub.seq) /\ UNCHANGED sub
        BY <3>1 DEF Repairing
      <3>2. CASE /\ n # Desync /\ sub.phase = "live" /\ n = sub.seq + 1
                 /\ sub' = [sub EXCEPT !.seq = n]
        BY <3>2 DEF SubType, Repairing
      <3> QED BY <2>2, <2>3, <3>1, <3>2
    <2>5. sub.of = inst /\ rx # NoTask /\ Covered(sub.seq)
      BY <2>1, <2>4 DEF Gaps, NoSilentGap, Covered
    <2>6. Covered(sub.seq)'
      <3>1. PICK m \in Nat : m = sub'.seq /\ sub.seq <= m /\ n <= m
        BY <2>4
      <3>2. Covered(m)'
        BY <1>7, <2>2, <2>4, <2>5, <3>1, CoveredStill
      <3> QED BY <3>1, <3>2 DEF Covered
    <2> QED BY <2>1, <2>4, <2>5, <2>6
  <1>8. CASE RetryFires
    <2>1. PICK s \in SubType : s = [sub EXCEPT !.retry = FALSE] /\ Fills(s)
      BY <1>8, Retries, Zenon
    <2>2. s.phase = "live"
      BY <1>8, <2>1, Retries DEF Asking, SubType
    <2> QED BY <2>1, <2>2 DEF NoSilentGap, Repairing, Fills
  <1>9. CASE Drop \/ Restart
    <2>1. link' = "down"
      BY <1>9, Disconnects
    <2> QED BY <2>1 DEF NoSilentGap
  <1>10. CASE Reconnect
    <2>1. PICK s \in SubType :
            /\ s.phase = sub.phase /\ s.resync = sub.resync
            /\ (call.stage = "queued" /\ sub' = Gapped(s)) \/ (call.stage # "queued" /\ Fills(s))
      BY <1>10, Reconnects, Zenon
    <2>2. CASE call.stage = "queued" /\ sub' = Gapped(s)
      BY <2>1, <2>2, GappedShape DEF NoSilentGap, Repairing
    <2>3. CASE Fills(s)
      BY <2>3 DEF NoSilentGap, Repairing, Fills
    <2> QED BY <2>1, <2>2, <2>3
  <1>11. CASE UNCHANGED vars
    BY <1>11 DEF Gaps, NoSilentGap, Repairing, vars
  <1> QED BY <1>1, <1>2, <1>3, <1>4, <1>5, <1>6, <1>7, <1>8, <1>9, <1>10, <1>11, Steps

(* What a connected client that repairs nothing has not seen is on its way to it, or a
   frame is that makes it ask again. *)
THEOREM NoGapIsSilent == Spec /\ NoneOvertakes => []NoSilentGap
  <1>1. Init => Gaps
    BY Fields DEF Init, Gaps, Coming, NoSilentGap
  <1>2. Base /\ Gaps /\ [Next]_vars /\ [InTime]_vars => Gaps'
    <2>1. CASE Base /\ Gaps /\ [Next]_vars /\ InTime
      BY <2>1, ComingStep, GapStep DEF Gaps
    <2>2. CASE Gaps /\ UNCHANGED vars
      BY <2>2 DEF Gaps, Coming, NoSilentGap, Covered, Repairing, vars, daemon, client
    <2> QED BY <2>1, <2>2
  <1>3. Gaps => NoSilentGap
    BY DEF Gaps
  <1> QED BY <1>1, <1>2, <1>3, BaseInit, BaseStep, PTL DEF Spec, NoneOvertakes, InTime
=============================================================================

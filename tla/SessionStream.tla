--------------------------- MODULE SessionStream ---------------------------
(***************************************************************************)
(* What one client sees of one session: the daemon numbers the session's   *)
(* events and keeps the last of them for replay                            *)
(* (src/apps/daemon/src/session/manager.rs), a task per subscription       *)
(* forwards them over the connection (dataplane/endpoint.rs), and the      *)
(* workbench's client keeps a cursor, notices gaps and subscribes again    *)
(* (src/packages/workbench/src/protocol/client.ts).                        *)
(*                                                                         *)
(* An event is its number of application, kinds[id] what it is: a piece of *)
(* the agent's "text", published by the pump under the execution lock; an  *)
(* "item" (a message somebody sent) or a "meta" (model, mode, effort),     *)
(* which are applied first and published later, without that lock.  A      *)
(* subscribe holds the lock while it reads, one action per thing it reads. *)
(*                                                                         *)
(* Left out: leaving a session, closing or deleting it under a subscriber, *)
(* the switch of a connection to another path, and what of the older       *)
(* history a windowed snapshot leaves as it was on screen.                 *)
(***************************************************************************)
EXTENDS Integers, Sequences, FiniteSets

CONSTANTS
  MaxEvents,   \* bound: events of one behaviour
  Window,      \* replay_window: events kept for replay
  Capacity,    \* BROADCAST_CAPACITY: events a receiver may be behind
  WireCap,     \* EVENT_QUEUE: frames a connection may have queued
  Profiles     \* what may go wrong, and how often

Kinds == {"drop", "restart", "refuse", "free", "beside", "dialing",
          "overtake"}

ASSUME SessionStreamAssumption ==
  /\ MaxEvents \in Nat /\ Window \in Nat /\ WireCap \in Nat \ {0}
  /\ Capacity \in Nat \ {0} /\ Profiles \subseteq [Kinds -> Nat]

VARIABLES
  may,                    \* what may still go wrong
  inst, kinds, applied,   \* the daemon's instance; events; what its state holds
  owed, log, trimmed,     \* applied, not published; numbered; no longer kept
  lock,                   \* Live::execution: "free" or held by the "subscribe"
  link, rx, wire,         \* the connection, the task's receiver, its frames
  call,                   \* the client's one subscribe call of the session
  sub, view, known        \* the Subscription, the timeline, identity

daemon == <<inst, kinds, applied, owed, log, trimmed>>
client == <<sub, view, known>>
vars == <<may, daemon, lock, link, rx, wire, call, client>>

NoTask == -1
Desync == 0     \* a frame is an event's number, or this
NoCall == [stage |-> "none", old |-> FALSE, since |-> 0, rx |-> 0, reset |-> FALSE,
           upto |-> 0, got |-> {}, seq |-> 0]
NoSub == [phase |-> "gone", seq |-> 0, resync |-> FALSE, needs |-> FALSE,
          fresh |-> TRUE, retry |-> FALSE, of |-> 0]
Reading == {"joined", "replayed", "summed"}
InFlight == {"sent", "read", "answered", "refused"} \cup Reading

Init ==
  /\ may \in Profiles
  /\ inst = 1 /\ kinds = <<>> /\ applied = {} /\ owed = {}
  /\ log = <<>> /\ trimmed = 0 /\ lock = "free"
  /\ link = "up" /\ rx = NoTask /\ wire = <<>>
  /\ call = NoCall /\ sub = NoSub /\ view = [shown |-> {}, seq |-> 0] /\ known = 1

Spend(kind) == may[kind] > 0 /\ may' = [may EXCEPT ![kind] = @ - 1]
Of(kind) == {id \in 1..Len(kinds) : kinds[id] = kind}
Ids(from, to) == {log[n] : n \in from + 1..to}
Larger(a, b) == IF a > b THEN a ELSE b

----------------------------------------------------------------------------
(* The daemon's publishers. *)

PumpMayRunUnlocked == TRUE  \* a subscribe that does not hold the lock
PumpMayRun == lock = "free"

\* The pump applies, publishes and trims, under the lock.
Text ==
  /\ PumpMayRun /\ Len(kinds) < MaxEvents
  /\ kinds' = Append(kinds, "text")
  /\ applied' = applied \cup {Len(kinds')}
  /\ log' = Append(log, Len(kinds'))
  /\ trimmed' = Larger(trimmed, Len(log') - Window)
  /\ UNCHANGED <<may, inst, owed, lock, link, rx, wire, call, client>>

\* A caller of its own: accept_input pushes the message, set_model writes meta.
Apply(kind) ==
  /\ Spend("free") /\ Len(kinds) < MaxEvents
  /\ kinds' = Append(kinds, kind)
  /\ applied' = applied \cup {Len(kinds')}
  /\ owed' = owed \cup {Len(kinds')}
  /\ UNCHANGED <<inst, log, trimmed, lock, link, rx, wire, call, client>>

\* publish: numbered, retained and sent in one step, and not trimmed.
Publish(id) ==
  /\ id \in owed
  /\ IF call.stage \in {"replayed", "summed"} THEN Spend("beside") ELSE UNCHANGED may
  /\ owed' = owed \ {id}
  /\ log' = Append(log, id)
  /\ UNCHANGED <<inst, kinds, applied, trimmed, lock, link, rx, wire, call, client>>

----------------------------------------------------------------------------
(* The daemon's side of a subscription. *)

ReceiverAfter == Len(log) + 1  \* counts the event to come
Receiver == Len(log)

Join ==
  /\ call.stage = "sent" /\ lock = "free"
  /\ lock' = "subscribe"
  /\ call' = [call EXCEPT !.stage = "joined", !.rx = Receiver]
  /\ UNCHANGED <<may, daemon, link, rx, wire, client>>

\* Since 0, ahead of the daemon, or before what it still holds.
StartsOver(since) ==
  \/ since = 0
  \/ since > Len(log)
  \/ since < Len(log) /\ (trimmed = Len(log) \/ since < trimmed)

ReadReplay ==
  /\ call.stage = "joined"
  /\ call' = [call EXCEPT !.stage = "replayed", !.upto = Len(log),
                          !.reset = StartsOver(call.since)]
  /\ UNCHANGED <<may, daemon, lock, link, rx, wire, client>>

ReadSummary ==
  /\ call.stage = "replayed"
  /\ call' = [call EXCEPT !.stage = "summed", !.got = applied \cap Of("meta")]
  /\ UNCHANGED <<may, daemon, lock, link, rx, wire, client>>

\* The items are locked while they are cloned and seq is loaded.
ReadItems ==
  /\ call.stage = "summed"
  /\ call' = [call EXCEPT !.stage = "read", !.got = @ \cup (applied \ Of("meta")),
                          !.seq = Len(log)]
  /\ lock' = "free"
  /\ UNCHANGED <<may, daemon, link, rx, wire, client>>

StartsLate == Len(log)  \* the task's receiver is made when the task is
StartsAt == call.rx

\* The task is replaced before the reply is sent.
Answer ==
  /\ call.stage = "read"
  /\ call' = [call EXCEPT !.stage = "answered"]
  /\ rx' = StartsAt
  /\ UNCHANGED <<may, daemon, lock, link, wire, client>>

\* Too many subscriptions, or the session could not be read.
Refuse ==
  /\ call.stage = "read" /\ Spend("refuse")
  /\ call' = [call EXCEPT !.stage = "refused"]
  /\ UNCHANGED <<daemon, lock, link, rx, wire, client>>

Behind == Len(log) - rx
Told == Append(wire, Desync)

Forward ==
  /\ rx # NoTask /\ Behind > 0 /\ Len(wire) < WireCap
  /\ IF Behind > Capacity
     THEN wire' = Told /\ rx' = Len(log) - Capacity
     ELSE wire' = Append(wire, rx + 1) /\ rx' = rx + 1
  /\ UNCHANGED <<may, daemon, lock, link, call, client>>

----------------------------------------------------------------------------
(* The client. *)

\* fillGap; Asks says whether it makes the call itself.
Asks(s) == s.phase = "live" /\ ~s.resync
Gapped(s) ==
  IF s.phase = "gone" THEN s
  ELSE IF Asks(s) THEN [s EXCEPT !.resync = TRUE, !.needs = FALSE, !.retry = FALSE]
  ELSE [s EXCEPT !.needs = TRUE]
Asked(s) ==
  [NoCall EXCEPT !.stage = IF link' = "up" THEN "sent" ELSE "queued",
                 !.since = IF s.fresh THEN 0 ELSE s.seq]
FillGap(s) ==
  /\ sub' = Gapped(s)
  /\ call' = IF Asks(s) THEN Asked(s) ELSE call

FailedForGood(s) ==  \* no timer
  IF s.phase = "init" THEN NoSub
  ELSE [s EXCEPT !.resync = FALSE, !.needs = TRUE]

\* The end of a resync that failed: the timer is set.
Failed(s) ==
  IF s.phase = "init" THEN NoSub
  ELSE [s EXCEPT !.resync = FALSE, !.needs = TRUE, !.retry = TRUE]

Open ==
  /\ sub.phase = "gone" /\ UNCHANGED link
  /\ sub' = [NoSub EXCEPT !.phase = "init"]
  /\ call' = Asked(sub')
  /\ UNCHANGED <<may, daemon, lock, rx, wire, view, known>>

\* applySequenced over the events from + 1..to
Shown(v, from, to) ==
  [shown |-> v.shown \cup Ids(Larger(from, v.seq), to), seq |-> Larger(v.seq, to)]

FromSnapshot == [shown |-> call.got, seq |-> call.seq]

\* acceptCursor and onResync: one step with the reply's arrival.
TakeReply ==
  /\ call.stage = "answered" /\ ~call.old /\ UNCHANGED link
  /\ view' = IF call.reset THEN FromSnapshot ELSE Shown(view, call.since, call.upto)
  /\ LET s == [sub EXCEPT !.phase = "live", !.seq = call.seq, !.fresh = FALSE,
                          !.of = inst, !.resync = FALSE]
     IN IF ~sub.needs THEN sub' = s /\ call' = NoCall
        ELSE IF sub.phase = "init" THEN sub' = [s EXCEPT !.retry = TRUE] /\ call' = NoCall
        ELSE sub' = Gapped(s) /\ call' = Asked(s)
  /\ UNCHANGED <<may, daemon, lock, rx, wire, known>>

\* An error, or the reply to a call made before this connection was dialled.
TakeFailure ==
  /\ call.stage = "refused" \/ (call.stage = "answered" /\ call.old)
  /\ sub' = Failed(sub) /\ call' = NoCall
  /\ UNCHANGED <<may, daemon, lock, link, rx, wire, view, known>>

Suspect(n) == sub.phase = "init" \/ sub.resync \/ sub.needs \/ n # sub.seq + 1

\* After a restart, an event in the new numbering arrives before the reply
\* that says where that numbering is: it is compared with the old cursor.
Overtakes(n) == sub.phase = "live" /\ sub.of # inst /\ n \in 1..sub.seq

TakeFrame ==
  /\ wire # <<>> /\ wire' = Tail(wire) /\ UNCHANGED link
  /\ IF Overtakes(Head(wire)) THEN Spend("overtake") ELSE UNCHANGED may
  /\ LET n == Head(wire) IN
     IF n = Desync THEN FillGap(sub) /\ UNCHANGED view
     ELSE IF sub.phase = "gone" \/ n <= sub.seq THEN UNCHANGED <<sub, call, view>>
     ELSE IF Suspect(n) THEN FillGap(sub) /\ UNCHANGED view
     ELSE /\ sub' = [sub EXCEPT !.seq = n]
          /\ view' = Shown(view, n - 1, n)
          /\ UNCHANGED call
  /\ UNCHANGED <<daemon, lock, rx, known>>

RetryFires ==
  /\ sub.retry /\ UNCHANGED link
  /\ FillGap([sub EXCEPT !.retry = FALSE])
  /\ UNCHANGED <<may, daemon, lock, rx, wire, view, known>>

----------------------------------------------------------------------------
(* Connections and restarts. *)

\* The runtime of the connection is dropped: its tasks and handlers end.
Disconnect ==
  /\ link' = "down" /\ rx' = NoTask /\ wire' = <<>> /\ lock' = "free"
  /\ IF call.stage \in InFlight
     THEN sub' = Failed(sub) /\ call' = NoCall
     ELSE UNCHANGED <<sub, call>>
  /\ UNCHANGED <<view, known>>

Drop ==
  /\ link = "up" /\ Spend("drop")
  /\ Disconnect /\ UNCHANGED daemon

\* What the pump had in memory may be lost; a message was on disk first.
Restart ==
  /\ Spend("restart")
  /\ inst' = inst + 1
  /\ applied' \in {applied, applied \ Of("text")}
  /\ owed' = {} /\ log' = <<>> /\ trimmed' = 0
  /\ Disconnect /\ UNCHANGED kinds

\* A call that waited for the connection goes first, then resubscribe.  It is
\* of this connection only if it was made after dial and before ready.
Reconnect ==
  /\ link = "down" /\ link' = "up"
  /\ known' = inst
  /\ LET s == [sub EXCEPT !.fresh = @ \/ known # inst]
     IN IF call.stage = "queued"
        THEN /\ \/ call' = [call EXCEPT !.stage = "sent", !.old = TRUE] /\ UNCHANGED may
                \/ call' = [call EXCEPT !.stage = "sent"] /\ Spend("dialing")
             /\ sub' = Gapped(s)
        ELSE FillGap(s) /\ UNCHANGED may
  /\ UNCHANGED <<daemon, lock, rx, wire, view>>

----------------------------------------------------------------------------
Next ==
  \/ Text \/ \E kind \in {"item", "meta"} : Apply(kind)
  \/ \E id \in owed : Publish(id)
  \/ Join \/ ReadReplay \/ ReadSummary \/ ReadItems \/ Answer \/ Refuse \/ Forward
  \/ Open \/ TakeReply \/ TakeFailure \/ TakeFrame \/ RetryFires
  \/ Drop \/ Restart \/ Reconnect

Spec == Init /\ [][Next]_vars

\* Whoever applied an event publishes it; the daemon's tasks and the client's
\* reader run; its timers fire; it dials until it is connected; the user opens
\* the session.  Nothing makes the agent write or anything fail.
FairSpec ==
  /\ Spec
  /\ WF_vars(\E id \in owed : Publish(id))
  /\ WF_vars(Join) /\ WF_vars(ReadReplay) /\ WF_vars(ReadSummary)
  /\ WF_vars(ReadItems) /\ WF_vars(Answer) /\ WF_vars(Forward)
  /\ WF_vars(Open) /\ WF_vars(TakeReply) /\ WF_vars(TakeFailure)
  /\ WF_vars(TakeFrame) /\ WF_vars(RetryFires) /\ WF_vars(Reconnect)

----------------------------------------------------------------------------
(* Properties. *)

\* Every variable has its type.
TypeOK ==
  /\ may \in [Kinds -> Nat]
  /\ inst \in Nat /\ known \in Nat
  /\ kinds \in Seq({"text", "item", "meta"}) /\ Len(kinds) <= MaxEvents
  /\ applied \subseteq 1..Len(kinds) /\ owed \subseteq 1..Len(kinds)
  /\ log \in Seq(1..Len(kinds)) /\ trimmed \in 0..Len(log)
  /\ lock \in {"free", "subscribe"} /\ link \in {"up", "down"}
  /\ rx \in -1..Len(log) /\ wire \in Seq(0..Len(log)) /\ Len(wire) <= WireCap
  /\ call \in [stage : {"none", "queued"} \cup InFlight, old : BOOLEAN,
               since : Nat, rx : Nat, reset : BOOLEAN, upto : Nat,
               got : SUBSET (1..Len(kinds)), seq : Nat]
  /\ sub \in [phase : {"gone", "init", "live"}, seq : Nat, resync : BOOLEAN,
              needs : BOOLEAN, fresh : BOOLEAN, retry : BOOLEAN, of : Nat]
  /\ view \in [shown : SUBSET (1..Len(kinds)), seq : Nat]

\* The cursor of a subscription speaks for the timeline: every event up to it
\* is on screen, so none is dropped as already seen that was not (client.ts
\* "silently returning a partial history would leave holes", manager.rs).
SeenIsShown ==
  sub.phase = "live" /\ sub.of = inst => Ids(0, sub.seq) \subseteq view.shown

\* No gap is silent: what a connected client has not seen will still reach it,
\* or a frame that makes it ask again will, or it is asking, or about to.
Repairing == sub.resync \/ sub.needs \/ sub.retry
NoSilentGap ==
  sub.phase = "live" /\ link = "up" /\ ~Repairing =>
    /\ sub.of = inst /\ rx # NoTask
    /\ \A n \in sub.seq + 1..rx :
         \E i \in 1..Len(wire) : wire[i] \in {n, Desync}

\* Whatever was dropped, refused or restarted, the client ends up showing all
\* that the session holds.
InSync ==
  /\ sub.phase = "live" /\ link = "up" /\ sub.of = inst
  /\ sub.seq = Len(log) /\ applied \subseteq view.shown
CatchesUp == <>[]InSync
=============================================================================

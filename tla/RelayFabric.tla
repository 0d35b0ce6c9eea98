---------------------------- MODULE RelayFabric ----------------------------
(***************************************************************************)
(* The relay's fabric: src/apps/relay/src/forward/fabric-core.ts (which    *)
(* endpoint is connected, which streams are bound to which routes), its    *)
(* forwarder fabric-forwarder.ts (admission of sockets, loss of the        *)
(* authority) and the revocation stream of remote-fabric-authority.ts.     *)
(*                                                                         *)
(* The relay is one thread of JavaScript, so each action is the code       *)
(* between two awaits: an upgrade waits for authorizeEndpoint, an OPEN for *)
(* authorizeRoute, and in between anything else may run.  The operators on *)
(* a core s are the methods of FabricCore: Unregister(s, c), Reject(...)   *)
(* take the core before the call to the core after it, so that an action   *)
(* is written as the calls its handler makes.                              *)
(*                                                                         *)
(* Time only matters as what has run out: a connection's grant (lapsed), a *)
(* route's grant (aged), a strike, a tombstone and a revocation fence.     *)
(* Payloads and data sequence numbers are left out; a frame that breaks a  *)
(* rule of its stream is Violates.                                         *)
(***************************************************************************)
EXTENDS Integers, FiniteSets

CONSTANTS
  Endpoint,    \* endpoint handles, each its own revocation handle
  Route,       \* route handles
  Id,          \* stream ids of a connection, positive numbers
  MaxConn,     \* bound: upgrades
  MaxOpen,     \* bound: OPEN frames that are given a reservation
  LateMax,     \* maxLateFramesPerClosedStream
  Profiles     \* the limits and the budgets of one behaviour

Kinds == {"join", "open", "revoke", "outage", "lapse", "leave", "shut",
          "rogue", "error"}
Limits == {"endpoints", "fences", "pendingPer", "pendingAll",
           "streamsPer", "streamsAll", "strikes"}

ASSUME RelayFabricAssumption ==
  /\ Endpoint \cap Route = {}
  /\ Id \subseteq Nat \ {0} /\ IsFiniteSet(Id)
  /\ MaxConn \in Nat /\ MaxOpen \in Nat /\ LateMax \in Nat
  /\ Profiles \subseteq [may : [Kinds -> Nat], lim : [Limits -> Nat]]

Conn == 1..MaxConn      \* a connection is its admission's number
Open == 1..MaxOpen      \* an OPEN that was given a reservation
Handle == Endpoint \cup Route

VARIABLES
  may, lim,       \* what may still go wrong, the limits in force
  dead,           \* handles the authority has revoked
  issued,         \* the last connection generation it issued
  lapsed,         \* grants up to this generation have expired
  link, page,     \* the revocation stream, the rest of its sync
  owed,           \* and the events that follow it
  ready, epoch,   \* authorityReady, authorityEpoch
  conn,           \* the grant and the awaits of each upgrade
  op,             \* an OPEN, its reservation, its answer, then its binding
  core            \* the state of FabricCore

vars == <<may, lim, dead, issued, lapsed, link, page, owed, ready, epoch, conn, op, core>>
authority == <<dead, issued, lapsed, link, page, owed>>
forwarder == <<ready, epoch, conn>>

(* The core: at[c] is the socket, endpoints/fences/routes/streams/pending/ *)
(* tombs/count/strikes are the code's maps; 0 (tombs: -1) is "no entry".   *)
(* told[c] is not state of the relay: the ids that the endpoint behind c   *)
(* has reason to think in use, from the frames the two have exchanged.     *)
None == [phase |-> "none", src |-> 0, sid |-> 0, tgt |-> 0, tid |-> 0,
         to |-> 0, route |-> 0, mark |-> 0, fins |-> {}, aged |-> FALSE]
NoConn == [who |-> 0, gen |-> 0, mark |-> 0, epoch |-> 0]
Blank(x) == [i \in Id |-> x]

Init ==
  /\ \E p \in Profiles : may = p.may /\ lim = p.lim
  /\ dead = {} /\ page = {} /\ owed = {} /\ link = "down"
  /\ issued = [e \in Endpoint |-> 0] /\ lapsed = [e \in Endpoint |-> 0]
  /\ ready = FALSE /\ epoch = 0
  /\ conn = [c \in Conn |-> NoConn]
  /\ op = [k \in Open |-> None]
  /\ core = [at |-> [c \in Conn |-> "none"],
             endpoints |-> [e \in Endpoint |-> 0],
             fences |-> [e \in Endpoint |-> [gen |-> 0, seq |-> 0]],
             table |-> [h \in Handle |-> 0], floor |-> 0, sequence |-> 0,
             routes |-> [r \in Route |-> 0],
             streams |-> [c \in Conn |-> Blank(0)],
             pending |-> [c \in Conn |-> Blank(0)],
             tombs |-> [c \in Conn |-> Blank(-1)],
             told |-> [c \in Conn |-> {}],
             count |-> 0,
             strikes |-> [c \in Conn |-> 0]]

Can(kind) == may[kind] > 0
Spend(kind) == Can(kind) /\ may' = [may EXCEPT ![kind] = @ - 1]

----------------------------------------------------------------------------
(* FabricCore's methods. *)

Connected(s, c) == s.at[c] \in {"open", "shut"}
Current(s, c) == Connected(s, c) /\ s.endpoints[conn[c].who] = c
Expired(c) == conn[c].gen <= lapsed[conn[c].who]
Held(s, c) == {i \in Id : s.pending[c][i] # 0}
Bound(s, c) == {s.streams[c][i] : i \in Id} \ {0}
Used(f) == {x \in DOMAIN f : f[x] # 0}
Legs(k) == {<<op[k].src, op[k].sid>>, <<op[k].tgt, op[k].tid>>}
Monus(a, b) == IF a > b THEN a - b ELSE 0

\* closeBinding for each of B; the endpoints outside quiet are sent RESET.
CloseBindings(s, B, quiet) ==
  LET ended == UNION {Legs(k) : k \in B}
      reset == {g \in ended : g[1] \notin quiet /\ Current(s, g[1])}
  IN [s EXCEPT
        !.routes = [r \in Route |->
                      IF \E k \in B : op[k].route = r THEN 0 ELSE @[r]],
        !.streams = [c \in Conn |-> [i \in Id |->
                      IF <<c, i>> \in ended THEN 0 ELSE @[c][i]]],
        !.tombs = [c \in Conn |-> [i \in Id |->
                      IF <<c, i>> \in ended /\ Connected(s, c)
                      THEN LateMax ELSE @[c][i]]],
        !.told = [c \in Conn |-> {i \in @[c] : <<c, i>> \notin reset}]]

UnregisterUncounted(s, c) ==  \* its reservations stay in the global count
  IF ~Connected(s, c) THEN s ELSE
  LET t == [s EXCEPT
              !.at[c] = "gone", !.pending[c] = Blank(0), !.tombs[c] = Blank(-1),
              !.endpoints[conn[c].who] = IF @ = c THEN 0 ELSE @, !.strikes[c] = 0]
  IN [CloseBindings(t, Bound(s, c), {c}) EXCEPT !.told[c] = {}]
Unregister(s, c) ==
  IF ~Connected(s, c) THEN s ELSE
  LET e == conn[c].who
      t == [s EXCEPT
              !.at[c] = "gone",
              !.endpoints[e] = IF @ = c THEN 0 ELSE @,
              !.count = Monus(@, Cardinality(Held(s, c))),
              !.pending[c] = Blank(0),
              !.tombs[c] = Blank(-1),
              !.strikes[c] = 0]
  IN [CloseBindings(t, Bound(s, c), {c}) EXCEPT !.told[c] = {}]

\* Strikes that left the window no longer count: n is what is left and one more.
Strike(s, c, n) ==
  IF n < lim["strikes"] THEN [s EXCEPT !.strikes[c] = n] ELSE Unregister(s, c)

CancelAlways(s, c, i) ==  \* counts a reservation that is not there
  [s EXCEPT !.pending[c][i] = 0, !.count = @ - 1]
CancelPending(s, c, i) ==
  IF s.pending[c][i] = 0 THEN s
  ELSE [s EXCEPT !.pending[c][i] = 0, !.count = Monus(@, 1)]

Remember(s, c, i) == [s EXCEPT !.tombs[c][i] = 0]

\* RESET to the endpoint itself.
Reject(s, c, i) == [Remember(s, c, i) EXCEPT !.told[c] = @ \ {i}]

RevokedByTable(s, h, mark) == s.table[h] # 0  \* the floor is forgotten
WasRevokedSince(s, h, mark) == s.table[h] # 0 \/ mark < s.floor

PrunedEarly(s, flying) ==  \* also past the admission the fence was made beside
  [s EXCEPT !.fences = [e \in Endpoint |->
     IF /\ s.endpoints[e] = 0 /\ @[e].gen # 0
        /\ \/ @[e].gen <= lapsed[e]
           \/ \A a \in flying : @[e].seq <= a
     THEN [gen |-> 0, seq |-> 0] ELSE @[e]]]
\* Fences no admission in flight can be older than are dropped.
Pruned(s, flying) ==
  [s EXCEPT !.fences = [e \in Endpoint |->
     IF /\ s.endpoints[e] = 0 /\ @[e].gen # 0
        /\ \/ @[e].gen <= lapsed[e]
           \/ \A a \in flying : @[e].seq < a
     THEN [gen |-> 0, seq |-> 0] ELSE @[e]]]

InFlight(s) == {c \in Conn : s.at[c] \in {"asking", "answered"}}
Begun(s) == Cardinality({c \in Conn : s.at[c] # "none"})
Fences(s) == {e \in Endpoint : s.fences[e].gen # 0}

\* An OPEN is over when its binding is, or when its answer has been heard.
Settled(s) == [k \in Open |->
  IF op[k].phase \in {"opening", "active"} /\ s.streams[op[k].src][op[k].sid] # k
  THEN [None EXCEPT !.phase = "closed"] ELSE op[k]]
Into(s) == core' = s /\ op' = Settled(s)

----------------------------------------------------------------------------
(* The authority, of which the relay sees grants and the revocation stream. *)

\* What is revoked while there is a stream is told on it, after its sync.
Revoke(h) ==
  /\ h \notin dead /\ Spend("revoke")
  /\ dead' = dead \cup {h}
  /\ owed' = IF link = "down" THEN owed ELSE owed \cup {h}
  /\ UNCHANGED <<lim, issued, lapsed, link, page, forwarder, op, core>>

\* A stream begins with a sync of everything revoked so far.
LinkConnects ==
  /\ link = "down"
  /\ link' = "syncing" /\ page' = dead
  /\ UNCHANGED <<may, lim, dead, issued, lapsed, owed, forwarder, op, core>>

\* FabricCore.revoke: remembered, and what it is about is ended.
RevokedNext(s, h) ==  \* remembered for what comes, what is there stays
  [s EXCEPT !.table[h] = s.sequence + 1, !.sequence = @ + 1]
Revoked(s, h) ==
  LET t == [s EXCEPT !.table[h] = s.sequence + 1, !.sequence = @ + 1]
  IN IF h \in Route THEN CloseBindings(t, {t.routes[h]} \ {0}, {})
     ELSE IF t.endpoints[h] = 0 THEN t ELSE Unregister(t, t.endpoints[h])

Delivers(h) ==
  /\ \/ link = "syncing" /\ h \in page /\ page' = page \ {h} /\ UNCHANGED owed
     \/ link = "up" /\ h \in owed /\ owed' = owed \ {h} /\ UNCHANGED page
  /\ Into(Revoked(core, h))
  /\ UNCHANGED <<may, lim, dead, issued, lapsed, link, forwarder>>

Synchronized ==
  /\ link = "syncing" /\ page = {}
  /\ link' = "up" /\ ready' = TRUE
  /\ UNCHANGED <<may, lim, dead, issued, lapsed, page, owed, epoch, conn, op, core>>

\* authorityDisconnected: every endpoint goes, and every admission under way
\* (its raw socket is destroyed too, which has the effect of the epoch).
LinkDrops ==
  /\ link # "down" /\ Spend("outage")
  /\ link' = "down" /\ page' = {} /\ owed' = {}
  /\ ready' = FALSE /\ epoch' = epoch + 1
  /\ LET gone == {c \in Conn : Connected(core, c)}
         held == UNION {{<<c, i>> : i \in Held(core, c)} : c \in gone}
     IN Into([core EXCEPT
          !.at = [c \in Conn |-> IF c \in gone THEN "gone" ELSE @[c]],
          !.endpoints = [e \in Endpoint |-> 0],
          !.routes = [r \in Route |-> 0],
          !.streams = [c \in Conn |-> Blank(0)],
          !.pending = [c \in Conn |-> Blank(0)],
          !.tombs = [c \in Conn |-> Blank(-1)],
          !.told = [c \in Conn |-> {}],
          !.count = Monus(@, Cardinality(held)),
          !.strikes = [c \in Conn |-> 0]])
  /\ UNCHANGED <<lim, dead, issued, lapsed, conn>>

\* The grants of an endpoint run out in the order in which they were made.  This is
\* asked of the authority: a fence is pruned at the expiry of the last generation.
Lapse(e) ==
  /\ lapsed[e] < issued[e] /\ Spend("lapse")
  /\ lapsed' = [lapsed EXCEPT ![e] = @ + 1]
  /\ UNCHANGED <<lim, dead, issued, link, page, owed, forwarder, op, core>>

Ages(k) ==
  /\ op[k].phase \in {"granted", "opening", "active"} /\ ~op[k].aged
  /\ Spend("lapse")
  /\ op' = [op EXCEPT ![k].aged = TRUE]
  /\ UNCHANGED <<lim, authority, forwarder, core>>

----------------------------------------------------------------------------
(* Admission of a socket: FabricForwarder.upgrade, admit, register. *)

Upgrade(c) ==
  /\ core.at[c] = "none" /\ \A b \in 1..(c - 1) : core.at[b] # "none"
  /\ ready /\ Spend("join")
  /\ core' = [core EXCEPT !.at[c] = "asking"]
  /\ conn' = [conn EXCEPT ![c].mark = core.sequence, ![c].epoch = epoch]
  /\ UNCHANGED <<lim, authority, ready, epoch, op>>

\* The authority grants a generation above all before it, or refuses.
EndpointGranted(c, e) ==
  /\ core.at[c] = "asking" /\ e \notin dead
  /\ issued' = [issued EXCEPT ![e] = @ + 1]
  /\ core' = [core EXCEPT !.at[c] = "answered"]
  /\ conn' = [conn EXCEPT ![c].who = e, ![c].gen = issued[e] + 1]
  /\ UNCHANGED <<may, lim, dead, lapsed, link, page, owed, ready, epoch, op>>

Admitted(c) ==
  /\ ready /\ conn[c].epoch = epoch /\ ~Expired(c)
  /\ \/ core.endpoints[conn[c].who] # 0
     \/ Cardinality(Used(core.endpoints)) < lim["endpoints"]

Registers(s, c) ==
  LET e == conn[c].who
      t == Pruned(s, InFlight(s))
      old == t.endpoints[e]
      fenced == [t EXCEPT !.fences[e] = [gen |-> conn[c].gen, seq |-> Begun(t)]]
      freed == IF old = 0 THEN fenced ELSE Unregister(fenced, old)
  IN IF \/ WasRevokedSince(t, e, conn[c].mark)
        \/ t.fences[e].gen # 0 /\ conn[c].gen <= t.fences[e].gen
        \/ t.fences[e].gen = 0 /\ Cardinality(Fences(t)) >= lim["fences"]
     THEN [t EXCEPT !.at[c] = "away"]
     ELSE [freed EXCEPT !.at[c] = "open", !.endpoints[e] = c]

\* finishAdmission ends every admission, whatever became of it.
Finished(s) == Pruned(s, InFlight(s))

Register(c) ==
  /\ core.at[c] = "answered" /\ Admitted(c)
  /\ Into(Finished(Registers(core, c)))
  /\ conn' = [conn EXCEPT ![c].mark = 0, ![c].epoch = 0]
  /\ UNCHANGED <<may, lim, authority, ready, epoch>>

\* Refused, unreachable authority, or a socket that left while it waited.
TurnedAway(c) ==
  /\ \/ core.at[c] = "answered" /\ (Admitted(c) => Can("leave"))
     \/ core.at[c] = "asking" /\ Can("error")
  /\ Into(Finished([core EXCEPT !.at[c] = "away"]))
  /\ conn' = [conn EXCEPT ![c].mark = 0, ![c].epoch = 0]
  /\ UNCHANGED <<may, lim, authority, ready, epoch>>

\* The socket closes (or its presence lease lapses): shutdown, expirePresence.
Leaves(c) ==
  /\ Connected(core, c)
  /\ \/ core.at[c] = "shut" /\ UNCHANGED may
     \/ core.at[c] = "open" /\ Spend("leave")
  /\ Into(Unregister(core, c))
  /\ UNCHANGED <<lim, authority, forwarder>>

\* closeSocket for a slow reader or a missed heartbeat: until its close event
\* the endpoint is still registered, and still heard, but sent nothing.
Shuts(c) ==
  /\ core.at[c] = "open" /\ Spend("shut")
  /\ core' = [core EXCEPT !.at[c] = "shut", !.told[c] = {}]
  /\ UNCHANGED <<lim, authority, forwarder, op>>

\* expireEndpoint: on its next frame, an OPEN to it, or the sweep.
EndpointExpires(c) ==
  /\ Current(core, c) /\ Expired(c)
  /\ Into(Pruned(Unregister(core, c), InFlight(core)))
  /\ UNCHANGED <<may, lim, authority, forwarder>>

\* A fence of a revocation runs out, or is pushed out by newer ones.
RevocationAges(h) ==
  /\ core.table[h] # 0
  /\ core' = [core EXCEPT !.table[h] = 0,
                !.floor = IF @ < core.table[h] THEN core.table[h] ELSE @]
  /\ UNCHANGED <<may, lim, authority, forwarder, op>>

----------------------------------------------------------------------------
(* Frames: FabricCore.handle, open, accept, data, fin, reset. *)

Stays == UNCHANGED <<lim, authority, forwarder>>
Hears(c) == Current(core, c) /\ ~Expired(c)
Own(c, i) == core.streams[c][i]
Fresh(c, i) == Own(c, i) = 0 /\ core.pending[c][i] = 0 /\ core.tombs[c][i] = -1
Room(c) ==
  /\ Cardinality(Held(core, c)) < lim["pendingPer"]
  /\ core.count < lim["pendingAll"]
  /\ Cardinality(Bound(core, c)) < lim["streamsPer"]
  /\ Cardinality(Used(core.routes)) < lim["streamsAll"]

\* A strike after s, of which any part of the earlier ones still counts.
Struck(s, c) ==
  /\ Spend("rogue")
  /\ \E n \in 1..(core.strikes[c] + 1) : Into(Strike(s, c, n))
  /\ Stays

OpenReserves(c, i, k) ==
  /\ Hears(c) /\ Fresh(c, i) /\ Room(c) /\ Spend("open")
  /\ op[k].phase = "none" /\ \A j \in 1..(k - 1) : op[j].phase # "none"
  /\ op' = [op EXCEPT ![k] = [None EXCEPT !.phase = "asking", !.src = c,
                                          !.sid = i, !.mark = core.sequence]]
  /\ core' = [core EXCEPT !.pending[c][i] = k, !.count = @ + 1,
                          !.told[c] = @ \cup {i}]
  /\ Stays

\* A malformed OPEN, or one over a limit.
OpenRejected(c, i) ==
  /\ Hears(c) /\ Fresh(c, i)
  /\ Struck(Reject(core, c, i), c)

\* An id that is bound, reserved or just over: the first OPEN goes as well.
OpenAgain(c, i) ==
  /\ Hears(c) /\ ~Fresh(c, i)
  /\ \/ /\ Own(c, i) # 0 /\ ~op[Own(c, i)].aged /\ Spend("rogue")
        /\ Into(CloseBindings(core, {Own(c, i)}, {}))
        /\ Stays
     \/ /\ Own(c, i) = 0
        /\ Struck(Reject(CancelPending(core, c, i), c, i), c)

\* Another frame overtakes the answer to the OPEN of its id.
OpenOvertaken(c, i) ==
  /\ Hears(c) /\ core.pending[c][i] # 0
  /\ \/ /\ UNCHANGED may
        /\ Into([Remember(CancelPending(core, c, i), c, i) EXCEPT !.told[c] = @ \ {i}])
        /\ Stays
     \/ Struck(Reject(CancelPending(core, c, i), c, i), c)

\* A route leads to another endpoint: the rendezvous authority has clients reach
\* nodes, and nothing in the fabric is meant for an endpoint that calls itself.
RouteGranted(k, e, r) ==
  /\ op[k].phase = "asking"
  /\ r \notin dead /\ e \notin dead \cup {conn[op[k].src].who}
  /\ op' = [op EXCEPT ![k].phase = "granted", ![k].to = e, ![k].route = r]
  /\ UNCHANGED <<may, lim, authority, forwarder, core>>

\* authorizeRoute refuses (null) or throws.
RouteRefused(k) ==
  /\ op[k].phase = "asking" /\ Spend("error")
  /\ op' = [op EXCEPT ![k].phase = "refused"]
  /\ Stays /\ UNCHANGED core

Source(k) == op[k].src
ReservedAny(k) ==  \* some reservation of the id, whose ever it is
  /\ Current(core, Source(k)) /\ core.pending[Source(k)][op[k].sid] # 0
Reserved(k) == /\ Current(core, Source(k))
               /\ core.pending[Source(k)][op[k].sid] = k
Ended(k) == op' = [op EXCEPT ![k] = [None EXCEPT !.phase = "closed"]]
Cleared(k) == CancelPending(core, Source(k), op[k].sid)
Free(s, c) == {i \in Id : s.streams[c][i] = 0 /\ s.pending[c][i] = 0 /\ s.tombs[c][i] = -1}

\* The reservation is not there any more: nothing is done.
OpenAbandoned(k) ==
  /\ op[k].phase \in {"granted", "refused"} /\ ~Reserved(k)
  /\ Ended(k)
  /\ UNCHANGED <<may, lim, authority, forwarder, core>>

\* An authorization that threw is answered before the source's expiry is noticed.
Settles(k) ==
  /\ op[k].phase \in {"granted", "refused"} /\ Reserved(k)
  /\ Expired(Source(k)) => op[k].phase = "refused"

Usable(k) ==
  /\ op[k].phase = "granted"
  /\ ~WasRevokedSince(core, op[k].route, op[k].mark)
  /\ core.routes[op[k].route] = 0 /\ ~op[k].aged

\* Where the target's own expiry is noticed first, see EndpointExpires.
Reachable(k) ==
  LET t == core.endpoints[op[k].to] IN
  /\ t # 0 /\ Cardinality(Bound(core, t)) < lim["streamsPer"]
  /\ Free(core, t) # {}

OpenFails(k) ==
  /\ Settles(k)
  /\ ~(Usable(k) /\ Reachable(k))
  /\ IF /\ op[k].phase = "granted"
        /\ ~WasRevokedSince(core, op[k].route, op[k].mark)
        /\ core.routes[op[k].route] # 0
     THEN \E n \in 1..(core.strikes[Source(k)] + 1) :
            core' = Strike(Reject(Cleared(k), Source(k), op[k].sid), Source(k), n)
     ELSE core' = Reject(Cleared(k), Source(k), op[k].sid)
  /\ op' = [Settled(core') EXCEPT ![k] = [None EXCEPT !.phase = "closed"]]
  /\ UNCHANGED may /\ Stays

OpenBinds(k) ==
  /\ Settles(k) /\ Usable(k) /\ Reachable(k)
  /\ LET c == Source(k)
         t == core.endpoints[op[k].to]
     IN /\ ~Expired(t)
        /\ \E i \in Free(core, t) :
             /\ core' = [Cleared(k) EXCEPT
                           !.streams[c][op[k].sid] = k, !.streams[t][i] = k,
                           !.routes[op[k].route] = k,
                           !.told[t] = IF core.at[t] = "open" THEN @ \cup {i} ELSE @]
             /\ op' = [op EXCEPT ![k].phase = "opening", ![k].tgt = t,
                                 ![k].tid = i, ![k].mark = 0]
  /\ UNCHANGED may /\ Stays

BindingExpires(k) ==
  /\ op[k].phase \in {"opening", "active"} /\ op[k].aged
  /\ Into(CloseBindings(core, {k}, {}))
  /\ UNCHANGED may /\ Stays

Live(c, i) == Hears(c) /\ Own(c, i) # 0 /\ ~op[Own(c, i)].aged
IsTarget(c, i) == <<c, i>> = <<op[Own(c, i)].tgt, op[Own(c, i)].tid>>
Peer(c, i) == IF IsTarget(c, i) THEN op[Own(c, i)].src ELSE op[Own(c, i)].tgt

Accept(c, i) ==
  /\ Live(c, i) /\ op[Own(c, i)].phase = "opening" /\ IsTarget(c, i)
  /\ op' = [op EXCEPT ![Own(c, i)].phase = "active"]
  /\ UNCHANGED <<may, core>> /\ Stays

Flows(c, i) == Live(c, i) /\ op[Own(c, i)].phase = "active" /\ c \notin op[Own(c, i)].fins

DataUndrainedSilent(c, i) ==  \* it is the sender that is told nothing
  /\ Flows(c, i) /\ core.at[Peer(c, i)] = "shut"
  /\ Into(CloseBindings(core, {Own(c, i)}, {c}))
  /\ UNCHANGED may /\ Stays
\* A DATA frame whose peer cannot take it ends the stream, not its sender.
DataUndrained(c, i) ==
  /\ Flows(c, i) /\ core.at[Peer(c, i)] = "shut"
  /\ Into(CloseBindings(core, {Own(c, i)}, {Peer(c, i)}))
  /\ UNCHANGED may /\ Stays

Fin(c, i) ==
  /\ Flows(c, i)
  /\ IF op[Own(c, i)].fins = {}
     THEN op' = [op EXCEPT ![Own(c, i)].fins = {c}] /\ UNCHANGED core
     ELSE Into([CloseBindings(core, {Own(c, i)}, Conn) EXCEPT
                  !.told = [d \in Conn |-> {j \in @[d] : core.streams[d][j] # Own(c, i)}]])
  /\ UNCHANGED may /\ Stays

\* The RESET of an endpoint, passed on to the other.
Reset(c, i) ==
  /\ Live(c, i)
  /\ Into([CloseBindings(core, {Own(c, i)}, Conn) EXCEPT
             !.told = [d \in Conn |-> {j \in @[d] : core.streams[d][j] # Own(c, i)}]])
  /\ UNCHANGED may /\ Stays

\* A frame that the stream's phase, its FIN or its sequence forbids.
Violates(c, i) ==
  /\ Live(c, i)
  /\ Struck(CloseBindings(core, {Own(c, i)}, {}), c)

\* unknownOrViolation: no such stream (INCOMING is never an endpoint's to send).
LateFrame(c, i) ==
  /\ Hears(c) /\ core.pending[c][i] = 0
  /\ Own(c, i) # 0 => ~op[Own(c, i)].aged
  /\ \/ /\ core.tombs[c][i] > 0 /\ UNCHANGED may
        /\ Into([core EXCEPT !.tombs[c][i] = @ - 1])
        /\ Stays
     \/ core.tombs[c][i] = 0 /\ Struck(core, c)
     \/ core.tombs[c][i] = -1 /\ Struck(Reject(core, c, i), c)

TombExpires(c, i) ==
  /\ Connected(core, c) /\ core.tombs[c][i] # -1
  /\ core' = [core EXCEPT !.tombs[c][i] = -1]
  /\ UNCHANGED <<may, op>> /\ Stays

----------------------------------------------------------------------------
Next ==
  \/ LinkConnects \/ Synchronized \/ LinkDrops
  \/ \E h \in Handle : Revoke(h) \/ Delivers(h) \/ RevocationAges(h)
  \/ \E e \in Endpoint : Lapse(e)
  \/ \E c \in Conn :
       \/ Upgrade(c) \/ Register(c) \/ TurnedAway(c)
       \/ Leaves(c) \/ Shuts(c) \/ EndpointExpires(c)
       \/ \E e \in Endpoint : EndpointGranted(c, e)
       \/ \E i \in Id :
            \/ \E k \in Open : OpenReserves(c, i, k)
            \/ OpenRejected(c, i) \/ OpenAgain(c, i) \/ OpenOvertaken(c, i)
            \/ Accept(c, i) \/ DataUndrained(c, i) \/ Fin(c, i) \/ Reset(c, i)
            \/ Violates(c, i) \/ LateFrame(c, i) \/ TombExpires(c, i)
  \/ \E k \in Open :
       \/ Ages(k) \/ RouteRefused(k) \/ OpenAbandoned(k)
       \/ OpenFails(k) \/ OpenBinds(k) \/ BindingExpires(k)
       \/ \E e \in Endpoint, r \in Route : RouteGranted(k, e, r)

Spec == Init /\ [][Next]_vars

\* The revocation stream is read until it ends or is given up for idle.
FairSpec == Spec /\ \A h \in Handle : WF_vars(Delivers(h))

----------------------------------------------------------------------------
(* Properties. *)

TypeOK ==
  /\ may \in [Kinds -> Nat] /\ lim \in [Limits -> Nat]
  /\ dead \subseteq Handle /\ page \subseteq dead /\ owed \subseteq dead
  /\ issued \in [Endpoint -> Nat] /\ lapsed \in [Endpoint -> Nat]
  /\ link \in {"down", "syncing", "up"} /\ ready \in BOOLEAN /\ epoch \in Nat
  /\ conn \in [Conn -> [who : Endpoint \cup {0}, gen : Nat, mark : Nat, epoch : Nat]]
  /\ op \in [Open -> [phase : {"none", "asking", "granted", "refused",
                               "opening", "active", "closed"},
                      src : Conn \cup {0}, sid : Id \cup {0},
                      tgt : Conn \cup {0}, tid : Id \cup {0},
                      to : Endpoint \cup {0}, route : Route \cup {0},
                      mark : Nat, fins : SUBSET Conn, aged : BOOLEAN]]
  /\ core \in [at : [Conn -> {"none", "asking", "answered", "away",
                              "open", "shut", "gone"}],
               endpoints : [Endpoint -> Conn \cup {0}],
               fences : [Endpoint -> [gen : Nat, seq : Nat]],
               table : [Handle -> Nat], floor : Nat, sequence : Nat,
               routes : [Route -> Open \cup {0}],
               streams : [Conn -> [Id -> Open \cup {0}]],
               pending : [Conn -> [Id -> Open \cup {0}]],
               tombs : [Conn -> [Id -> -1..LateMax]],
               told : [Conn -> SUBSET Id],
               count : Nat, strikes : [Conn -> Nat]]

\* The maps of the core agree after every handler: an endpoint's entry is a
\* live connection; a route's entry is a binding that both its connections
\* hold under the ids it names, and no connection holds any other; so nothing
\* of a connection is left when it is gone, whichever path ended it.
StreamsMatchRoutes ==
  /\ \A c \in Conn : Connected(core, c) <=> \E e \in Endpoint : core.endpoints[e] = c
  /\ \A e \in Used(core.endpoints) : conn[core.endpoints[e]].who = e
  /\ \A k \in Open :
       LET bound == {r \in Route : core.routes[r] = k}
           held == {g \in Conn \X Id : core.streams[g[1]][g[2]] = k}
       IN IF op[k].phase \in {"opening", "active"}
          THEN /\ bound = {op[k].route} /\ held = Legs(k)
               /\ \A g \in held : Connected(core, g[1])
          ELSE bound = {} /\ held = {}

\* The global count of OPENs under way is the number of reservations, on every
\* path: answer, refusal, error, RESET, duplicate, eviction, loss of the
\* authority.  (Math.max(0, ...) would hide a count that is too low.)
PendingCounted ==
  core.count = Cardinality({g \in Conn \X Id : core.pending[g[1]][g[2]] # 0})

\* Both together: what the core counts and maps is what is there.
MapsAgree == StreamsMatchRoutes /\ PendingCounted

\* A revoked endpoint is connected, and a revoked route bound, only while the
\* relay is synchronized and the event is still on its way: an authorization
\* that crossed the revocation, or an outage, or the loss of the fence that
\* remembered it, installs nothing.
InUse(h) == IF h \in Route THEN core.routes[h] # 0 ELSE core.endpoints[h] # 0
RevokedIsOut == \A h \in dead : InUse(h) => ready /\ h \in owed

\* What an open endpoint has been led to think in use is in use: a stream or a
\* reservation that ends is never forgotten without a RESET (or both FINs).
NoneIsLeftHanging ==
  \A c \in Conn : core.at[c] = "open" =>
    \A i \in core.told[c] : core.streams[c][i] # 0 \/ core.pending[c][i] # 0

\* The highest generation an endpoint has been online with.
Best(e) ==
  LET gens == {conn[c].gen : c \in {b \in Conn :
                 conn[b].who = e /\ core.at[b] \in {"open", "shut", "gone"}}}
  IN IF gens = {} THEN 0 ELSE CHOOSE g \in gens : \A h \in gens : h <= g
\* Once the reservation of an OPEN is gone, its answer binds nothing, though
\* the same id of the same connection may be reserved again by then.
Abandoned(k) ==
  /\ op[k].phase \in {"asking", "granted", "refused"}
  /\ core.pending[op[k].src][op[k].sid] # k
AbandonedStaysDead ==
  [][\A k \in Open : Abandoned(k) => op'[k].phase \notin {"opening", "active"}]_vars

\* Every handler is one step of the promise, or none: in particular an endpoint is
\* never given back to a connection whose grant is older than one it has had,
\* however late that authorization returns (fabric-core.ts, "Otherwise an older
\* authorization response ... could become current").
Promise == INSTANCE FabricPromise WITH
  best <- [e \in Endpoint |-> Best(e)],
  online <- [e \in Endpoint |->
               IF core.endpoints[e] = 0 THEN 0 ELSE conn[core.endpoints[e]].gen],
  bound <- {[open |-> k, route |-> op[k].route,
             ends |-> {conn[op[k].src].who, conn[op[k].tgt].who}] :
              k \in {j \in Open : op[j].phase \in {"opening", "active"}}},
  out <- dead \ owed
ImplementsPromise == Promise!PromiseSpec

\* Revocations take effect, whatever becomes of the stream that carries them:
\* there is always another moment when nothing revoked is in use.
RevocationTakesEffect == []<>(\A h \in dead : ~InUse(h))
=============================================================================

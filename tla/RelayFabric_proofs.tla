------------------------- MODULE RelayFabric_proofs -------------------------
(***************************************************************************)
(* Proofs about RelayFabric, for any endpoints, routes, ids and profiles:  *)
(* the maps of the core agree, what was revoked is out, the answer to an   *)
(* OPEN that was given up binds nothing, nobody is left with a stream that *)
(* has ended, and every handler is a step of FabricPromise.                *)
(***************************************************************************)
EXTENDS RelayFabric, FiniteSetTheorems, TLAPS

Phases == {"none", "asking", "granted", "refused", "opening", "active", "closed"}
Places == {"none", "asking", "answered", "away", "open", "shut", "gone"}
CoreType ==
  [at : [Conn -> Places], endpoints : [Endpoint -> Conn \cup {0}],
   fences : [Endpoint -> [gen : Nat, seq : Nat]],
   table : [Handle -> Nat], floor : Nat, sequence : Nat,
   routes : [Route -> Open \cup {0}], streams : [Conn -> [Id -> Open \cup {0}]],
   pending : [Conn -> [Id -> Open \cup {0}]], tombs : [Conn -> [Id -> -1..LateMax]],
   told : [Conn -> SUBSET Id], count : Nat, strikes : [Conn -> Nat]]
OpType ==
  [phase : Phases, src : Conn \cup {0}, sid : Id \cup {0}, tgt : Conn \cup {0},
   tid : Id \cup {0}, to : Endpoint \cup {0}, route : Route \cup {0},
   mark : Nat, fins : SUBSET Conn, aged : BOOLEAN]
ConnType == [who : Endpoint \cup {0}, gen : Nat, mark : Nat, epoch : Nat]

LEMMA ConnOpen == 0 \notin Conn /\ 0 \notin Open /\ 0 \notin Id /\ Conn \subseteq Nat /\ Open \subseteq Nat
                  /\ LateMax \in Nat /\ LateMax \in -1..LateMax /\ 0 \in -1..LateMax /\ -1 \in -1..LateMax
  BY RelayFabricAssumption DEF Conn, Open

LEMMA Counts ==
  /\ \A s, c : Cardinality(Held(s, c)) \in Nat
  /\ \A s : Begun(s) \in Nat
  <1>1. IsFiniteSet(Id) /\ IsFiniteSet(Conn)
    BY RelayFabricAssumption, FS_Interval DEF Conn
  <1>2. ASSUME NEW s, NEW c PROVE Cardinality(Held(s, c)) \in Nat
    <2>1. Held(s, c) \subseteq Id
      BY DEF Held
    <2> QED BY <1>1, <2>1, FS_Subset, FS_CardinalityType
  <1>3. ASSUME NEW s PROVE Begun(s) \in Nat
    <2>1. {c \in Conn : s.at[c] # "none"} \subseteq Conn
      OBVIOUS
    <2> QED BY <1>1, <2>1, FS_Subset, FS_CardinalityType DEF Begun
  <1> QED BY <1>2, <1>3
-----------------------------------------------------------------------------
(* What each method of the core leaves of it. *)
LEMMA CloseFields ==
  ASSUME NEW s \in CoreType, NEW B, NEW quiet
  PROVE  LET t == CloseBindings(s, B, quiet) IN
         /\ t \in CoreType
         /\ t.at = s.at /\ t.endpoints = s.endpoints /\ t.pending = s.pending
         /\ t.table = s.table /\ t.floor = s.floor /\ t.sequence = s.sequence
         /\ t.count = s.count
         /\ \A r \in Route : t.routes[r] = IF \E k \in B : op[k].route = r THEN 0 ELSE s.routes[r]
         /\ \A c \in Conn, i \in Id :
              t.streams[c][i] = IF \E k \in B : <<c, i>> \in Legs(k) THEN 0 ELSE s.streams[c][i]
         /\ \A c \in Conn, i \in Id : t.streams[c][i] \in {s.streams[c][i], 0}
  <1> DEFINE ended == UNION {Legs(k) : k \in B}
             reset == {g \in ended : g[1] \notin quiet /\ Current(s, g[1])}
             routes == [r \in Route |-> IF \E k \in B : op[k].route = r THEN 0 ELSE s.routes[r]]
             streams == [c \in Conn |-> [i \in Id |->
                           IF <<c, i>> \in ended THEN 0 ELSE s.streams[c][i]]]
             tombs == [c \in Conn |-> [i \in Id |->
                           IF <<c, i>> \in ended /\ Connected(s, c) THEN LateMax ELSE s.tombs[c][i]]]
             told == [c \in Conn |-> {i \in s.told[c] : <<c, i>> \notin reset}]
  <1>1. CloseBindings(s, B, quiet) =
          [s EXCEPT !.routes = routes, !.streams = streams, !.tombs = tombs, !.told = told]
    BY DEF CloseBindings
  <1>2. routes \in [Route -> Open \cup {0}] /\ streams \in [Conn -> [Id -> Open \cup {0}]]
    BY DEF CoreType
  <1>3. tombs \in [Conn -> [Id -> -1..LateMax]]
    BY ConnOpen DEF CoreType
  <1>4. told \in [Conn -> SUBSET Id]
    BY DEF CoreType
  <1>5. \A c \in Conn, i \in Id : <<c, i>> \in ended <=> \E k \in B : <<c, i>> \in Legs(k)
    OBVIOUS
  <1>6. \A c \in Conn, i \in Id :
           streams[c][i] = IF \E k \in B : <<c, i>> \in Legs(k) THEN 0 ELSE s.streams[c][i]
    BY <1>5
  <1>9. \A c \in Conn, i \in Id : streams[c][i] \in {s.streams[c][i], 0}
    BY <1>6
  <1> HIDE DEF ended, reset, routes, streams, tombs, told
  <1>7. CloseBindings(s, B, quiet) \in CoreType
    BY <1>1, <1>2, <1>3, <1>4 DEF CoreType
  <1>8. \A r \in Route : routes[r] = IF \E k \in B : op[k].route = r THEN 0 ELSE s.routes[r]
    BY DEF routes
  <1> QED BY <1>1, <1>6, <1>7, <1>8, <1>9 DEF CoreType
-----------------------------------------------------------------------------
(* The maps of a core s between the calls of a handler, while op and conn are
   still those of before it: what is bound is a binding, and all of it. *)
Alive == {k \in Open : op[k].phase \in {"opening", "active"}}
Holds(s, k) ==
  /\ s.streams[op[k].src][op[k].sid] = k /\ s.streams[op[k].tgt][op[k].tid] = k
  /\ s.routes[op[k].route] = k
Wired(s) ==
  /\ \A c \in Conn, i \in Id : s.streams[c][i] # 0 =>
       /\ s.streams[c][i] \in Alive /\ Holds(s, s.streams[c][i])
       /\ <<c, i>> \in Legs(s.streams[c][i])
       /\ s.pending[c][i] = 0
  /\ \A r \in Route : s.routes[r] # 0 =>
       /\ s.routes[r] \in Alive /\ Holds(s, s.routes[r]) /\ op[s.routes[r]].route = r
Named(s) ==
  /\ \A c \in Conn : Connected(s, c) => conn[c].who \in Endpoint /\ s.endpoints[conn[c].who] = c
  /\ \A e \in Endpoint : s.endpoints[e] # 0 =>
       Connected(s, s.endpoints[e]) /\ conn[s.endpoints[e]].who = e
Reserves(s) ==
  \A c \in Conn, i \in Id : s.pending[c][i] # 0 =>
    /\ op[s.pending[c][i]].src = c /\ op[s.pending[c][i]].sid = i
    /\ op[s.pending[c][i]].phase \in {"asking", "granted", "refused"}
Pend(s) == {g \in Conn \X Id : s.pending[g[1]][g[2]] # 0}
Counted(s) == s.count = Cardinality(Pend(s))
Loose(s) == s \in CoreType /\ Wired(s) /\ Named(s) /\ Reserves(s) /\ Counted(s)
Linked(s) ==
  \A c \in Conn, i \in Id : s.streams[c][i] # 0 \/ s.pending[c][i] # 0 => Connected(s, c)
Good(s) == Loose(s) /\ Linked(s)

(* What is known of the OPENs and of the upgrades themselves. *)
OpsOK ==
  /\ op \in [Open -> OpType]
  /\ \A k \in Open :
       /\ op[k].phase \in {"asking", "granted", "refused", "opening", "active"} =>
            op[k].src \in Conn /\ op[k].sid \in Id
       /\ op[k].phase \in {"granted", "opening", "active"} =>
            op[k].to \in Endpoint /\ op[k].route \in Route
       /\ op[k].phase \in {"opening", "active"} => op[k].tgt \in Conn /\ op[k].tid \in Id
ConnOK == conn \in [Conn -> ConnType]

(* t is s after some connections, bindings and reservations have ended. *)
Trims(s, t) ==
  /\ t.table = s.table /\ t.floor = s.floor /\ t.sequence = s.sequence
  /\ \A e \in Endpoint : t.endpoints[e] \in {s.endpoints[e], 0}
  /\ \A r \in Route : t.routes[r] \in {s.routes[r], 0}
  /\ \A c \in Conn : /\ \/ t.at[c] = s.at[c]
                        \/ Connected(s, c) /\ t.at[c] = "gone"
                        \/ s.at[c] \in {"asking", "answered"} /\ t.at[c] = "away"
                     /\ \A i \in Id : t.pending[c][i] \in {s.pending[c][i], 0}

LEMMA TrimsSame == \A s : Trims(s, s)
  BY DEF Trims
LEMMA TrimsAgain == ASSUME NEW s, NEW t, NEW u, Trims(s, t), Trims(t, u) PROVE Trims(s, u)
  BY DEF Trims, Connected

(* A core that differs in what these say nothing of. *)
LEMMA SameMaps ==
  ASSUME NEW s, NEW t, t.at = s.at, t.endpoints = s.endpoints, t.pending = s.pending, t.count = s.count
  PROVE  /\ Named(s) => Named(t)
         /\ Reserves(s) => Reserves(t)
         /\ Counted(s) => Counted(t)
         /\ t.streams = s.streams /\ Linked(s) => Linked(t)
  <1>1. Named(s) => Named(t)
    BY DEF Named, Connected
  <1>2. Reserves(s) => Reserves(t)
    BY DEF Reserves
  <1>3. Counted(s) => Counted(t)
    BY DEF Counted, Pend
  <1>4. t.streams = s.streams /\ Linked(s) => Linked(t)
    BY DEF Linked, Connected
  <1> QED BY <1>1, <1>2, <1>3, <1>4

LEMMA CloseGood ==
  ASSUME OpsOK, NEW s, Loose(s), NEW B \in SUBSET Alive, \A k \in B : Holds(s, k), NEW quiet
  PROVE  LET t == CloseBindings(s, B, quiet) IN
         /\ Loose(t) /\ Trims(s, t) /\ (Linked(s) => Linked(t))
         /\ t.at = s.at
         /\ \A k \in B : \A g \in Legs(k) : t.streams[g[1]][g[2]] = 0
  <1> DEFINE t == CloseBindings(s, B, quiet)
  <1>1. /\ t \in CoreType
        /\ t.at = s.at /\ t.endpoints = s.endpoints /\ t.pending = s.pending /\ t.count = s.count
        /\ t.table = s.table /\ t.floor = s.floor /\ t.sequence = s.sequence
        /\ \A r \in Route : t.routes[r] = IF \E k \in B : op[k].route = r THEN 0 ELSE s.routes[r]
        /\ \A c \in Conn, i \in Id :
             t.streams[c][i] = IF \E k \in B : <<c, i>> \in Legs(k) THEN 0 ELSE s.streams[c][i]
        /\ \A c \in Conn, i \in Id : t.streams[c][i] \in {s.streams[c][i], 0}
    BY CloseFields DEF Loose
  <1> HIDE DEF t
  <1>2. \A k \in Alive : /\ op[k].src \in Conn /\ op[k].sid \in Id /\ op[k].tgt \in Conn
                         /\ op[k].tid \in Id /\ op[k].route \in Route
    BY DEF OpsOK, Alive
  <1>3. ASSUME NEW k \in Alive, Holds(s, k), k \notin B PROVE Holds(t, k)
    <2>1. \A j \in B : <<op[k].src, op[k].sid>> \notin Legs(j) /\ <<op[k].tgt, op[k].tid>> \notin Legs(j)
      BY <1>3 DEF Holds, Legs
    <2>2. \A j \in B : op[j].route # op[k].route
      BY <1>3 DEF Holds
    <2> QED BY <1>1, <1>2, <1>3, <2>1, <2>2, SMTT(30) DEF Holds
  <1>4. Wired(t)
    <2>1. ASSUME NEW c \in Conn, NEW i \in Id, t.streams[c][i] # 0
          PROVE  /\ t.streams[c][i] \in Alive /\ Holds(t, t.streams[c][i])
                 /\ <<c, i>> \in Legs(t.streams[c][i])
                 /\ t.pending[c][i] = 0
      <3>1. t.streams[c][i] = s.streams[c][i] /\ \A k \in B : <<c, i>> \notin Legs(k)
        BY <1>1, <2>1
      <3>2. /\ s.streams[c][i] \in Alive /\ Holds(s, s.streams[c][i])
            /\ <<c, i>> \in Legs(s.streams[c][i])
            /\ s.pending[c][i] = 0
        BY <2>1, <3>1 DEF Loose, Wired
      <3> QED BY <1>1, <1>3, <3>1, <3>2
    <2>2. ASSUME NEW r \in Route, t.routes[r] # 0
          PROVE  t.routes[r] \in Alive /\ Holds(t, t.routes[r]) /\ op[t.routes[r]].route = r
      <3>1. t.routes[r] = s.routes[r] /\ \A k \in B : op[k].route # r
        BY <1>1, <2>2
      <3>2. s.routes[r] \in Alive /\ Holds(s, s.routes[r]) /\ op[s.routes[r]].route = r
        BY <2>2, <3>1 DEF Loose, Wired
      <3> QED BY <1>3, <3>1, <3>2
    <2> QED BY <2>1, <2>2 DEF Wired
  <1>5. Named(t) /\ Reserves(t) /\ Counted(t)
    BY <1>1, SameMaps DEF Loose
  <1>6. Trims(s, t)
    BY <1>1 DEF Trims
  <1>7. \A k \in B : \A g \in Legs(k) : t.streams[g[1]][g[2]] = 0
    BY <1>1, <1>2 DEF Legs
  <1>8. Linked(s) => Linked(t)
    BY <1>1 DEF Linked, Connected
  <1> QED BY <1>1, <1>4, <1>5, <1>6, <1>7, <1>8 DEF Loose, t

LEMMA Taken ==
  ASSUME NEW s, NEW c \in Conn
  PROVE  /\ IsFiniteSet(Pend(s)) /\ Cardinality(Pend(s)) \in Nat
         /\ Cardinality(Pend(s) \ ({c} \X Held(s, c))) = Cardinality(Pend(s)) - Cardinality(Held(s, c))
         /\ Cardinality(Held(s, c)) <= Cardinality(Pend(s))
  <1>1. IsFiniteSet(Id) /\ IsFiniteSet(Conn)
    BY RelayFabricAssumption, FS_Interval DEF Conn
  <1>2. IsFiniteSet(Conn \X Id)
    BY <1>1, FS_Product
  <1>3. IsFiniteSet(Pend(s)) /\ Cardinality(Pend(s)) \in Nat
    <2>1. Pend(s) \subseteq Conn \X Id
      BY DEF Pend
    <2> QED BY <1>2, <2>1, FS_Subset, FS_CardinalityType
  <1>4. IsFiniteSet(Held(s, c)) /\ Cardinality(Held(s, c)) \in Nat
    <2>1. Held(s, c) \subseteq Id
      BY DEF Held
    <2> QED BY <1>1, <2>1, FS_Subset, FS_CardinalityType
  <1>5. Cardinality({c} \X Held(s, c)) = Cardinality(Held(s, c))
    <2>1. IsFiniteSet({c}) /\ Cardinality({c}) = 1
      BY FS_Singleton
    <2>2. Cardinality({c} \X Held(s, c)) = 1 * Cardinality(Held(s, c))
      BY <1>4, <2>1, FS_Product
    <2> QED BY <1>4, <2>2
  <1>6. {c} \X Held(s, c) \subseteq Pend(s)
    BY DEF Pend, Held
  <1>7. Pend(s) \cap ({c} \X Held(s, c)) = {c} \X Held(s, c)
    BY <1>6
  <1>8. Cardinality({c} \X Held(s, c)) <= Cardinality(Pend(s))
    BY <1>3, <1>6, FS_Subset
  <1> QED BY <1>3, <1>5, <1>7, <1>8, FS_Difference

LEMMA UnregisterGood ==
  ASSUME OpsOK, ConnOK, NEW s, Good(s), NEW c \in Conn
  PROVE  /\ Good(Unregister(s, c)) /\ Trims(s, Unregister(s, c))
         /\ ~Connected(Unregister(s, c), c)
  <1>1. CASE ~Connected(s, c)
    BY <1>1, TrimsSame DEF Unregister
  <1>2. CASE Connected(s, c)
    <2> DEFINE e == conn[c].who
               n == Monus(s.count, Cardinality(Held(s, c)))
               t == [s EXCEPT
                       !.at[c] = "gone",
                       !.endpoints[e] = IF @ = c THEN 0 ELSE @,
                       !.count = n,
                       !.pending[c] = Blank(0),
                       !.tombs[c] = Blank(-1),
                       !.strikes[c] = 0]
               u == CloseBindings(t, Bound(s, c), {c})
               v == [u EXCEPT !.told[c] = {}]
    <2>1. Unregister(s, c) = v
      BY <1>2 DEF Unregister
    <2>2. e \in Endpoint /\ s.endpoints[e] = c
      BY <1>2 DEF Good, Loose, Named
    <2>3. n \in Nat
      <3>1. s.count \in Nat
        BY DEF Good, Loose, CoreType
      <3> QED BY <3>1, Counts DEF Monus
    <2>4. Blank(0) \in [Id -> Open \cup {0}] /\ Blank(-1) \in [Id -> -1..LateMax]
      BY ConnOpen DEF Blank
    <2> HIDE DEF e, n
    <2>0. s \in CoreType
      BY DEF Good, Loose
    <2>a. t \in CoreType
      <3>1. [s.at EXCEPT ![c] = "gone"] \in [Conn -> Places]
        BY <2>0 DEF CoreType, Places
      <3>2. [s.endpoints EXCEPT ![e] = IF @ = c THEN 0 ELSE @] \in [Endpoint -> Conn \cup {0}]
        BY <2>0 DEF CoreType
      <3>3. [s.pending EXCEPT ![c] = Blank(0)] \in [Conn -> [Id -> Open \cup {0}]]
        BY <2>0, <2>4 DEF CoreType
      <3>4. [s.tombs EXCEPT ![c] = Blank(-1)] \in [Conn -> [Id -> -1..LateMax]]
        BY <2>0, <2>4 DEF CoreType
      <3>5. [s.strikes EXCEPT ![c] = 0] \in [Conn -> Nat]
        BY <2>0 DEF CoreType
      <3> QED BY <2>0, <2>3, <3>1, <3>2, <3>3, <3>4, <3>5 DEF CoreType
    <2>b. /\ \A d \in Conn : t.at[d] = IF d = c THEN "gone" ELSE s.at[d]
          /\ \A d \in Conn : t.pending[d] = IF d = c THEN Blank(0) ELSE s.pending[d]
      BY <2>0 DEF CoreType
    <2>c. \A x \in Endpoint : t.endpoints[x] = IF x = e THEN 0 ELSE s.endpoints[x]
      BY <2>0, <2>2 DEF CoreType
    <2>d. /\ t.table = s.table /\ t.floor = s.floor /\ t.sequence = s.sequence
          /\ t.routes = s.routes /\ t.streams = s.streams
      BY <2>0 DEF CoreType
    <2>5. /\ t \in CoreType
          /\ \A d \in Conn : t.at[d] = IF d = c THEN "gone" ELSE s.at[d]
          /\ \A x \in Endpoint : t.endpoints[x] = IF x = e THEN 0 ELSE s.endpoints[x]
          /\ \A d \in Conn : t.pending[d] = IF d = c THEN Blank(0) ELSE s.pending[d]
          /\ t.table = s.table /\ t.floor = s.floor /\ t.sequence = s.sequence
          /\ t.routes = s.routes /\ t.streams = s.streams
      BY <2>a, <2>b, <2>c, <2>d
    <2> HIDE DEF t
    <2>6. \A i \in Id : Blank(0)[i] = 0
      BY DEF Blank
    <2>7. Wired(t)
      <3>1. Wired(s)
        BY DEF Good, Loose
      <3>2. \A d \in Conn, i \in Id : s.pending[d][i] = 0 => t.pending[d][i] = 0
        BY <2>5, <2>6
      <3>3. \A k : Holds(s, k) => Holds(t, k)
        BY <2>5 DEF Holds
      <3> QED BY <2>5, <3>1, <3>2, <3>3 DEF Wired
    <2>8. Named(t)
      <3>1. Named(s) /\ s.endpoints \in [Endpoint -> Conn \cup {0}]
        BY <2>0 DEF Good, Loose, CoreType
      <3>2. ASSUME NEW d \in Conn, Connected(t, d)
            PROVE  conn[d].who \in Endpoint /\ t.endpoints[conn[d].who] = d
        BY <2>2, <2>5, <3>1, <3>2 DEF Named, Connected
      <3>3. ASSUME NEW x \in Endpoint, t.endpoints[x] # 0
            PROVE  Connected(t, t.endpoints[x]) /\ conn[t.endpoints[x]].who = x
        BY <2>5, <3>1, <3>3 DEF Named, Connected, e
      <3> QED BY <3>2, <3>3 DEF Named
    <2>9. Reserves(t)
      BY <2>5, <2>6 DEF Good, Loose, Reserves
    <2>10. Trims(s, t)
      BY <1>2, <2>5, <2>6 DEF Trims
    <2>20. Counted(t)
      <3>1. Pend(t) = Pend(s) \ ({c} \X Held(s, c))
        BY <2>5, <2>6 DEF Pend, Held
      <3>2. t.count = n
        BY <2>0 DEF CoreType, t
      <3>3. s.count = Cardinality(Pend(s))
        BY DEF Good, Loose, Counted
      <3> QED BY <3>1, <3>2, <3>3, Taken, Counts DEF Counted, Monus, n
    <2>11. Loose(t) /\ ~Connected(t, c)
      BY <2>5, <2>7, <2>8, <2>9, <2>20 DEF Loose, Connected
    <2>12. Bound(s, c) \subseteq Alive /\ \A k \in Bound(s, c) : Holds(t, k)
      <3>1. Wired(s)
        BY DEF Good, Loose
      <3>2. \A k : Holds(s, k) => Holds(t, k)
        BY <2>5 DEF Holds
      <3>3. ASSUME NEW k \in Bound(s, c) PROVE k \in Alive /\ Holds(s, k)
        <4>1. PICK i \in Id : k = s.streams[c][i] /\ k # 0
          BY DEF Bound
        <4> QED BY <3>1, <4>1 DEF Wired
      <3> QED BY <3>2, <3>3
    <2>13. /\ Loose(u) /\ Trims(t, u) /\ u.at = t.at
           /\ \A k \in Bound(s, c) : \A g \in Legs(k) : u.streams[g[1]][g[2]] = 0
      BY <2>11, <2>12, CloseGood
    <2>14. /\ u \in CoreType
           /\ \A d \in Conn, i \in Id : u.streams[d][i] \in {t.streams[d][i], 0}
      BY <2>11, CloseFields DEF Loose
    <2>15. Linked(u)
      <3>0. \A d \in Conn, i \in Id : u.pending[d][i] # 0 => Connected(u, d)
        <4>1. u.pending = t.pending
          BY <2>11, CloseFields DEF Loose
        <4> QED BY <2>5, <2>6, <2>13, <4>1 DEF Good, Linked, Connected
      <3> SUFFICES ASSUME NEW d \in Conn, NEW i \in Id, u.streams[d][i] # 0 PROVE Connected(u, d)
        BY <3>0 DEF Linked
      <3>1. s.streams[d][i] # 0 /\ Connected(s, d) /\ <<d, i>> \in Legs(s.streams[d][i])
        <4>1. s.streams[d][i] # 0
          BY <2>5, <2>14, SMTT(30)
        <4> QED BY <4>1 DEF Good, Loose, Linked, Wired
      <3>2. CASE d = c
        <4>1. s.streams[d][i] \in Bound(s, c)
          BY <3>1, <3>2 DEF Bound
        <4> QED BY <2>13, <3>1, <4>1
      <3>3. CASE d # c
        BY <2>5, <2>13, <3>1, <3>3 DEF Connected
      <3> QED BY <3>2, <3>3
    <2> HIDE DEF u
    <2>16. /\ v \in CoreType
           /\ v.at = u.at /\ v.endpoints = u.endpoints /\ v.pending = u.pending
           /\ v.table = u.table /\ v.floor = u.floor /\ v.sequence = u.sequence
           /\ v.routes = u.routes /\ v.streams = u.streams /\ v.count = u.count
      BY <2>14 DEF CoreType
    <2> HIDE DEF v
    <2>17. Good(v)
      <3>1. \A k : Holds(u, k) => Holds(v, k)
        BY <2>16 DEF Holds
      <3>2. Wired(v)
        BY <2>13, <2>16, <3>1 DEF Loose, Wired
      <3>3. Named(v) /\ Reserves(v) /\ Linked(v) /\ Counted(v)
        BY <2>13, <2>15, <2>16, SameMaps DEF Loose
      <3> QED BY <2>16, <3>2, <3>3 DEF Good, Loose
    <2>18. Trims(u, v)
      BY <2>16 DEF Trims
    <2>19. Trims(s, v) /\ ~Connected(v, c)
      BY <2>10, <2>11, <2>13, <2>16, <2>18, TrimsAgain DEF Connected
    <2> QED BY <2>1, <2>17, <2>19
  <1> QED BY <1>1, <1>2

(* A method that only forgets reservations, or touches nothing of the maps. *)
LEMMA GoodTrimmed ==
  ASSUME NEW s, Good(s), NEW t \in CoreType, t.at = s.at, t.endpoints = s.endpoints,
         t.routes = s.routes, t.streams = s.streams, t.table = s.table, t.floor = s.floor,
         t.sequence = s.sequence,
         \A c \in Conn, i \in Id : t.pending[c][i] \in {s.pending[c][i], 0}, Counted(t)
  PROVE  Good(t) /\ Trims(s, t)
  <1>1. \A k : Holds(s, k) => Holds(t, k)
    BY DEF Holds
  <1>2. Wired(t)
    BY <1>1 DEF Good, Loose, Wired
  <1>3. Named(t) /\ Linked(t)
    <2>1. \A c \in Conn, i \in Id : t.pending[c][i] # 0 => s.pending[c][i] # 0
      OBVIOUS
    <2> QED BY <2>1 DEF Good, Loose, Named, Linked, Connected
  <1>4. Reserves(t)
    <2>1. \A c \in Conn, i \in Id : t.pending[c][i] # 0 => t.pending[c][i] = s.pending[c][i]
      OBVIOUS
    <2> QED BY <2>1 DEF Good, Loose, Reserves
  <1> QED BY <1>2, <1>3, <1>4 DEF Good, Loose, Trims

LEMMA Uncounted ==
  ASSUME NEW s, Good(s), NEW t, t.pending = s.pending, t.count = s.count PROVE Counted(t)
  BY DEF Good, Loose, Counted, Pend

LEMMA CancelGood ==
  ASSUME NEW s, Good(s), NEW c \in Conn, NEW i \in Id
  PROVE  /\ Good(CancelPending(s, c, i)) /\ Trims(s, CancelPending(s, c, i))
         /\ CancelPending(s, c, i).pending[c][i] = 0
         /\ \A d \in Conn, j \in Id : <<d, j>> # <<c, i>> =>
              CancelPending(s, c, i).pending[d][j] = s.pending[d][j]
         /\ CancelPending(s, c, i).at = s.at /\ CancelPending(s, c, i).endpoints = s.endpoints
         /\ CancelPending(s, c, i).routes = s.routes /\ CancelPending(s, c, i).streams = s.streams
  <1>0. s \in CoreType
    BY DEF Good, Loose
  <1>1. CASE s.pending[c][i] = 0
    BY <1>1, TrimsSame DEF CancelPending
  <1>2. CASE s.pending[c][i] # 0
    <2> DEFINE n == Monus(s.count, 1)
               t == [s EXCEPT !.pending[c][i] = 0, !.count = n]
    <2>1. CancelPending(s, c, i) = t
      BY <1>2 DEF CancelPending
    <2>2. n \in Nat
      BY <1>0 DEF CoreType, Monus
    <2> HIDE DEF n
    <2>3. [s.pending EXCEPT ![c][i] = 0] \in [Conn -> [Id -> Open \cup {0}]]
      BY <1>0 DEF CoreType
    <2>4. /\ t \in CoreType /\ t.at = s.at /\ t.endpoints = s.endpoints
          /\ t.routes = s.routes /\ t.streams = s.streams /\ t.table = s.table
          /\ t.floor = s.floor /\ t.sequence = s.sequence
      BY <1>0, <2>2, <2>3 DEF CoreType
    <2>5. \A d \in Conn, j \in Id :
             t.pending[d][j] = IF <<d, j>> = <<c, i>> THEN 0 ELSE s.pending[d][j]
      BY <1>0 DEF CoreType
    <2> HIDE DEF t
    <2>6. Counted(t)
      <3>1. Pend(t) = Pend(s) \ {<<c, i>>} /\ <<c, i>> \in Pend(s)
        BY <1>2, <2>5 DEF Pend
      <3>2. t.count = n
        BY <1>0 DEF CoreType, t
      <3>3. s.count = Cardinality(Pend(s)) /\ IsFiniteSet(Pend(s)) /\ s.count \in Nat
        BY <1>0, Taken DEF Good, Loose, Counted, CoreType
      <3>4. Cardinality(Pend(t)) = s.count - 1 /\ s.count # 0
        BY <3>1, <3>3, FS_RemoveElement, FS_EmptySet, ZenonT(40)
      <3> QED BY <3>2, <3>3, <3>4 DEF Counted, Monus, n
    <2>7. Good(t) /\ Trims(s, t)
      BY <2>4, <2>5, <2>6, GoodTrimmed
    <2> QED BY <2>1, <2>4, <2>5, <2>7
  <1> QED BY <1>1, <1>2

LEMMA RememberGood ==
  ASSUME NEW s, Good(s), NEW c \in Conn, NEW i \in Id, NEW n \in -1..LateMax
  PROVE  Good([s EXCEPT !.tombs[c][i] = n]) /\ Trims(s, [s EXCEPT !.tombs[c][i] = n])
  <1> DEFINE t == [s EXCEPT !.tombs[c][i] = n]
  <1>0. s \in CoreType
    BY DEF Good, Loose
  <1>1. [s.tombs EXCEPT ![c][i] = n] \in [Conn -> [Id -> -1..LateMax]]
    BY <1>0 DEF CoreType
  <1>2. /\ t \in CoreType /\ t.at = s.at /\ t.endpoints = s.endpoints
        /\ t.routes = s.routes /\ t.streams = s.streams /\ t.table = s.table
        /\ t.floor = s.floor /\ t.sequence = s.sequence /\ t.pending = s.pending
        /\ t.count = s.count
    BY <1>0, <1>1 DEF CoreType
  <1> HIDE DEF t
  <1>3. Good(t) /\ Trims(s, t)
    BY <1>2, GoodTrimmed, Uncounted
  <1> QED BY <1>3 DEF t

LEMMA UntoldGood ==
  ASSUME NEW s, Good(s), NEW told \in [Conn -> SUBSET Id]
  PROVE  Good([s EXCEPT !.told = told]) /\ Trims(s, [s EXCEPT !.told = told])
  <1> DEFINE t == [s EXCEPT !.told = told]
  <1>0. s \in CoreType
    BY DEF Good, Loose
  <1>2. /\ t \in CoreType /\ t.at = s.at /\ t.endpoints = s.endpoints
        /\ t.routes = s.routes /\ t.streams = s.streams /\ t.table = s.table
        /\ t.floor = s.floor /\ t.sequence = s.sequence /\ t.pending = s.pending
        /\ t.count = s.count
    BY <1>0 DEF CoreType
  <1> HIDE DEF t
  <1>3. Good(t) /\ Trims(s, t)
    BY <1>2, GoodTrimmed, Uncounted
  <1> QED BY <1>3 DEF t

LEMMA RejectGood ==
  ASSUME NEW s, Good(s), NEW c \in Conn, NEW i \in Id
  PROVE  Good(Reject(s, c, i)) /\ Trims(s, Reject(s, c, i))
  <1> DEFINE t == Remember(s, c, i)
             told == [t.told EXCEPT ![c] = @ \ {i}]
  <1>1. Good(t) /\ Trims(s, t)
    BY ConnOpen, RememberGood DEF Remember
  <1>2. t \in CoreType
    BY <1>1 DEF Good, Loose
  <1> HIDE DEF t
  <1>3. told \in [Conn -> SUBSET Id]
    BY <1>2 DEF CoreType
  <1>4. Good([t EXCEPT !.told = told]) /\ Trims(t, [t EXCEPT !.told = told])
    BY <1>1, <1>3, UntoldGood
  <1> QED BY <1>1, <1>4, TrimsAgain DEF Reject, t

LEMMA StrikeGood ==
  ASSUME OpsOK, ConnOK, NEW s, Good(s), NEW c \in Conn, NEW n \in Nat
  PROVE  Good(Strike(s, c, n)) /\ Trims(s, Strike(s, c, n))
  <1> DEFINE t == [s EXCEPT !.strikes[c] = n]
  <1>0. s \in CoreType
    BY DEF Good, Loose
  <1>1. [s.strikes EXCEPT ![c] = n] \in [Conn -> Nat]
    BY <1>0 DEF CoreType
  <1>2. /\ t \in CoreType /\ t.at = s.at /\ t.endpoints = s.endpoints
        /\ t.routes = s.routes /\ t.streams = s.streams /\ t.table = s.table
        /\ t.floor = s.floor /\ t.sequence = s.sequence /\ t.pending = s.pending
        /\ t.count = s.count
    BY <1>0, <1>1 DEF CoreType
  <1> HIDE DEF t
  <1>3. Good(t) /\ Trims(s, t)
    BY <1>2, GoodTrimmed, Uncounted
  <1> QED BY <1>3, UnregisterGood DEF Strike, t

LEMMA PrunedGood ==
  ASSUME NEW s, Good(s), NEW flying
  PROVE  /\ Good(Pruned(s, flying)) /\ Trims(s, Pruned(s, flying))
         /\ Pruned(s, flying).at = s.at /\ Pruned(s, flying).endpoints = s.endpoints
  <1> DEFINE fences == [e \in Endpoint |->
                IF /\ s.endpoints[e] = 0 /\ s.fences[e].gen # 0
                   /\ \/ s.fences[e].gen <= lapsed[e]
                      \/ \A a \in flying : s.fences[e].seq < a
                THEN [gen |-> 0, seq |-> 0] ELSE s.fences[e]]
             t == [s EXCEPT !.fences = fences]
  <1>0. s \in CoreType
    BY DEF Good, Loose
  <1>1. Pruned(s, flying) = t
    BY DEF Pruned
  <1>2. fences \in [Endpoint -> [gen : Nat, seq : Nat]]
    BY <1>0 DEF CoreType
  <1> HIDE DEF fences
  <1>3. /\ t \in CoreType /\ t.at = s.at /\ t.endpoints = s.endpoints
        /\ t.routes = s.routes /\ t.streams = s.streams /\ t.table = s.table
        /\ t.floor = s.floor /\ t.sequence = s.sequence /\ t.pending = s.pending
        /\ t.count = s.count
    BY <1>0, <1>2 DEF CoreType
  <1> HIDE DEF t
  <1>4. Good(t) /\ Trims(s, t)
    BY <1>3, GoodTrimmed, Uncounted
  <1> QED BY <1>1, <1>3, <1>4

LEMMA AwayGood ==
  ASSUME NEW s, Good(s), NEW c \in Conn, s.at[c] \in {"asking", "answered"}
  PROVE  /\ Good([s EXCEPT !.at[c] = "away"]) /\ Trims(s, [s EXCEPT !.at[c] = "away"])
         /\ [s EXCEPT !.at[c] = "away"].at[c] = "away"
  <1> DEFINE t == [s EXCEPT !.at[c] = "away"]
  <1>0. s \in CoreType
    BY DEF Good, Loose
  <1>1. [s.at EXCEPT ![c] = "away"] \in [Conn -> Places]
    BY <1>0 DEF CoreType, Places
  <1>2. /\ t \in CoreType /\ t.endpoints = s.endpoints
        /\ t.routes = s.routes /\ t.streams = s.streams /\ t.table = s.table
        /\ t.floor = s.floor /\ t.sequence = s.sequence /\ t.pending = s.pending
        /\ t.count = s.count
    BY <1>0, <1>1 DEF CoreType
  <1>3. \A d \in Conn : t.at[d] = IF d = c THEN "away" ELSE s.at[d]
    BY <1>0 DEF CoreType
  <1> HIDE DEF t
  <1>4. \A d \in Conn : Connected(t, d) <=> Connected(s, d)
    BY <1>3 DEF Connected
  <1>5. \A k : Holds(s, k) => Holds(t, k)
    BY <1>2 DEF Holds
  <1>6. Wired(t)
    BY <1>2, <1>5 DEF Good, Loose, Wired
  <1>7. Named(t)
    <2>1. \A e \in Endpoint : s.endpoints[e] \in Conn \cup {0}
      BY <1>0 DEF CoreType
    <2>2. \A e \in Endpoint : s.endpoints[e] # 0 => Connected(t, s.endpoints[e])
      BY <1>4, <2>1 DEF Good, Loose, Named
    <2> QED BY <1>2, <1>4, <2>2 DEF Good, Loose, Named
  <1>8. Linked(t) /\ Reserves(t) /\ Counted(t)
    BY <1>2, <1>4 DEF Good, Loose, Linked, Reserves, Counted, Pend
  <1>9. Trims(s, t)
    BY <1>2, <1>3 DEF Trims
  <1>10. t.at[c] = "away"
    BY <1>3
  <1> QED BY <1>2, <1>6, <1>7, <1>8, <1>9, <1>10 DEF Good, Loose, t
-----------------------------------------------------------------------------
(* The maps of the core agree between two handlers. *)
Tight == OpsOK /\ ConnOK /\ Good(core) /\ \A k \in Alive : Holds(core, k)
Over == [None EXCEPT !.phase = "closed"]

LEMMA OverType == Over \in OpType /\ Over.phase = "closed"
  BY ConnOpen DEF Over, None, OpType, Phases

(* A handler leaves the core s and settles the OPENs; one that was answered may be
   over besides. *)
LEMMA IntoTight ==
  ASSUME Tight, NEW s, Good(s), core' = s, DOMAIN op' = Open, op' = [k \in Open |-> op'[k]],
         ConnOK', \A c \in Conn : conn'[c].who = conn[c].who,
         \A k \in Open : \/ op'[k] = Settled(s)[k]
                         \/ /\ op'[k] = Over /\ k \notin Alive
                            /\ \A c \in Conn, i \in Id : s.pending[c][i] # k
  PROVE  Tight'
  <1>1. \A k \in Open : \/ op'[k] = op[k] /\ (k \in Alive => s.streams[op[k].src][op[k].sid] = k)
                        \/ /\ op'[k] = Over
                           /\ k \in Alive => s.streams[op[k].src][op[k].sid] # k
                           /\ k \notin Alive => \A c \in Conn, i \in Id : s.pending[c][i] # k
    BY DEF Settled, Alive, Over
  <1>2. \A k \in Alive : op[k].src \in Conn /\ op[k].sid \in Id /\ op[k].tgt \in Conn
                         /\ op[k].tid \in Id /\ op[k].route \in Route
    BY DEF Tight, OpsOK, Alive
  <1>3. OpsOK'
    <2>1. op' \in [Open -> OpType]
      BY <1>1, OverType DEF Tight, OpsOK
    <2>2. ASSUME NEW k \in Open
          PROVE  /\ op'[k].phase \in {"asking", "granted", "refused", "opening", "active"} =>
                      op'[k].src \in Conn /\ op'[k].sid \in Id
                 /\ op'[k].phase \in {"granted", "opening", "active"} =>
                      op'[k].to \in Endpoint /\ op'[k].route \in Route
                 /\ op'[k].phase \in {"opening", "active"} => op'[k].tgt \in Conn /\ op'[k].tid \in Id
      BY <1>1, OverType DEF Tight, OpsOK
    <2> QED BY <2>1, <2>2 DEF OpsOK
  <1> DEFINE HoldsNow(k) ==
               /\ s.streams[op'[k].src][op'[k].sid] = k /\ s.streams[op'[k].tgt][op'[k].tid] = k
               /\ s.routes[op'[k].route] = k
  <1>4. ASSUME NEW k \in Alive, Holds(s, k) PROVE k \in Alive' /\ op'[k] = op[k] /\ HoldsNow(k)
    <2>1. op'[k] = op[k]
      BY <1>1, <1>4 DEF Holds, Alive
    <2> QED BY <1>4, <2>1 DEF Holds, Alive
  <1> HIDE DEF HoldsNow
  <1>5. Wired(core)'
    <2>1. ASSUME NEW c \in Conn, NEW i \in Id, s.streams[c][i] # 0
          PROVE  /\ s.streams[c][i] \in Alive' /\ HoldsNow(s.streams[c][i])
                 /\ <<c, i>> \in Legs(s.streams[c][i])' /\ s.pending[c][i] = 0
      <3>1. /\ s.streams[c][i] \in Alive /\ Holds(s, s.streams[c][i])
            /\ <<c, i>> \in Legs(s.streams[c][i]) /\ s.pending[c][i] = 0
        BY <2>1 DEF Good, Loose, Wired
      <3>2. op'[s.streams[c][i]] = op[s.streams[c][i]]
        BY <1>4, <3>1
      <3> QED BY <1>4, <3>1, <3>2 DEF Legs
    <2>2. ASSUME NEW r \in Route, s.routes[r] # 0
          PROVE  /\ s.routes[r] \in Alive' /\ HoldsNow(s.routes[r])
                 /\ op'[s.routes[r]].route = r
      <3>1. s.routes[r] \in Alive /\ Holds(s, s.routes[r]) /\ op[s.routes[r]].route = r
        BY <2>2 DEF Good, Loose, Wired
      <3> QED BY <1>4, <3>1
    <2>3. \A k : HoldsNow(k) => Holds(core, k)'
      BY DEF Holds, HoldsNow
    <2> QED BY <2>1, <2>2, <2>3 DEF Wired
  <1>6. Named(core)'
    <2>1. \A e \in Endpoint : s.endpoints[e] \in Conn \cup {0}
      BY DEF Good, Loose, CoreType
    <2> QED BY <2>1 DEF Good, Loose, Named, Connected
  <1>7. Reserves(core)'
    <2>1. ASSUME NEW c \in Conn, NEW i \in Id, s.pending[c][i] # 0
          PROVE  /\ op'[s.pending[c][i]].src = c /\ op'[s.pending[c][i]].sid = i
                 /\ op'[s.pending[c][i]].phase \in {"asking", "granted", "refused"}
      <3>1. /\ op[s.pending[c][i]].src = c /\ op[s.pending[c][i]].sid = i
            /\ op[s.pending[c][i]].phase \in {"asking", "granted", "refused"}
            /\ s.pending[c][i] \in Open
        BY <2>1 DEF Good, Loose, Reserves, CoreType
      <3>2. op'[s.pending[c][i]] = op[s.pending[c][i]]
        BY <1>1, <3>1 DEF Alive
      <3> QED BY <3>1, <3>2
    <2> QED BY <2>1 DEF Reserves
  <1>8. core' \in CoreType /\ Linked(core)' /\ Counted(core)'
    BY DEF Good, Loose, Linked, Counted, Pend, Connected
  <1>9. \A k \in Alive' : Holds(core, k)'
    <2> SUFFICES ASSUME NEW k \in Alive' PROVE Holds(core, k)'
      OBVIOUS
    <2>1. k \in Alive /\ s.streams[op[k].src][op[k].sid] = k
      BY <1>1, OverType DEF Alive
    <2>2. Holds(s, k)
      <3>1. k # 0
        BY <2>1, ConnOpen DEF Alive
      <3>2. \A c \in Conn, i \in Id : s.streams[c][i] # 0 => Holds(s, s.streams[c][i])
        BY DEF Good, Loose, Wired
      <3> QED BY <1>2, <2>1, <3>1, <3>2
    <2> QED BY <1>4, <2>1, <2>2 DEF Holds, HoldsNow
  <1> QED BY <1>3, <1>5, <1>6, <1>7, <1>8, <1>9 DEF Tight, Good, Loose
-----------------------------------------------------------------------------
(* What the relay knows of a revocation while something is still asked about it. *)
Synced ==
  /\ dead \subseteq Handle /\ page \subseteq dead /\ owed \subseteq dead
  /\ ready => link = "up"
  /\ ~ready => /\ \A e \in Endpoint : core.endpoints[e] = 0
               /\ \A r \in Route : core.routes[r] = 0
               /\ \A c \in Conn, i \in Id : core.pending[c][i] = 0
  /\ \A h \in Handle : core.table[h] # 0 => h \in dead
Asked ==
  /\ \A c \in Conn : core.at[c] \in {"asking", "answered"} =>
       /\ conn[c].epoch <= epoch /\ conn[c].mark <= core.sequence
       /\ ~ready => conn[c].epoch # epoch
  /\ \A k \in Open : op[k].phase \in {"asking", "granted"} => op[k].mark <= core.sequence
Answered ==
  \A c \in Conn :
    /\ core.at[c] \in {"answered", "open", "shut", "gone"} => conn[c].who \in Endpoint
    /\ core.at[c] = "answered" =>
         /\ core.table[conn[c].who] # 0 => conn[c].mark < core.table[conn[c].who]
         /\ conn[c].epoch = epoch /\ conn[c].who \in dead \ owed =>
              WasRevokedSince(core, conn[c].who, conn[c].mark)
Granted ==
  \A k \in Open : op[k].phase = "granted" =>
    /\ core.table[op[k].route] # 0 => op[k].mark < core.table[op[k].route]
    /\ core.pending[op[k].src][op[k].sid] = k /\ op[k].route \in dead \ owed =>
         WasRevokedSince(core, op[k].route, op[k].mark)
Out == \A h \in dead \ owed : ~InUse(h)
Fenced == Synced /\ Asked /\ Answered /\ Granted /\ Out

LEMMA FrameFenced ==
  ASSUME Tight, Fenced, NEW s, Good(s), Trims(core, s), core' = s,
         UNCHANGED <<dead, page, owed, link, ready, epoch>>,
         \A c \in Conn : \/ conn'[c] = conn[c]
                         \/ conn'[c].who = conn[c].who /\ s.at[c] \notin {"asking", "answered"},
         \A k \in Open : op'[k] = op[k] \/ op'[k].phase \notin {"asking", "granted"}
  PROVE  Fenced'
  <1>1. /\ s.table = core.table /\ s.floor = core.floor /\ s.sequence = core.sequence
        /\ \A e \in Endpoint : s.endpoints[e] \in {core.endpoints[e], 0}
        /\ \A r \in Route : s.routes[r] \in {core.routes[r], 0}
        /\ \A c \in Conn, i \in Id : s.pending[c][i] \in {core.pending[c][i], 0}
        /\ \A c \in Conn : \/ s.at[c] = core.at[c]
                           \/ Connected(core, c) /\ s.at[c] = "gone"
                           \/ core.at[c] \in {"asking", "answered"} /\ s.at[c] = "away"
    BY DEF Trims
  <1>2. Synced'
    BY <1>1 DEF Fenced, Synced
  <1>3. Asked'
    <2>1. ASSUME NEW c \in Conn, s.at[c] \in {"asking", "answered"}
          PROVE  core.at[c] = s.at[c] /\ conn'[c] = conn[c]
      BY <1>1, <2>1
    <2> QED BY <1>1, <2>1 DEF Fenced, Asked
  <1>4. Answered'
    <2>1. ASSUME NEW c \in Conn, s.at[c] = "answered"
          PROVE  core.at[c] = "answered" /\ conn'[c] = conn[c]
      BY <1>1, <2>1
    <2>2. \A c \in Conn : s.at[c] \in {"answered", "open", "shut", "gone"} => conn'[c].who \in Endpoint
      BY <1>1 DEF Fenced, Answered, Connected
    <2> QED BY <1>1, <2>1, <2>2 DEF Fenced, Answered, WasRevokedSince
  <1>5. Granted'
    <2>1. ASSUME NEW k \in Open, op'[k].phase = "granted" PROVE op'[k] = op[k]
      BY <2>1
    <2>2. ASSUME NEW k \in Open, op[k].phase = "granted", s.pending[op[k].src][op[k].sid] = k
          PROVE  core.pending[op[k].src][op[k].sid] = k
      BY <1>1, <2>2, ConnOpen DEF Tight, OpsOK
    <2> QED BY <1>1, <2>1, <2>2 DEF Fenced, Granted, WasRevokedSince
  <1>6. Out'
    BY <1>1 DEF Fenced, Synced, Out, InUse, Handle
  <1> QED BY <1>2, <1>3, <1>4, <1>5, <1>6 DEF Fenced

(* The general form of a handler: it only ends things. *)
LEMMA Handles ==
  ASSUME Tight, Fenced, NEW s, Good(s), Trims(core, s), core' = s,
         UNCHANGED <<dead, page, owed, link, ready, epoch>>,
         op' = [k \in Open |-> op'[k]], ConnOK',
         \A c \in Conn : \/ conn'[c] = conn[c]
                         \/ conn'[c].who = conn[c].who /\ s.at[c] \notin {"asking", "answered"},
         \A k \in Open : \/ op'[k] = Settled(s)[k]
                         \/ /\ op'[k] = Over /\ k \notin Alive
                            /\ \A c \in Conn, i \in Id : s.pending[c][i] # k
  PROVE  Tight' /\ Fenced'
  <1>1. Tight'
    BY IntoTight
  <1>2. \A k \in Open : op'[k] = op[k] \/ op'[k].phase \notin {"asking", "granted"}
    BY OverType DEF Settled, Over
  <1> QED BY <1>1, <1>2, FrameFenced

LEMMA HandlesInto ==
  ASSUME Tight, Fenced, NEW s, Good(s), Trims(core, s), Into(s), UNCHANGED <<authority, forwarder>>
  PROVE  Tight' /\ Fenced'
  <1>1. core' = s /\ op' = Settled(s)
    BY DEF Into
  <1>2. op' = [k \in Open |-> op'[k]]
    BY <1>1 DEF Settled
  <1>3. UNCHANGED <<dead, page, owed, link, ready, epoch, conn>>
    BY DEF authority, forwarder
  <1>4. ConnOK'
    BY <1>3 DEF Tight, ConnOK
  <1> QED BY <1>1, <1>2, <1>3, <1>4, Handles
-----------------------------------------------------------------------------
(* The handlers that only end things. *)
LEMMA AloneGood ==
  ASSUME Tight, NEW k \in Alive, NEW quiet
  PROVE  Good(CloseBindings(core, {k}, quiet)) /\ Trims(core, CloseBindings(core, {k}, quiet))
  <1>1. {k} \in SUBSET Alive /\ \A j \in {k} : Holds(core, j)
    BY DEF Tight
  <1> QED BY <1>1, CloseGood DEF Tight, Good

LEMMA OwnAlive ==
  ASSUME Tight, NEW c \in Conn, NEW i \in Id, Own(c, i) # 0
  PROVE  Own(c, i) \in Alive /\ <<c, i>> \in Legs(Own(c, i))
  BY DEF Tight, Good, Loose, Wired, Own

(* Both sides of a stream hear of its end. *)
LEMMA BothTold ==
  ASSUME Tight, NEW k \in Alive, NEW t,
         t = [CloseBindings(core, {k}, Conn) EXCEPT
                !.told = [d \in Conn |-> {j \in @[d] : core.streams[d][j] # k}]]
  PROVE  Good(t) /\ Trims(core, t)
  <1> DEFINE u == CloseBindings(core, {k}, Conn)
             told == [d \in Conn |-> {j \in u.told[d] : core.streams[d][j] # k}]
  <1>1. Good(u) /\ Trims(core, u)
    BY AloneGood
  <1>2. u \in CoreType
    BY <1>1 DEF Good, Loose
  <1> HIDE DEF u
  <1>3. told \in [Conn -> SUBSET Id]
    BY <1>2 DEF CoreType
  <1> HIDE DEF told
  <1>4. Good([u EXCEPT !.told = told]) /\ Trims(u, [u EXCEPT !.told = told])
    BY <1>1, <1>3, UntoldGood
  <1>5. t = [u EXCEPT !.told = told]
    BY DEF u, told
  <1> QED BY <1>1, <1>4, <1>5, TrimsAgain

LEMMA StruckHandles ==
  ASSUME Tight, Fenced, NEW s, Good(s), Trims(core, s), NEW c \in Conn, Struck(s, c)
  PROVE  Tight' /\ Fenced'
  <1>1. core.strikes[c] \in Nat
    BY DEF Tight, Good, Loose, CoreType
  <1>2. PICK n \in 1..(core.strikes[c] + 1) : Into(Strike(s, c, n))
    BY DEF Struck
  <1>3. n \in Nat
    BY <1>1
  <1>4. Good(Strike(s, c, n)) /\ Trims(s, Strike(s, c, n))
    BY <1>3, StrikeGood DEF Tight
  <1>5. Trims(core, Strike(s, c, n))
    BY <1>4, TrimsAgain
  <1> QED BY <1>2, <1>4, <1>5, HandlesInto DEF Struck, Stays

LEMMA EndingStep ==
  ASSUME Tight, Fenced, NEW c \in Conn, Leaves(c) \/ EndpointExpires(c)
  PROVE  Tight' /\ Fenced'
  <1>1. Good(Unregister(core, c)) /\ Trims(core, Unregister(core, c))
    BY UnregisterGood DEF Tight
  <1>2. CASE Leaves(c)
    BY <1>1, <1>2, HandlesInto DEF Leaves
  <1>3. CASE EndpointExpires(c)
    <2>1. /\ Good(Pruned(Unregister(core, c), InFlight(core)))
          /\ Trims(core, Pruned(Unregister(core, c), InFlight(core)))
      BY <1>1, PrunedGood, TrimsAgain
    <2> QED BY <1>3, <2>1, HandlesInto DEF EndpointExpires
  <1> QED BY <1>2, <1>3

LEMMA BindingExpiresStep ==
  ASSUME Tight, Fenced, NEW k \in Open, BindingExpires(k)
  PROVE  Tight' /\ Fenced'
  <1>1. k \in Alive
    BY DEF BindingExpires, Alive
  <1> QED BY <1>1, AloneGood, HandlesInto DEF BindingExpires, Stays

LEMMA FrameStep ==
  ASSUME Tight, Fenced, NEW c \in Conn, NEW i \in Id,
         \/ OpenRejected(c, i) \/ OpenAgain(c, i) \/ OpenOvertaken(c, i)
         \/ DataUndrained(c, i) \/ Reset(c, i) \/ Violates(c, i) \/ LateFrame(c, i)
  PROVE  Tight' /\ Fenced'
  <1>0. Good(core)
    BY DEF Tight
  <1>1. Good(Reject(core, c, i)) /\ Trims(core, Reject(core, c, i))
    BY <1>0, RejectGood
  <1>2. /\ Good(Reject(CancelPending(core, c, i), c, i))
        /\ Trims(core, Reject(CancelPending(core, c, i), c, i))
    BY <1>0, CancelGood, RejectGood, TrimsAgain
  <1>3. CASE OpenRejected(c, i)
    BY <1>1, <1>3, StruckHandles DEF OpenRejected
  <1>4. CASE OpenAgain(c, i)
    <2>1. CASE Own(c, i) # 0 /\ Into(CloseBindings(core, {Own(c, i)}, {})) /\ Stays
      BY <2>1, OwnAlive, AloneGood, HandlesInto DEF Stays
    <2>2. CASE Struck(Reject(CancelPending(core, c, i), c, i), c)
      BY <1>2, <2>2, StruckHandles
    <2> QED BY <1>4, <2>1, <2>2 DEF OpenAgain
  <1>5. CASE OpenOvertaken(c, i)
    <2>1. CASE Into([Remember(CancelPending(core, c, i), c, i) EXCEPT !.told[c] = @ \ {i}]) /\ Stays
      BY <1>2, <2>1, HandlesInto DEF Stays, Reject
    <2>2. CASE Struck(Reject(CancelPending(core, c, i), c, i), c)
      BY <1>2, <2>2, StruckHandles
    <2> QED BY <1>5, <2>1, <2>2 DEF OpenOvertaken
  <1>6. CASE DataUndrained(c, i)
    <2>1. Own(c, i) # 0
      BY <1>6 DEF DataUndrained, Flows, Live
    <2> QED BY <1>6, <2>1, OwnAlive, AloneGood, HandlesInto DEF DataUndrained, Stays
  <1>7. CASE Reset(c, i)
    <2>1. Own(c, i) # 0
      BY <1>7 DEF Reset, Live
    <2> QED BY <1>7, <2>1, OwnAlive, BothTold, HandlesInto DEF Reset, Stays
  <1>8. CASE Violates(c, i)
    <2>1. Own(c, i) # 0
      BY <1>8 DEF Violates, Live
    <2> QED BY <1>8, <2>1, OwnAlive, AloneGood, StruckHandles DEF Violates
  <1>9. CASE LateFrame(c, i)
    <2>1. core.tombs[c][i] \in -1..LateMax
      BY <1>0 DEF Good, Loose, CoreType
    <2>2. CASE core.tombs[c][i] > 0 /\ Into([core EXCEPT !.tombs[c][i] = @ - 1]) /\ Stays
      <3> DEFINE n == core.tombs[c][i] - 1
      <3>1. n \in -1..LateMax
        BY <2>1, <2>2, ConnOpen
      <3>2. [core EXCEPT !.tombs[c][i] = @ - 1] = [core EXCEPT !.tombs[c][i] = n]
        OBVIOUS
      <3> HIDE DEF n
      <3>3. Good([core EXCEPT !.tombs[c][i] = n]) /\ Trims(core, [core EXCEPT !.tombs[c][i] = n])
        BY <1>0, <3>1, RememberGood
      <3> QED BY <2>2, <3>2, <3>3, HandlesInto DEF Stays
    <2>3. CASE Struck(core, c)
      BY <1>0, <2>3, TrimsSame, StruckHandles
    <2>4. CASE Struck(Reject(core, c, i), c)
      BY <1>1, <2>4, StruckHandles
    <2> QED BY <1>9, <2>2, <2>3, <2>4 DEF LateFrame
  <1> QED BY <1>3, <1>4, <1>5, <1>6, <1>7, <1>8, <1>9
-----------------------------------------------------------------------------
(* The handlers that only change an OPEN. *)
Waiting == {"asking", "granted", "refused"}

LEMMA OneOpen ==
  ASSUME Tight, Fenced, UNCHANGED <<core, conn, dead, page, owed, link, ready, epoch>>,
         op' \in [Open -> OpType], NEW k \in Open, \A j \in Open : j # k => op'[j] = op[j],
         op'[k].src = op[k].src, op'[k].sid = op[k].sid, op'[k].tgt = op[k].tgt,
         op'[k].tid = op[k].tid, op'[k].mark = op[k].mark,
         \/ op'[k].phase = op[k].phase /\ op'[k].route = op[k].route /\ op'[k].to = op[k].to
         \/ op[k].phase = "opening" /\ op'[k].phase = "active" /\ op'[k].route = op[k].route
              /\ op'[k].to = op[k].to
         \/ op[k].phase = "asking" /\ op'[k].phase = "refused"
         \/ op[k].phase = "asking" /\ op'[k].phase = "granted"
              /\ op'[k].route \in Route \ dead /\ op'[k].to \in Endpoint
  PROVE  Tight' /\ Fenced'
  <1>1. \A j \in Open :
          /\ op'[j].src = op[j].src /\ op'[j].sid = op[j].sid /\ op'[j].tgt = op[j].tgt
          /\ op'[j].tid = op[j].tid /\ op'[j].mark = op[j].mark
          /\ j \in Alive' <=> j \in Alive
          /\ j \in Alive => op'[j].route = op[j].route
          /\ op[j].phase \in Waiting <=> op'[j].phase \in Waiting
    BY DEF Alive, Waiting
  <1>2. OpsOK'
    BY <1>1 DEF Tight, OpsOK, Alive, Waiting
  <1>3. \A j \in Alive : Holds(core, j)'
    BY <1>1 DEF Tight, Holds, Alive
  <1>4. \A j \in Open : Legs(j)' = Legs(j)
    BY <1>1 DEF Legs
  <1> DEFINE HoldsNow(j) ==
               /\ core.streams[op'[j].src][op'[j].sid] = j /\ core.streams[op'[j].tgt][op'[j].tid] = j
               /\ core.routes[op'[j].route] = j
  <1>12. \A j \in Alive : HoldsNow(j)
    BY <1>1 DEF Tight, Holds, Alive
  <1>13. \A j : HoldsNow(j) => Holds(core, j)'
    BY DEF Holds
  <1> HIDE DEF HoldsNow
  <1>5. Wired(core)'
    <2>1. ASSUME NEW c \in Conn, NEW i \in Id, core.streams[c][i] # 0
          PROVE  /\ core.streams[c][i] \in Alive' /\ <<c, i>> \in Legs(core.streams[c][i])'
                 /\ core.pending[c][i] = 0 /\ HoldsNow(core.streams[c][i])
      <3>1. /\ core.streams[c][i] \in Alive /\ <<c, i>> \in Legs(core.streams[c][i])
            /\ core.pending[c][i] = 0
        BY <2>1 DEF Tight, Good, Loose, Wired
      <3>2. core.streams[c][i] \in Open
        BY <3>1 DEF Alive
      <3> QED BY <1>1, <1>4, <1>12, <3>1, <3>2
    <2>2. ASSUME NEW r \in Route, core.routes[r] # 0
          PROVE  /\ core.routes[r] \in Alive' /\ op'[core.routes[r]].route = r
                 /\ HoldsNow(core.routes[r])
      <3>1. core.routes[r] \in Alive /\ op[core.routes[r]].route = r
        BY <2>2 DEF Tight, Good, Loose, Wired
      <3>2. core.routes[r] \in Open
        BY <3>1 DEF Alive
      <3> QED BY <1>1, <1>12, <3>1, <3>2
    <2> QED BY <1>13, <2>1, <2>2 DEF Wired
  <1>6. Reserves(core)'
    <2>1. \A c \in Conn, i \in Id : core.pending[c][i] \in Open \cup {0}
      BY DEF Tight, Good, Loose, CoreType
    <2> QED BY <1>1, <2>1 DEF Tight, Good, Loose, Reserves, Waiting
  <1>7. core' \in CoreType /\ Named(core)' /\ Linked(core)' /\ Counted(core)' /\ ConnOK'
    BY DEF Tight, ConnOK, Good, Loose, Named, Linked, Counted, Pend, Connected
  <1>8. Tight'
    BY <1>1, <1>2, <1>3, <1>5, <1>6, <1>7 DEF Tight, Good, Loose, Alive
  <1>9. Synced' /\ Answered' /\ Out'
    BY DEF Fenced, Synced, Answered, Out, InUse, WasRevokedSince
  <1>10. Asked'
    BY DEF Fenced, Asked
  <1>11. Granted'
    <2>1. \A h \in Handle : core.table[h] # 0 => h \in dead
      BY DEF Fenced, Synced
    <2>2. ASSUME NEW j \in Open, op'[j].phase = "granted"
          PROVE  /\ core.table[op'[j].route] # 0 => op'[j].mark < core.table[op'[j].route]
                 /\ core.pending[op'[j].src][op'[j].sid] = j /\ op'[j].route \in dead \ owed =>
                      WasRevokedSince(core, op'[j].route, op'[j].mark)
      <3>1. CASE op[j].phase = "granted"
        <4>1. op'[j].route = op[j].route
          BY <3>1, <2>2
        <4> QED BY <1>1, <3>1, <4>1 DEF Fenced, Granted
      <3>2. CASE op[j].phase # "granted"
        <4>1. op'[j].route \in Route \ dead
          BY <2>2, <3>2
        <4> QED BY <2>1, <4>1 DEF Handle
      <3> QED BY <3>1, <3>2
    <2> QED BY <2>2 DEF Granted, WasRevokedSince
  <1> QED BY <1>8, <1>9, <1>10, <1>11 DEF Fenced

LEMMA OpenStep ==
  ASSUME Tight, Fenced, NEW k \in Open,
         \/ Ages(k) \/ RouteRefused(k)
         \/ \E e \in Endpoint, r \in Route : RouteGranted(k, e, r)
  PROVE  Tight' /\ Fenced'
  <1> USE DEF authority, forwarder, Stays
  <1>0. op \in [Open -> OpType]
    BY DEF Tight, OpsOK
  <1>1. CASE Ages(k)
    <2>1. /\ op' \in [Open -> OpType] /\ \A j \in Open : j # k => op'[j] = op[j]
          /\ op'[k].src = op[k].src /\ op'[k].sid = op[k].sid /\ op'[k].tgt = op[k].tgt
          /\ op'[k].tid = op[k].tid /\ op'[k].mark = op[k].mark /\ op'[k].phase = op[k].phase
          /\ op'[k].route = op[k].route /\ op'[k].to = op[k].to
      <3> DEFINE z == [op[k] EXCEPT !.aged = TRUE]
      <3>1. op' = [op EXCEPT ![k] = z]
        BY <1>1 DEF Ages
      <3>2. /\ z \in OpType /\ z.src = op[k].src /\ z.sid = op[k].sid /\ z.tgt = op[k].tgt
            /\ z.tid = op[k].tid /\ z.mark = op[k].mark /\ z.phase = op[k].phase
            /\ z.route = op[k].route /\ z.to = op[k].to
        BY <1>0 DEF OpType
      <3> HIDE DEF z
      <3> QED BY <1>0, <3>1, <3>2
    <2> QED BY <1>1, <2>1, OneOpen DEF Ages
  <1>2. CASE RouteRefused(k)
    <2>1. /\ op' \in [Open -> OpType] /\ \A j \in Open : j # k => op'[j] = op[j]
          /\ op'[k].src = op[k].src /\ op'[k].sid = op[k].sid /\ op'[k].tgt = op[k].tgt
          /\ op'[k].tid = op[k].tid /\ op'[k].mark = op[k].mark
          /\ op[k].phase = "asking" /\ op'[k].phase = "refused"
      BY <1>0, <1>2 DEF RouteRefused, OpType, Phases
    <2> QED BY <1>2, <2>1, OneOpen DEF RouteRefused
  <1>3. ASSUME NEW e \in Endpoint, NEW r \in Route, RouteGranted(k, e, r) PROVE Tight' /\ Fenced'
    <2>1. /\ op' \in [Open -> OpType] /\ \A j \in Open : j # k => op'[j] = op[j]
          /\ op'[k].src = op[k].src /\ op'[k].sid = op[k].sid /\ op'[k].tgt = op[k].tgt
          /\ op'[k].tid = op[k].tid /\ op'[k].mark = op[k].mark
          /\ op[k].phase = "asking" /\ op'[k].phase = "granted"
          /\ op'[k].route = r /\ op'[k].to = e /\ r \notin dead
      <3> DEFINE z == [op[k] EXCEPT !.phase = "granted", !.to = e, !.route = r]
      <3>0. op[k].phase = "asking" /\ r \notin dead
        BY <1>3, Zenon DEF RouteGranted
      <3>3. op' = [op EXCEPT ![k].phase = "granted", ![k].to = e, ![k].route = r]
        BY <1>3, Zenon DEF RouteGranted
      <3>1. DOMAIN op' = Open /\ op' = [j \in Open |-> op'[j]] /\ op'[k] = z
            /\ \A j \in Open : j # k => op'[j] = op[j]
        BY <1>0, <3>3 DEF OpType
      <3>2. /\ z \in OpType /\ z.src = op[k].src /\ z.sid = op[k].sid /\ z.tgt = op[k].tgt
            /\ z.tid = op[k].tid /\ z.mark = op[k].mark /\ z.phase = "granted"
            /\ z.route = r /\ z.to = e
        BY <1>0, ZenonT(40) DEF OpType, Phases
      <3> HIDE DEF z
      <3> QED BY <1>0, <3>0, <3>1, <3>2
    <2>2. UNCHANGED <<core, conn, dead, page, owed, link, ready, epoch>>
      BY <1>3, Zenon DEF RouteGranted
    <2> QED BY <2>1, <2>2, OneOpen
  <1> QED BY <1>1, <1>2, <1>3

LEMMA AcceptStep ==
  ASSUME Tight, Fenced, NEW c \in Conn, NEW i \in Id, Accept(c, i) \/ Fin(c, i)
  PROVE  Tight' /\ Fenced'
  <1> USE DEF authority, forwarder, Stays
  <1> DEFINE k == Own(c, i)
  <1>0. op \in [Open -> OpType]
    BY DEF Tight, OpsOK
  <1>1. k # 0 /\ k \in Alive
    <2>1. Own(c, i) # 0
      BY DEF Accept, Fin, Flows, Live
    <2> QED BY <2>1, OwnAlive
  <1>2. CASE Accept(c, i)
    <2>1. op' = [op EXCEPT ![k].phase = "active"] /\ op[k].phase = "opening"
      BY <1>2 DEF Accept
    <2> HIDE DEF k
    <2>2. /\ op' \in [Open -> OpType] /\ \A j \in Open : j # k => op'[j] = op[j]
          /\ op'[k].src = op[k].src /\ op'[k].sid = op[k].sid /\ op'[k].tgt = op[k].tgt
          /\ op'[k].tid = op[k].tid /\ op'[k].mark = op[k].mark /\ op'[k].phase = "active"
          /\ op'[k].route = op[k].route /\ op'[k].to = op[k].to
      BY <1>0, <1>1, <2>1 DEF OpType, Phases, Alive
    <2> QED BY <1>1, <1>2, <2>1, <2>2, OneOpen DEF Accept, Alive
  <1>3. CASE Fin(c, i) /\ op[k].fins = {}
    <2>1. op' = [op EXCEPT ![k].fins = {c}] /\ core' = core
      BY <1>3 DEF Fin
    <2> HIDE DEF k
    <2>2. /\ op' \in [Open -> OpType] /\ \A j \in Open : j # k => op'[j] = op[j]
          /\ op'[k].src = op[k].src /\ op'[k].sid = op[k].sid /\ op'[k].tgt = op[k].tgt
          /\ op'[k].tid = op[k].tid /\ op'[k].mark = op[k].mark /\ op'[k].phase = op[k].phase
          /\ op'[k].route = op[k].route /\ op'[k].to = op[k].to
      BY <1>0, <1>1, <2>1 DEF OpType, Alive
    <2> QED BY <1>1, <1>3, <2>1, <2>2, OneOpen DEF Fin, Alive
  <1>4. CASE Fin(c, i) /\ op[k].fins # {}
    <2>1. Into([CloseBindings(core, {k}, Conn) EXCEPT
                  !.told = [d \in Conn |-> {j \in @[d] : core.streams[d][j] # k}]])
      BY <1>4 DEF Fin
    <2> HIDE DEF k
    <2> QED BY <1>1, <1>4, <2>1, BothTold, HandlesInto DEF Fin
  <1> QED BY <1>2, <1>3, <1>4

LEMMA SettledSame == Tight => \A j \in Open : Settled(core)[j] = op[j]
  BY DEF Tight, Settled, Alive, Holds

LEMMA AbandonedStep ==
  ASSUME Tight, Fenced, NEW k \in Open, OpenAbandoned(k) PROVE Tight' /\ Fenced'
  <1>1. op' = [op EXCEPT ![k] = Over] /\ op \in [Open -> OpType]
    BY Zenon DEF OpenAbandoned, Ended, Over, Tight, OpsOK
  <1>2. core' = core /\ UNCHANGED <<dead, page, owed, link, ready, epoch, conn>>
    BY DEF OpenAbandoned, authority, forwarder
  <1>3. op' = [j \in Open |-> op'[j]] /\ \A j \in Open : op'[j] = IF j = k THEN Over ELSE op[j]
    BY <1>1
  <1>4. k \notin Alive
    BY DEF OpenAbandoned, Alive
  <1>5. ASSUME NEW c \in Conn, NEW i \in Id, core.pending[c][i] = k PROVE FALSE
    <2>1. k # 0
      BY ConnOpen
    <2>2. op[k].src = c /\ op[k].sid = i
      BY <1>5, <2>1 DEF Tight, Good, Loose, Reserves
    <2>3. Connected(core, c) /\ core.endpoints[conn[c].who] = c
      BY <1>5, <2>1 DEF Tight, Good, Loose, Linked, Named
    <2> QED BY <1>5, <2>2, <2>3 DEF OpenAbandoned, Reserved, Source, Current
  <1>6. \A j \in Open : \/ op'[j] = Settled(core)[j]
                        \/ /\ op'[j] = Over /\ j \notin Alive
                           /\ \A c \in Conn, i \in Id : core.pending[c][i] # j
    BY <1>3, <1>4, <1>5, SettledSame
  <1>7. ConnOK'
    BY <1>2 DEF Tight, ConnOK
  <1>8. Good(core) /\ Trims(core, core)
    BY TrimsSame DEF Tight
  <1> QED BY <1>2, <1>3, <1>6, <1>7, <1>8, Handles

(* An answer that is heard: its reservation is there, and is cleared. *)
LEMMA Clearing ==
  ASSUME Tight, NEW k \in Open, Settles(k)
  PROVE  /\ op[k].src \in Conn /\ op[k].sid \in Id /\ k \notin Alive
         /\ core.pending[op[k].src][op[k].sid] = k /\ core.streams[op[k].src][op[k].sid] = 0
         /\ Connected(core, op[k].src) /\ core.endpoints[conn[op[k].src].who] # 0
         /\ conn[op[k].src].who \in Endpoint
         /\ Good(Cleared(k)) /\ Trims(core, Cleared(k))
         /\ Cleared(k).at = core.at /\ Cleared(k).endpoints = core.endpoints
         /\ Cleared(k).routes = core.routes /\ Cleared(k).streams = core.streams
         /\ Cleared(k).pending[op[k].src][op[k].sid] = 0
         /\ \A c \in Conn, i \in Id : Cleared(k).pending[c][i] # k
  <1>1. op[k].src \in Conn /\ op[k].sid \in Id /\ k \notin Alive
    BY DEF Settles, Tight, OpsOK, Alive
  <1>2. core.pending[op[k].src][op[k].sid] = k /\ Connected(core, op[k].src)
        /\ core.endpoints[conn[op[k].src].who] = op[k].src
    BY DEF Settles, Reserved, Current, Source
  <1>3. k # 0 /\ op[k].src # 0
    BY <1>1, ConnOpen
  <1>4. core.streams[op[k].src][op[k].sid] = 0
    BY <1>1, <1>2, <1>3 DEF Tight, Good, Loose, Wired
  <1>5. Good(core)
    BY DEF Tight
  <1>6. Cleared(k) = CancelPending(core, op[k].src, op[k].sid)
    BY DEF Cleared, Source
  <1>7. \A c \in Conn, i \in Id : <<c, i>> # <<op[k].src, op[k].sid>> => core.pending[c][i] # k
    BY <1>3 DEF Tight, Good, Loose, Reserves
  <1>8. conn[op[k].src].who \in Endpoint
    BY <1>1, <1>2 DEF Tight, Good, Loose, Named
  <1> HIDE DEF Cleared
  <1>9. \A c \in Conn, i \in Id : Cleared(k).pending[c][i] # k
    <2>1. Trims(core, Cleared(k)) /\ Cleared(k).pending[op[k].src][op[k].sid] = 0
      BY <1>1, <1>5, <1>6, CancelGood
    <2>2. \A c \in Conn, i \in Id : Cleared(k).pending[c][i] \in {core.pending[c][i], 0}
      BY <2>1 DEF Trims
    <2> QED BY <1>1, <1>3, <1>7, <2>1, <2>2
  <1>10. /\ Good(Cleared(k)) /\ Trims(core, Cleared(k))
         /\ Cleared(k).at = core.at /\ Cleared(k).endpoints = core.endpoints
         /\ Cleared(k).routes = core.routes /\ Cleared(k).streams = core.streams
         /\ Cleared(k).pending[op[k].src][op[k].sid] = 0
    BY <1>1, <1>5, <1>6, CancelGood
  <1>11. core.endpoints[conn[op[k].src].who] # 0
    BY <1>2, <1>3
  <1> QED BY <1>1, <1>2, <1>4, <1>8, <1>9, <1>10, <1>11, Zenon

LEMMA OpenFailsStep ==
  ASSUME Tight, Fenced, NEW k \in Open, OpenFails(k) PROVE Tight' /\ Fenced'
  <1> DEFINE c == op[k].src
             u == Reject(Cleared(k), op[k].src, op[k].sid)
  <1>1. Settles(k)
    BY DEF OpenFails
  <1>2. c \in Conn /\ op[k].sid \in Id /\ k \notin Alive /\ Good(Cleared(k)) /\ Trims(core, Cleared(k))
        /\ \A d \in Conn, i \in Id : Cleared(k).pending[d][i] # k
    BY <1>1, Clearing
  <1>3. Good(u) /\ Trims(Cleared(k), u)
    BY <1>2, RejectGood
  <1>4. Good(core') /\ Trims(u, core')
    <2>1. CASE core' = u
      BY <1>3, <2>1, TrimsSame
    <2>2. CASE \E n \in 1..(core.strikes[c] + 1) : core' = Strike(u, c, n)
      <3>1. core.strikes[c] \in Nat
        BY <1>2 DEF Tight, Good, Loose, CoreType
      <3>2. PICK n \in 1..(core.strikes[c] + 1) : core' = Strike(u, c, n)
        BY <2>2
      <3>3. n \in Nat
        BY <3>1
      <3> QED BY <1>2, <1>3, <3>2, <3>3, StrikeGood DEF Tight
    <2> QED BY <2>1, <2>2 DEF OpenFails, Source
  <1>5. Trims(Cleared(k), core')
    BY <1>3, <1>4, TrimsAgain
  <1>6. \A d \in Conn, i \in Id : core'.pending[d][i] # k
    BY <1>2, <1>5, ConnOpen DEF Trims
  <1>7. op' = [Settled(core') EXCEPT ![k] = Over]
    BY Zenon DEF OpenFails, Over
  <1>8. op' = [j \in Open |-> op'[j]] /\ \A j \in Open : op'[j] = IF j = k THEN Over ELSE Settled(core')[j]
    BY <1>7 DEF Settled
  <1>9. UNCHANGED <<dead, page, owed, link, ready, epoch, conn>>
    BY DEF OpenFails, Stays, authority, forwarder
  <1>10. ConnOK'
    BY <1>9 DEF Tight, ConnOK
  <1>11. Trims(core, core')
    BY <1>2, <1>5, TrimsAgain
  <1> QED BY <1>2, <1>4, <1>6, <1>8, <1>9, <1>10, <1>11, Handles

LEMMA ReservesStep ==
  ASSUME Tight, Fenced, epoch \in Nat, NEW c \in Conn, NEW i \in Id, NEW k \in Open,
         OpenReserves(c, i, k)
  PROVE  Tight' /\ Fenced'
  <1> DEFINE z == [None EXCEPT !.phase = "asking", !.src = c, !.sid = i, !.mark = core.sequence]
             told == [core.told EXCEPT ![c] = @ \cup {i}]
             pending == [core.pending EXCEPT ![c][i] = k]
  <1>0. /\ core \in CoreType /\ op \in [Open -> OpType]
        /\ UNCHANGED <<dead, page, owed, link, ready, epoch, conn>>
    BY DEF OpenReserves, Stays, authority, forwarder, Tight, Good, Loose, OpsOK
  <1>1. /\ z \in OpType /\ z.phase = "asking" /\ z.src = c /\ z.sid = i /\ z.mark = core.sequence
    BY <1>0, ConnOpen DEF None, OpType, Phases, CoreType
  <1>2. op' = [op EXCEPT ![k] = z] /\ op[k].phase = "none"
    BY Zenon DEF OpenReserves
  <1>3. core' = [core EXCEPT !.pending = pending, !.count = @ + 1, !.told = told]
    BY DEF OpenReserves
  <1>4. /\ Connected(core, c) /\ core.endpoints[conn[c].who] = c /\ conn[c].who \in Endpoint
        /\ core.streams[c][i] = 0 /\ core.pending[c][i] = 0
    BY DEF OpenReserves, Hears, Current, Fresh, Own, Tight, Good, Loose, Named
  <1>5. told \in [Conn -> SUBSET Id] /\ pending \in [Conn -> [Id -> Open \cup {0}]]
        /\ \A d \in Conn, j \in Id : pending[d][j] = IF <<d, j>> = <<c, i>> THEN k ELSE core.pending[d][j]
    BY <1>0 DEF CoreType
  <1> HIDE DEF z, told, pending
  <1>6. /\ core' \in CoreType /\ core'.pending = pending /\ core'.count = core.count + 1
        /\ core'.at = core.at /\ core'.endpoints = core.endpoints /\ core'.routes = core.routes
        /\ core'.streams = core.streams /\ core'.table = core.table /\ core'.floor = core.floor
        /\ core'.sequence = core.sequence
    <2>1. core' = [core EXCEPT !.pending = pending, !.count = core.count + 1, !.told = told]
      BY <1>3
    <2>2. core.count + 1 \in Nat
      BY <1>0 DEF CoreType
    <2>3. core' \in CoreType
      BY <1>0, <1>5, <2>1, <2>2 DEF CoreType
    <2> QED BY <1>0, <2>1, <2>3 DEF CoreType
  <1>7. op' \in [Open -> OpType] /\ op'[k] = z /\ \A j \in Open : j # k => op'[j] = op[j]
    BY <1>0, <1>1, <1>2
  <1>8. k # 0 /\ c # 0
    BY ConnOpen
  <1>9. /\ \A j \in Alive : j # k /\ op'[j] = op[j]
        /\ \A j \in Open : j \in Alive' <=> j \in Alive
    BY <1>1, <1>2, <1>7 DEF Alive
  <1>10. OpsOK'
    BY <1>1, <1>7 DEF Tight, OpsOK
  <1> DEFINE HoldsNow(j) ==
               /\ core.streams[op'[j].src][op'[j].sid] = j /\ core.streams[op'[j].tgt][op'[j].tid] = j
               /\ core.routes[op'[j].route] = j
  <1>11. \A j \in Alive : HoldsNow(j)
    BY <1>9 DEF Tight, Holds
  <1>12. \A j : HoldsNow(j) => Holds(core, j)'
    BY <1>6 DEF Holds
  <1> HIDE DEF HoldsNow
  <1>13. Wired(core)'
    <2>1. ASSUME NEW d \in Conn, NEW j \in Id, core.streams[d][j] # 0
          PROVE  /\ core.streams[d][j] \in Alive' /\ <<d, j>> \in Legs(core.streams[d][j])'
                 /\ pending[d][j] = 0 /\ HoldsNow(core.streams[d][j])
      <3>1. /\ core.streams[d][j] \in Alive /\ <<d, j>> \in Legs(core.streams[d][j])
            /\ core.pending[d][j] = 0
        BY <2>1 DEF Tight, Good, Loose, Wired
      <3>2. core.streams[d][j] \in Alive' /\ op'[core.streams[d][j]] = op[core.streams[d][j]]
        BY <1>9, <3>1 DEF Alive
      <3>3. <<d, j>> # <<c, i>>
        BY <1>4, <2>1
      <3>4. pending[d][j] = 0
        BY <1>5, <3>1, <3>3
      <3>5. <<d, j>> \in Legs(core.streams[d][j])'
        BY <1>6, <3>1, <3>2 DEF Legs
      <3> QED BY <1>11, <3>1, <3>2, <3>4, <3>5
    <2>2. ASSUME NEW r \in Route, core.routes[r] # 0
          PROVE  /\ core.routes[r] \in Alive' /\ op'[core.routes[r]].route = r
                 /\ HoldsNow(core.routes[r])
      <3>1. core.routes[r] \in Alive /\ op[core.routes[r]].route = r
        BY <2>2 DEF Tight, Good, Loose, Wired
      <3> QED BY <1>9, <1>11, <3>1 DEF Alive
    <2> QED BY <1>6, <1>12, <2>1, <2>2 DEF Wired
  <1>14. Reserves(core)'
    <2>1. ASSUME NEW d \in Conn, NEW j \in Id, pending[d][j] # 0
          PROVE  /\ op'[pending[d][j]].src = d /\ op'[pending[d][j]].sid = j
                 /\ op'[pending[d][j]].phase \in {"asking", "granted", "refused"}
      <3>1. CASE <<d, j>> = <<c, i>>
        BY <1>1, <1>5, <1>7, <3>1
      <3>2. CASE <<d, j>> # <<c, i>>
        <4>1. /\ pending[d][j] = core.pending[d][j] /\ core.pending[d][j] \in Open
              /\ op[core.pending[d][j]].src = d /\ op[core.pending[d][j]].sid = j
              /\ op[core.pending[d][j]].phase \in {"asking", "granted", "refused"}
          BY <1>5, <2>1, <3>2 DEF Tight, Good, Loose, Reserves, CoreType
        <4> QED BY <1>2, <1>7, <4>1
      <3> QED BY <3>1, <3>2
    <2> QED BY <1>6, <2>1 DEF Reserves
  <1>15. Counted(core)'
    <2>1. Pend(core)' = Pend(core) \cup {<<c, i>>} /\ <<c, i>> \notin Pend(core)
      BY <1>4, <1>5, <1>6, <1>8 DEF Pend
    <2>2. IsFiniteSet(Pend(core)) /\ core.count = Cardinality(Pend(core))
      BY Taken DEF Tight, Good, Loose, Counted
    <2>3. Cardinality(Pend(core)') = Cardinality(Pend(core)) + 1
      BY <2>1, <2>2, FS_AddElement
    <2> QED BY <1>6, <2>2, <2>3 DEF Counted
  <1>16. Named(core)' /\ Linked(core)' /\ ConnOK'
    <2>1. Named(core)'
      BY <1>0, <1>6 DEF Tight, Good, Loose, Named, Connected
    <2>2. \A d \in Conn, j \in Id : pending[d][j] # 0 => Connected(core, d)
      BY <1>4, <1>5 DEF Tight, Good, Linked
    <2>3. Linked(core)'
      BY <1>6, <2>2 DEF Tight, Good, Linked, Connected
    <2> QED BY <1>0, <2>1, <2>3 DEF Tight, ConnOK
  <1>17. Tight'
    <2>1. \A j \in Alive' : Holds(core, j)'
      BY <1>9, <1>11, <1>12 DEF Alive
    <2> QED BY <1>6, <1>10, <1>13, <1>14, <1>15, <1>16, <2>1 DEF Tight, Good, Loose
  <1>18. Synced'
    BY <1>0, <1>4, <1>6, <1>8 DEF Fenced, Synced
  <1>19. Asked'
    <2>1. core.sequence \in Nat
      BY <1>0 DEF CoreType
    <2> QED BY <1>0, <1>1, <1>6, <1>7, <2>1 DEF Fenced, Asked
  <1>20. Answered' /\ Out'
    BY <1>0, <1>6 DEF Fenced, Answered, Out, InUse, WasRevokedSince
  <1>21. Granted'
    <2>1. ASSUME NEW j \in Open, op'[j].phase = "granted"
          PROVE  /\ j # k /\ op'[j] = op[j]
                 /\ pending[op[j].src][op[j].sid] = j => core.pending[op[j].src][op[j].sid] = j
      <3>1. j # k /\ op'[j] = op[j] /\ op[j].src \in Conn /\ op[j].sid \in Id
        BY <1>1, <1>7, <2>1 DEF Tight, OpsOK
      <3> QED BY <1>5, <3>1
    <2> QED BY <1>0, <1>6, <2>1 DEF Fenced, Granted, WasRevokedSince
  <1> QED BY <1>17, <1>18, <1>19, <1>20, <1>21 DEF Fenced

(* The OPEN and the core after its binding. *)
BoundOp(w, a, b) == [w EXCEPT !.phase = "opening", !.tgt = a, !.tid = b, !.mark = 0]
BoundCore(s, c, n, k, t, i, r, a) ==
  [s EXCEPT !.streams[c][n] = k, !.streams[t][i] = k, !.routes[r] = k,
            !.told[t] = IF a = "open" THEN @ \cup {i} ELSE @]

LEMMA BoundOpType ==
  ASSUME NEW w \in OpType, NEW a \in Conn, NEW b \in Id
  PROVE  /\ BoundOp(w, a, b) \in OpType /\ BoundOp(w, a, b).phase = "opening"
         /\ BoundOp(w, a, b).src = w.src /\ BoundOp(w, a, b).sid = w.sid
         /\ BoundOp(w, a, b).tgt = a /\ BoundOp(w, a, b).tid = b
         /\ BoundOp(w, a, b).route = w.route /\ BoundOp(w, a, b).to = w.to
  <1> DEFINE z == BoundOp(w, a, b)
  <1>1. z \in OpType
    BY DEF OpType, Phases, BoundOp
  <1>2. /\ z.phase = "opening" /\ z.src = w.src /\ z.sid = w.sid /\ z.tgt = a
        /\ z.tid = b /\ z.route = w.route /\ z.to = w.to
    BY DEF OpType, BoundOp
  <1> QED BY <1>1, <1>2

LEMMA BoundCoreType ==
  ASSUME NEW s \in CoreType, NEW c \in Conn, NEW n \in Id, NEW k \in Open, NEW t \in Conn,
         NEW i \in Id, NEW r \in Route, NEW a
  PROVE  LET x == BoundCore(s, c, n, k, t, i, r, a) IN
         /\ x \in CoreType
         /\ x.at = s.at /\ x.endpoints = s.endpoints /\ x.pending = s.pending /\ x.count = s.count
         /\ x.table = s.table /\ x.floor = s.floor /\ x.sequence = s.sequence
         /\ \A d \in Conn, j \in Id :
              x.streams[d][j] = IF <<d, j>> \in {<<c, n>>, <<t, i>>} THEN k ELSE s.streams[d][j]
         /\ \A y \in Route : x.routes[y] = IF y = r THEN k ELSE s.routes[y]
  <1> DEFINE x == BoundCore(s, c, n, k, t, i, r, a)
             first == [s.streams EXCEPT ![c][n] = k]
             streams == [first EXCEPT ![t][i] = k]
             routes == [s.routes EXCEPT ![r] = k]
             told == [s.told EXCEPT ![t] = IF a = "open" THEN s.told[t] \cup {i} ELSE s.told[t]]
  <1>1. x = [s EXCEPT !.streams = streams, !.routes = routes, !.told = told]
    BY DEF CoreType, BoundCore
  <1>2. first \in [Conn -> [Id -> Open \cup {0}]]
        /\ \A d \in Conn, j \in Id : first[d][j] = IF <<d, j>> = <<c, n>> THEN k ELSE s.streams[d][j]
    BY DEF CoreType
  <1> HIDE DEF x, first
  <1>3. streams \in [Conn -> [Id -> Open \cup {0}]]
        /\ \A d \in Conn, j \in Id : streams[d][j] = IF <<d, j>> = <<t, i>> THEN k ELSE first[d][j]
    BY <1>2
  <1>4. routes \in [Route -> Open \cup {0}] /\ \A y \in Route : routes[y] = IF y = r THEN k ELSE s.routes[y]
    BY DEF CoreType
  <1>5. told \in [Conn -> SUBSET Id]
    BY DEF CoreType
  <1> HIDE DEF streams, routes, told
  <1>6. /\ x \in CoreType /\ x.streams = streams /\ x.routes = routes
        /\ x.at = s.at /\ x.endpoints = s.endpoints /\ x.pending = s.pending
        /\ x.count = s.count /\ x.table = s.table /\ x.floor = s.floor /\ x.sequence = s.sequence
    BY <1>1, <1>3, <1>4, <1>5 DEF CoreType
  <1> QED BY <1>2, <1>3, <1>4, <1>6 DEF x

LEMMA BindsStep ==
  ASSUME Tight, Fenced, epoch \in Nat, NEW k \in Open, OpenBinds(k)
  PROVE  Tight' /\ Fenced'
  <1> DEFINE c == op[k].src
             n == op[k].sid
             r == op[k].route
             t == core.endpoints[op[k].to]
             s == Cleared(k)
  <1>0. /\ core \in CoreType /\ op \in [Open -> OpType] /\ Settles(k) /\ Usable(k) /\ Reachable(k)
        /\ UNCHANGED <<dead, page, owed, link, ready, epoch, conn>>
    BY DEF OpenBinds, Stays, authority, forwarder, Tight, Good, Loose, OpsOK
  <1>1. /\ c \in Conn /\ n \in Id /\ k \notin Alive
        /\ core.pending[c][n] = k /\ core.streams[c][n] = 0
        /\ Connected(core, c) /\ core.endpoints[conn[c].who] # 0 /\ conn[c].who \in Endpoint
        /\ Good(s) /\ Trims(core, s) /\ s.at = core.at /\ s.endpoints = core.endpoints
        /\ s.routes = core.routes /\ s.streams = core.streams /\ s.pending[c][n] = 0
        /\ \A d \in Conn, j \in Id : s.pending[d][j] # k
    BY <1>0, Clearing
  <1>2. op[k].phase = "granted" /\ op[k].to \in Endpoint /\ r \in Route /\ core.routes[r] = 0
        /\ ~WasRevokedSince(core, r, op[k].mark)
    BY <1>0 DEF Usable, Tight, OpsOK
  <1>3. t \in Conn /\ t # 0 /\ Connected(core, t)
    <2>1. t # 0
      BY <1>0 DEF Reachable
    <2> QED BY <1>0, <1>2, <2>1 DEF CoreType, Tight, Good, Loose, Named
  <1>4. PICK i \in Free(core, t) :
          /\ core' = BoundCore(s, c, n, k, t, i, r, core.at[t])
          /\ op' = [op EXCEPT ![k].phase = "opening", ![k].tgt = t, ![k].tid = i, ![k].mark = 0]
    BY Zenon DEF OpenBinds, Source, BoundCore
  <1>5. i \in Id /\ core.streams[t][i] = 0 /\ core.pending[t][i] = 0
    BY DEF Free
  <1>6. <<t, i>> # <<c, n>>
    BY <1>1, <1>5, ConnOpen
  <1> DEFINE z == BoundOp(op[k], t, i)
             streams == core'.streams
             routes == core'.routes
  <1>7. s \in CoreType
    BY <1>1 DEF Good, Loose
  <1> HIDE DEF s, c, n, r, t
  <1>9. /\ core' \in CoreType /\ core'.at = s.at /\ core'.endpoints = s.endpoints
        /\ core'.pending = s.pending /\ core'.count = s.count
        /\ core'.table = s.table /\ core'.floor = s.floor /\ core'.sequence = s.sequence
        /\ \A d \in Conn, j \in Id :
             streams[d][j] = IF <<d, j>> \in {<<c, n>>, <<t, i>>} THEN k ELSE core.streams[d][j]
        /\ \A x \in Route : routes[x] = IF x = r THEN k ELSE core.routes[x]
    <2>1. core' = BoundCore(s, c, n, k, t, i, r, core.at[t])
      BY <1>4
    <2> QED BY <1>1, <1>2, <1>3, <1>5, <1>7, <2>1, BoundCoreType
  <1>11. /\ z \in OpType /\ z.phase = "opening" /\ z.src = c /\ z.sid = n /\ z.tgt = t /\ z.tid = i
         /\ z.route = r /\ z.to = op[k].to
    <2>1. op[k] \in OpType
      BY <1>0
    <2>2. /\ z \in OpType /\ z.phase = "opening" /\ z.src = op[k].src /\ z.sid = op[k].sid
          /\ z.tgt = t /\ z.tid = i /\ z.route = op[k].route /\ z.to = op[k].to
      BY <1>3, <1>5, <2>1, BoundOpType
    <2> HIDE DEF z
    <2> QED BY <2>2 DEF c, n, r
  <1>12. op' \in [Open -> OpType] /\ op'[k] = z /\ \A j \in Open : j # k => op'[j] = op[j]
    <2>1. op' = [op EXCEPT ![k] = z]
      BY <1>0, <1>4 DEF BoundOp
    <2> HIDE DEF z
    <2> QED BY <1>0, <1>11, <2>1
  <1>13. /\ core' \in CoreType /\ core'.streams = streams /\ core'.routes = routes
         /\ core'.at = core.at /\ core'.endpoints = core.endpoints /\ core'.pending = s.pending
         /\ core'.count = s.count /\ core'.table = core.table /\ core'.floor = core.floor
         /\ core'.sequence = core.sequence
    BY <1>1, <1>9 DEF Trims
  <1> HIDE DEF z, streams, routes
  <1>14. k # 0 /\ \A j \in Alive : j # k /\ j \in Open /\ op'[j] = op[j] /\ j \in Alive'
    BY <1>1, <1>12, ConnOpen DEF Alive
  <1>15. k \in Alive' /\ \A j \in Alive' : j = k \/ j \in Alive
    BY <1>11, <1>12 DEF Alive
  <1>16. OpsOK'
    BY <1>1, <1>2, <1>3, <1>5, <1>11, <1>12 DEF Tight, OpsOK
  <1> DEFINE HoldsNow(j) ==
               /\ streams[op'[j].src][op'[j].sid] = j /\ streams[op'[j].tgt][op'[j].tid] = j
               /\ routes[op'[j].route] = j
             LegsNow(j) == {<<op'[j].src, op'[j].sid>>, <<op'[j].tgt, op'[j].tid>>}
  <1>17. HoldsNow(k) /\ LegsNow(k) = {<<c, n>>, <<t, i>>}
    BY <1>1, <1>2, <1>3, <1>5, <1>9, <1>11, <1>12
  <1>18. ASSUME NEW j \in Alive PROVE HoldsNow(j) /\ LegsNow(j) = Legs(j)
    <2>1. /\ op[j].src \in Conn /\ op[j].sid \in Id /\ op[j].tgt \in Conn /\ op[j].tid \in Id
          /\ op[j].route \in Route /\ Holds(core, j) /\ j # 0 /\ op'[j] = op[j]
      BY <1>14, ConnOpen DEF Tight, OpsOK, Alive
    <2>2. /\ <<op[j].src, op[j].sid>> \notin {<<c, n>>, <<t, i>>}
          /\ <<op[j].tgt, op[j].tid>> \notin {<<c, n>>, <<t, i>>}
          /\ op[j].route # r
      BY <1>1, <1>2, <1>5, <2>1 DEF Holds
    <2> QED BY <1>9, <2>1, <2>2 DEF Holds, Legs
  <1>19. \A j : /\ HoldsNow(j) => Holds(core, j)'
                /\ LegsNow(j) = {<<op'[j].src, op'[j].sid>>, <<op'[j].tgt, op'[j].tid>>}
    BY <1>13 DEF Holds
  <1> HIDE DEF HoldsNow, LegsNow
  <1>20. \A d \in Conn, j \in Id : s.pending[d][j] \in {core.pending[d][j], 0}
    BY <1>1 DEF Trims
  <1>21. Wired(core)'
    <2>1. ASSUME NEW d \in Conn, NEW j \in Id, streams[d][j] # 0
          PROVE  /\ streams[d][j] \in Alive' /\ <<d, j>> \in LegsNow(streams[d][j])
                 /\ s.pending[d][j] = 0 /\ HoldsNow(streams[d][j])
      <3>1. CASE <<d, j>> \in {<<c, n>>, <<t, i>>}
        <4>1. streams[d][j] = k
          BY <1>9, <3>1
        <4>2. s.pending[d][j] = 0
          BY <1>1, <1>5, <1>20, <3>1
        <4> QED BY <1>15, <1>17, <3>1, <4>1, <4>2
      <3>2. CASE <<d, j>> \notin {<<c, n>>, <<t, i>>}
        <4>1. streams[d][j] = core.streams[d][j]
          BY <1>9, <3>2
        <4>2. /\ core.streams[d][j] \in Alive /\ <<d, j>> \in Legs(core.streams[d][j])
              /\ core.pending[d][j] = 0
          BY <2>1, <4>1 DEF Tight, Good, Loose, Wired
        <4>3. s.pending[d][j] = 0
          BY <1>20, <4>2
        <4> QED BY <1>14, <1>18, <4>1, <4>2, <4>3
      <3> QED BY <3>1, <3>2
    <2>2. ASSUME NEW x \in Route, routes[x] # 0
          PROVE  routes[x] \in Alive' /\ op'[routes[x]].route = x /\ HoldsNow(routes[x])
      <3>1. CASE x = r
        BY <1>9, <1>11, <1>12, <1>15, <1>17, <3>1
      <3>2. CASE x # r
        <4>1. routes[x] = core.routes[x]
          BY <1>9, <3>2
        <4>2. core.routes[x] \in Alive /\ op[core.routes[x]].route = x
          BY <2>2, <4>1 DEF Tight, Good, Loose, Wired
        <4> QED BY <1>14, <1>18, <4>1, <4>2
      <3> QED BY <3>1, <3>2
    <2>3. ASSUME NEW d \in Conn, NEW j \in Id, streams[d][j] # 0
          PROVE  <<d, j>> \in {<<op'[streams[d][j]].src, op'[streams[d][j]].sid>>,
                               <<op'[streams[d][j]].tgt, op'[streams[d][j]].tid>>}
      BY <1>19, <2>1, <2>3
    <2>4. \A d \in Conn, j \in Id : core'.streams[d][j] # 0 =>
            <<d, j>> \in {<<op'[core'.streams[d][j]].src, op'[core'.streams[d][j]].sid>>,
                         <<op'[core'.streams[d][j]].tgt, op'[core'.streams[d][j]].tid>>}
      BY <1>13, <2>3
    <2>5. \A d \in Conn, j \in Id : core'.streams[d][j] # 0 => <<d, j>> \in Legs(core.streams[d][j])'
      BY <2>4 DEF Legs
    <2> QED BY <1>13, <1>19, <2>1, <2>2, <2>5 DEF Wired
  <1>22. Reserves(core)'
    <2>1. ASSUME NEW d \in Conn, NEW j \in Id, s.pending[d][j] # 0
          PROVE  /\ op'[s.pending[d][j]].src = d /\ op'[s.pending[d][j]].sid = j
                 /\ op'[s.pending[d][j]].phase \in {"asking", "granted", "refused"}
      <3>1. /\ op[s.pending[d][j]].src = d /\ op[s.pending[d][j]].sid = j
            /\ op[s.pending[d][j]].phase \in {"asking", "granted", "refused"}
        BY <1>1, <2>1 DEF Good, Loose, Reserves
      <3>2. s.pending[d][j] \in Open /\ s.pending[d][j] # k
        BY <1>1, <1>7, <2>1 DEF CoreType
      <3> QED BY <1>12, <3>1, <3>2
    <2> QED BY <1>13, <2>1 DEF Reserves
  <1>23. Counted(core)'
    BY <1>1, <1>13 DEF Good, Loose, Counted, Pend
  <1>24. Named(core)' /\ ConnOK'
    BY <1>0, <1>13 DEF Tight, ConnOK, Good, Loose, Named, Connected
  <1>25. Linked(core)'
    <2>1. ASSUME NEW d \in Conn, NEW j \in Id, streams[d][j] # 0 \/ s.pending[d][j] # 0
          PROVE  Connected(core, d)
      <3>1. CASE <<d, j>> \in {<<c, n>>, <<t, i>>}
        BY <1>1, <1>3, <3>1
      <3>2. CASE <<d, j>> \notin {<<c, n>>, <<t, i>>}
        BY <1>9, <1>20, <2>1, <3>2 DEF Tight, Good, Linked
      <3> QED BY <3>1, <3>2
    <2> QED BY <1>13, <2>1 DEF Linked, Connected
  <1>26. Tight'
    <2>1. \A j \in Alive' : Holds(core, j)'
      BY <1>15, <1>17, <1>18, <1>19
    <2> QED BY <1>13, <1>16, <1>21, <1>22, <1>23, <1>24, <1>25, <2>1 DEF Tight, Good, Loose
  <1>27. r \notin dead \ owed /\ ready
    <2>1. core.pending[c][n] = k /\ op[k].phase = "granted"
      BY <1>1, <1>2
    <2>2. r \notin dead \ owed
      BY <1>2, <2>1 DEF Fenced, Granted, c, n, r
    <2> QED BY <1>1, <2>2 DEF Fenced, Synced
  <1>28. Synced'
    BY <1>0, <1>13, <1>27 DEF Fenced, Synced
  <1>29. Asked' /\ Answered'
    BY <1>0, <1>11, <1>12, <1>13 DEF Fenced, Asked, Answered, WasRevokedSince
  <1>30. Granted'
    <2>1. ASSUME NEW j \in Open, op'[j].phase = "granted"
          PROVE  /\ op[j].phase = "granted" /\ op'[j] = op[j]
                 /\ s.pending[op[j].src][op[j].sid] = j => core.pending[op[j].src][op[j].sid] = j
      <3>1. j # k /\ op'[j] = op[j]
        BY <1>11, <1>12, <2>1
      <3>2. op[j].src \in Conn /\ op[j].sid \in Id /\ j # 0
        BY <2>1, <3>1, ConnOpen DEF Tight, OpsOK
      <3> QED BY <1>20, <2>1, <3>1, <3>2
    <2> QED BY <1>0, <1>13, <2>1 DEF Fenced, Granted, WasRevokedSince
  <1>31. Out'
    BY <1>0, <1>9, <1>13, <1>27 DEF Fenced, Out, InUse
  <1> QED BY <1>26, <1>28, <1>29, <1>30, <1>31 DEF Fenced
-----------------------------------------------------------------------------
(* The handlers that end nothing. *)
LEMMA StillTight ==
  ASSUME Tight, op' = op, core' \in CoreType, ConnOK',
         core'.streams = core.streams, core'.routes = core.routes, core'.pending = core.pending,
         core'.count = core.count, core'.endpoints = core.endpoints,
         \A c \in Conn : Connected(core', c) <=> Connected(core, c),
         \A c \in Conn : Connected(core, c) => conn'[c].who = conn[c].who
  PROVE  Tight'
  <1>1. Alive' = Alive /\ OpsOK'
    BY DEF Alive, Tight, OpsOK
  <1>2. \A k : Holds(core, k) => Holds(core, k)'
    BY DEF Holds
  <1>3. \A c \in Conn, i \in Id : core'.streams[c][i] # 0 =>
          /\ core'.streams[c][i] \in Alive' /\ Holds(core, core.streams[c][i])'
          /\ <<c, i>> \in Legs(core.streams[c][i])'
          /\ core'.pending[c][i] = 0
    <2>1. \A c \in Conn, i \in Id : core.streams[c][i] # 0 =>
            /\ core.streams[c][i] \in Alive /\ Holds(core, core.streams[c][i])
            /\ <<c, i>> \in Legs(core.streams[c][i])
            /\ core.pending[c][i] = 0
      BY DEF Tight, Good, Loose, Wired
    <2>2. \A c \in Conn, i \in Id : core'.streams[c][i] = core.streams[c][i]
      OBVIOUS
    <2>3. \A c \in Conn, i \in Id : core.streams[c][i] # 0 => <<c, i>> \in Legs(core.streams[c][i])'
      BY <2>1 DEF Legs
    <2> QED BY <1>1, <1>2, <2>1, <2>2, <2>3
  <1>4. \A r \in Route : core'.routes[r] # 0 =>
          /\ core'.routes[r] \in Alive' /\ Holds(core, core.routes[r])'
          /\ op'[core'.routes[r]].route = r
    BY <1>1, <1>2 DEF Tight, Good, Loose, Wired
  <1>5. Wired(core)'
    BY <1>3, <1>4 DEF Wired
  <1>6. Named(core)'
    <2>1. \A e \in Endpoint : core.endpoints[e] \in Conn \cup {0}
      BY DEF Tight, Good, Loose, CoreType
    <2>2. \A c \in Conn : Connected(core', c) => conn'[c].who \in Endpoint /\ core'.endpoints[conn'[c].who] = c
      BY DEF Tight, Good, Loose, Named
    <2>3. \A e \in Endpoint : core'.endpoints[e] # 0 =>
            Connected(core', core'.endpoints[e]) /\ conn'[core'.endpoints[e]].who = e
      BY <2>1 DEF Tight, Good, Loose, Named
    <2> QED BY <2>2, <2>3 DEF Named, Connected
  <1>7. Reserves(core)' /\ Counted(core)'
    BY DEF Tight, Good, Loose, Reserves, Counted, Pend
  <1>8. \A c \in Conn, i \in Id : core'.streams[c][i] # 0 \/ core'.pending[c][i] # 0 => Connected(core', c)
    BY DEF Tight, Good, Linked
  <1>9. Linked(core)'
    BY <1>8 DEF Linked, Connected
  <1>10. \A k \in Alive' : Holds(core, k)'
    BY <1>1, <1>2 DEF Tight
  <1> QED BY <1>1, <1>5, <1>6, <1>7, <1>9, <1>10 DEF Tight, Good, Loose

LEMMA ShutsStep ==
  ASSUME Tight, Fenced, NEW c \in Conn, Shuts(c) PROVE Tight' /\ Fenced'
  <1> DEFINE at == [core.at EXCEPT ![c] = "shut"]
             told == [core.told EXCEPT ![c] = {}]
  <1>0. core \in CoreType /\ core.at[c] = "open"
        /\ UNCHANGED <<dead, page, owed, link, ready, epoch, conn, op>>
    BY DEF Shuts, authority, forwarder, Tight, Good, Loose
  <1>1. core' = [core EXCEPT !.at = at, !.told = told]
    BY DEF Shuts
  <1>2. at \in [Conn -> Places] /\ told \in [Conn -> SUBSET Id]
        /\ \A d \in Conn : at[d] = IF d = c THEN "shut" ELSE core.at[d]
    BY <1>0 DEF CoreType, Places
  <1> HIDE DEF at, told
  <1>3. /\ core' \in CoreType /\ core'.at = at /\ core'.streams = core.streams
        /\ core'.routes = core.routes /\ core'.pending = core.pending
        /\ core'.count = core.count /\ core'.endpoints = core.endpoints
        /\ core'.table = core.table /\ core'.floor = core.floor /\ core'.sequence = core.sequence
    BY <1>0, <1>1, <1>2 DEF CoreType
  <1>4. \A d \in Conn : Connected(core', d) <=> Connected(core, d)
    BY <1>0, <1>2, <1>3 DEF Connected
  <1>5. ConnOK'
    BY <1>0 DEF Tight, ConnOK
  <1>6. Tight'
    BY <1>0, <1>3, <1>4, <1>5, StillTight
  <1>7. \A d \in Conn : at[d] # core.at[d] => d = c /\ at[d] = "shut" /\ core.at[d] = "open"
    BY <1>0, <1>2
  <1>8. Synced' /\ Asked' /\ Granted' /\ Out'
    BY <1>0, <1>3, <1>7 DEF Fenced, Synced, Asked, Granted, Out, InUse, WasRevokedSince
  <1>9. Answered'
    BY <1>0, <1>3, <1>7 DEF Fenced, Answered, WasRevokedSince
  <1> QED BY <1>6, <1>8, <1>9 DEF Fenced

LEMMA TombExpiresStep ==
  ASSUME Tight, Fenced, NEW c \in Conn, NEW i \in Id, TombExpires(c, i) PROVE Tight' /\ Fenced'
  <1>1. Good(core') /\ Trims(core, core')
    BY RememberGood, ConnOpen DEF TombExpires, Tight
  <1>2. UNCHANGED <<dead, page, owed, link, ready, epoch, conn>> /\ op' = op
    BY DEF TombExpires, Stays, authority, forwarder
  <1>3. op' = [j \in Open |-> op'[j]] /\ \A j \in Open : op'[j] = op[j]
    BY <1>2 DEF Tight, OpsOK
  <1>4. core'.streams = core.streams
    BY DEF TombExpires, Tight, Good, Loose, CoreType
  <1>5. \A j \in Open : op'[j] = Settled(core')[j]
    BY <1>3, <1>4 DEF Tight, Settled, Alive, Holds
  <1>6. ConnOK'
    BY <1>2 DEF Tight, ConnOK
  <1> QED BY <1>1, <1>2, <1>3, <1>5, <1>6, Handles

LEMMA RevocationAgesStep ==
  ASSUME Tight, Fenced, NEW h \in Handle, RevocationAges(h) PROVE Tight' /\ Fenced'
  <1> DEFINE table == [core.table EXCEPT ![h] = 0]
             floor == IF core.floor < core.table[h] THEN core.table[h] ELSE core.floor
  <1>0. core \in CoreType /\ core.table[h] # 0
        /\ UNCHANGED <<dead, page, owed, link, ready, epoch, conn, op>>
    BY DEF RevocationAges, authority, forwarder, Tight, Good, Loose
  <1>1. core' = [core EXCEPT !.table = table, !.floor = floor]
    BY DEF RevocationAges
  <1>2. /\ table \in [Handle -> Nat] /\ floor \in Nat /\ floor >= core.floor /\ floor >= core.table[h]
        /\ core.floor \in Nat /\ core.table \in [Handle -> Nat]
        /\ \A g \in Handle : table[g] = IF g = h THEN 0 ELSE core.table[g]
    BY <1>0 DEF CoreType
  <1> HIDE DEF table, floor
  <1>3. /\ core' \in CoreType /\ core'.at = core.at /\ core'.streams = core.streams
        /\ core'.routes = core.routes /\ core'.pending = core.pending
        /\ core'.count = core.count /\ core'.endpoints = core.endpoints
        /\ core'.table = table /\ core'.floor = floor /\ core'.sequence = core.sequence
    BY <1>0, <1>1, <1>2 DEF CoreType
  <1>4. \A d \in Conn : Connected(core', d) <=> Connected(core, d)
    BY <1>3 DEF Connected
  <1>5. ConnOK'
    BY <1>0 DEF Tight, ConnOK
  <1>6. Tight'
    BY <1>0, <1>3, <1>4, <1>5, StillTight
  <1>7. Synced' /\ Asked' /\ Out'
    BY <1>0, <1>2, <1>3 DEF Fenced, Synced, Asked, Out, InUse
  <1>8. ASSUME NEW g \in Handle, NEW mark \in Nat, core.table[g] # 0 => mark < core.table[g]
        PROVE  /\ table[g] # 0 => mark < table[g]
               /\ WasRevokedSince(core, g, mark) => table[g] # 0 \/ mark < floor
    <2>1. CASE g = h
      BY <1>0, <1>2, <1>8, <2>1 DEF WasRevokedSince
    <2>2. CASE g # h
      BY <1>2, <1>8, <2>2 DEF WasRevokedSince
    <2> QED BY <2>1, <2>2
  <1>9. Answered'
    <2>1. ASSUME NEW c \in Conn, core.at[c] = "answered"
          PROVE  conn[c].who \in Handle /\ conn[c].mark \in Nat
      BY <2>1 DEF Fenced, Answered, Tight, ConnOK, ConnType, Handle
    <2> QED BY <1>0, <1>3, <1>8, <2>1 DEF Fenced, Answered, WasRevokedSince
  <1>10. Granted'
    <2>1. ASSUME NEW k \in Open, op[k].phase = "granted"
          PROVE  op[k].route \in Handle /\ op[k].mark \in Nat
      BY <2>1 DEF Tight, OpsOK, OpType, Handle
    <2> QED BY <1>0, <1>3, <1>8, <2>1 DEF Fenced, Granted, WasRevokedSince
  <1> QED BY <1>6, <1>7, <1>9, <1>10 DEF Fenced
-----------------------------------------------------------------------------
(* The authority's steps. *)
LEMMA OutsideStep ==
  ASSUME Tight, Fenced,
         \/ LinkConnects \/ Synchronized
         \/ \E e \in Endpoint : Lapse(e)
         \/ \E h \in Handle : Revoke(h)
  PROVE  Tight' /\ Fenced'
  <1> USE DEF forwarder
  <1>1. UNCHANGED <<core, conn, op>>
    BY DEF LinkConnects, Synchronized, Lapse, Revoke
  <1>2. Tight'
    <2>1. core' \in CoreType /\ ConnOK'
      BY <1>1 DEF Tight, Good, Loose, ConnOK
    <2>2. \A c \in Conn : Connected(core', c) <=> Connected(core, c)
      BY <1>1
    <2> QED BY <1>1, <2>1, <2>2, StillTight
  <1>3. CASE LinkConnects
    <2>1. Synced'
      BY <1>1, <1>3 DEF LinkConnects, Fenced, Synced
    <2>2. Asked'
      BY <1>1, <1>3 DEF LinkConnects, Fenced, Asked
    <2>3. Answered' /\ Granted'
      BY <1>1, <1>3 DEF LinkConnects, Fenced, Answered, Granted, WasRevokedSince
    <2>4. Out'
      BY <1>1, <1>3 DEF LinkConnects, Fenced, Out, InUse
    <2> QED BY <1>2, <2>1, <2>2, <2>3, <2>4 DEF Fenced
  <1>4. CASE Synchronized
    <2>1. Synced'
      BY <1>1, <1>4 DEF Synchronized, Fenced, Synced
    <2>2. Asked'
      BY <1>1, <1>4 DEF Synchronized, Fenced, Asked
    <2>3. Answered' /\ Granted'
      BY <1>1, <1>4 DEF Synchronized, Fenced, Answered, Granted, WasRevokedSince
    <2>4. Out'
      BY <1>1, <1>4 DEF Synchronized, Fenced, Out, InUse
    <2> QED BY <1>2, <2>1, <2>2, <2>3, <2>4 DEF Fenced
  <1>5. ASSUME NEW e \in Endpoint, Lapse(e) PROVE Fenced'
    BY <1>1, <1>5 DEF Lapse, Fenced, Synced, Asked, Answered, Granted, Out, InUse, WasRevokedSince
  <1>6. ASSUME NEW h \in Handle, Revoke(h) PROVE Fenced'
    <2>1. /\ dead' = dead \cup {h} /\ owed' = (IF link = "down" THEN owed ELSE owed \cup {h})
          /\ UNCHANGED <<link, page, ready, epoch>>
      BY <1>6 DEF Revoke
    <2>2. Synced' /\ Asked'
      BY <1>1, <2>1 DEF Fenced, Synced, Asked
    <2>3. CASE link # "down"
      <3>1. dead' \ owed' \subseteq dead \ owed
        BY <2>1, <2>3
      <3> QED BY <1>1, <2>1, <2>2, <3>1 DEF Fenced, Answered, Granted, Out, InUse, WasRevokedSince
    <2>4. CASE link = "down"
      <3>1. ~ready
        BY <2>4 DEF Fenced, Synced
      <3>2. Answered'
        BY <1>1, <2>1, <3>1 DEF Fenced, Asked, Answered
      <3>3. \A k \in Open : op[k].phase = "granted" => core.pending[op[k].src][op[k].sid] # k
        BY <3>1, ConnOpen DEF Fenced, Synced, Tight, OpsOK
      <3>4. Granted'
        BY <1>1, <3>3 DEF Fenced, Granted
      <3>5. Out'
        BY <1>1, <2>1, <3>1 DEF Fenced, Synced, Out, InUse, Handle
      <3> QED BY <2>2, <3>2, <3>4, <3>5 DEF Fenced
    <2> QED BY <2>3, <2>4
  <1> QED BY <1>2, <1>3, <1>4, <1>5, <1>6

LEMMA LinkDropsStep ==
  ASSUME Tight, Fenced, epoch \in Nat, LinkDrops PROVE Tight' /\ Fenced'
  <1> DEFINE gone == {c \in Conn : Connected(core, c)}
             held == UNION {{<<c, i>> : i \in Held(core, c)} : c \in gone}
             at == [c \in Conn |-> IF c \in gone THEN "gone" ELSE core.at[c]]
             n == Monus(core.count, Cardinality(held))
             noEndpoints == [e \in Endpoint |-> 0]
             noRoutes == [r \in Route |-> 0]
             noIds == [c \in Conn |-> Blank(0)]
             noTombs == [c \in Conn |-> Blank(-1)]
             noneTold == [c \in Conn |-> {}]
             noStrikes == [c \in Conn |-> 0]
             s == [core EXCEPT
                     !.at = at, !.endpoints = noEndpoints, !.routes = noRoutes, !.streams = noIds,
                     !.pending = noIds, !.tombs = noTombs, !.told = noneTold, !.count = n,
                     !.strikes = noStrikes]
  <1>0. core \in CoreType
    BY DEF Tight, Good, Loose
  <1>1. Into(s) /\ link' = "down" /\ page' = {} /\ owed' = {} /\ ready' = FALSE
        /\ epoch' = epoch + 1 /\ UNCHANGED <<dead, conn>>
    BY DEF LinkDrops
  <1>2. held = Pend(core)
    <2>1. \A c \in Conn, i \in Id : core.pending[c][i] # 0 => Connected(core, c)
      BY DEF Tight, Good, Linked
    <2>2. held \subseteq Pend(core)
      BY DEF Pend, Held
    <2>3. ASSUME NEW g \in Pend(core) PROVE g \in held
      <3>1. PICK c \in Conn, i \in Id : g = <<c, i>> /\ core.pending[c][i] # 0
        BY DEF Pend
      <3>2. c \in gone /\ i \in Held(core, c)
        BY <2>1, <3>1 DEF Held
      <3> QED BY <3>1, <3>2
    <2> QED BY <2>2, <2>3
  <1>3. n = 0
    <2>1. core.count = Cardinality(held) /\ core.count \in Nat
      BY <1>0, <1>2 DEF Tight, Good, Loose, Counted, CoreType
    <2> QED BY <2>1 DEF Monus
  <1>4. /\ at \in [Conn -> Places]
        /\ \A c \in Conn : at[c] = IF Connected(core, c) THEN "gone" ELSE core.at[c]
    BY <1>0 DEF CoreType, Places
  <1>5. /\ noIds \in [Conn -> [Id -> Open \cup {0}]]
        /\ noTombs \in [Conn -> [Id -> -1..LateMax]]
        /\ noEndpoints \in [Endpoint -> Conn \cup {0}]
        /\ noRoutes \in [Route -> Open \cup {0}]
        /\ noneTold \in [Conn -> SUBSET Id]
        /\ noStrikes \in [Conn -> Nat]
        /\ n \in Nat
    BY <1>3, ConnOpen DEF Blank
  <1>a. /\ \A e \in Endpoint : noEndpoints[e] = 0
        /\ \A r \in Route : noRoutes[r] = 0
        /\ \A c \in Conn, i \in Id : noIds[c][i] = 0
    BY DEF Blank
  <1> HIDE DEF at, n, noEndpoints, noRoutes, noIds, noTombs, noneTold, noStrikes
  <1>6. /\ s \in CoreType /\ s.at = at /\ s.count = n
        /\ s.table = core.table /\ s.floor = core.floor /\ s.sequence = core.sequence
        /\ s.endpoints = noEndpoints /\ s.routes = noRoutes
        /\ s.streams = noIds /\ s.pending = noIds
    <2>1. s.at = at /\ s.count = n /\ s.endpoints = noEndpoints /\ s.routes = noRoutes
          /\ s.streams = noIds /\ s.pending = noIds
      BY <1>0 DEF CoreType
    <2>2. s.table = core.table /\ s.floor = core.floor /\ s.sequence = core.sequence
      BY <1>0 DEF CoreType
    <2>3. s \in CoreType
      <3> DEFINE t == [core EXCEPT !.at = at, !.endpoints = noEndpoints, !.routes = noRoutes,
                                   !.streams = noIds]
      <3>1. t \in CoreType
        BY <1>0, <1>4, <1>5 DEF CoreType
      <3>2. s = [t EXCEPT !.pending = noIds, !.tombs = noTombs, !.told = noneTold, !.count = n,
                          !.strikes = noStrikes]
        BY <1>0 DEF CoreType
      <3> HIDE DEF t, s
      <3> QED BY <1>5, <3>1, <3>2 DEF CoreType
    <2> QED BY <2>1, <2>2, <2>3
  <1> HIDE DEF s, gone, held
  <1>7. /\ \A e \in Endpoint : s.endpoints[e] = 0
        /\ \A r \in Route : s.routes[r] = 0
        /\ \A c \in Conn, i \in Id : s.streams[c][i] = 0 /\ s.pending[c][i] = 0
        /\ \A c \in Conn : ~Connected(s, c)
    BY <1>a, <1>4, <1>6 DEF Connected
  <1>8. Good(s)
    <2>1. Counted(s)
      <3>1. Pend(s) = {}
        BY <1>7 DEF Pend
      <3> QED BY <1>3, <1>6, <3>1, FS_EmptySet DEF Counted
    <2> QED BY <1>6, <1>7, <2>1 DEF Good, Loose, Wired, Named, Reserves, Linked
  <1>9. Trims(core, s)
    BY <1>4, <1>6, <1>7 DEF Trims
  <1>10. core' = s /\ op' = Settled(s)
    BY <1>1 DEF Into
  <1>11. op' = [k \in Open |-> op'[k]] /\ DOMAIN op' = Open
    BY <1>10 DEF Settled
  <1>12. ConnOK' /\ \A c \in Conn : conn'[c].who = conn[c].who
    BY <1>1 DEF Tight, ConnOK
  <1>13. Tight'
    BY <1>8, <1>10, <1>11, <1>12, IntoTight
  <1>14. \A c \in Conn : s.at[c] \in {"asking", "answered"} => core.at[c] = s.at[c]
    BY <1>4, <1>6
  <1>15. Synced'
    BY <1>1, <1>6, <1>7, <1>10 DEF Fenced, Synced
  <1>16. Asked'
    <2>1. \A k \in Open : op'[k] = op[k] \/ op'[k] = Over
      BY <1>10 DEF Settled, Over
    <2>2. ASSUME NEW c \in Conn, s.at[c] \in {"asking", "answered"}
          PROVE  conn[c].epoch <= epoch + 1 /\ conn[c].mark <= s.sequence /\ conn[c].epoch # epoch + 1
      BY <1>6, <1>14, <2>2 DEF Fenced, Asked, Tight, ConnOK, ConnType
    <2> QED BY <1>1, <1>6, <1>10, <2>1, <2>2, OverType DEF Fenced, Asked
  <1>17. Answered'
    <2>1. ASSUME NEW c \in Conn, s.at[c] \in {"answered", "open", "shut", "gone"}
          PROVE  conn[c].who \in Endpoint
      BY <1>4, <1>6, <2>1 DEF Fenced, Answered, Connected
    <2>2. ASSUME NEW c \in Conn, s.at[c] = "answered"
          PROVE  /\ s.table[conn[c].who] # 0 => conn[c].mark < s.table[conn[c].who]
                 /\ conn[c].epoch # epoch + 1
      BY <1>6, <1>14, <2>2 DEF Fenced, Answered, Asked, Tight, ConnOK, ConnType
    <2> QED BY <1>1, <1>10, <2>1, <2>2 DEF Answered
  <1>18. Granted'
    <2>1. ASSUME NEW k \in Open, op'[k].phase = "granted"
          PROVE  op'[k] = op[k] /\ s.pending[op[k].src][op[k].sid] # k
      <3>1. op'[k] = op[k]
        BY <1>10, <2>1, OverType DEF Settled, Over
      <3> QED BY <1>7, <2>1, <3>1, ConnOpen DEF Tight, OpsOK
    <2> QED BY <1>6, <1>10, <2>1 DEF Fenced, Granted
  <1>19. Out'
    BY <1>1, <1>7, <1>10 DEF Fenced, Synced, Out, InUse, Handle
  <1> QED BY <1>13, <1>15, <1>16, <1>17, <1>18, <1>19 DEF Fenced
-----------------------------------------------------------------------------
(* Admissions. *)
Placed(s, c, p) == [s EXCEPT !.at[c] = p]

LEMMA PlaceType ==
  ASSUME NEW s \in CoreType, NEW c \in Conn, NEW p \in Places
  PROVE  LET t == Placed(s, c, p) IN
         /\ t \in CoreType
         /\ t.streams = s.streams /\ t.routes = s.routes /\ t.pending = s.pending
         /\ t.count = s.count /\ t.endpoints = s.endpoints
         /\ t.table = s.table /\ t.floor = s.floor /\ t.sequence = s.sequence
         /\ \A d \in Conn : t.at[d] = IF d = c THEN p ELSE s.at[d]
  <1> DEFINE at == [s.at EXCEPT ![c] = p]
             t == Placed(s, c, p)
  <1>1. at \in [Conn -> Places] /\ \A d \in Conn : at[d] = IF d = c THEN p ELSE s.at[d]
    BY DEF CoreType
  <1>2. t = [s EXCEPT !.at = at]
    BY DEF CoreType, Placed
  <1> HIDE DEF at, t
  <1>3. /\ t \in CoreType /\ t.at = at
        /\ t.streams = s.streams /\ t.routes = s.routes /\ t.pending = s.pending
        /\ t.count = s.count /\ t.endpoints = s.endpoints
        /\ t.table = s.table /\ t.floor = s.floor /\ t.sequence = s.sequence
    BY <1>1, <1>2 DEF CoreType
  <1> QED BY <1>1, <1>3 DEF t

LEMMA AskStep ==
  ASSUME Tight, Fenced, epoch \in Nat, issued \in [Endpoint -> Nat], NEW c \in Conn,
         Upgrade(c) \/ \E e \in Endpoint : EndpointGranted(c, e)
  PROVE  Tight' /\ Fenced'
  <1>0. core \in CoreType /\ conn \in [Conn -> ConnType] /\ core.sequence \in Nat
    BY DEF Tight, Good, Loose, ConnOK, CoreType
  <1>1. ASSUME Upgrade(c) PROVE Tight' /\ Fenced'
    <2>1. core' = Placed(core, c, "asking") /\ core.at[c] = "none" /\ ready
          /\ conn' = [conn EXCEPT ![c].mark = core.sequence, ![c].epoch = epoch]
          /\ UNCHANGED <<dead, owed, page, link, ready, epoch, op>>
      BY <1>1 DEF Upgrade, authority, Placed
    <2>2. /\ core' \in CoreType
          /\ core'.streams = core.streams /\ core'.routes = core.routes /\ core'.pending = core.pending
          /\ core'.count = core.count /\ core'.endpoints = core.endpoints
          /\ core'.table = core.table /\ core'.floor = core.floor /\ core'.sequence = core.sequence
          /\ \A d \in Conn : core'.at[d] = IF d = c THEN "asking" ELSE core.at[d]
      <3>1. "asking" \in Places
        BY DEF Places
      <3> QED BY <1>0, <2>1, <3>1, PlaceType
    <2>3. /\ ConnOK' /\ conn'[c].mark = core.sequence /\ conn'[c].epoch = epoch
          /\ \A d \in Conn : d # c => conn'[d] = conn[d]
      <3>1. conn[c] \in ConnType
        BY <1>0
      <3>2. [conn[c] EXCEPT !.mark = core.sequence, !.epoch = epoch] \in ConnType
        BY <1>0, <3>1 DEF ConnType
      <3>3. conn' = [conn EXCEPT ![c] = [conn[c] EXCEPT !.mark = core.sequence, !.epoch = epoch]]
        BY <1>0, <2>1
      <3>4. conn'[c] = [conn[c] EXCEPT !.mark = core.sequence, !.epoch = epoch]
        BY <1>0, <3>3
      <3>5. ConnOK' /\ \A d \in Conn : d # c => conn'[d] = conn[d]
        BY <1>0, <3>2, <3>3 DEF ConnOK
      <3> QED BY <3>1, <3>4, <3>5 DEF ConnType
    <2>4. \A d \in Conn : Connected(core', d) <=> Connected(core, d)
      BY <2>1, <2>2 DEF Connected
    <2>5. Tight'
      <3>1. \A d \in Conn : Connected(core, d) => conn'[d].who = conn[d].who
        BY <2>1, <2>3 DEF Connected
      <3> QED BY <2>1, <2>2, <2>3, <2>4, <3>1, StillTight
    <2>6. Synced' /\ Out' /\ Granted'
      BY <2>1, <2>2 DEF Fenced, Synced, Out, InUse, Granted, WasRevokedSince
    <2>7. Asked'
      BY <1>0, <2>1, <2>2, <2>3 DEF Fenced, Asked
    <2>8. Answered'
      <3>1. ASSUME NEW d \in Conn, core'.at[d] \in {"answered", "open", "shut", "gone"}
            PROVE  core.at[d] = core'.at[d] /\ conn'[d] = conn[d]
        BY <2>2, <2>3, <3>1
      <3>2. ASSUME NEW d \in Conn, core'.at[d] \in {"answered", "open", "shut", "gone"}
            PROVE  /\ conn'[d].who \in Endpoint
                   /\ core'.at[d] = "answered" =>
                        /\ core'.table[conn'[d].who] # 0 => conn'[d].mark < core'.table[conn'[d].who]
                        /\ conn'[d].epoch = epoch' /\ conn'[d].who \in dead' \ owed' =>
                             core'.table[conn'[d].who] # 0 \/ conn'[d].mark < core'.floor
        BY <2>1, <2>2, <3>1, <3>2, ZenonT(40) DEF Fenced, Answered, WasRevokedSince
      <3> QED BY <3>2 DEF Answered, WasRevokedSince
    <2> QED BY <2>5, <2>6, <2>7, <2>8 DEF Fenced
  <1>2. ASSUME NEW e \in Endpoint, EndpointGranted(c, e) PROVE Tight' /\ Fenced'
    <2>1. core' = Placed(core, c, "answered") /\ core.at[c] = "asking" /\ e \notin dead
          /\ conn' = [conn EXCEPT ![c].who = e, ![c].gen = issued[e] + 1]
          /\ UNCHANGED <<dead, owed, page, link, ready, epoch, op>>
      BY <1>2 DEF EndpointGranted, Placed
    <2>2. /\ core' \in CoreType
          /\ core'.streams = core.streams /\ core'.routes = core.routes /\ core'.pending = core.pending
          /\ core'.count = core.count /\ core'.endpoints = core.endpoints
          /\ core'.table = core.table /\ core'.floor = core.floor /\ core'.sequence = core.sequence
          /\ \A d \in Conn : core'.at[d] = IF d = c THEN "answered" ELSE core.at[d]
      <3>1. "answered" \in Places
        BY DEF Places
      <3> QED BY <1>0, <2>1, <3>1, PlaceType
    <2>3. /\ ConnOK' /\ conn'[c].who = e /\ conn'[c].mark = conn[c].mark /\ conn'[c].epoch = conn[c].epoch
          /\ \A d \in Conn : d # c => conn'[d] = conn[d]
      <3> DEFINE n == issued[e] + 1
      <3>0. n \in Nat
        OBVIOUS
      <3>1. conn[c] \in ConnType /\ conn' = [conn EXCEPT ![c].who = e, ![c].gen = n]
        BY <1>0, <2>1
      <3> HIDE DEF n
      <3>2. [conn[c] EXCEPT !.who = e, !.gen = n] \in ConnType
        BY <3>0, <3>1 DEF ConnType
      <3>3. conn' = [conn EXCEPT ![c] = [conn[c] EXCEPT !.who = e, !.gen = n]]
        BY <1>0, <3>1
      <3>4. conn'[c] = [conn[c] EXCEPT !.who = e, !.gen = n]
        BY <1>0, <3>3
      <3>5. ConnOK' /\ \A d \in Conn : d # c => conn'[d] = conn[d]
        BY <1>0, <3>2, <3>3 DEF ConnOK
      <3>6. LET z == [conn[c] EXCEPT !.who = e, !.gen = n]
            IN  z.who = e /\ z.mark = conn[c].mark /\ z.epoch = conn[c].epoch
        BY <3>1 DEF ConnType
      <3> QED BY <3>4, <3>5, <3>6
    <2>4. \A d \in Conn : Connected(core', d) <=> Connected(core, d)
      BY <2>1, <2>2 DEF Connected
    <2>5. Tight'
      <3>1. \A d \in Conn : Connected(core, d) => conn'[d].who = conn[d].who
        BY <2>1, <2>3 DEF Connected
      <3> QED BY <2>1, <2>2, <2>3, <2>4, <3>1, StillTight
    <2>6. Synced' /\ Out' /\ Granted'
      BY <2>1, <2>2 DEF Fenced, Synced, Out, InUse, Granted, WasRevokedSince
    <2>7. Asked'
      <3>1. ASSUME NEW d \in Conn, core'.at[d] \in {"asking", "answered"}
            PROVE  /\ core.at[d] \in {"asking", "answered"}
                   /\ conn'[d].epoch = conn[d].epoch /\ conn'[d].mark = conn[d].mark
        BY <2>1, <2>2, <2>3, <3>1
      <3> QED BY <2>1, <2>2, <3>1 DEF Fenced, Asked
    <2>8. Answered'
      <3>1. core.table[e] = 0
        BY <2>1 DEF Fenced, Synced, Handle
      <3>2. ASSUME NEW d \in Conn, d # c
            PROVE  core'.at[d] = core.at[d] /\ conn'[d] = conn[d]
        BY <2>2, <2>3, <3>2
      <3>3. core'.at[c] = "answered" /\ conn'[c].who = e
        BY <2>2, <2>3
      <3>4. ASSUME NEW d \in Conn, core'.at[d] \in {"answered", "open", "shut", "gone"}
            PROVE  /\ conn'[d].who \in Endpoint
                   /\ core'.at[d] = "answered" =>
                        /\ core'.table[conn'[d].who] # 0 => conn'[d].mark < core'.table[conn'[d].who]
                        /\ conn'[d].epoch = epoch' /\ conn'[d].who \in dead' \ owed' =>
                             core'.table[conn'[d].who] # 0 \/ conn'[d].mark < core'.floor
        <4>1. CASE d = c
          BY <2>1, <2>2, <3>1, <3>3, <4>1
        <4>2. CASE d # c
          BY <2>1, <2>2, <3>2, <3>4, <4>2, ZenonT(40) DEF Fenced, Answered, WasRevokedSince
        <4> QED BY <4>1, <4>2
      <3> QED BY <3>4 DEF Answered, WasRevokedSince
    <2> QED BY <2>5, <2>6, <2>7, <2>8 DEF Fenced
  <1> QED BY <1>1, <1>2

(* What finishing an admission does to its grant. *)
LEMMA FinishedConn ==
  ASSUME ConnOK, NEW c \in Conn, conn' = [conn EXCEPT ![c].mark = 0, ![c].epoch = 0]
  PROVE  /\ ConnOK' /\ conn'[c].who = conn[c].who
         /\ \A d \in Conn : d # c => conn'[d] = conn[d]
         /\ \A d \in Conn : conn'[d].who = conn[d].who
  <1> DEFINE z == [conn[c] EXCEPT !.mark = 0, !.epoch = 0]
  <1>1. z \in ConnType /\ z.who = conn[c].who
    BY DEF ConnOK, ConnType
  <1>2. conn' = [conn EXCEPT ![c] = z]
    BY DEF ConnOK
  <1> HIDE DEF z
  <1> QED BY <1>1, <1>2 DEF ConnOK

LEMMA RefusedHandles ==
  ASSUME Tight, Fenced, NEW c \in Conn, NEW s, Good(s), Trims(core, s),
         s.at[c] \notin {"asking", "answered"}, Into(s),
         conn' = [conn EXCEPT ![c].mark = 0, ![c].epoch = 0],
         UNCHANGED <<authority, ready, epoch>>
  PROVE  Tight' /\ Fenced'
  <1>1. /\ ConnOK' /\ conn'[c].who = conn[c].who /\ \A d \in Conn : d # c => conn'[d] = conn[d]
    BY FinishedConn DEF Tight
  <1>2. core' = s /\ op' = Settled(s) /\ op' = [k \in Open |-> op'[k]]
    BY DEF Into, Settled
  <1>3. UNCHANGED <<dead, page, owed, link, ready, epoch>>
    BY DEF authority
  <1> QED BY <1>1, <1>2, <1>3, Handles

LEMMA TurnedAwayStep ==
  ASSUME Tight, Fenced, NEW c \in Conn, TurnedAway(c) PROVE Tight' /\ Fenced'
  <1> DEFINE s == [core EXCEPT !.at[c] = "away"]
             t == Pruned(s, InFlight(s))
  <1>1. Good(s) /\ Trims(core, s) /\ s.at[c] = "away"
    BY AwayGood DEF TurnedAway, Tight
  <1>2. Into(t) /\ conn' = [conn EXCEPT ![c].mark = 0, ![c].epoch = 0]
        /\ UNCHANGED <<authority, ready, epoch>>
    BY DEF TurnedAway, Finished
  <1> HIDE DEF s
  <1>3. Good(t) /\ Trims(core, t) /\ t.at = s.at
    BY <1>1, PrunedGood, TrimsAgain
  <1> QED BY <1>1, <1>2, <1>3, RefusedHandles
-----------------------------------------------------------------------------
(* A revocation that is heard, and an endpoint that comes online. *)
Noted(s, h) == [s EXCEPT !.table[h] = s.sequence + 1, !.sequence = @ + 1]

LEMMA NotedGood ==
  ASSUME NEW s, Good(s), NEW h \in Handle
  PROVE  LET t == Noted(s, h) IN
         /\ Good(t)
         /\ t.at = s.at /\ t.streams = s.streams /\ t.routes = s.routes /\ t.pending = s.pending
         /\ t.endpoints = s.endpoints /\ t.floor = s.floor /\ t.sequence = s.sequence + 1
         /\ \A g \in Handle : t.table[g] = IF g = h THEN s.sequence + 1 ELSE s.table[g]
  <1> DEFINE n == s.sequence + 1
             table == [s.table EXCEPT ![h] = n]
             t == Noted(s, h)
  <1>0. s \in CoreType
    BY DEF Good, Loose
  <1>1. n \in Nat
    BY <1>0 DEF CoreType
  <1>2. t = [s EXCEPT !.table = table, !.sequence = n]
    BY <1>0 DEF Noted, CoreType
  <1> HIDE DEF n, t
  <1>3. table \in [Handle -> Nat] /\ \A g \in Handle : table[g] = IF g = h THEN n ELSE s.table[g]
    BY <1>0, <1>1 DEF CoreType
  <1> HIDE DEF table
  <1>4. /\ t \in CoreType /\ t.table = table /\ t.sequence = n /\ t.at = s.at
        /\ t.streams = s.streams /\ t.routes = s.routes /\ t.pending = s.pending
        /\ t.endpoints = s.endpoints /\ t.floor = s.floor /\ t.count = s.count
    BY <1>0, <1>1, <1>2, <1>3 DEF CoreType
  <1>5. \A k : Holds(s, k) => Holds(t, k)
    BY <1>4 DEF Holds
  <1>6. Wired(t)
    BY <1>4, <1>5 DEF Good, Loose, Wired
  <1>7. Named(t) /\ Reserves(t) /\ Counted(t) /\ Linked(t)
    BY <1>4, SameMaps DEF Good, Loose
  <1> QED BY <1>3, <1>4, <1>6, <1>7 DEF Good, Loose, t, n

LEMMA DeliversStep ==
  ASSUME Tight, Fenced, NEW h \in Handle, Delivers(h) PROVE Tight' /\ Fenced'
  <1> DEFINE t == Noted(core, h)
             s == Revoked(core, h)
  <1>0. Into(s) /\ UNCHANGED <<dead, link, ready, epoch, conn>>
    BY DEF Delivers, forwarder
  <1>1. h \in dead /\ page' \subseteq dead /\ owed' \subseteq dead /\ owed \ {h} \subseteq owed'
    BY DEF Delivers, Fenced, Synced
  <1>2. /\ Good(t)
        /\ t.at = core.at /\ t.streams = core.streams /\ t.routes = core.routes
        /\ t.pending = core.pending
        /\ t.endpoints = core.endpoints /\ t.floor = core.floor /\ t.sequence = core.sequence + 1
        /\ \A g \in Handle : t.table[g] = IF g = h THEN core.sequence + 1 ELSE core.table[g]
    BY NotedGood DEF Tight
  <1>3. s = IF h \in Route THEN CloseBindings(t, {t.routes[h]} \ {0}, {})
            ELSE IF t.endpoints[h] = 0 THEN t ELSE Unregister(t, t.endpoints[h])
    BY Zenon DEF Revoked, Noted
  <1> HIDE DEF t, s
  <1>4. Good(s) /\ Trims(t, s) /\ (h \in Route => s.routes[h] = 0)
        /\ (h \notin Route => s.endpoints[h] = 0)
    <2>1. CASE h \in Route
      <3> DEFINE B == {t.routes[h]} \ {0}
                 u == CloseBindings(t, B, {})
      <3>1. \A k \in B : /\ k = t.routes[h] /\ k \in Alive /\ Holds(t, k) /\ k # 0
                         /\ op[k].src \in Conn /\ op[k].sid \in Id
        BY <1>2, <2>1 DEF Good, Loose, Wired, Tight, OpsOK, Alive
      <3>2. B \in SUBSET Alive /\ \A k \in B : Holds(t, k)
        BY <3>1
      <3> HIDE DEF B
      <3>3. /\ Loose(u) /\ Trims(t, u) /\ (Linked(t) => Linked(u))
            /\ \A k \in B : \A g \in Legs(k) : u.streams[g[1]][g[2]] = 0
        <4>1. OpsOK /\ Loose(t)
          BY <1>2 DEF Tight, Good
        <4> QED BY <3>2, <4>1, CloseGood
      <3>4. s = u
        BY <1>3, <2>1 DEF B
      <3> HIDE DEF u
      <3>5. u.routes[h] = 0
        <4> SUFFICES ASSUME u.routes[h] # 0 PROVE FALSE
          OBVIOUS
        <4>1. u.routes[h] = t.routes[h]
          BY <2>1, <3>3 DEF Trims
        <4>2. t.routes[h] \in B
          BY <4>1 DEF B
        <4>3. Holds(u, t.routes[h])
          BY <2>1, <3>3, <4>1 DEF Loose, Wired
        <4>4. u.streams[op[t.routes[h]].src][op[t.routes[h]].sid] = 0
          BY <3>3, <4>2 DEF Legs
        <4> QED BY <3>1, <4>2, <4>3, <4>4 DEF Holds
      <3> QED BY <1>2, <2>1, <3>3, <3>4, <3>5 DEF Good
    <2>2. CASE h \notin Route /\ t.endpoints[h] = 0
      BY <1>2, <1>3, <2>2, TrimsSame
    <2>3. CASE h \notin Route /\ t.endpoints[h] # 0
      <3> DEFINE c == t.endpoints[h]
      <3>1. h \in Endpoint /\ c \in Conn /\ c # 0
        BY <1>2, <2>3 DEF Handle, Good, Loose, CoreType
      <3>2. s = Unregister(t, c)
        BY <1>3, <2>3
      <3>3. Good(s) /\ Trims(t, s) /\ ~Connected(s, c)
        BY <1>2, <3>1, <3>2, UnregisterGood DEF Tight
      <3>4. s.endpoints[h] # c
        BY <3>1, <3>3 DEF Good, Loose, Named
      <3>5. s.endpoints[h] = 0
        BY <3>1, <3>3, <3>4 DEF Trims
      <3> QED BY <2>3, <3>3, <3>5
    <2> QED BY <2>1, <2>2, <2>3
  <1>5. core' = s /\ op' = Settled(s) /\ op' = [k \in Open |-> op'[k]]
    BY <1>0 DEF Into, Settled
  <1>6. ConnOK' /\ \A c \in Conn : conn'[c].who = conn[c].who
    BY <1>0 DEF Tight, ConnOK
  <1>7. Tight'
    BY <1>4, <1>5, <1>6, IntoTight
  <1>8. /\ s.table = t.table /\ s.floor = core.floor /\ s.sequence = core.sequence + 1
        /\ \A e \in Endpoint : s.endpoints[e] \in {core.endpoints[e], 0}
        /\ \A r \in Route : s.routes[r] \in {core.routes[r], 0}
        /\ \A c \in Conn, i \in Id : s.pending[c][i] \in {core.pending[c][i], 0}
        /\ \A c \in Conn : \/ s.at[c] = core.at[c]
                           \/ Connected(core, c) /\ s.at[c] = "gone"
                           \/ core.at[c] \in {"asking", "answered"} /\ s.at[c] = "away"
    BY <1>2, <1>4 DEF Trims, Connected
  <1>9. /\ core.sequence \in Nat
        /\ \A g \in Handle : s.table[g] = IF g = h THEN core.sequence + 1 ELSE core.table[g]
    BY <1>2, <1>8 DEF Tight, Good, Loose, CoreType
  <1>10. Synced'
    <2>1. ~ready => /\ \A e \in Endpoint : s.endpoints[e] = 0
                    /\ \A r \in Route : s.routes[r] = 0
                    /\ \A c \in Conn, i \in Id : s.pending[c][i] = 0
      BY <1>8 DEF Fenced, Synced
    <2>2. \A g \in Handle : s.table[g] # 0 => g \in dead
      BY <1>1, <1>9 DEF Fenced, Synced
    <2> QED BY <1>0, <1>1, <1>5, <2>1, <2>2 DEF Fenced, Synced
  <1>11. \A k \in Open : op'[k].phase \in {"asking", "granted"} => op'[k] = op[k]
    BY <1>5 DEF Settled, None
  <1>12. Asked'
    <2>1. ASSUME NEW c \in Conn, s.at[c] \in {"asking", "answered"}
          PROVE  core.at[c] = s.at[c] /\ conn[c].mark \in Nat
      BY <1>8, <2>1 DEF Tight, ConnOK, ConnType
    <2>2. ASSUME NEW c \in Conn, s.at[c] \in {"asking", "answered"}
          PROVE  conn[c].epoch <= epoch /\ conn[c].mark <= s.sequence /\ (~ready => conn[c].epoch # epoch)
      BY <1>8, <1>9, <2>1, <2>2 DEF Fenced, Asked
    <2>3. ASSUME NEW k \in Open, op'[k].phase \in {"asking", "granted"}
          PROVE  op'[k].mark <= s.sequence
      <3>1. op[k].mark \in Nat /\ op[k].mark <= core.sequence /\ op'[k] = op[k]
        BY <1>11, <2>3 DEF Fenced, Asked, Tight, OpsOK, OpType
      <3> QED BY <1>8, <1>9, <3>1
    <2> QED BY <1>0, <1>5, <2>2, <2>3 DEF Asked
  <1>13. \A g \in dead' \ owed' : g = h \/ g \in dead \ owed
    BY <1>0, <1>1
  <1>14. ASSUME NEW g \in Handle, NEW mark \in Nat, mark <= core.sequence,
                core.table[g] # 0 => mark < core.table[g]
         PROVE  /\ s.table[g] # 0 => mark < s.table[g]
                /\ g = h \/ WasRevokedSince(core, g, mark) => s.table[g] # 0 \/ mark < s.floor
    <2>1. CASE g = h
      BY <1>9, <1>14, <2>1
    <2>2. CASE g # h
      BY <1>8, <1>9, <1>14, <2>2 DEF WasRevokedSince
    <2> QED BY <2>1, <2>2
  <1>15. Answered'
    <2>1. ASSUME NEW c \in Conn, s.at[c] \in {"answered", "open", "shut", "gone"}
          PROVE  conn[c].who \in Endpoint
      BY <1>8, <2>1 DEF Fenced, Answered, Connected
    <2>2. ASSUME NEW c \in Conn, s.at[c] = "answered"
          PROVE  /\ s.table[conn[c].who] # 0 => conn[c].mark < s.table[conn[c].who]
                 /\ conn[c].epoch = epoch /\ conn[c].who \in dead' \ owed' =>
                      s.table[conn[c].who] # 0 \/ conn[c].mark < s.floor
      <3>1. core.at[c] = "answered" /\ conn[c].who \in Handle /\ conn[c].mark \in Nat
        BY <1>8, <2>1, <2>2 DEF Tight, ConnOK, ConnType, Handle
      <3>2. conn[c].mark <= core.sequence
            /\ (core.table[conn[c].who] # 0 => conn[c].mark < core.table[conn[c].who])
            /\ (conn[c].epoch = epoch /\ conn[c].who \in dead \ owed =>
                  WasRevokedSince(core, conn[c].who, conn[c].mark))
        BY <3>1 DEF Fenced, Asked, Answered
      <3> QED BY <1>13, <1>14, <3>1, <3>2
    <2> QED BY <1>0, <1>5, <2>1, <2>2 DEF Answered, WasRevokedSince
  <1>16. Granted'
    <2>1. ASSUME NEW k \in Open, op'[k].phase = "granted"
          PROVE  /\ s.table[op'[k].route] # 0 => op'[k].mark < s.table[op'[k].route]
                 /\ s.pending[op'[k].src][op'[k].sid] = k /\ op'[k].route \in dead' \ owed' =>
                      s.table[op'[k].route] # 0 \/ op'[k].mark < s.floor
      <3>1. op'[k] = op[k]
        BY <1>11, <2>1
      <3>2. op[k].mark \in Nat /\ op[k].route \in Handle /\ op[k].src \in Conn /\ op[k].sid \in Id /\ k # 0
        BY <2>1, <3>1, ConnOpen DEF Tight, OpsOK, OpType, Handle
      <3>3. op[k].mark <= core.sequence
            /\ (core.table[op[k].route] # 0 => op[k].mark < core.table[op[k].route])
            /\ (core.pending[op[k].src][op[k].sid] = k /\ op[k].route \in dead \ owed =>
                  WasRevokedSince(core, op[k].route, op[k].mark))
        BY <2>1, <3>1 DEF Fenced, Asked, Granted
      <3>4. s.pending[op[k].src][op[k].sid] = k => core.pending[op[k].src][op[k].sid] = k
        BY <1>8, <3>2
      <3> QED BY <1>13, <1>14, <3>1, <3>2, <3>3, <3>4
    <2> QED BY <1>5, <2>1 DEF Granted, WasRevokedSince
  <1>17. Out'
    <2>1. ASSUME NEW g \in dead' \ owed'
          PROVE  IF g \in Route THEN s.routes[g] = 0 ELSE s.endpoints[g] = 0
      <3>1. g \in Handle
        BY <1>0 DEF Fenced, Synced
      <3>2. CASE g = h
        BY <1>4, <3>2
      <3>3. CASE g # h
        BY <1>8, <1>13, <3>1, <3>3 DEF Fenced, Out, InUse, Handle
      <3> QED BY <3>2, <3>3
    <2> QED BY <1>5, <2>1 DEF Out, InUse
  <1> QED BY <1>7, <1>10, <1>12, <1>15, <1>16, <1>17 DEF Fenced
(* The endpoint takes the place that is free. *)
Online(s, c) == [s EXCEPT !.at[c] = "open", !.endpoints[conn[c].who] = c]

LEMMA PutOnline ==
  ASSUME ConnOK, NEW s, Good(s), NEW c \in Conn, ~Connected(s, c), conn[c].who \in Endpoint,
         s.endpoints[conn[c].who] = 0
  PROVE  LET t == Online(s, c) IN
         /\ Good(t)
         /\ t.table = s.table /\ t.floor = s.floor /\ t.sequence = s.sequence
         /\ t.routes = s.routes /\ t.pending = s.pending
         /\ \A d \in Conn : t.at[d] = IF d = c THEN "open" ELSE s.at[d]
         /\ \A x \in Endpoint : t.endpoints[x] = IF x = conn[c].who THEN c ELSE s.endpoints[x]
  <1> DEFINE e == conn[c].who
             at == [s.at EXCEPT ![c] = "open"]
             endpoints == [s.endpoints EXCEPT ![e] = c]
             t == Online(s, c)
  <1>0. s \in CoreType /\ e \in Endpoint
    BY DEF Good, Loose
  <1>1. t = [s EXCEPT !.at = at, !.endpoints = endpoints]
    BY <1>0 DEF CoreType, Online
  <1> HIDE DEF e, t
  <1>2. at \in [Conn -> Places] /\ \A d \in Conn : at[d] = IF d = c THEN "open" ELSE s.at[d]
    BY <1>0 DEF CoreType, Places
  <1>3. endpoints \in [Endpoint -> Conn \cup {0}]
        /\ \A x \in Endpoint : endpoints[x] = IF x = e THEN c ELSE s.endpoints[x]
    BY <1>0 DEF CoreType
  <1> HIDE DEF at, endpoints
  <1>4. /\ t \in CoreType /\ t.at = at /\ t.endpoints = endpoints
        /\ t.table = s.table /\ t.floor = s.floor /\ t.sequence = s.sequence
        /\ t.routes = s.routes /\ t.pending = s.pending /\ t.streams = s.streams /\ t.count = s.count
    BY <1>0, <1>1, <1>2, <1>3, ZenonT(40) DEF CoreType
  <1>5. Wired(t)
    <2>1. \A k : Holds(s, k) => Holds(t, k)
      BY <1>4 DEF Holds
    <2> QED BY <1>4, <2>1 DEF Good, Loose, Wired
  <1>6. Reserves(t) /\ Counted(t)
    BY <1>4 DEF Good, Loose, Reserves, Counted, Pend
  <1>7. \A d \in Conn : Connected(t, d) <=> d = c \/ Connected(s, d)
    BY <1>2, <1>4 DEF Connected
  <1>8. Linked(t)
    BY <1>4, <1>7 DEF Good, Linked
  <1>9. Named(t)
    <2>1. ASSUME NEW d \in Conn, Connected(t, d)
          PROVE  conn[d].who \in Endpoint /\ t.endpoints[conn[d].who] = d
      <3>1. CASE d = c
        BY <1>0, <1>3, <1>4, <3>1 DEF e
      <3>2. CASE d # c
        <4>1. conn[d].who \in Endpoint /\ s.endpoints[conn[d].who] = d /\ d # 0
          BY <1>7, <2>1, <3>2, ConnOpen DEF Good, Loose, Named
        <4>2. conn[d].who # e
          BY <4>1 DEF e
        <4> QED BY <1>3, <1>4, <4>1, <4>2
      <3> QED BY <3>1, <3>2
    <2>2. ASSUME NEW x \in Endpoint, t.endpoints[x] # 0
          PROVE  Connected(t, t.endpoints[x]) /\ conn[t.endpoints[x]].who = x
      <3>1. CASE x = e
        BY <1>3, <1>4, <1>7, <3>1 DEF e
      <3>2. CASE x # e
        <4>1. t.endpoints[x] = s.endpoints[x]
          BY <1>3, <1>4, <3>2
        <4>2. s.endpoints[x] \in Conn /\ Connected(s, s.endpoints[x]) /\ conn[s.endpoints[x]].who = x
          BY <1>0, <2>2, <4>1 DEF Good, Loose, Named, CoreType
        <4> QED BY <1>7, <4>1, <4>2
      <3> QED BY <3>1, <3>2
    <2> QED BY <2>1, <2>2 DEF Named
  <1> QED BY <1>2, <1>3, <1>4, <1>5, <1>6, <1>8, <1>9 DEF Good, Loose, e, t

LEMMA RegisterStep ==
  ASSUME Tight, Fenced, NEW c \in Conn, Register(c) PROVE Tight' /\ Fenced'
  <1> DEFINE e == conn[c].who
             t == Pruned(core, InFlight(core))
             old == t.endpoints[e]
             fence == [gen |-> conn[c].gen, seq |-> Begun(t)]
             fenced == [t EXCEPT !.fences[e] = fence]
             freed == IF old = 0 THEN fenced ELSE Unregister(fenced, old)
             away == [t EXCEPT !.at[c] = "away"]
             open == Online(freed, c)
             refuse == \/ WasRevokedSince(t, e, conn[c].mark)
                       \/ t.fences[e].gen # 0 /\ conn[c].gen <= t.fences[e].gen
                       \/ t.fences[e].gen = 0 /\ Cardinality(Fences(t)) >= lim["fences"]
  <1>1. /\ core.at[c] = "answered" /\ Admitted(c)
        /\ Into(Finished(Registers(core, c)))
        /\ conn' = [conn EXCEPT ![c].mark = 0, ![c].epoch = 0]
        /\ UNCHANGED <<authority, ready, epoch>>
    BY Zenon DEF Register
  <1>2. Registers(core, c) = IF refuse THEN away ELSE open
    BY Zenon DEF Registers, Online
  <1>3. e \in Endpoint /\ conn[c] \in ConnType
    BY <1>1 DEF Fenced, Answered, Tight, ConnOK
  <1>4. Good(t) /\ Trims(core, t) /\ t.at = core.at /\ t.endpoints = core.endpoints
    BY PrunedGood DEF Tight
  <1> HIDE DEF e, t
  <1>5. CASE refuse
    <2> DEFINE v == Pruned(away, InFlight(away))
    <2>1. Good(away) /\ Trims(t, away) /\ away.at[c] = "away"
      BY <1>1, <1>4, AwayGood
    <2> HIDE DEF away
    <2>2. Good(v) /\ Trims(core, v) /\ v.at = away.at
      BY <1>4, <2>1, PrunedGood, TrimsAgain
    <2>3. Into(v)
      BY <1>1, <1>2, <1>5, Zenon DEF Finished
    <2> HIDE DEF v
    <2> QED BY <1>1, <2>1, <2>2, <2>3, RefusedHandles
  <1>6. CASE ~refuse
    <2>1. Good(fenced) /\ Trims(t, fenced) /\ fenced.endpoints = t.endpoints
      <3>0. t \in CoreType
        BY <1>4 DEF Good, Loose
      <3>1. fence \in [gen : Nat, seq : Nat]
        BY <1>3, Counts DEF ConnType
      <3> HIDE DEF fence
      <3>2. [t.fences EXCEPT ![e] = fence] \in [Endpoint -> [gen : Nat, seq : Nat]]
        BY <3>0, <3>1 DEF CoreType
      <3>3. /\ fenced \in CoreType /\ fenced.at = t.at /\ fenced.endpoints = t.endpoints
            /\ fenced.routes = t.routes /\ fenced.streams = t.streams /\ fenced.table = t.table
            /\ fenced.floor = t.floor /\ fenced.sequence = t.sequence /\ fenced.pending = t.pending
            /\ fenced.count = t.count
        BY <3>0, <3>2 DEF CoreType
      <3> HIDE DEF fenced
      <3> QED BY <1>4, <3>3, GoodTrimmed, Uncounted
    <2> HIDE DEF fence, fenced
    <2>2. Good(freed) /\ Trims(fenced, freed) /\ freed.endpoints[e] = 0
      <3>1. CASE old = 0
        BY <2>1, <3>1, TrimsSame
      <3>2. CASE old # 0
        <4>1. old \in Conn
          BY <1>3, <1>4, <3>2 DEF Good, Loose, CoreType
        <4>2. freed = Unregister(fenced, old)
          BY <3>2
        <4>3. Good(freed) /\ Trims(fenced, freed) /\ ~Connected(freed, old)
          BY <2>1, <4>1, <4>2, UnregisterGood DEF Tight
        <4>4. freed.endpoints[e] # old
          BY <1>3, <3>2, <4>3 DEF Good, Loose, Named
        <4>5. freed.endpoints[e] \in {old, 0}
          BY <1>3, <2>1, <4>3 DEF Trims
        <4> QED BY <4>3, <4>4, <4>5
      <3> QED BY <3>1, <3>2
    <2> HIDE DEF freed
    <2>3. Trims(core, freed)
      BY <1>4, <2>1, <2>2, TrimsAgain
    <2>4. ~Connected(freed, c)
      BY <1>1, <2>3 DEF Trims, Connected
    <2>5. /\ Good(open)
          /\ open.table = freed.table /\ open.floor = freed.floor /\ open.sequence = freed.sequence
          /\ open.routes = freed.routes /\ open.pending = freed.pending
          /\ \A d \in Conn : open.at[d] = IF d = c THEN "open" ELSE freed.at[d]
          /\ \A x \in Endpoint : open.endpoints[x] = IF x = e THEN c ELSE freed.endpoints[x]
      BY <1>3, <2>2, <2>4, PutOnline DEF Tight, e
    <2> HIDE DEF open
    <2> DEFINE v == Pruned(open, InFlight(open))
    <2>6. Good(v) /\ Trims(open, v) /\ v.at = open.at /\ v.endpoints = open.endpoints
      BY <2>5, PrunedGood
    <2>7. Into(v)
      BY <1>1, <1>2, <1>6, Zenon DEF Finished
    <2> HIDE DEF v
    <2>8. /\ v.table = core.table /\ v.floor = core.floor /\ v.sequence = core.sequence
          /\ \A x \in Endpoint : v.endpoints[x] \in {core.endpoints[x], 0} \/ x = e
          /\ \A r \in Route : v.routes[r] \in {core.routes[r], 0}
          /\ \A d \in Conn, i \in Id : v.pending[d][i] \in {core.pending[d][i], 0}
          /\ \A d \in Conn : \/ d = c \/ v.at[d] = core.at[d]
                             \/ Connected(core, d) /\ v.at[d] = "gone"
                             \/ v.at[d] = "away"
          /\ v.at[c] = "open"
      <3>1. /\ v.table = core.table /\ v.floor = core.floor /\ v.sequence = core.sequence
            /\ \A r \in Route : v.routes[r] \in {core.routes[r], 0}
            /\ \A d \in Conn, i \in Id : v.pending[d][i] \in {core.pending[d][i], 0}
        BY <2>3, <2>5, <2>6 DEF Trims
      <3>2. \A x \in Endpoint : v.endpoints[x] \in {core.endpoints[x], 0} \/ x = e
        BY <2>3, <2>5, <2>6 DEF Trims
      <3>3. \A d \in Conn : \/ freed.at[d] = core.at[d]
                            \/ Connected(core, d) /\ freed.at[d] = "gone"
                            \/ freed.at[d] = "away"
        BY <2>3 DEF Trims
      <3> QED BY <2>5, <2>6, <3>1, <3>2, <3>3
    <2>9. core' = v /\ op' = Settled(v) /\ op' = [k \in Open |-> op'[k]] /\ DOMAIN op' = Open
      BY <2>7 DEF Into, Settled
    <2>10. UNCHANGED <<dead, page, owed, link, ready, epoch>>
      BY <1>1 DEF authority
    <2>11. ConnOK' /\ \A d \in Conn : conn'[d].who = conn[d].who /\ (d # c => conn'[d] = conn[d])
      BY <1>1, FinishedConn DEF Tight
    <2>12. Tight'
      BY <2>6, <2>9, <2>11, IntoTight
    <2>13. ready /\ conn[c].epoch = epoch
      BY <1>1 DEF Admitted
    <2>14. e \notin dead \ owed
      <3>1. ~WasRevokedSince(core, e, conn[c].mark)
        BY <1>4, <1>6 DEF Trims, WasRevokedSince
      <3> QED BY <1>1, <2>13, <3>1 DEF Fenced, Answered, e
    <2>15. Synced'
      BY <2>8, <2>9, <2>10, <2>13 DEF Fenced, Synced
    <2>16. \A k \in Open : op'[k].phase \in {"asking", "granted"} => op'[k] = op[k]
      BY <2>9 DEF Settled, None
    <2>17. ASSUME NEW d \in Conn, v.at[d] \in {"asking", "answered"}
           PROVE  d # c /\ core.at[d] = v.at[d] /\ conn'[d] = conn[d]
      BY <2>8, <2>11, <2>17
    <2>18. Asked'
      BY <2>8, <2>9, <2>10, <2>16, <2>17 DEF Fenced, Asked
    <2>19. Answered'
      <3>1. ASSUME NEW d \in Conn, v.at[d] \in {"answered", "open", "shut", "gone"}
            PROVE  conn'[d].who \in Endpoint
        <4>1. core.at[d] \in {"answered", "open", "shut", "gone"}
          BY <1>1, <2>8, <3>1 DEF Connected
        <4> QED BY <2>11, <4>1 DEF Fenced, Answered
      <3>2. ASSUME NEW d \in Conn, v.at[d] = "answered"
            PROVE  /\ v.table[conn'[d].who] # 0 => conn'[d].mark < v.table[conn'[d].who]
                   /\ conn'[d].epoch = epoch /\ conn'[d].who \in dead \ owed =>
                        v.table[conn'[d].who] # 0 \/ conn'[d].mark < v.floor
        BY <2>8, <2>17, <3>2 DEF Fenced, Answered, WasRevokedSince
      <3> QED BY <2>9, <2>10, <3>1, <3>2 DEF Answered, WasRevokedSince
    <2>20. Granted'
      <3>1. ASSUME NEW k \in Open, op'[k].phase = "granted"
            PROVE  /\ v.table[op'[k].route] # 0 => op'[k].mark < v.table[op'[k].route]
                   /\ v.pending[op'[k].src][op'[k].sid] = k /\ op'[k].route \in dead \ owed =>
                        v.table[op'[k].route] # 0 \/ op'[k].mark < v.floor
        <4>1. op'[k] = op[k]
          BY <2>16, <3>1
        <4>2. op[k].src \in Conn /\ op[k].sid \in Id /\ k # 0
          BY <3>1, <4>1, ConnOpen DEF Tight, OpsOK
        <4> QED BY <2>8, <3>1, <4>1, <4>2 DEF Fenced, Granted, WasRevokedSince
      <3> QED BY <2>9, <2>10, <3>1 DEF Granted, WasRevokedSince
    <2>21. Out'
      <3>1. ASSUME NEW g \in dead \ owed
            PROVE  IF g \in Route THEN v.routes[g] = 0 ELSE v.endpoints[g] = 0
        BY <2>8, <2>14, <3>1 DEF Fenced, Synced, Out, InUse, Handle
      <3> QED BY <2>9, <2>10, <3>1 DEF Out, InUse
    <2> QED BY <2>12, <2>15, <2>18, <2>19, <2>20, <2>21 DEF Fenced
  <1> QED BY <1>5, <1>6
-----------------------------------------------------------------------------
(* The invariant. *)
Basics ==
  /\ may \in [Kinds -> Nat] /\ lim \in [Limits -> Nat]
  /\ issued \in [Endpoint -> Nat] /\ lapsed \in [Endpoint -> Nat]
  /\ link \in {"down", "syncing", "up"} /\ ready \in BOOLEAN /\ epoch \in Nat
IInv == Basics /\ Tight /\ Fenced

LEMMA InitInv == Init => IInv
  <1> SUFFICES ASSUME Init PROVE IInv
    OBVIOUS
  <1>1. Basics
    <2>1. may \in [Kinds -> Nat] /\ lim \in [Limits -> Nat]
      BY RelayFabricAssumption DEF Init
    <2> QED BY <2>1 DEF Init, Basics
  <1>2. /\ op \in [Open -> OpType] /\ \A k \in Open : op[k].phase = "none"
    <2>1. None \in OpType /\ None.phase = "none"
      BY ConnOpen DEF None, OpType, Phases
    <2> QED BY <2>1 DEF Init
  <1>3. ConnOK
    <2>1. NoConn \in ConnType
      BY DEF NoConn, ConnType
    <2> QED BY <2>1 DEF Init, ConnOK
  <1>4. /\ core \in CoreType
        /\ \A c \in Conn : core.at[c] = "none"
        /\ \A e \in Endpoint : core.endpoints[e] = 0
        /\ \A r \in Route : core.routes[r] = 0
        /\ \A h \in Handle : core.table[h] = 0
        /\ \A c \in Conn, i \in Id : core.streams[c][i] = 0 /\ core.pending[c][i] = 0
        /\ core.count = 0
    <2> DEFINE at == [c \in Conn |-> "none"]
               endpoints == [e \in Endpoint |-> 0]
               fences == [e \in Endpoint |-> [gen |-> 0, seq |-> 0]]
               table == [h \in Handle |-> 0]
               routes == [r \in Route |-> 0]
               ids == [c \in Conn |-> Blank(0)]
               tombs == [c \in Conn |-> Blank(-1)]
               told == [c \in Conn |-> {}]
               strikes == [c \in Conn |-> 0]
    <2>1. core = [at |-> at, endpoints |-> endpoints, fences |-> fences, table |-> table,
                  floor |-> 0, sequence |-> 0, routes |-> routes, streams |-> ids,
                  pending |-> ids, tombs |-> tombs, told |-> told, count |-> 0,
                  strikes |-> strikes]
      BY DEF Init
    <2>2. /\ at \in [Conn -> Places] /\ endpoints \in [Endpoint -> Conn \cup {0}]
          /\ fences \in [Endpoint -> [gen : Nat, seq : Nat]] /\ table \in [Handle -> Nat]
          /\ routes \in [Route -> Open \cup {0}] /\ ids \in [Conn -> [Id -> Open \cup {0}]]
          /\ tombs \in [Conn -> [Id -> -1..LateMax]] /\ told \in [Conn -> SUBSET Id]
          /\ strikes \in [Conn -> Nat]
      BY ConnOpen DEF Places, Blank
    <2>3. \A c \in Conn, i \in Id : ids[c][i] = 0
      BY DEF Blank
    <2>4. /\ \A c \in Conn : at[c] = "none"
          /\ \A e \in Endpoint : endpoints[e] = 0
          /\ \A r \in Route : routes[r] = 0
          /\ \A h \in Handle : table[h] = 0
      OBVIOUS
    <2> HIDE DEF at, endpoints, fences, table, routes, ids, tombs, told, strikes
    <2>5. core \in CoreType
      BY <2>1, <2>2 DEF CoreType
    <2> QED BY <2>1, <2>3, <2>4, <2>5
  <1>5. Alive = {}
    BY <1>2 DEF Alive
  <1>6. Counted(core)
    <2>1. Pend(core) = {}
      BY <1>4 DEF Pend
    <2> QED BY <1>4, <2>1, FS_EmptySet DEF Counted
  <1>7. \A c \in Conn : ~Connected(core, c)
    BY <1>4 DEF Connected
  <1>8. Tight
    BY <1>2, <1>3, <1>4, <1>5, <1>6, <1>7
       DEF Tight, OpsOK, Good, Loose, Wired, Named, Reserves, Linked
  <1>9. Fenced
    <2>1. dead = {} /\ page = {} /\ owed = {} /\ link = "down" /\ ~ready
      BY DEF Init
    <2> QED BY <1>2, <1>4, <2>1 DEF Fenced, Synced, Asked, Answered, Granted, Out
  <1> QED BY <1>1, <1>8, <1>9 DEF IInv

LEMMA Spent ==
  ASSUME Basics, NEW kind, Spend(kind) PROVE may' \in [Kinds -> Nat]
  <1>1. may \in [Kinds -> Nat] /\ may[kind] > 0 /\ may' = [may EXCEPT ![kind] = @ - 1]
    BY DEF Basics, Spend, Can
  <1>2. CASE kind \in Kinds
    <2>1. may[kind] - 1 \in Nat
      BY <1>1, <1>2
    <2> QED BY <1>1, <2>1
  <1>3. CASE kind \notin Kinds
    BY <1>1, <1>3
  <1> QED BY <1>2, <1>3

LEMMA BasicsStep == Basics /\ [Next]_vars => Basics'
  <1> SUFFICES ASSUME Basics, [Next]_vars PROVE Basics'
    OBVIOUS
  <1> USE DEF authority, forwarder, Stays
  <1>1. CASE UNCHANGED vars
    BY <1>1 DEF vars, Basics
  <1>2. CASE LinkConnects \/ Synchronized \/ LinkDrops
    <2>1. CASE LinkConnects \/ Synchronized
      BY <2>1 DEF LinkConnects, Synchronized, Basics
    <2>2. CASE LinkDrops
      <3>1. /\ Spend("outage") /\ link' = "down" /\ ready' = FALSE /\ epoch' = epoch + 1
            /\ UNCHANGED <<lim, issued, lapsed>>
        BY <2>2, Zenon DEF LinkDrops
      <3>2. may' \in [Kinds -> Nat]
        BY <3>1, Spent
      <3>3. epoch' \in Nat
        BY <3>1 DEF Basics
      <3>4. ready' \in BOOLEAN /\ link' \in {"down", "syncing", "up"}
        BY <3>1, Zenon
      <3>5. /\ lim' \in [Limits -> Nat] /\ issued' \in [Endpoint -> Nat]
            /\ lapsed' \in [Endpoint -> Nat]
        BY <3>1 DEF Basics
      <3> QED BY <3>2, <3>3, <3>4, <3>5 DEF Basics
    <2> QED BY <1>2, <2>1, <2>2
  <1>3. ASSUME NEW h \in Handle, Revoke(h) \/ Delivers(h) \/ RevocationAges(h) PROVE Basics'
    <2>1. may' \in [Kinds -> Nat]
      BY <1>3, Spent DEF Revoke, Delivers, RevocationAges, Basics
    <2> QED BY <1>3, <2>1 DEF Revoke, Delivers, RevocationAges, Basics
  <1>4. ASSUME NEW e \in Endpoint, Lapse(e) PROVE Basics'
    <2>1. may' \in [Kinds -> Nat]
      BY <1>4, Spent DEF Lapse
    <2> QED BY <1>4, <2>1 DEF Lapse, Basics
  <1>5. ASSUME NEW c \in Conn, NEW e \in Endpoint, EndpointGranted(c, e) PROVE Basics'
    BY <1>5 DEF EndpointGranted, Basics
  <1>6. ASSUME NEW c \in Conn,
               \/ Upgrade(c) \/ Register(c) \/ TurnedAway(c)
               \/ Leaves(c) \/ Shuts(c) \/ EndpointExpires(c)
        PROVE  Basics'
    <2>1. may' \in [Kinds -> Nat]
      BY <1>6, Spent DEF Upgrade, Register, TurnedAway, Leaves, Shuts, EndpointExpires, Basics
    <2> QED BY <1>6, <2>1 DEF Upgrade, Register, TurnedAway, Leaves, Shuts, EndpointExpires, Basics
  <1>7. ASSUME NEW c \in Conn, NEW i \in Id,
               \/ \E k \in Open : OpenReserves(c, i, k)
               \/ OpenRejected(c, i) \/ OpenAgain(c, i) \/ OpenOvertaken(c, i)
               \/ Accept(c, i) \/ DataUndrained(c, i) \/ Fin(c, i) \/ Reset(c, i)
               \/ Violates(c, i) \/ LateFrame(c, i) \/ TombExpires(c, i)
        PROVE  Basics'
    <2>1. /\ UNCHANGED <<lim, authority, forwarder>>
          /\ (may' = may \/ \E kind \in Kinds : Spend(kind))
      <3>1. \A s : Struck(s, c) => UNCHANGED <<lim, authority, forwarder>> /\ Spend("rogue")
        BY DEF Struck
      <3>2. "rogue" \in Kinds /\ "open" \in Kinds
        BY DEF Kinds
      <3>3. CASE \E k \in Open : OpenReserves(c, i, k)
        BY <3>2, <3>3 DEF OpenReserves
      <3>4. CASE OpenRejected(c, i) \/ OpenAgain(c, i) \/ OpenOvertaken(c, i)
        BY <3>1, <3>2, <3>4 DEF OpenRejected, OpenAgain, OpenOvertaken
      <3>5. CASE Accept(c, i) \/ DataUndrained(c, i) \/ Fin(c, i) \/ Reset(c, i)
        BY <3>5 DEF Accept, DataUndrained, Fin, Reset
      <3>6. CASE Violates(c, i) \/ LateFrame(c, i) \/ TombExpires(c, i)
        BY <3>1, <3>2, <3>6 DEF Violates, LateFrame, TombExpires
      <3> QED BY <1>7, <3>3, <3>4, <3>5, <3>6
    <2>2. may' \in [Kinds -> Nat]
      BY <2>1, Spent DEF Basics
    <2> QED BY <2>1, <2>2 DEF Basics
  <1>8. ASSUME NEW k \in Open,
               \/ Ages(k) \/ RouteRefused(k) \/ OpenAbandoned(k)
               \/ OpenFails(k) \/ OpenBinds(k) \/ BindingExpires(k)
               \/ \E e \in Endpoint, r \in Route : RouteGranted(k, e, r)
        PROVE  Basics'
    <2>1. /\ UNCHANGED <<lim, authority, forwarder>>
          /\ (may' = may \/ \E kind \in Kinds : Spend(kind))
      <3>1. "lapse" \in Kinds /\ "error" \in Kinds
        BY DEF Kinds
      <3>2. CASE Ages(k) \/ RouteRefused(k) \/ OpenAbandoned(k)
        BY <3>1, <3>2 DEF Ages, RouteRefused, OpenAbandoned
      <3>3. CASE OpenFails(k) \/ OpenBinds(k) \/ BindingExpires(k)
        BY <3>3, Zenon DEF OpenFails, OpenBinds, BindingExpires
      <3>4. CASE \E e \in Endpoint, r \in Route : RouteGranted(k, e, r)
        BY <3>4 DEF RouteGranted
      <3> QED BY <1>8, <3>2, <3>3, <3>4
    <2>2. may' \in [Kinds -> Nat]
      BY <2>1, Spent DEF Basics
    <2> QED BY <2>1, <2>2 DEF Basics
  <1> QED BY <1>1, <1>2, <1>3, <1>4, <1>5, <1>6, <1>7, <1>8 DEF Next

LEMMA StepInv == IInv /\ [Next]_vars => IInv'
  <1> SUFFICES ASSUME IInv, [Next]_vars PROVE IInv'
    OBVIOUS
  <1>0. Basics' /\ Tight /\ Fenced /\ epoch \in Nat /\ issued \in [Endpoint -> Nat]
    BY BasicsStep DEF IInv, Basics
  <1>1. CASE UNCHANGED vars
    <2>1. Tight'
      <3>1. core' \in CoreType /\ ConnOK' /\ op' = op /\ core' = core /\ conn' = conn
        BY <1>0, <1>1 DEF vars, Tight, Good, Loose, ConnOK
      <3>2. \A c \in Conn : Connected(core', c) <=> Connected(core, c)
        BY <3>1
      <3> QED BY <1>0, <3>1, <3>2, StillTight
    <2>2. Fenced'
      BY <1>0, <1>1 DEF vars, Fenced, Synced, Asked, Answered, Granted, Out, InUse, WasRevokedSince
    <2> QED BY <1>0, <2>1, <2>2 DEF IInv
  <1>2. CASE LinkConnects \/ Synchronized \/ LinkDrops
    BY <1>0, <1>2, OutsideStep, LinkDropsStep DEF IInv
  <1>3. ASSUME NEW h \in Handle, Revoke(h) \/ Delivers(h) \/ RevocationAges(h) PROVE IInv'
    BY <1>0, <1>3, OutsideStep, DeliversStep, RevocationAgesStep DEF IInv
  <1>4. ASSUME NEW e \in Endpoint, Lapse(e) PROVE IInv'
    BY <1>0, <1>4, OutsideStep DEF IInv
  <1>5. ASSUME NEW c \in Conn,
               \/ Upgrade(c) \/ Register(c) \/ TurnedAway(c)
               \/ Leaves(c) \/ Shuts(c) \/ EndpointExpires(c)
               \/ \E e \in Endpoint : EndpointGranted(c, e)
        PROVE  IInv'
    BY <1>0, <1>5, AskStep, RegisterStep, TurnedAwayStep, EndingStep, ShutsStep DEF IInv
  <1>6. ASSUME NEW c \in Conn, NEW i \in Id,
               \/ \E k \in Open : OpenReserves(c, i, k)
               \/ OpenRejected(c, i) \/ OpenAgain(c, i) \/ OpenOvertaken(c, i)
               \/ Accept(c, i) \/ DataUndrained(c, i) \/ Fin(c, i) \/ Reset(c, i)
               \/ Violates(c, i) \/ LateFrame(c, i) \/ TombExpires(c, i)
        PROVE  IInv'
    BY <1>0, <1>6, ReservesStep, FrameStep, AcceptStep, TombExpiresStep DEF IInv
  <1>7. ASSUME NEW k \in Open,
               \/ Ages(k) \/ RouteRefused(k) \/ OpenAbandoned(k)
               \/ OpenFails(k) \/ OpenBinds(k) \/ BindingExpires(k)
               \/ \E e \in Endpoint, r \in Route : RouteGranted(k, e, r)
        PROVE  IInv'
    BY <1>0, <1>7, OpenStep, AbandonedStep, OpenFailsStep, BindsStep, BindingExpiresStep DEF IInv
  <1> QED BY <1>1, <1>2, <1>3, <1>4, <1>5, <1>6, <1>7 DEF Next

LEMMA Inv == Spec => []IInv
  BY InitInv, StepInv, PTL DEF Spec
-----------------------------------------------------------------------------
(* Every variable keeps its type: what the handlers leave of the core's maps are
   maps of the same shape, at every interleaving of admissions, OPENs, frames and
   revocations (fabric-core.ts, fabric-forwarder.ts). *)
THEOREM TypesKept == Spec => []TypeOK
  <1>1. IInv => TypeOK
    <2> SUFFICES ASSUME IInv PROVE TypeOK
      OBVIOUS
    <2>1. op \in [Open -> OpType] /\ conn \in [Conn -> ConnType] /\ core \in CoreType
      BY DEF IInv, Tight, OpsOK, ConnOK, Good, Loose
    <2>2. dead \subseteq Handle /\ page \subseteq dead /\ owed \subseteq dead
      BY DEF IInv, Fenced, Synced
    <2>3. /\ may \in [Kinds -> Nat] /\ lim \in [Limits -> Nat]
          /\ issued \in [Endpoint -> Nat] /\ lapsed \in [Endpoint -> Nat]
          /\ link \in {"down", "syncing", "up"} /\ ready \in BOOLEAN /\ epoch \in Nat
      BY DEF IInv, Basics
    <2>4. /\ conn \in [Conn -> [who : Endpoint \cup {0}, gen : Nat, mark : Nat, epoch : Nat]]
          /\ op \in [Open -> [phase : {"none", "asking", "granted", "refused",
                                       "opening", "active", "closed"},
                              src : Conn \cup {0}, sid : Id \cup {0},
                              tgt : Conn \cup {0}, tid : Id \cup {0},
                              to : Endpoint \cup {0}, route : Route \cup {0},
                              mark : Nat, fins : SUBSET Conn, aged : BOOLEAN]]
      BY <2>1, Zenon DEF OpType, ConnType, Phases
    <2>5. core \in [at : [Conn -> {"none", "asking", "answered", "away",
                                  "open", "shut", "gone"}],
                   endpoints : [Endpoint -> Conn \cup {0}],
                   fences : [Endpoint -> [gen : Nat, seq : Nat]],
                   table : [Handle -> Nat], floor : Nat, sequence : Nat,
                   routes : [Route -> Open \cup {0}],
                   streams : [Conn -> [Id -> Open \cup {0}]],
                   pending : [Conn -> [Id -> Open \cup {0}]],
                   tombs : [Conn -> [Id -> -1..LateMax]],
                   told : [Conn -> SUBSET Id],
                   count : Nat, strikes : [Conn -> Nat]]
      BY <2>1, Zenon DEF CoreType, Places
    <2> QED BY <2>2, <2>3, <2>4, <2>5, Zenon DEF TypeOK
  <1> QED BY <1>1, Inv, PTL

(* The maps of the core agree after every handler, and the count of OPENs under
   way is exact (fabric-core.ts, unregister, closeBinding, cancelPending): a stream
   is held by both its connections under the ids its route names or by neither,
   whichever of the answers, frames, losses and expiries ended it. *)
THEOREM MapsKept == Spec => []MapsAgree
  <1>1. IInv => MapsAgree
    <2> SUFFICES ASSUME IInv PROVE MapsAgree
      OBVIOUS
    <2>0. Tight /\ Wired(core) /\ Named(core) /\ Linked(core) /\ core \in CoreType
      BY DEF IInv, Tight, Good, Loose
    <2>1. ASSUME NEW c \in Conn
          PROVE  Connected(core, c) <=> \E e \in Endpoint : core.endpoints[e] = c
      BY <2>0, ConnOpen DEF Named
    <2>2. \A e \in Used(core.endpoints) : conn[core.endpoints[e]].who = e
      BY <2>0 DEF Named, Used, CoreType
    <2> DEFINE bound(k) == {r \in Route : core.routes[r] = k}
               held(k) == {g \in Conn \X Id : core.streams[g[1]][g[2]] = k}
    <2>3. ASSUME NEW k \in Alive
          PROVE  /\ bound(k) = {op[k].route} /\ held(k) = Legs(k)
                 /\ \A g \in held(k) : Connected(core, g[1])
      <3>1. /\ op[k].src \in Conn /\ op[k].sid \in Id /\ op[k].tgt \in Conn
            /\ op[k].tid \in Id /\ op[k].route \in Route /\ k # 0 /\ Holds(core, k)
        BY <2>0, ConnOpen DEF Tight, OpsOK, Alive
      <3>2. bound(k) = {op[k].route}
        <4>1. core.routes[op[k].route] = k
          BY <3>1 DEF Holds
        <4>2. \A r \in Route : core.routes[r] = k => r = op[k].route
          BY <2>0, <3>1 DEF Wired
        <4> QED BY <3>1, <4>1, <4>2
      <3>3. held(k) \subseteq Legs(k)
        <4>1. \A c \in Conn, i \in Id : core.streams[c][i] = k => <<c, i>> \in Legs(k)
          BY <2>0, <3>1 DEF Wired
        <4> HIDE DEF Legs
        <4> QED BY <4>1
      <3>4. Legs(k) \subseteq held(k)
        BY <3>1 DEF Legs, Holds
      <3>5. \A g \in held(k) : Connected(core, g[1])
        BY <2>0, <3>1 DEF Linked
      <3> QED BY <3>2, <3>3, <3>4, <3>5
    <2>4. ASSUME NEW k \in Open \ Alive PROVE bound(k) = {} /\ held(k) = {}
      <3>1. k # 0
        BY ConnOpen
      <3> QED BY <2>0, <3>1 DEF Wired
    <2>5. PendingCounted
      BY DEF PendingCounted, IInv, Tight, Good, Loose, Counted, Pend
    <2>6. \A k \in Open :
            IF op[k].phase \in {"opening", "active"}
            THEN /\ bound(k) = {op[k].route} /\ held(k) = Legs(k)
                 /\ \A g \in held(k) : Connected(core, g[1])
            ELSE bound(k) = {} /\ held(k) = {}
      BY <2>3, <2>4 DEF Alive
    <2>7. StreamsMatchRoutes
      BY <2>1, <2>2, <2>6, Zenon DEF StreamsMatchRoutes
    <2> QED BY <2>5, <2>7 DEF MapsAgree
  <1> QED BY <1>1, Inv, PTL

(* What was revoked and told is out, and stays out: neither an authorization that
   crossed the revocation, nor an outage, nor the loss of the entry that
   remembered it installs anything (fabric-core.ts, revoke, wasRevokedSince;
   fabric-forwarder.ts, authorityEpoch). *)
THEOREM RevocationHolds == Spec => []RevokedIsOut
  <1>1. IInv => RevokedIsOut
    <2> SUFFICES ASSUME IInv, NEW h \in dead, InUse(h) PROVE ready /\ h \in owed
      BY DEF RevokedIsOut
    <2>1. h \in owed
      BY DEF IInv, Fenced, Out
    <2>2. ready
      BY DEF IInv, Fenced, Synced, InUse, Handle
    <2> QED BY <2>1, <2>2
  <1> QED BY <1>1, Inv, PTL

(* What an OPEN that waits may become. *)
LEMMA IntoBindsNone ==
  ASSUME NEW s, Into(s), NEW k \in Open, op[k].phase \in {"asking", "granted", "refused"}
  PROVE  op'[k].phase \notin {"opening", "active"}
  BY DEF Into, Settled

LEMMA StruckBindsNone ==
  ASSUME NEW s, NEW c, Struck(s, c), NEW k \in Open, op[k].phase \in {"asking", "granted", "refused"}
  PROVE  op'[k].phase \notin {"opening", "active"}
  BY IntoBindsNone DEF Struck

LEMMA BindsOnlyReserved ==
  ASSUME op \in [Open -> OpType], Next, NEW k \in Open,
         op[k].phase \in {"asking", "granted", "refused"}, op'[k].phase \in {"opening", "active"}
  PROVE  core.pending[op[k].src][op[k].sid] = k
  <1>0. op[k].phase \notin {"opening", "active"}
    OBVIOUS
  <1>1. CASE LinkConnects \/ Synchronized
    BY <1>0, <1>1 DEF LinkConnects, Synchronized
  <1>2. CASE LinkDrops
    <2>1. \E s : Into(s)
      BY <1>2, Zenon DEF LinkDrops
    <2> QED BY <2>1, IntoBindsNone
  <1>3. ASSUME NEW h \in Handle, Revoke(h) \/ Delivers(h) \/ RevocationAges(h) PROVE FALSE
    <2>1. op' = op \/ \E s : Into(s)
      BY <1>3, Zenon DEF Revoke, Delivers, RevocationAges
    <2> QED BY <1>0, <2>1, IntoBindsNone
  <1>4. ASSUME NEW e \in Endpoint, Lapse(e) PROVE FALSE
    BY <1>0, <1>4 DEF Lapse
  <1>5. ASSUME NEW c \in Conn,
               \/ Upgrade(c) \/ Register(c) \/ TurnedAway(c)
               \/ Leaves(c) \/ Shuts(c) \/ EndpointExpires(c)
               \/ \E e \in Endpoint : EndpointGranted(c, e)
        PROVE  FALSE
    <2>1. op' = op \/ \E s : Into(s)
      BY <1>5, Zenon DEF Upgrade, Register, TurnedAway, Leaves, Shuts, EndpointExpires, EndpointGranted
    <2> QED BY <1>0, <2>1, IntoBindsNone
  <1>6. ASSUME NEW c \in Conn, NEW i \in Id,
               \/ OpenRejected(c, i) \/ OpenAgain(c, i) \/ OpenOvertaken(c, i)
               \/ DataUndrained(c, i) \/ Reset(c, i)
               \/ Violates(c, i) \/ LateFrame(c, i) \/ TombExpires(c, i)
        PROVE  FALSE
    <2>1. op' = op \/ (\E s : Into(s)) \/ (\E s : Struck(s, c))
      BY <1>6, Zenon DEF OpenRejected, OpenAgain, OpenOvertaken, DataUndrained, Reset, Violates,
                         LateFrame, TombExpires
    <2> QED BY <1>0, <2>1, IntoBindsNone, StruckBindsNone
  <1>7. ASSUME NEW c \in Conn, NEW i \in Id, NEW j \in Open, OpenReserves(c, i, j) PROVE FALSE
    <2> DEFINE z == [None EXCEPT !.phase = "asking", !.src = c, !.sid = i, !.mark = core.sequence]
    <2>1. op' = [op EXCEPT ![j] = z]
      BY <1>7, Zenon DEF OpenReserves
    <2>2. z.phase = "asking"
      BY DEF None
    <2> HIDE DEF z
    <2> QED BY <1>0, <2>1, <2>2
  <1>8. ASSUME NEW c \in Conn, NEW i \in Id, Accept(c, i) \/ Fin(c, i) PROVE FALSE
    <2>1. CASE Accept(c, i)
      <3>1. op' = [op EXCEPT ![Own(c, i)].phase = "active"] /\ op[Own(c, i)].phase = "opening"
        BY <2>1, Zenon DEF Accept
      <3>2. k # Own(c, i)
        BY <1>0, <3>1
      <3> QED BY <1>0, <3>1, <3>2
    <2>2. CASE Fin(c, i)
      <3>1. op' = [op EXCEPT ![Own(c, i)].fins = {c}] \/ \E s : Into(s)
        BY <2>2, Zenon DEF Fin
      <3>2. CASE op' = [op EXCEPT ![Own(c, i)].fins = {c}]
        BY <1>0, <3>2 DEF OpType
      <3> QED BY <3>1, <3>2, IntoBindsNone
    <2> QED BY <1>8, <2>1, <2>2
  <1>9. ASSUME NEW j \in Open,
               \/ Ages(j) \/ RouteRefused(j) \/ OpenAbandoned(j)
               \/ OpenFails(j) \/ OpenBinds(j) \/ BindingExpires(j)
               \/ \E e \in Endpoint, r \in Route : RouteGranted(j, e, r)
        PROVE  core.pending[op[k].src][op[k].sid] = k
    <2>1. CASE Ages(j)
      <3>1. op' = [op EXCEPT ![j].aged = TRUE]
        BY <2>1, Zenon DEF Ages
      <3> QED BY <1>0, <3>1 DEF OpType
    <2>2. CASE RouteRefused(j)
      <3>1. op' = [op EXCEPT ![j].phase = "refused"]
        BY <2>2, Zenon DEF RouteRefused
      <3> QED BY <1>0, <3>1 DEF OpType
    <2>3. CASE OpenAbandoned(j)
      <3>1. op' = [op EXCEPT ![j] = Over]
        BY <2>3, Zenon DEF OpenAbandoned, Ended, Over
      <3> QED BY <1>0, <3>1, OverType
    <2>4. CASE OpenFails(j)
      <3>1. op' = [Settled(core') EXCEPT ![j] = Over]
        BY <2>4, Zenon DEF OpenFails, Over
      <3>2. Settled(core')[k].phase \notin {"opening", "active"} /\ DOMAIN Settled(core') = Open
        BY <1>0 DEF Settled
      <3> HIDE DEF Settled
      <3> QED BY <3>1, <3>2, OverType
    <2>5. CASE OpenBinds(j)
      <3> DEFINE t == core.endpoints[op[j].to]
      <3>1. PICK i \in Free(core, t) :
              op' = [op EXCEPT ![j].phase = "opening", ![j].tgt = t, ![j].tid = i, ![j].mark = 0]
        BY <2>5, Zenon DEF OpenBinds, Source
      <3> HIDE DEF t
      <3>2. op' = [op EXCEPT ![j] = BoundOp(op[j], t, i)]
        BY <3>1 DEF BoundOp
      <3>3. j = k
        <4>1. ASSUME j # k PROVE op'[k] = op[k]
          BY <3>2, <4>1
        <4> QED BY <1>0, <4>1
      <3> QED BY <2>5, <3>3 DEF OpenBinds, Settles, Reserved, Source
    <2>6. CASE BindingExpires(j)
      BY <2>6, IntoBindsNone DEF BindingExpires
    <2>7. ASSUME NEW e \in Endpoint, NEW r \in Route, RouteGranted(j, e, r) PROVE FALSE
      <3>1. op' = [op EXCEPT ![j].phase = "granted", ![j].to = e, ![j].route = r]
        BY <2>7, Zenon DEF RouteGranted
      <3> QED BY <1>0, <3>1 DEF OpType
    <2> QED BY <1>9, <2>1, <2>2, <2>3, <2>4, <2>5, <2>6, <2>7
  <1> QED BY <1>1, <1>2, <1>3, <1>4, <1>5, <1>6, <1>7, <1>8, <1>9 DEF Next

(* Once the reservation of an OPEN is gone, its late answer binds nothing, though
   the same id may be reserved again by then (fabric-core.ts, open: "pending" is
   looked up again after the await). *)
THEOREM AbandonedBindsNone == Spec => AbandonedStaysDead
  <1>1. IInv /\ [Next]_vars => [\A k \in Open : Abandoned(k) => op'[k].phase \notin {"opening", "active"}]_vars
    <2> SUFFICES ASSUME IInv, Next, NEW k \in Open, Abandoned(k)
                 PROVE  op'[k].phase \notin {"opening", "active"}
      OBVIOUS
    <2>1. op \in [Open -> OpType]
      BY DEF IInv, Tight, OpsOK
    <2> QED BY <2>1, BindsOnlyReserved DEF Abandoned
  <1>2. Spec => [][Next]_vars
    BY DEF Spec
  <1> QED BY <1>1, <1>2, Inv, PTL DEF AbandonedStaysDead
-----------------------------------------------------------------------------
(* What an endpoint has been led to think in use is, but for the pairs of X that a
   handler has not told it of yet; a connection that is no more thinks nothing. *)
ShownAt(s, X, c) ==
  /\ s.at[c] = "open" => \A i \in s.told[c] : <<c, i>> \in X \/ s.streams[c][i] # 0 \/ s.pending[c][i] # 0
  /\ ~Connected(s, c) => s.told[c] = {}
Shown(s, X) == \A c \in Conn : ShownAt(s, X, c)

LEMMA CloseTold ==
  ASSUME NEW s \in CoreType, NEW B, NEW quiet, NEW c \in Conn
  PROVE  CloseBindings(s, B, quiet).told[c] =
           {i \in s.told[c] : ~(/\ \E k \in B : <<c, i>> \in Legs(k)
                                /\ c \notin quiet /\ Current(s, c))}
  <1> DEFINE ended == UNION {Legs(k) : k \in B}
             reset == {g \in ended : g[1] \notin quiet /\ Current(s, g[1])}
             routes == [r \in Route |-> IF \E k \in B : op[k].route = r THEN 0 ELSE s.routes[r]]
             streams == [d \in Conn |-> [i \in Id |->
                           IF <<d, i>> \in ended THEN 0 ELSE s.streams[d][i]]]
             tombs == [d \in Conn |-> [i \in Id |->
                           IF <<d, i>> \in ended /\ Connected(s, d) THEN LateMax ELSE s.tombs[d][i]]]
             told == [d \in Conn |-> {i \in s.told[d] : <<d, i>> \notin reset}]
  <1>1. CloseBindings(s, B, quiet) =
          [s EXCEPT !.routes = routes, !.streams = streams, !.tombs = tombs, !.told = told]
    BY DEF CloseBindings
  <1>2. told[c] = {i \in s.told[c] : <<c, i>> \notin reset}
    OBVIOUS
  <1>3. \A i : <<c, i>> \in reset <=>
                 (\E k \in B : <<c, i>> \in Legs(k)) /\ c \notin quiet /\ Current(s, c)
    OBVIOUS
  <1>4. told[c] = {i \in s.told[c] : ~(/\ \E k \in B : <<c, i>> \in Legs(k)
                                       /\ c \notin quiet /\ Current(s, c))}
    BY <1>2, <1>3
  <1> HIDE DEF routes, streams, tombs, told, reset, ended
  <1>5. CloseBindings(s, B, quiet).told = told
    BY <1>1 DEF CoreType
  <1> QED BY <1>4, <1>5

LEMMA ToldShrinks ==
  ASSUME NEW s \in CoreType, NEW B, NEW quiet
  PROVE  \A c \in Conn : CloseBindings(s, B, quiet).told[c] \subseteq s.told[c]
  <1> SUFFICES ASSUME NEW c \in Conn PROVE CloseBindings(s, B, quiet).told[c] \subseteq s.told[c]
    OBVIOUS
  <1> DEFINE lost(i) == (\E k \in B : <<c, i>> \in Legs(k)) /\ c \notin quiet /\ Current(s, c)
  <1>1. CloseBindings(s, B, quiet).told[c] = {i \in s.told[c] : ~lost(i)}
    BY CloseTold
  <1> HIDE DEF lost
  <1> QED BY <1>1

LEMMA CloseShownAt ==
  ASSUME NEW s \in CoreType, NEW B, NEW quiet, NEW c \in Conn, NEW X, ShownAt(s, X, c),
         s.at[c] = "open" => c \notin quiet /\ Current(s, c)
  PROVE  ShownAt(CloseBindings(s, B, quiet), X, c)
  <1> DEFINE t == CloseBindings(s, B, quiet)
  <1>1. t.told[c] = {i \in s.told[c] : ~(/\ \E k \in B : <<c, i>> \in Legs(k)
                                         /\ c \notin quiet /\ Current(s, c))}
    BY CloseTold
  <1>2. /\ t.at = s.at /\ t.pending = s.pending
        /\ \A i \in Id : t.streams[c][i] = IF \E k \in B : <<c, i>> \in Legs(k) THEN 0 ELSE s.streams[c][i]
    BY CloseFields
  <1>3. s.told[c] \subseteq Id
    BY DEF CoreType
  <1> HIDE DEF t
  <1>4. ShownAt(t, X, c)
    BY <1>1, <1>2, <1>3 DEF ShownAt, Connected
  <1> QED BY <1>4 DEF t

LEMMA CloseShown ==
  ASSUME NEW s, Loose(s), NEW B, NEW quiet, NEW X, Shown(s, X),
         \A c \in Conn : s.at[c] = "open" => c \notin quiet
  PROVE  Shown(CloseBindings(s, B, quiet), X)
  <1>1. \A c \in Conn : s.at[c] = "open" => Current(s, c)
    BY DEF Loose, Named, Current, Connected
  <1> QED BY <1>1, CloseShownAt DEF Shown, Loose

(* A core in which only these things may differ. *)
LEMMA ShownSame ==
  ASSUME NEW s, NEW t, NEW X, NEW Y, Shown(s, X),
         \A c \in Conn :
           /\ t.at[c] = "open" => s.at[c] = "open"
           /\ ~Connected(t, c) => ~Connected(s, c)
           /\ t.told[c] \subseteq s.told[c]
           /\ \A i \in t.told[c] :
                /\ s.streams[c][i] # 0 => t.streams[c][i] # 0
                /\ s.pending[c][i] # 0 => <<c, i>> \in Y \/ t.pending[c][i] # 0
                /\ <<c, i>> \in X => <<c, i>> \in Y
  PROVE  Shown(t, Y)
  BY DEF Shown, ShownAt

LEMMA UnregisterShown ==
  ASSUME NEW s, Good(s), NEW c \in Conn, NEW X, Shown(s, X)
  PROVE  Shown(Unregister(s, c), X)
  <1>1. CASE ~Connected(s, c)
    BY <1>1 DEF Unregister
  <1>2. CASE Connected(s, c)
    <2> DEFINE e == conn[c].who
               n == Monus(s.count, Cardinality(Held(s, c)))
               t == [s EXCEPT
                       !.at[c] = "gone",
                       !.endpoints[e] = IF @ = c THEN 0 ELSE @,
                       !.count = n,
                       !.pending[c] = Blank(0),
                       !.tombs[c] = Blank(-1),
                       !.strikes[c] = 0]
               u == CloseBindings(t, Bound(s, c), {c})
               v == [u EXCEPT !.told[c] = {}]
    <2>1. Unregister(s, c) = v
      BY <1>2 DEF Unregister
    <2>2. e \in Endpoint /\ s.endpoints[e] = c
      BY <1>2 DEF Good, Loose, Named
    <2>3. n \in Nat
      <3>1. s.count \in Nat
        BY DEF Good, Loose, CoreType
      <3> QED BY <3>1, Counts DEF Monus
    <2>4. Blank(0) \in [Id -> Open \cup {0}] /\ Blank(-1) \in [Id -> -1..LateMax]
      BY ConnOpen DEF Blank
    <2> HIDE DEF e, n
    <2>0. s \in CoreType
      BY DEF Good, Loose
    <2>a. t \in CoreType
      <3>1. [s.at EXCEPT ![c] = "gone"] \in [Conn -> Places]
        BY <2>0 DEF CoreType, Places
      <3>2. [s.endpoints EXCEPT ![e] = IF @ = c THEN 0 ELSE @] \in [Endpoint -> Conn \cup {0}]
        BY <2>0 DEF CoreType
      <3>3. [s.pending EXCEPT ![c] = Blank(0)] \in [Conn -> [Id -> Open \cup {0}]]
        BY <2>0, <2>4 DEF CoreType
      <3>4. [s.tombs EXCEPT ![c] = Blank(-1)] \in [Conn -> [Id -> -1..LateMax]]
        BY <2>0, <2>4 DEF CoreType
      <3>5. [s.strikes EXCEPT ![c] = 0] \in [Conn -> Nat]
        BY <2>0 DEF CoreType
      <3> QED BY <2>0, <2>3, <3>1, <3>2, <3>3, <3>4, <3>5 DEF CoreType
    <2>b. /\ \A d \in Conn : t.at[d] = IF d = c THEN "gone" ELSE s.at[d]
          /\ \A d \in Conn : d # c => t.pending[d] = s.pending[d]
      BY <2>0 DEF CoreType
    <2>c. \A x \in Endpoint : t.endpoints[x] = IF x = e THEN 0 ELSE s.endpoints[x]
      BY <2>0, <2>2 DEF CoreType
    <2>d. t.streams = s.streams /\ t.told = s.told
      BY <2>0 DEF CoreType
    <2> HIDE DEF t
    <2>5. ASSUME NEW d \in Conn, d # c PROVE ShownAt(u, X, d)
      <3>1. ShownAt(t, X, d)
        BY <2>5, <2>b, <2>d DEF Shown, ShownAt, Connected
      <3>2. t.at[d] = "open" => Current(t, d)
        BY <2>5, <2>2, <2>b, <2>c DEF Good, Loose, Named, Current, Connected
      <3> QED BY <2>5, <2>a, <3>1, <3>2, CloseShownAt
    <2>6. u \in CoreType /\ u.at[c] = "gone"
      BY <2>a, <2>b, CloseFields
    <2> HIDE DEF u
    <2>7. /\ v.at = u.at /\ v.streams = u.streams /\ v.pending = u.pending
          /\ \A d \in Conn : v.told[d] = IF d = c THEN {} ELSE u.told[d]
      BY <2>6 DEF CoreType
    <2> HIDE DEF v
    <2>8. Shown(v, X)
      <3> SUFFICES ASSUME NEW d \in Conn PROVE ShownAt(v, X, d)
        BY DEF Shown
      <3>1. CASE d = c
        BY <2>6, <2>7, <3>1 DEF ShownAt
      <3>2. CASE d # c
        BY <2>5, <2>7, <3>2 DEF ShownAt, Connected
      <3> QED BY <3>1, <3>2
    <2> QED BY <2>1, <2>8
  <1> QED BY <1>1, <1>2

LEMMA CancelShown ==
  ASSUME NEW s, Good(s), NEW c \in Conn, NEW i \in Id, Shown(s, {})
  PROVE  Shown(CancelPending(s, c, i), {<<c, i>>})
  <1> DEFINE t == CancelPending(s, c, i)
  <1>1. /\ \A d \in Conn, j \in Id : <<d, j>> # <<c, i>> => t.pending[d][j] = s.pending[d][j]
        /\ t.at = s.at /\ t.streams = s.streams
    BY CancelGood
  <1>2. t.told = s.told
    BY DEF CancelPending, Good, Loose, CoreType
  <1>3. \A d \in Conn : s.told[d] \subseteq Id
    BY DEF Good, Loose, CoreType
  <1> HIDE DEF t
  <1>4. Shown(t, {<<c, i>>})
    BY <1>1, <1>2, <1>3, ShownSame DEF Connected
  <1> QED BY <1>4 DEF t

LEMMA RejectShown ==
  ASSUME NEW s, Good(s), NEW c \in Conn, NEW i \in Id, Shown(s, {<<c, i>>}) \/ Shown(s, {})
  PROVE  Shown(Reject(s, c, i), {})
  <1> DEFINE t == Remember(s, c, i)
             u == Reject(s, c, i)
  <1>0. s \in CoreType
    BY DEF Good, Loose
  <1>1. [s.tombs EXCEPT ![c][i] = 0] \in [Conn -> [Id -> -1..LateMax]]
    BY <1>0, ConnOpen DEF CoreType
  <1>2. /\ t \in CoreType /\ t.at = s.at /\ t.streams = s.streams
        /\ t.pending = s.pending /\ t.told = s.told
    BY <1>0, <1>1 DEF CoreType, Remember
  <1> HIDE DEF t
  <1>3. u = [t EXCEPT !.told[c] = @ \ {i}]
    BY DEF Reject, t
  <1> HIDE DEF u
  <1>4. /\ u.at = s.at /\ u.streams = s.streams /\ u.pending = s.pending
        /\ \A d \in Conn : u.told[d] = IF d = c THEN s.told[c] \ {i} ELSE s.told[d]
    BY <1>2, <1>3 DEF CoreType
  <1>5. ASSUME NEW d \in Conn PROVE ShownAt(u, {}, d)
    <2>1. ShownAt(s, {<<c, i>>}, d) \/ ShownAt(s, {}, d)
      BY DEF Shown
    <2>2. \A j \in u.told[d] : j \in s.told[d] /\ <<d, j>> # <<c, i>>
      BY <1>4
    <2> QED BY <1>4, <2>1, <2>2 DEF ShownAt, Connected
  <1> QED BY <1>5 DEF Shown, u

LEMMA StrikeShown ==
  ASSUME OpsOK, ConnOK, NEW s, Good(s), NEW c \in Conn, NEW n \in Nat, Shown(s, {})
  PROVE  Shown(Strike(s, c, n), {})
  <1> DEFINE t == [s EXCEPT !.strikes[c] = n]
  <1>1. t.at = s.at /\ t.streams = s.streams /\ t.pending = s.pending /\ t.told = s.told
    BY DEF Good, Loose, CoreType
  <1> HIDE DEF t
  <1>2. Shown(t, {})
    BY <1>1, ShownSame DEF Connected
  <1> QED BY <1>2, UnregisterShown DEF Strike, t

LEMMA PrunedShown ==
  ASSUME NEW s, Good(s), NEW flying, Shown(s, {})
  PROVE  Shown(Pruned(s, flying), {})
  <1> DEFINE fences == [e \in Endpoint |->
                IF /\ s.endpoints[e] = 0 /\ s.fences[e].gen # 0
                   /\ \/ s.fences[e].gen <= lapsed[e]
                      \/ \A a \in flying : s.fences[e].seq < a
                THEN [gen |-> 0, seq |-> 0] ELSE s.fences[e]]
             t == [s EXCEPT !.fences = fences]
  <1>1. Pruned(s, flying) = t
    BY DEF Pruned
  <1> HIDE DEF fences
  <1>2. t.at = s.at /\ t.streams = s.streams /\ t.pending = s.pending /\ t.told = s.told
    BY DEF Good, Loose, CoreType
  <1> HIDE DEF t
  <1> QED BY <1>1, <1>2, ShownSame DEF Connected

(* A socket that is placed otherwise, and is not open by that. *)
LEMMA PlacedShown ==
  ASSUME NEW s \in CoreType, Shown(s, {}), NEW c \in Conn, ~Connected(s, c),
         NEW p \in Places
  PROVE  Shown(Placed(s, c, p), {})
  <1> DEFINE t == Placed(s, c, p)
  <1>1. /\ t.streams = s.streams /\ t.pending = s.pending
        /\ \A d \in Conn : t.at[d] = IF d = c THEN p ELSE s.at[d]
    BY PlaceType
  <1>2. t.told = s.told
    BY DEF Placed, CoreType
  <1> HIDE DEF t
  <1>3. \A d \in Conn : ShownAt(t, {}, d)
    BY <1>1, <1>2 DEF Shown, ShownAt, Connected
  <1> QED BY <1>3 DEF Shown, t

LEMMA ShownNow == ASSUME NEW s, Shown(s, {}), core' = s PROVE Shown(core, {})'
  BY DEF Shown, ShownAt, Connected

LEMMA StruckShown ==
  ASSUME Tight, NEW s, Good(s), Shown(s, {}), NEW c \in Conn, Struck(s, c)
  PROVE  Shown(core, {})'
  <1>1. core.strikes[c] \in Nat
    BY DEF Tight, Good, Loose, CoreType
  <1>2. PICK n \in 1..(core.strikes[c] + 1) : Into(Strike(s, c, n))
    BY DEF Struck
  <1>3. Shown(Strike(s, c, n), {})
    BY <1>1, <1>2, StrikeShown DEF Tight
  <1> QED BY <1>2, <1>3, ShownNow DEF Into

LEMMA FrameShown ==
  ASSUME Tight, Shown(core, {}), NEW c \in Conn, NEW i \in Id,
         \/ OpenRejected(c, i) \/ OpenAgain(c, i) \/ OpenOvertaken(c, i)
         \/ DataUndrained(c, i) \/ Violates(c, i) \/ LateFrame(c, i)
  PROVE  Shown(core, {})'
  <1>0. Good(core)
    BY DEF Tight
  <1>1. Good(Reject(core, c, i)) /\ Shown(Reject(core, c, i), {})
    BY <1>0, RejectGood, RejectShown
  <1>2. /\ Good(Reject(CancelPending(core, c, i), c, i))
        /\ Shown(Reject(CancelPending(core, c, i), c, i), {})
    BY <1>0, CancelGood, CancelShown, RejectGood, RejectShown
  <1>a. \A B : Shown(CloseBindings(core, B, {}), {})
    BY <1>0, CloseShown DEF Good
  <1>3. CASE OpenRejected(c, i)
    BY <1>1, <1>3, StruckShown DEF OpenRejected
  <1>4. CASE OpenAgain(c, i)
    <2>1. CASE Into(CloseBindings(core, {Own(c, i)}, {}))
      BY <1>a, <2>1, ShownNow DEF Into
    <2>2. CASE Struck(Reject(CancelPending(core, c, i), c, i), c)
      BY <1>2, <2>2, StruckShown
    <2> QED BY <1>4, <2>1, <2>2 DEF OpenAgain
  <1>5. CASE OpenOvertaken(c, i)
    <2>1. CASE Into([Remember(CancelPending(core, c, i), c, i) EXCEPT !.told[c] = @ \ {i}])
      BY <1>2, <2>1, ShownNow DEF Into, Reject
    <2>2. CASE Struck(Reject(CancelPending(core, c, i), c, i), c)
      BY <1>2, <2>2, StruckShown
    <2> QED BY <1>5, <2>1, <2>2 DEF OpenOvertaken
  <1>6. CASE DataUndrained(c, i)
    <2>1. core.at[Peer(c, i)] = "shut" /\ Into(CloseBindings(core, {Own(c, i)}, {Peer(c, i)}))
      BY <1>6 DEF DataUndrained
    <2>2. Shown(CloseBindings(core, {Own(c, i)}, {Peer(c, i)}), {})
      BY <1>0, <2>1, CloseShown DEF Good
    <2> QED BY <2>1, <2>2, ShownNow DEF Into
  <1>8. CASE Violates(c, i)
    <2>1. Own(c, i) # 0
      BY <1>8 DEF Violates, Live
    <2>2. Good(CloseBindings(core, {Own(c, i)}, {}))
      BY <2>1, OwnAlive, AloneGood
    <2> QED BY <1>8, <1>a, <2>2, StruckShown DEF Violates
  <1>9. CASE LateFrame(c, i)
    <2>2. CASE Into([core EXCEPT !.tombs[c][i] = @ - 1])
      <3> DEFINE t == [core EXCEPT !.tombs[c][i] = @ - 1]
      <3>1. t.at = core.at /\ t.streams = core.streams /\ t.pending = core.pending /\ t.told = core.told
        BY <1>0 DEF Good, Loose, CoreType
      <3> HIDE DEF t
      <3>2. Shown(t, {})
        BY <3>1, ShownSame DEF Connected
      <3> QED BY <2>2, <3>2, ShownNow DEF Into, t
    <2>3. CASE Struck(core, c)
      BY <1>0, <2>3, StruckShown
    <2>4. CASE Struck(Reject(core, c, i), c)
      BY <1>1, <2>4, StruckShown
    <2> QED BY <1>9, <2>2, <2>3, <2>4 DEF LateFrame
  <1> QED BY <1>3, <1>4, <1>5, <1>6, <1>8, <1>9

(* Both ends know that a stream is over: by a RESET they sent or got, or both FINs. *)
LEMMA BothKnow ==
  ASSUME Tight, Shown(core, {}), NEW c \in Conn, NEW i \in Id, NEW k, k = Own(c, i), k # 0,
         NEW t,
         t = [CloseBindings(core, {k}, Conn) EXCEPT
                !.told = [d \in Conn |-> {j \in @[d] : core.streams[d][j] # k}]]
  PROVE  Shown(t, {})
  <1> DEFINE u == CloseBindings(core, {k}, Conn)
             told == [d \in Conn |-> {j \in u.told[d] : core.streams[d][j] # k}]
             v == [u EXCEPT !.told = told]
  <1>0. core \in CoreType
    BY DEF Tight, Good, Loose
  <1>1. u \in CoreType /\ u.at = core.at /\ u.pending = core.pending
        /\ \A d \in Conn, j \in Id :
             u.streams[d][j] = IF \E b \in {k} : <<d, j>> \in Legs(b) THEN 0 ELSE core.streams[d][j]
    BY <1>0, CloseFields
  <1>2. \A d \in Conn : u.told[d] \subseteq core.told[d]
    BY <1>0, ToldShrinks
  <1>4. \A g \in Legs(k) : core.streams[g[1]][g[2]] = k
    <2>1. k \in Alive
      BY OwnAlive
    <2>2. Holds(core, k)
      BY <2>1 DEF Tight
    <2> QED BY <2>2 DEF Holds, Legs
  <1> HIDE DEF u, told
  <1>3. t = v
    BY DEF u, told
  <1>8. v.told = told
    BY <1>1 DEF CoreType
  <1>5. /\ v.at = u.at /\ v.streams = u.streams /\ v.pending = u.pending
        /\ \A d \in Conn : v.told[d] = {j \in u.told[d] : core.streams[d][j] # k}
    BY <1>1, <1>8 DEF CoreType, told
  <1> HIDE DEF v
  <1>6. ASSUME NEW d \in Conn PROVE ShownAt(v, {}, d)
    <2>1. core.told[d] \subseteq Id
      BY <1>0 DEF CoreType
    <2>2. ASSUME NEW j \in v.told[d] PROVE j \in core.told[d] /\ v.streams[d][j] = core.streams[d][j]
      <3>1. j \in core.told[d] /\ j \in Id /\ core.streams[d][j] # k
        BY <1>2, <1>5, <2>1
      <3>2. <<d, j>> \notin Legs(k)
        BY <1>4, <3>1
      <3> QED BY <1>1, <1>5, <3>1, <3>2
    <2> QED BY <1>1, <1>5, <2>2 DEF Shown, ShownAt, Connected
  <1> QED BY <1>3, <1>6 DEF Shown

LEMMA EndingShown ==
  ASSUME Tight, Shown(core, {}), NEW c \in Conn, Leaves(c) \/ EndpointExpires(c)
  PROVE  Shown(core, {})'
  <1>1. Good(Unregister(core, c)) /\ Shown(Unregister(core, c), {})
    BY UnregisterGood, UnregisterShown DEF Tight
  <1>2. Shown(Pruned(Unregister(core, c), InFlight(core)), {})
    BY <1>1, PrunedShown
  <1> QED BY <1>1, <1>2, ShownNow DEF Leaves, EndpointExpires, Into

LEMMA TurnedAwayShown ==
  ASSUME Tight, Shown(core, {}), NEW c \in Conn, TurnedAway(c) PROVE Shown(core, {})'
  <1> DEFINE s == [core EXCEPT !.at[c] = "away"]
  <1>1. core.at[c] \in {"asking", "answered"} /\ Into(Pruned(s, InFlight(s)))
    BY DEF TurnedAway, Finished
  <1>2. Good(s)
    BY <1>1, AwayGood DEF Tight
  <1>3. Shown(s, {})
    BY <1>1, PlacedShown DEF Placed, Places, Connected, Tight, Good, Loose
  <1> HIDE DEF s
  <1> QED BY <1>1, <1>2, <1>3, PrunedShown, ShownNow DEF Into

LEMMA RegisterShown ==
  ASSUME Tight, Fenced, Shown(core, {}), NEW c \in Conn, Register(c) PROVE Shown(core, {})'
  <1> DEFINE e == conn[c].who
             t == Pruned(core, InFlight(core))
             old == t.endpoints[e]
             fence == [gen |-> conn[c].gen, seq |-> Begun(t)]
             fenced == [t EXCEPT !.fences[e] = fence]
             freed == IF old = 0 THEN fenced ELSE Unregister(fenced, old)
             away == [t EXCEPT !.at[c] = "away"]
             open == Online(freed, c)
             refuse == \/ WasRevokedSince(t, e, conn[c].mark)
                       \/ t.fences[e].gen # 0 /\ conn[c].gen <= t.fences[e].gen
                       \/ t.fences[e].gen = 0 /\ Cardinality(Fences(t)) >= lim["fences"]
  <1>1. core.at[c] = "answered" /\ Into(Finished(Registers(core, c)))
    BY Zenon DEF Register
  <1>2. Registers(core, c) = IF refuse THEN away ELSE open
    BY Zenon DEF Registers, Online
  <1>3. e \in Endpoint /\ conn[c] \in ConnType
    BY <1>1 DEF Fenced, Answered, Tight, ConnOK
  <1>4. Good(t) /\ Shown(t, {}) /\ t.at = core.at
    BY PrunedGood, PrunedShown DEF Tight
  <1> HIDE DEF e, t
  <1>5. CASE refuse
    <2>1. Good(away) /\ Shown(away, {})
      BY <1>1, <1>4, AwayGood, PlacedShown DEF Placed, Places, Connected, Good, Loose
    <2>2. core' = Pruned(away, InFlight(away))
      BY <1>1, <1>2, <1>5, Zenon DEF Finished, Into
    <2> HIDE DEF away
    <2> QED BY <2>1, <2>2, PrunedShown, ShownNow
  <1>6. CASE ~refuse
    <2>0. t \in CoreType
      BY <1>4 DEF Good, Loose
    <2>1. Good(fenced) /\ Shown(fenced, {}) /\ fenced.at = t.at /\ fenced.endpoints = t.endpoints
      <3>1. fence \in [gen : Nat, seq : Nat]
        BY <1>3, Counts DEF ConnType
      <3> HIDE DEF fence
      <3>2. [t.fences EXCEPT ![e] = fence] \in [Endpoint -> [gen : Nat, seq : Nat]]
        BY <2>0, <3>1 DEF CoreType
      <3>3. /\ fenced \in CoreType /\ fenced.at = t.at /\ fenced.endpoints = t.endpoints
            /\ fenced.routes = t.routes /\ fenced.streams = t.streams /\ fenced.table = t.table
            /\ fenced.floor = t.floor /\ fenced.sequence = t.sequence /\ fenced.pending = t.pending
            /\ fenced.count = t.count /\ fenced.told = t.told
        BY <2>0, <3>2 DEF CoreType
      <3> HIDE DEF fenced
      <3>4. Shown(fenced, {})
        BY <1>4, <3>3, ShownSame DEF Connected
      <3> QED BY <1>4, <3>3, <3>4, GoodTrimmed, Uncounted
    <2> HIDE DEF fence, fenced
    <2>2. Good(freed) /\ Shown(freed, {}) /\ freed.endpoints[e] = 0 /\ ~Connected(freed, c)
      <3>0. ~Connected(fenced, c)
        BY <1>1, <1>4, <2>1 DEF Connected
      <3>1. CASE old = 0
        BY <2>1, <3>0, <3>1
      <3>2. CASE old # 0
        <4>1. old \in Conn
          BY <1>3, <2>0, <3>2 DEF CoreType
        <4>2. freed = Unregister(fenced, old)
          BY <3>2
        <4>3. Good(freed) /\ Trims(fenced, freed) /\ ~Connected(freed, old) /\ Shown(freed, {})
          BY <2>1, <4>1, <4>2, UnregisterGood, UnregisterShown DEF Tight
        <4>4. freed.endpoints[e] # old
          BY <1>3, <3>2, <4>3 DEF Good, Loose, Named
        <4>5. freed.endpoints[e] \in {old, 0}
          BY <1>3, <2>1, <4>3 DEF Trims
        <4>6. ~Connected(freed, c)
          BY <3>0, <4>3 DEF Trims, Connected
        <4> QED BY <4>3, <4>4, <4>5, <4>6
      <3> QED BY <3>1, <3>2
    <2> HIDE DEF freed
    <2>3. Good(open)
      BY <1>3, <2>2, PutOnline DEF Tight, e
    <2>4. /\ open.streams = freed.streams /\ open.pending = freed.pending /\ open.told = freed.told
          /\ \A d \in Conn : open.at[d] = IF d = c THEN "open" ELSE freed.at[d]
      BY <2>2 DEF Online, Good, Loose, CoreType
    <2> HIDE DEF open
    <2>5. Shown(open, {})
      BY <2>2, <2>4 DEF Shown, ShownAt, Connected
    <2>6. core' = Pruned(open, InFlight(open))
      BY <1>1, <1>2, <1>6, Zenon DEF Finished, Into
    <2> QED BY <2>3, <2>5, <2>6, PrunedShown, ShownNow
  <1> QED BY <1>5, <1>6

LEMMA DeliversShown ==
  ASSUME Tight, Shown(core, {}), NEW h \in Handle, Delivers(h) PROVE Shown(core, {})'
  <1> DEFINE t == Noted(core, h)
  <1>1. core' = Revoked(core, h)
    BY Zenon DEF Delivers, Into
  <1>2. Good(t) /\ t.at = core.at /\ t.streams = core.streams /\ t.pending = core.pending
    BY NotedGood DEF Tight
  <1>3. t.told = core.told
    BY DEF Noted, Tight, Good, Loose, CoreType
  <1>4. Revoked(core, h) = IF h \in Route THEN CloseBindings(t, {t.routes[h]} \ {0}, {})
                           ELSE IF t.endpoints[h] = 0 THEN t ELSE Unregister(t, t.endpoints[h])
    BY Zenon DEF Revoked, Noted
  <1> HIDE DEF t
  <1>5. Shown(t, {})
    BY <1>2, <1>3, ShownSame DEF Connected
  <1>6. CASE h \in Route
    BY <1>1, <1>2, <1>4, <1>5, <1>6, CloseShown, ShownNow DEF Good
  <1>7. CASE h \notin Route /\ t.endpoints[h] = 0
    BY <1>1, <1>4, <1>5, <1>7, ShownNow
  <1>8. CASE h \notin Route /\ t.endpoints[h] # 0
    <2>1. t.endpoints[h] \in Conn
      BY <1>2, <1>8 DEF Good, Loose, CoreType, Handle
    <2> QED BY <1>1, <1>2, <1>4, <1>5, <1>8, <2>1, UnregisterShown, ShownNow
  <1> QED BY <1>6, <1>7, <1>8

LEMMA LinkDropsShown ==
  ASSUME Tight, LinkDrops PROVE Shown(core, {})'
  <1> DEFINE gone == {c \in Conn : Connected(core, c)}
             held == UNION {{<<c, i>> : i \in Held(core, c)} : c \in gone}
             n == Monus(core.count, Cardinality(held))
             at == [c \in Conn |-> IF c \in gone THEN "gone" ELSE core.at[c]]
             noneTold == [c \in Conn |-> {}]
  <1>1. core' = [core EXCEPT
          !.at = at, !.endpoints = [e \in Endpoint |-> 0], !.routes = [r \in Route |-> 0],
          !.streams = [c \in Conn |-> Blank(0)], !.pending = [c \in Conn |-> Blank(0)],
          !.tombs = [c \in Conn |-> Blank(-1)], !.told = noneTold, !.count = n,
          !.strikes = [c \in Conn |-> 0]]
    BY DEF LinkDrops, Into
  <1>2. \A c \in Conn : noneTold[c] = {}
    OBVIOUS
  <1> HIDE DEF at, n, noneTold
  <1>3. core'.told = noneTold
    BY <1>1 DEF Tight, Good, Loose, CoreType
  <1> QED BY <1>2, <1>3 DEF Shown, ShownAt

LEMMA ReservesShown ==
  ASSUME Tight, Shown(core, {}), NEW c \in Conn, NEW i \in Id, NEW k \in Open, OpenReserves(c, i, k)
  PROVE  Shown(core, {})'
  <1> DEFINE told == [core.told EXCEPT ![c] = @ \cup {i}]
             pending == [core.pending EXCEPT ![c][i] = k]
  <1>0. core \in CoreType /\ k # 0 /\ Connected(core, c)
    BY ConnOpen DEF Tight, Good, Loose, OpenReserves, Hears, Current
  <1>1. core' = [core EXCEPT !.pending = pending, !.count = @ + 1, !.told = told]
    BY DEF OpenReserves
  <1>2. /\ \A d \in Conn : told[d] = IF d = c THEN core.told[c] \cup {i} ELSE core.told[d]
        /\ \A d \in Conn, j \in Id : pending[d][j] = IF <<d, j>> = <<c, i>> THEN k ELSE core.pending[d][j]
        /\ \A d \in Conn : core.told[d] \subseteq Id
    BY <1>0 DEF CoreType
  <1> HIDE DEF told, pending
  <1>3. /\ core'.at = core.at /\ core'.streams = core.streams /\ core'.pending = pending
        /\ core'.told = told
    BY <1>0, <1>1 DEF CoreType
  <1>4. ASSUME NEW d \in Conn PROVE ShownAt(core, {}, d)'
    <2>1. ~Connected(core, d) => told[d] = {}
      BY <1>0, <1>2 DEF Shown, ShownAt
    <2>2. ASSUME core.at[d] = "open", NEW j \in told[d]
          PROVE  core.streams[d][j] # 0 \/ pending[d][j] # 0
      <3>1. j \in Id
        BY <1>2, <2>2
      <3>2. CASE <<d, j>> = <<c, i>>
        BY <1>0, <1>2, <3>1, <3>2
      <3>3. CASE <<d, j>> # <<c, i>>
        <4>1. j \in core.told[d] /\ pending[d][j] = core.pending[d][j]
          BY <1>2, <2>2, <3>1, <3>3
        <4> QED BY <2>2, <4>1 DEF Shown, ShownAt
      <3> QED BY <3>2, <3>3
    <2> QED BY <1>3, <2>1, <2>2 DEF ShownAt, Connected
  <1> QED BY <1>4 DEF Shown

LEMMA OpenFailsShown ==
  ASSUME Tight, Shown(core, {}), NEW k \in Open, OpenFails(k) PROVE Shown(core, {})'
  <1> DEFINE c == op[k].src
             u == Reject(Cleared(k), op[k].src, op[k].sid)
  <1>1. Settles(k)
    BY DEF OpenFails
  <1>2. c \in Conn /\ op[k].sid \in Id /\ Good(Cleared(k)) /\ Good(core)
    BY <1>1, Clearing DEF Tight
  <1>3. Shown(Cleared(k), {<<c, op[k].sid>>})
    BY <1>2, CancelShown DEF Cleared, Source
  <1>4. Good(u) /\ Shown(u, {})
    BY <1>2, <1>3, RejectGood, RejectShown
  <1>5. CASE core' = u
    BY <1>4, <1>5, ShownNow
  <1>6. CASE \E n \in 1..(core.strikes[c] + 1) : core' = Strike(u, c, n)
    <2>1. core.strikes[c] \in Nat
      BY <1>2 DEF Tight, Good, Loose, CoreType
    <2>2. PICK n \in 1..(core.strikes[c] + 1) : core' = Strike(u, c, n)
      BY <1>6
    <2> QED BY <1>2, <1>4, <2>1, <2>2, StrikeShown, ShownNow DEF Tight
  <1> QED BY <1>5, <1>6 DEF OpenFails, Source

LEMMA BindsShown ==
  ASSUME Tight, Shown(core, {}), NEW k \in Open, OpenBinds(k) PROVE Shown(core, {})'
  <1> DEFINE c == op[k].src
             n == op[k].sid
             r == op[k].route
             t == core.endpoints[op[k].to]
             s == Cleared(k)
  <1>0. core \in CoreType /\ Settles(k) /\ Usable(k) /\ Reachable(k)
    BY DEF OpenBinds, Tight, Good, Loose
  <1>1. /\ c \in Conn /\ n \in Id /\ Good(core) /\ Good(s) /\ s.at = core.at /\ s.streams = core.streams
    BY <1>0, Clearing DEF Tight
  <1>2. op[k].to \in Endpoint /\ r \in Route
    BY <1>0 DEF Usable, Tight, OpsOK
  <1>3. t \in Conn /\ Connected(core, t)
    <2>1. t # 0
      BY <1>0 DEF Reachable
    <2> QED BY <1>0, <1>2, <2>1 DEF CoreType, Tight, Good, Loose, Named
  <1>4. PICK i \in Free(core, t) : core' = BoundCore(s, c, n, k, t, i, r, core.at[t])
    BY Zenon DEF OpenBinds, Source, BoundCore
  <1>5. i \in Id
    BY DEF Free
  <1>6. Shown(s, {<<c, n>>}) /\ s \in CoreType /\ k # 0
    BY <1>1, CancelShown, ConnOpen DEF Cleared, Source, Good, Loose
  <1>7. s.told = core.told
    BY <1>0 DEF Cleared, CancelPending, CoreType
  <1> DEFINE told == [s.told EXCEPT ![t] = IF core.at[t] = "open" THEN @ \cup {i} ELSE @]
  <1> HIDE DEF s, c, n, r, t
  <1>8. /\ core'.at = s.at /\ core'.pending = s.pending
        /\ \A d \in Conn, j \in Id :
             core'.streams[d][j] = IF <<d, j>> \in {<<c, n>>, <<t, i>>} THEN k ELSE s.streams[d][j]
    BY <1>1, <1>2, <1>3, <1>4, <1>5, <1>6, BoundCoreType
  <1>9. core'.told = told
    BY <1>4, <1>6 DEF BoundCore, CoreType
  <1>10. \A d \in Conn : /\ d # t => told[d] = s.told[d]
                         /\ \A j \in told[d] : j \in Id /\ (j \in s.told[d] \/ <<d, j>> = <<t, i>>)
    BY <1>3, <1>5, <1>6 DEF CoreType
  <1> HIDE DEF told
  <1>11. ASSUME NEW d \in Conn PROVE ShownAt(core, {}, d)'
    <2>1. ~Connected(s, d) => told[d] = {}
      <3>1. ~Connected(s, d) => s.told[d] = {} /\ d # t
        BY <1>1, <1>3, <1>6 DEF Shown, ShownAt, Connected
      <3> QED BY <1>10, <3>1
    <2>2. ASSUME s.at[d] = "open", NEW j \in told[d]
          PROVE  core'.streams[d][j] # 0 \/ s.pending[d][j] # 0
      <3>1. j \in Id /\ (j \in s.told[d] \/ <<d, j>> = <<t, i>>)
        BY <1>10, <2>2
      <3>2. CASE <<d, j>> \in {<<c, n>>, <<t, i>>}
        BY <1>6, <1>8, <3>1, <3>2
      <3>3. CASE <<d, j>> \notin {<<c, n>>, <<t, i>>}
        <4>1. s.streams[d][j] # 0 \/ s.pending[d][j] # 0
          BY <1>6, <2>2, <3>1, <3>3 DEF Shown, ShownAt
        <4> QED BY <1>8, <3>1, <3>3, <4>1
      <3> QED BY <3>2, <3>3
    <2> QED BY <1>8, <1>9, <2>1, <2>2 DEF ShownAt, Connected
  <1> QED BY <1>11 DEF Shown

LEMMA ShownStep == IInv /\ Shown(core, {}) /\ [Next]_vars => Shown(core, {})'
  <1> SUFFICES ASSUME IInv, Shown(core, {}), [Next]_vars PROVE Shown(core, {})'
    OBVIOUS
  <1>0. Tight /\ Fenced /\ Shown(core, {}) /\ core \in CoreType /\ Good(core)
    BY DEF IInv, Tight, Good, Loose
  <1>1. CASE core' = core
    BY <1>0, <1>1, ShownNow
  <1>2. CASE LinkDrops
    BY <1>0, <1>2, LinkDropsShown
  <1>3. ASSUME NEW h \in Handle, Delivers(h) \/ RevocationAges(h) PROVE Shown(core, {})'
    <2>1. CASE RevocationAges(h)
      <3>1. core'.at = core.at /\ core'.streams = core.streams /\ core'.pending = core.pending
            /\ core'.told = core.told
        BY <1>0, <2>1 DEF RevocationAges, CoreType
      <3> QED BY <1>0, <3>1 DEF Shown, ShownAt, Connected
    <2> QED BY <1>0, <1>3, <2>1, DeliversShown
  <1>4. ASSUME NEW c \in Conn, Upgrade(c) \/ \E e \in Endpoint : EndpointGranted(c, e)
        PROVE  Shown(core, {})'
    <2>1. PICK p \in {"asking", "answered"} : core' = Placed(core, c, p)
      BY <1>4 DEF Upgrade, EndpointGranted, Placed
    <2>2. ~Connected(core, c)
      BY <1>4 DEF Upgrade, EndpointGranted, Connected
    <2> QED BY <1>0, <2>1, <2>2, PlacedShown, ShownNow DEF Places
  <1>5. ASSUME NEW c \in Conn, Shuts(c) PROVE Shown(core, {})'
    <2>1. core' = [core EXCEPT !.at[c] = "shut", !.told[c] = {}] /\ core.at[c] = "open"
      BY <1>5 DEF Shuts
    <2>2. /\ \A d \in Conn : core'.at[d] = IF d = c THEN "shut" ELSE core.at[d]
          /\ \A d \in Conn : core'.told[d] = IF d = c THEN {} ELSE core.told[d]
          /\ core'.streams = core.streams /\ core'.pending = core.pending
      BY <1>0, <2>1 DEF CoreType
    <2> QED BY <1>0, <2>2 DEF Shown, ShownAt, Connected
  <1>6. ASSUME NEW c \in Conn, Register(c) \/ TurnedAway(c) \/ Leaves(c) \/ EndpointExpires(c)
        PROVE  Shown(core, {})'
    BY <1>0, <1>6, RegisterShown, TurnedAwayShown, EndingShown
  <1>7. ASSUME NEW c \in Conn, NEW i \in Id, NEW k \in Open, OpenReserves(c, i, k)
        PROVE  Shown(core, {})'
    BY <1>0, <1>7, ReservesShown
  <1>8. ASSUME NEW c \in Conn, NEW i \in Id,
               \/ OpenRejected(c, i) \/ OpenAgain(c, i) \/ OpenOvertaken(c, i)
               \/ DataUndrained(c, i) \/ Violates(c, i) \/ LateFrame(c, i)
        PROVE  Shown(core, {})'
    BY <1>0, <1>8, FrameShown
  <1>9. ASSUME NEW c \in Conn, NEW i \in Id, Fin(c, i) \/ Reset(c, i), core' # core
        PROVE  Shown(core, {})'
    <2> DEFINE k == Own(c, i)
               t == [CloseBindings(core, {k}, Conn) EXCEPT
                       !.told = [d \in Conn |-> {j \in @[d] : core.streams[d][j] # k}]]
    <2>1. k # 0 /\ core' = t
      BY <1>9, Zenon DEF Fin, Reset, Flows, Live, Into
    <2>2. Shown(t, {})
      <3> HIDE DEF k
      <3> QED BY <1>0, <2>1, BothKnow DEF k
    <2> HIDE DEF t
    <2> QED BY <2>1, <2>2, ShownNow
  <1>10. ASSUME NEW c \in Conn, NEW i \in Id, TombExpires(c, i) PROVE Shown(core, {})'
    <2>1. core'.at = core.at /\ core'.streams = core.streams /\ core'.pending = core.pending
          /\ core'.told = core.told
      BY <1>0, <1>10 DEF TombExpires, CoreType
    <2> QED BY <1>0, <2>1 DEF Shown, ShownAt, Connected
  <1>11. ASSUME NEW k \in Open, OpenFails(k) \/ OpenBinds(k) PROVE Shown(core, {})'
    BY <1>0, <1>11, OpenFailsShown, BindsShown
  <1>12. ASSUME NEW k \in Open, BindingExpires(k) PROVE Shown(core, {})'
    <2>1. core' = CloseBindings(core, {k}, {})
      BY <1>12 DEF BindingExpires, Into
    <2> QED BY <1>0, <2>1, CloseShown, ShownNow DEF Good
  <1>13. CASE LinkConnects \/ Synchronized \/ \E h \in Handle : Revoke(h)
    BY <1>1, <1>13 DEF LinkConnects, Synchronized, Revoke
  <1>14. ASSUME NEW k \in Open, \/ Ages(k) \/ RouteRefused(k) \/ OpenAbandoned(k)
                                \/ \E e \in Endpoint, r \in Route : RouteGranted(k, e, r)
         PROVE  Shown(core, {})'
    BY <1>1, <1>14 DEF Ages, RouteRefused, OpenAbandoned, RouteGranted
  <1>15. ASSUME NEW e \in Endpoint, Lapse(e) PROVE Shown(core, {})'
    BY <1>1, <1>15 DEF Lapse
  <1>16. ASSUME NEW c \in Conn, NEW i \in Id, Accept(c, i) PROVE Shown(core, {})'
    BY <1>1, <1>16 DEF Accept
  <1>17. CASE UNCHANGED vars
    BY <1>1, <1>17 DEF vars
  <1> QED BY <1>1, <1>2, <1>3, <1>4, <1>5, <1>6, <1>7, <1>8, <1>9, <1>10, <1>11, <1>12,
             <1>13, <1>14, <1>15, <1>16, <1>17 DEF Next

(* An endpoint whose socket takes frames is told of every stream and every OPEN of
   its that ends, whichever handler ended it (fabric-core.ts, closeBinding, reject,
   handle). *)
THEOREM NobodyHangs == Spec => []NoneIsLeftHanging
  <1>1. Init => Shown(core, {})
    BY DEF Init, Shown, ShownAt
  <1>2. Shown(core, {}) => NoneIsLeftHanging
    BY DEF Shown, ShownAt, NoneIsLeftHanging
  <1> QED BY <1>1, <1>2, Inv, ShownStep, PTL DEF Spec
-----------------------------------------------------------------------------
(* The generations of an endpoint's connections.  An endpoint that has been online
   is fenced against older grants; a fence is only dropped when nothing that could
   be older is still in flight, or what could be has lapsed. *)
Seen == {"open", "shut", "gone"}
Had(s, e) == {c \in Conn : conn[c].who = e /\ s.at[c] \in Seen}
Answering(s, e) == {c \in Conn : conn[c].who = e /\ s.at[c] = "answered"}
InOrder(s) == \A c \in Conn : s.at[c] # "none" => \A b \in 1..c : s.at[b] # "none"
IssuedAll(s) ==
  \A c \in Conn : s.at[c] \in Seen \cup {"answered"} =>
    conn[c].who \in Endpoint /\ conn[c].gen # 0 /\ conn[c].gen <= issued[conn[c].who]
Newest(s) ==
  \A e \in Endpoint : Had(s, e) # {} =>
    \E m \in Had(s, e) : \A d \in Had(s, e) : conn[d].gen <= conn[m].gen
FenceAbove(s) ==
  \A e \in Endpoint : s.fences[e].gen # 0 =>
    s.fences[e].gen <= issued[e] /\ \A d \in Had(s, e) : conn[d].gen <= s.fences[e].gen
LaterNewer(s) ==
  \A e \in Endpoint : s.fences[e].gen # 0 =>
    \A c \in Answering(s, e) : c > s.fences[e].seq => conn[c].gen > s.fences[e].gen
UnfencedNewer(s) ==
  \A e \in Endpoint : s.fences[e].gen = 0 =>
    \A c \in Answering(s, e) :
      conn[c].gen <= lapsed[e] \/ \A d \in Had(s, e) : conn[d].gen < conn[c].gen
Gens(s) ==
  /\ InOrder(s) /\ IssuedAll(s) /\ Newest(s)
  /\ FenceAbove(s) /\ LaterNewer(s) /\ UnfencedNewer(s)

(* A core after connections have ended and none has begun; calm when no fence and
   no admission has changed but that some were turned away. *)
Ends(s, t) ==
  /\ \A e \in Endpoint : t.endpoints[e] \in {s.endpoints[e], 0}
  /\ \A c \in Conn : t.at[c] \in Seen <=> s.at[c] \in Seen
Calm(s, t) ==
  /\ Ends(s, t) /\ t.fences = s.fences
  /\ \A c \in Conn : /\ t.at[c] = "answered" => s.at[c] = "answered"
                     /\ t.at[c] = "none" <=> s.at[c] = "none"

LEMMA TrimsEnds ==
  ASSUME NEW s, NEW t, Trims(s, t)
  PROVE  Ends(s, t) /\ (t.fences = s.fences => Calm(s, t))
  BY DEF Trims, Ends, Calm, Seen, Connected

LEMMA EndsAgain == ASSUME NEW s, NEW t, NEW u, Ends(s, t), Ends(t, u) PROVE Ends(s, u)
  BY DEF Ends

LEMMA CalmGens == ASSUME NEW s, NEW t, Gens(s), Calm(s, t) PROVE Gens(t)
  <1>1. \A e \in Endpoint : Had(t, e) = Had(s, e) /\ Answering(t, e) \subseteq Answering(s, e)
    BY DEF Calm, Ends, Had, Answering
  <1>2. InOrder(t)
    <2>1. \A c \in Conn : 1..c \subseteq Conn
      BY RelayFabricAssumption DEF Conn
    <2> QED BY <2>1 DEF Gens, InOrder, Calm
  <1>3. IssuedAll(t)
    BY DEF Gens, IssuedAll, Calm, Ends
  <1>4. Newest(t) /\ FenceAbove(t)
    BY <1>1 DEF Gens, Newest, FenceAbove, Calm
  <1>5. LaterNewer(t) /\ UnfencedNewer(t)
    BY <1>1 DEF Gens, LaterNewer, UnfencedNewer, Calm
  <1> QED BY <1>2, <1>3, <1>4, <1>5 DEF Gens

(* What the fences say of a grant that has not lapsed. *)
GensType ==
  /\ ConnOK /\ issued \in [Endpoint -> Nat] /\ lapsed \in [Endpoint -> Nat]

LEMMA PrunedFences ==
  ASSUME NEW s \in CoreType, NEW flying
  PROVE  LET t == Pruned(s, flying) IN
         /\ t \in CoreType /\ t.at = s.at /\ t.endpoints = s.endpoints
         /\ \A e \in Endpoint : t.fences[e] =
              IF /\ s.endpoints[e] = 0 /\ s.fences[e].gen # 0
                 /\ s.fences[e].gen <= lapsed[e] \/ \A a \in flying : s.fences[e].seq < a
              THEN [gen |-> 0, seq |-> 0] ELSE s.fences[e]
  <1> DEFINE drops(e) == /\ s.endpoints[e] = 0 /\ s.fences[e].gen # 0
                         /\ s.fences[e].gen <= lapsed[e] \/ \A a \in flying : s.fences[e].seq < a
             fences == [e \in Endpoint |-> IF drops(e) THEN [gen |-> 0, seq |-> 0] ELSE s.fences[e]]
             t == [s EXCEPT !.fences = fences]
  <1>1. Pruned(s, flying) = t
    BY DEF Pruned
  <1>2. fences \in [Endpoint -> [gen : Nat, seq : Nat]]
    BY DEF CoreType
  <1>3. \A e \in Endpoint : fences[e] = IF drops(e) THEN [gen |-> 0, seq |-> 0] ELSE s.fences[e]
    OBVIOUS
  <1> HIDE DEF fences, drops
  <1>4. t \in CoreType /\ t.at = s.at /\ t.endpoints = s.endpoints /\ t.fences = fences
    BY <1>2 DEF CoreType
  <1> HIDE DEF t
  <1> QED BY <1>1, <1>3, <1>4 DEF drops

LEMMA PrunedGens ==
  ASSUME GensType, NEW s \in CoreType, Gens(s), NEW flying,
         \A c \in Conn : s.at[c] = "answered" => c \in flying
  PROVE  Gens(Pruned(s, flying))
  <1> DEFINE t == Pruned(s, flying)
             drops(e) == /\ s.endpoints[e] = 0 /\ s.fences[e].gen # 0
                         /\ s.fences[e].gen <= lapsed[e] \/ \A a \in flying : s.fences[e].seq < a
  <1>1. /\ t.at = s.at
        /\ \A e \in Endpoint : t.fences[e] = IF drops(e) THEN [gen |-> 0, seq |-> 0] ELSE s.fences[e]
    BY PrunedFences
  <1> HIDE DEF t
  <1>2. \A e : Had(t, e) = Had(s, e) /\ Answering(t, e) = Answering(s, e)
    BY <1>1 DEF Had, Answering
  <1>3. InOrder(t) /\ IssuedAll(t) /\ Newest(t)
    BY <1>1, <1>2 DEF Gens, InOrder, IssuedAll, Newest
  <1>4. \A e \in Endpoint : t.fences[e].gen # 0 => t.fences[e] = s.fences[e]
    BY <1>1
  <1>5. FenceAbove(t) /\ LaterNewer(t)
    BY <1>2, <1>4 DEF Gens, FenceAbove, LaterNewer
  <1>6. ASSUME NEW e \in Endpoint, t.fences[e].gen = 0, NEW c \in Answering(s, e),
               ~(conn[c].gen <= lapsed[e]), NEW d \in Had(s, e)
        PROVE  conn[d].gen < conn[c].gen
    <2>0. /\ conn[c].gen \in Nat /\ conn[d].gen \in Nat /\ lapsed[e] \in Nat
          /\ s.fences[e].gen \in Nat /\ s.fences[e].seq \in Nat /\ c \in Conn /\ c \in Nat
      BY ConnOpen DEF GensType, ConnOK, ConnType, Answering, Had, CoreType
    <2>1. CASE s.fences[e].gen = 0
      BY <1>6, <2>1 DEF Gens, UnfencedNewer
    <2>2. CASE s.fences[e].gen # 0
      <3>1. drops(e)
        BY <1>1, <1>6, <2>2
      <3>2. conn[d].gen <= s.fences[e].gen
        BY <1>6, <2>2 DEF Gens, FenceAbove
      <3>3. CASE s.fences[e].gen <= lapsed[e]
        BY <1>6, <2>0, <3>2, <3>3
      <3>4. CASE \A a \in flying : s.fences[e].seq < a
        <4>1. s.fences[e].seq < c
          BY <2>0, <3>4 DEF Answering
        <4>2. conn[c].gen > s.fences[e].gen
          BY <1>6, <2>0, <2>2, <4>1 DEF Gens, LaterNewer
        <4> QED BY <2>0, <3>2, <4>2
      <3> QED BY <3>1, <3>3, <3>4
    <2> QED BY <2>1, <2>2
  <1>7. UnfencedNewer(t)
    BY <1>2, <1>6 DEF UnfencedNewer
  <1>8. Gens(t)
    BY <1>3, <1>5, <1>7 DEF Gens
  <1> QED BY <1>8 DEF t

(* The grants of the connections seen or answered are as they were. *)
SameGrants(s) ==
  /\ \A c \in Conn : s.at[c] \in Seen \cup {"answered"} =>
       conn'[c].who = conn[c].who /\ conn'[c].gen = conn[c].gen
  /\ \A e \in Endpoint : issued[e] <= issued'[e] /\ lapsed[e] <= lapsed'[e]

LEMMA GensNow ==
  ASSUME GensType, GensType', NEW s \in CoreType, Gens(s), core' = s, SameGrants(s)
  PROVE  Gens(core)'
  <1> DEFINE had(e) == {c \in Conn : conn'[c].who = e /\ s.at[c] \in Seen}
             answering(e) == {c \in Conn : conn'[c].who = e /\ s.at[c] = "answered"}
  <1>1. \A e : Had(core, e)' = Had(s, e) /\ Answering(core, e)' = Answering(s, e)
    <2>1. \A e : had(e) = Had(s, e) /\ answering(e) = Answering(s, e)
      BY DEF SameGrants, Had, Answering
    <2> QED BY <2>1 DEF Had, Answering
  <1>2. \A e : \A c \in Had(s, e) \cup Answering(s, e) :
           c \in Conn /\ conn'[c].gen = conn[c].gen /\ conn[c].gen \in Nat
    BY DEF SameGrants, Had, Answering, Seen, GensType, ConnOK, ConnType
  <1>3. \A e \in Endpoint : /\ issued[e] <= issued'[e] /\ lapsed[e] <= lapsed'[e]
                            /\ issued[e] \in Nat /\ lapsed[e] \in Nat
                            /\ issued'[e] \in Nat /\ lapsed'[e] \in Nat
    BY DEF SameGrants, GensType
  <1>4. InOrder(core)'
    BY DEF Gens, InOrder
  <1>5. IssuedAll(core)'
    <2> SUFFICES ASSUME NEW c \in Conn, s.at[c] \in Seen \cup {"answered"}
                 PROVE  /\ conn'[c].who \in Endpoint /\ conn'[c].gen # 0
                        /\ conn'[c].gen <= issued'[conn'[c].who]
      BY DEF IssuedAll
    <2>1. conn'[c].who = conn[c].who /\ conn'[c].gen = conn[c].gen /\ conn[c].gen \in Nat
      BY DEF SameGrants, GensType, ConnOK, ConnType
    <2>2. conn[c].who \in Endpoint /\ conn[c].gen # 0 /\ conn[c].gen <= issued[conn[c].who]
      BY DEF Gens, IssuedAll
    <2> QED BY <1>3, <2>1, <2>2
  <1>6. Newest(core)'
    <2>1. \A e \in Endpoint : Had(s, e) # {} =>
            \E m \in Had(s, e) : \A d \in Had(s, e) : conn'[d].gen <= conn'[m].gen
      BY <1>2 DEF Gens, Newest
    <2> QED BY <1>1, <2>1 DEF Newest
  <1>7. FenceAbove(core)'
    <2>1. ASSUME NEW e \in Endpoint, s.fences[e].gen # 0
          PROVE  s.fences[e].gen <= issued'[e] /\ \A d \in Had(s, e) : conn'[d].gen <= s.fences[e].gen
      <3>1. s.fences[e].gen \in Nat
        BY DEF CoreType
      <3> QED BY <1>2, <1>3, <2>1, <3>1 DEF Gens, FenceAbove
    <2> QED BY <1>1, <2>1 DEF FenceAbove
  <1>8. LaterNewer(core)'
    <2>1. \A e \in Endpoint : s.fences[e].gen # 0 =>
            \A c \in Answering(s, e) : c > s.fences[e].seq => conn'[c].gen > s.fences[e].gen
      BY <1>2 DEF Gens, LaterNewer
    <2> QED BY <1>1, <2>1 DEF LaterNewer
  <1>9. UnfencedNewer(core)'
    <2>1. ASSUME NEW e \in Endpoint, s.fences[e].gen = 0, NEW c \in Answering(s, e)
          PROVE  conn'[c].gen <= lapsed'[e] \/ \A d \in Had(s, e) : conn'[d].gen < conn'[c].gen
      BY <1>2, <1>3, <2>1 DEF Gens, UnfencedNewer
    <2> QED BY <1>1, <2>1 DEF UnfencedNewer
  <1> QED BY <1>4, <1>5, <1>6, <1>7, <1>8, <1>9 DEF Gens
-----------------------------------------------------------------------------
(* The methods of the core that leave the fences alone. *)
Cuts(s, t) == Good(t) /\ Trims(s, t) /\ t.fences = s.fences

LEMMA CutsAgain == ASSUME NEW s, NEW t, NEW u, Cuts(s, t), Cuts(t, u) PROVE Cuts(s, u)
  BY TrimsAgain DEF Cuts

LEMMA CloseFences ==
  ASSUME NEW s \in CoreType, NEW B, NEW quiet
  PROVE  CloseBindings(s, B, quiet).fences = s.fences
  BY DEF CloseBindings, CoreType

LEMMA UnregisterCuts ==
  ASSUME OpsOK, ConnOK, NEW s, Good(s), NEW c \in Conn PROVE Cuts(s, Unregister(s, c))
  <1>1. Good(Unregister(s, c)) /\ Trims(s, Unregister(s, c))
    BY UnregisterGood
  <1>2. Unregister(s, c).fences = s.fences
    <2>1. CASE ~Connected(s, c)
      BY <2>1 DEF Unregister
    <2>2. CASE Connected(s, c)
      <3> DEFINE e == conn[c].who
                 n == Monus(s.count, Cardinality(Held(s, c)))
                 t == [s EXCEPT
                         !.at[c] = "gone",
                         !.endpoints[e] = IF @ = c THEN 0 ELSE @,
                         !.count = n,
                         !.pending[c] = Blank(0),
                         !.tombs[c] = Blank(-1),
                         !.strikes[c] = 0]
                 u == CloseBindings(t, Bound(s, c), {c})
      <3>1. Unregister(s, c) = [u EXCEPT !.told[c] = {}]
        BY <2>2 DEF Unregister
      <3>2. t.fences = s.fences /\ DOMAIN t = DOMAIN s
        BY DEF Good, Loose, CoreType
      <3>3. "fences" \in DOMAIN s
        BY DEF Good, Loose, CoreType
      <3> HIDE DEF t
      <3>4. u.fences = t.fences /\ "fences" \in DOMAIN u
        BY <3>2, <3>3 DEF CloseBindings
      <3> HIDE DEF u
      <3> QED BY <3>1, <3>2, <3>4
    <2> QED BY <2>1, <2>2
  <1> QED BY <1>1, <1>2 DEF Cuts

LEMMA CancelCuts ==
  ASSUME NEW s, Good(s), NEW c \in Conn, NEW i \in Id PROVE Cuts(s, CancelPending(s, c, i))
  <1>1. CancelPending(s, c, i).fences = s.fences
    BY DEF CancelPending, Good, Loose, CoreType
  <1> QED BY <1>1, CancelGood DEF Cuts

LEMMA RejectCuts ==
  ASSUME NEW s, Good(s), NEW c \in Conn, NEW i \in Id PROVE Cuts(s, Reject(s, c, i))
  <1>1. Reject(s, c, i).fences = s.fences
    BY DEF Reject, Remember, Good, Loose, CoreType
  <1> QED BY <1>1, RejectGood DEF Cuts

LEMMA StrikeCuts ==
  ASSUME OpsOK, ConnOK, NEW s, Good(s), NEW c \in Conn, NEW n \in Nat PROVE Cuts(s, Strike(s, c, n))
  <1>1. [s EXCEPT !.strikes[c] = n].fences = s.fences
    BY DEF Good, Loose, CoreType
  <1>2. Strike(s, c, n).fences = s.fences
    BY <1>1, UnregisterCuts DEF Strike, Cuts
  <1> QED BY <1>2, StrikeGood DEF Cuts

LEMMA AloneCuts ==
  ASSUME Tight, NEW k \in Alive, NEW quiet PROVE Cuts(core, CloseBindings(core, {k}, quiet))
  <1>1. CloseBindings(core, {k}, quiet).fences = core.fences
    BY CloseFences DEF Tight, Good, Loose
  <1> QED BY <1>1, AloneGood DEF Cuts

-----------------------------------------------------------------------------
(* A step that begins nothing: what it leaves of the endpoints and the streams, and
   what it keeps of the grants and the revocations. *)
AliveKept ==
  \A k \in Alive' : /\ k \in Alive /\ op'[k].src = op[k].src /\ op'[k].tgt = op[k].tgt
                    /\ op'[k].route = op[k].route
OutKept == dead \subseteq dead' /\ dead \ owed \subseteq dead' \ owed'
SeenKept ==
  \A c \in Conn : core.at[c] \in Seen => conn'[c].who = conn[c].who /\ conn'[c].gen = conn[c].gen
Quietly == Ends(core, core') /\ SeenKept /\ AliveKept /\ OutKept

LEMMA TypesOfGens == IInv => GensType /\ core \in CoreType /\ Tight /\ Good(core)
  BY DEF IInv, Basics, Tight, Good, Loose, GensType

LEMMA GensQuietly ==
  ASSUME IInv, IInv', NEW u \in CoreType, Gens(u), Ends(core, u),
         \A c \in Conn : u.at[c] = "answered" => core.at[c] = "answered",
         \/ core' = u
         \/ \E flying : /\ core' = Pruned(u, flying)
                        /\ \A c \in Conn : u.at[c] = "answered" => c \in flying,
         SameGrants(core), AliveKept, OutKept
  PROVE  Quietly /\ Gens(core)'
  <1>1. GensType /\ GensType'
    BY TypesOfGens, PTL
  <1>3. core' \in CoreType /\ Gens(core') /\ core'.at = u.at /\ core'.endpoints = u.endpoints
    BY <1>1, PrunedFences, PrunedGens
  <1>4. Ends(core, core')
    BY <1>3 DEF Ends
  <1>5. \A c \in Conn : core'.at[c] \in Seen \cup {"answered"} => core.at[c] \in Seen \cup {"answered"}
    BY <1>3 DEF Ends
  <1>6. SameGrants(core') /\ SeenKept
    BY <1>5 DEF SameGrants, SeenKept
  <1> DEFINE s == core'
  <1>7. s \in CoreType /\ Gens(s) /\ core' = s /\ SameGrants(s)
    BY <1>3, <1>6
  <1> HIDE DEF s
  <1>8. Gens(core)'
    BY <1>1, <1>7, GensNow
  <1> QED BY <1>4, <1>6, <1>8 DEF Quietly

LEMMA CalmQuietly ==
  ASSUME IInv, IInv', Gens(core), NEW u \in CoreType, Calm(core, u),
         \/ core' = u
         \/ \E flying : /\ core' = Pruned(u, flying)
                        /\ \A c \in Conn : u.at[c] = "answered" => c \in flying,
         SameGrants(core), AliveKept, OutKept
  PROVE  Quietly /\ Gens(core)'
  <1>1. Gens(u)
    BY CalmGens
  <1>2. Ends(core, u) /\ \A c \in Conn : u.at[c] = "answered" => core.at[c] = "answered"
    BY DEF Calm
  <1> QED BY <1>1, <1>2, GensQuietly

LEMMA StaysSame ==
  ASSUME IInv, UNCHANGED <<dead, owed, issued, lapsed>>,
         \A c \in Conn : conn'[c].who = conn[c].who /\ conn'[c].gen = conn[c].gen
  PROVE  SameGrants(core) /\ OutKept
  BY DEF IInv, Basics, SameGrants, OutKept

LEMMA SettledKept ==
  ASSUME NEW s, \A k \in Open : op'[k] = Settled(s)[k] \/ op'[k].phase \notin {"opening", "active"}
  PROVE  AliveKept
  <1> SUFFICES ASSUME NEW k \in Alive'
               PROVE  k \in Alive /\ op'[k] = op[k]
    BY DEF AliveKept
  <1>1. k \in Open /\ op'[k].phase \in {"opening", "active"} /\ op'[k] = Settled(s)[k]
    BY DEF Alive
  <1>2. op'[k] = op[k]
    BY <1>1 DEF Settled, None
  <1> QED BY <1>1, <1>2 DEF Alive

LEMMA IntoQuietly ==
  ASSUME IInv, IInv', Gens(core), NEW u, Cuts(core, u), UNCHANGED <<authority, forwarder>>,
         \/ Into(u)
         \/ \E flying : /\ Into(Pruned(u, flying))
                        /\ \A c \in Conn : u.at[c] = "answered" => c \in flying
  PROVE  Quietly /\ Gens(core)'
  <1>1. u \in CoreType /\ Calm(core, u)
    BY TrimsEnds DEF Cuts, Good, Loose
  <1>2. PICK s : Into(s) /\ \/ s = u
                            \/ \E flying : /\ s = Pruned(u, flying)
                                           /\ \A c \in Conn : u.at[c] = "answered" => c \in flying
    OBVIOUS
  <1>3. SameGrants(core) /\ OutKept
    BY StaysSame DEF authority, forwarder
  <1>4. AliveKept
    BY <1>2, SettledKept DEF Into
  <1> QED BY <1>1, <1>2, <1>3, <1>4, CalmQuietly DEF Into

LEMMA StruckQuietly ==
  ASSUME IInv, IInv', Gens(core), NEW u, Cuts(core, u), NEW c \in Conn, Struck(u, c)
  PROVE  Quietly /\ Gens(core)'
  <1>1. core.strikes[c] \in Nat
    BY TypesOfGens DEF CoreType
  <1>2. PICK n \in 1..(core.strikes[c] + 1) : Into(Strike(u, c, n))
    BY DEF Struck
  <1>3. Cuts(core, Strike(u, c, n))
    BY <1>1, <1>2, StrikeCuts, CutsAgain DEF Cuts, IInv, Tight
  <1> QED BY <1>2, <1>3, IntoQuietly DEF Struck, Stays

LEMMA SelfCuts == IInv => Cuts(core, core)
  BY TypesOfGens, TrimsSame DEF Cuts

(* The frames of an endpoint that end something, at most. *)
LEMMA FrameQuietly ==
  ASSUME IInv, IInv', Gens(core), NEW c \in Conn, NEW i \in Id,
         \/ OpenRejected(c, i) \/ OpenAgain(c, i) \/ OpenOvertaken(c, i)
         \/ DataUndrained(c, i) \/ Reset(c, i) \/ Violates(c, i) \/ LateFrame(c, i)
         \/ (Fin(c, i) /\ op[Own(c, i)].fins # {})
  PROVE  Quietly /\ Gens(core)'
  <1>0. Tight /\ Good(core) /\ Cuts(core, core) /\ core \in CoreType
    BY TypesOfGens, SelfCuts
  <1>1. Cuts(core, Reject(core, c, i))
    BY <1>0, RejectCuts
  <1>2. Cuts(core, Reject(CancelPending(core, c, i), c, i))
    BY <1>0, CancelCuts, RejectCuts, CutsAgain DEF Cuts
  <1>3. Own(c, i) # 0 => \A quiet : Cuts(core, CloseBindings(core, {Own(c, i)}, quiet))
    BY <1>0, OwnAlive, AloneCuts
  <1>4. CASE OpenRejected(c, i)
    BY <1>1, <1>4, StruckQuietly DEF OpenRejected
  <1>5. CASE OpenAgain(c, i)
    <2>1. CASE Own(c, i) # 0 /\ Into(CloseBindings(core, {Own(c, i)}, {})) /\ Stays
      BY <1>3, <2>1, IntoQuietly DEF Stays
    <2>2. CASE Struck(Reject(CancelPending(core, c, i), c, i), c)
      BY <1>2, <2>2, StruckQuietly
    <2> QED BY <1>5, <2>1, <2>2 DEF OpenAgain
  <1>6. CASE OpenOvertaken(c, i)
    <2>1. CASE Into([Remember(CancelPending(core, c, i), c, i) EXCEPT !.told[c] = @ \ {i}]) /\ Stays
      BY <1>2, <2>1, IntoQuietly DEF Stays, Reject
    <2>2. CASE Struck(Reject(CancelPending(core, c, i), c, i), c)
      BY <1>2, <2>2, StruckQuietly
    <2> QED BY <1>6, <2>1, <2>2 DEF OpenOvertaken
  <1>7. CASE DataUndrained(c, i)
    <2>1. Own(c, i) # 0
      BY <1>7 DEF DataUndrained, Flows, Live
    <2> QED BY <1>3, <1>7, <2>1, IntoQuietly DEF DataUndrained, Stays
  <1>8. CASE Reset(c, i) \/ (Fin(c, i) /\ op[Own(c, i)].fins # {})
    <2> DEFINE k == Own(c, i)
               u == CloseBindings(core, {k}, Conn)
               t == [u EXCEPT !.told = [d \in Conn |-> {j \in @[d] : core.streams[d][j] # k}]]
    <2>1. k # 0 /\ Into(t) /\ Stays
      BY <1>8, Zenon DEF Reset, Fin, Flows, Live
    <2>2. k \in Alive
      BY <1>0, <2>1, OwnAlive
    <2> HIDE DEF k
    <2>3. Good(t) /\ Trims(core, t)
      BY <1>0, <2>2, BothTold
    <2>4. u.fences = core.fences /\ u \in CoreType
      BY <1>0, CloseFences, CloseFields
    <2> HIDE DEF u
    <2>5. t.fences = core.fences
      BY <2>4 DEF CoreType
    <2> HIDE DEF t
    <2> QED BY <2>1, <2>3, <2>5, IntoQuietly DEF Cuts, Stays
  <1>9. CASE Violates(c, i)
    <2>1. Own(c, i) # 0
      BY <1>9 DEF Violates, Live
    <2> QED BY <1>3, <1>9, <2>1, StruckQuietly DEF Violates
  <1>10. CASE LateFrame(c, i)
    <2>1. core.tombs[c][i] \in -1..LateMax
      BY <1>0 DEF CoreType
    <2>2. CASE core.tombs[c][i] > 0 /\ Into([core EXCEPT !.tombs[c][i] = @ - 1]) /\ Stays
      <3> DEFINE n == core.tombs[c][i] - 1
                 t == [core EXCEPT !.tombs[c][i] = n]
      <3>1. n \in -1..LateMax
        BY <2>1, <2>2, ConnOpen
      <3>2. [core EXCEPT !.tombs[c][i] = @ - 1] = t
        OBVIOUS
      <3> HIDE DEF n
      <3>3. Good(t) /\ Trims(core, t)
        BY <1>0, <3>1, RememberGood
      <3>4. t.fences = core.fences
        BY <1>0 DEF CoreType
      <3> HIDE DEF t
      <3> QED BY <2>2, <3>2, <3>3, <3>4, IntoQuietly DEF Cuts, Stays
    <2>3. CASE Struck(core, c)
      BY <1>0, <2>3, StruckQuietly
    <2>4. CASE Struck(Reject(core, c, i), c)
      BY <1>1, <2>4, StruckQuietly
    <2> QED BY <1>10, <2>2, <2>3, <2>4 DEF LateFrame
  <1> QED BY <1>4, <1>5, <1>6, <1>7, <1>8, <1>9, <1>10

(* A core in which no socket, no endpoint and no fence has changed. *)
LEMMA SteadyQuietly ==
  ASSUME IInv, IInv', Gens(core), core'.at = core.at, core'.endpoints = core.endpoints,
         core'.fences = core.fences, SameGrants(core), AliveKept, OutKept
  PROVE  Quietly /\ Gens(core)'
  <1>1. core' \in CoreType
    <2>1. (core \in CoreType)'
      BY TypesOfGens, PTL
    <2> QED BY <2>1 DEF CoreType
  <1>2. Calm(core, core')
    BY DEF Calm, Ends
  <1> DEFINE u == core'
  <1>3. u \in CoreType /\ Calm(core, u) /\ core' = u
    BY <1>1, <1>2
  <1> HIDE DEF u
  <1> QED BY <1>3, CalmQuietly

LEMMA CalmAgain == ASSUME NEW s, NEW t, NEW u, Calm(s, t), Calm(t, u) PROVE Calm(s, u)
  BY EndsAgain DEF Calm

LEMMA EndingQuietly ==
  ASSUME IInv, IInv', Gens(core), NEW c \in Conn, Leaves(c) \/ EndpointExpires(c)
  PROVE  Quietly /\ Gens(core)'
  <1>1. Cuts(core, Unregister(core, c))
    BY TypesOfGens, UnregisterCuts DEF Tight
  <1>2. \A d \in Conn : Unregister(core, c).at[d] = "answered" => d \in InFlight(core)
    BY <1>1 DEF Cuts, Trims, InFlight
  <1> QED BY <1>1, <1>2, IntoQuietly DEF Leaves, EndpointExpires

LEMMA FinishedGrants ==
  ASSUME IInv, NEW c \in Conn, conn' = [conn EXCEPT ![c].mark = 0, ![c].epoch = 0],
         UNCHANGED authority
  PROVE  SameGrants(core) /\ OutKept
  <1>1. \A d \in Conn : conn'[d].who = conn[d].who /\ conn'[d].gen = conn[d].gen
    <2> DEFINE z == [conn[c] EXCEPT !.mark = 0, !.epoch = 0]
    <2>1. conn \in [Conn -> ConnType]
      BY DEF IInv, Tight, ConnOK
    <2>2. z.who = conn[c].who /\ z.gen = conn[c].gen
      BY <2>1 DEF ConnType
    <2>3. conn' = [conn EXCEPT ![c] = z]
      BY <2>1
    <2> HIDE DEF z
    <2> QED BY <2>1, <2>2, <2>3
  <1> QED BY <1>1, StaysSame DEF authority

LEMMA AwayCalm ==
  ASSUME NEW s, Good(s), NEW c \in Conn, s.at[c] \in {"asking", "answered"}
  PROVE  /\ [s EXCEPT !.at[c] = "away"] \in CoreType
         /\ Calm(s, [s EXCEPT !.at[c] = "away"])
  <1>1. Good([s EXCEPT !.at[c] = "away"]) /\ Trims(s, [s EXCEPT !.at[c] = "away"])
    BY AwayGood
  <1>2. [s EXCEPT !.at[c] = "away"].fences = s.fences
    BY DEF Good, Loose, CoreType
  <1> QED BY <1>1, <1>2, TrimsEnds DEF Good, Loose

LEMMA TurnedAwayQuietly ==
  ASSUME IInv, IInv', Gens(core), NEW c \in Conn, TurnedAway(c) PROVE Quietly /\ Gens(core)'
  <1> DEFINE s == [core EXCEPT !.at[c] = "away"]
  <1>1. /\ core.at[c] \in {"asking", "answered"} /\ Into(Pruned(s, InFlight(s)))
        /\ conn' = [conn EXCEPT ![c].mark = 0, ![c].epoch = 0] /\ UNCHANGED authority
    BY DEF TurnedAway, Finished
  <1>2. s \in CoreType /\ Calm(core, s)
    BY <1>1, TypesOfGens, AwayCalm
  <1> HIDE DEF s
  <1>3. \A d \in Conn : s.at[d] = "answered" => d \in InFlight(s)
    BY DEF InFlight
  <1>4. AliveKept
    BY <1>1, SettledKept DEF Into
  <1>5. SameGrants(core) /\ OutKept
    BY <1>1, FinishedGrants
  <1>6. core' = Pruned(s, InFlight(s))
    BY <1>1 DEF Into
  <1> QED BY <1>2, <1>3, <1>4, <1>5, <1>6, CalmQuietly

LEMMA DeliversQuietly ==
  ASSUME IInv, IInv', Gens(core), NEW h \in Handle, Delivers(h) PROVE Quietly /\ Gens(core)'
  <1> DEFINE t == Noted(core, h)
             u == Revoked(core, h)
  <1>1. Into(u) /\ dead' = dead /\ owed' \subseteq owed /\ UNCHANGED <<issued, lapsed, conn>>
    BY Zenon DEF Delivers, forwarder
  <1>2. Good(t) /\ t.at = core.at /\ t.endpoints = core.endpoints /\ t.routes = core.routes
        /\ t.streams = core.streams /\ Tight /\ core \in CoreType
    BY TypesOfGens, NotedGood
  <1>3. t.fences = core.fences
    BY <1>2 DEF Noted, CoreType
  <1>4. u = IF h \in Route THEN CloseBindings(t, {t.routes[h]} \ {0}, {})
            ELSE IF t.endpoints[h] = 0 THEN t ELSE Unregister(t, t.endpoints[h])
    BY Zenon DEF Revoked, Noted
  <1> HIDE DEF t, u
  <1>5. u \in CoreType /\ Calm(t, u)
    <2>1. t \in CoreType /\ Calm(t, t)
      BY <1>2, TrimsSame, TrimsEnds DEF Good, Loose
    <2>2. CASE h \in Route
      <3> DEFINE B == {t.routes[h]} \ {0}
      <3>1. /\ u \in CoreType /\ u.at = t.at /\ u.endpoints = t.endpoints
            /\ u.fences = t.fences
        BY <1>4, <2>1, <2>2, CloseFields, CloseFences
      <3> QED BY <3>1 DEF Calm, Ends
    <2>3. CASE h \notin Route /\ t.endpoints[h] = 0
      BY <1>4, <2>1, <2>3
    <2>4. CASE h \notin Route /\ t.endpoints[h] # 0
      <3>1. t.endpoints[h] \in Conn
        BY <2>1, <2>4 DEF CoreType, Handle
      <3>2. Cuts(t, u)
        BY <1>2, <1>4, <2>4, <3>1, UnregisterCuts DEF Tight
      <3> QED BY <3>2, TrimsEnds DEF Cuts, Good, Loose
    <2> QED BY <2>2, <2>3, <2>4
  <1>6. Calm(core, u)
    <2>1. Calm(core, t)
      BY <1>2, <1>3 DEF Calm, Ends
    <2> QED BY <1>5, <2>1, CalmAgain
  <1>7. AliveKept
    BY <1>1, SettledKept DEF Into
  <1>8. SameGrants(core) /\ OutKept
    BY <1>1 DEF IInv, Basics, SameGrants, OutKept
  <1> QED BY <1>1, <1>5, <1>6, <1>7, <1>8, CalmQuietly DEF Into

LEMMA LinkDropsQuietly ==
  ASSUME IInv, IInv', Gens(core), LinkDrops PROVE Quietly /\ Gens(core)'
  <1> DEFINE gone == {c \in Conn : Connected(core, c)}
             held == UNION {{<<c, i>> : i \in Held(core, c)} : c \in gone}
             n == Monus(core.count, Cardinality(held))
             at == [c \in Conn |-> IF c \in gone THEN "gone" ELSE core.at[c]]
             none == [e \in Endpoint |-> 0]
             s == [core EXCEPT
                     !.at = at, !.endpoints = none, !.routes = [r \in Route |-> 0],
                     !.streams = [c \in Conn |-> Blank(0)], !.pending = [c \in Conn |-> Blank(0)],
                     !.tombs = [c \in Conn |-> Blank(-1)], !.told = [c \in Conn |-> {}], !.count = n,
                     !.strikes = [c \in Conn |-> 0]]
  <1>1. Into(s) /\ dead' = dead /\ owed' = {} /\ UNCHANGED <<issued, lapsed, conn>>
    BY DEF LinkDrops
  <1>2. /\ \A c \in Conn : at[c] = IF Connected(core, c) THEN "gone" ELSE core.at[c]
        /\ \A e \in Endpoint : none[e] = 0
    OBVIOUS
  <1> HIDE DEF at, n, none
  <1>3. s.at = at /\ s.endpoints = none /\ s.fences = core.fences
    BY TypesOfGens DEF CoreType
  <1> HIDE DEF s
  <1>4. Calm(core, s)
    BY <1>2, <1>3 DEF Calm, Ends, Connected, Seen
  <1>5. s \in CoreType
    <2>1. (core \in CoreType)'
      BY TypesOfGens, PTL
    <2> QED BY <1>1, <2>1 DEF CoreType, Into
  <1>6. AliveKept
    BY <1>1, SettledKept DEF Into
  <1>7. SameGrants(core) /\ OutKept
    BY <1>1 DEF IInv, Basics, SameGrants, OutKept
  <1> QED BY <1>1, <1>4, <1>5, <1>6, <1>7, CalmQuietly DEF Into

LEMMA OpenFailsQuietly ==
  ASSUME IInv, IInv', Gens(core), NEW k \in Open, OpenFails(k) PROVE Quietly /\ Gens(core)'
  <1> DEFINE c == op[k].src
             u == Reject(Cleared(k), op[k].src, op[k].sid)
  <1>0. Tight /\ core \in CoreType /\ Good(core)
    BY TypesOfGens
  <1>1. c \in Conn /\ op[k].sid \in Id
    <2>1. Settles(k)
      BY DEF OpenFails
    <2> QED BY <1>0, <2>1, Clearing
  <1>2. Cuts(core, u)
    <2>1. Cuts(core, Cleared(k))
      BY <1>0, <1>1, CancelCuts DEF Cleared, Source
    <2> QED BY <1>1, <2>1, RejectCuts, CutsAgain DEF Cuts
  <1>3. Cuts(core, core')
    <2>1. CASE core' = u
      BY <1>2, <2>1
    <2>2. CASE \E n \in 1..(core.strikes[c] + 1) : core' = Strike(u, c, n)
      <3>1. core.strikes[c] \in Nat
        BY <1>0, <1>1 DEF CoreType
      <3>2. PICK n \in 1..(core.strikes[c] + 1) : core' = Strike(u, c, n)
        BY <2>2
      <3> QED BY <1>0, <1>1, <1>2, <3>1, <3>2, StrikeCuts, CutsAgain DEF Cuts, Tight
    <2> QED BY <2>1, <2>2 DEF OpenFails, Source
  <1> DEFINE s == core'
  <1>4. s \in CoreType /\ Calm(core, s) /\ core' = s
    BY <1>3, TrimsEnds DEF Cuts, Good, Loose
  <1>5. AliveKept
    <2>1. op' = [Settled(core') EXCEPT ![k] = Over]
      BY Zenon DEF OpenFails, Over
    <2>2. \A j \in Open : op'[j] = IF j = k THEN Over ELSE Settled(core')[j]
      BY <2>1 DEF Settled
    <2>3. \A j \in Open : op'[j] = Settled(core')[j] \/ op'[j].phase \notin {"opening", "active"}
      BY <2>2, OverType
    <2> QED BY <2>3, SettledKept
  <1>6. SameGrants(core) /\ OutKept
    BY StaysSame DEF OpenFails, Stays, authority, forwarder
  <1> HIDE DEF s
  <1> QED BY <1>4, <1>5, <1>6, CalmQuietly

(* The steps outside the core, and those that only change an OPEN. *)
LEMMA OutsideQuietly ==
  ASSUME IInv, IInv', Gens(core),
         \/ LinkConnects \/ Synchronized \/ UNCHANGED vars
         \/ \E h \in Handle : Revoke(h) \/ RevocationAges(h)
         \/ \E e \in Endpoint : Lapse(e)
         \/ \E c \in Conn, i \in Id : TombExpires(c, i)
  PROVE  Quietly /\ Gens(core)'
  <1>0. core \in CoreType
    BY TypesOfGens
  <1>1. core'.at = core.at /\ core'.endpoints = core.endpoints /\ core'.fences = core.fences
    BY <1>0 DEF LinkConnects, Synchronized, vars, Revoke, RevocationAges, Lapse, TombExpires, CoreType
  <1>2. AliveKept
    <2>1. op' = op
      BY DEF LinkConnects, Synchronized, vars, Revoke, RevocationAges, Lapse, TombExpires
    <2> QED BY <2>1 DEF AliveKept, Alive
  <1>3. OutKept
    BY DEF LinkConnects, Synchronized, vars, Revoke, RevocationAges, Lapse, TombExpires, Stays,
           authority, OutKept
  <1>4. SameGrants(core)
    <2>1. conn' = conn /\ issued' = issued
      BY DEF LinkConnects, Synchronized, vars, Revoke, RevocationAges, Lapse, TombExpires, Stays,
             authority, forwarder
    <2>2. \A e \in Endpoint : lapsed[e] <= lapsed'[e]
      <3>1. lapsed \in [Endpoint -> Nat]
        BY DEF IInv, Basics
      <3>2. CASE lapsed' = lapsed
        BY <3>1, <3>2
      <3>3. ASSUME NEW e \in Endpoint, Lapse(e) PROVE \A x \in Endpoint : lapsed[x] <= lapsed'[x]
        BY <3>1, <3>3 DEF Lapse
      <3> QED BY <3>2, <3>3 DEF LinkConnects, Synchronized, vars, Revoke, RevocationAges, TombExpires,
                                Stays, authority
    <2>3. \A e \in Endpoint : issued[e] <= issued[e]
      BY DEF IInv, Basics
    <2> QED BY <2>1, <2>2, <2>3 DEF SameGrants
  <1> QED BY <1>1, <1>2, <1>3, <1>4, SteadyQuietly

LEMMA OneOpenKept ==
  ASSUME IInv, NEW k \in Open, NEW z, op' = [op EXCEPT ![k] = z],
         \/ z.phase \notin {"opening", "active"}
         \/ k \in Alive /\ z.src = op[k].src /\ z.tgt = op[k].tgt /\ z.route = op[k].route
  PROVE  AliveKept
  <1>1. \A j \in Open : op'[j] = IF j = k THEN z ELSE op[j]
    BY DEF IInv, Tight, OpsOK
  <1> QED BY <1>1 DEF AliveKept, Alive

LEMMA OpenQuietly ==
  ASSUME IInv, IInv', Gens(core), NEW k \in Open,
         \/ Ages(k) \/ RouteRefused(k) \/ OpenAbandoned(k)
         \/ \E e \in Endpoint, r \in Route : RouteGranted(k, e, r)
  PROVE  Quietly /\ Gens(core)'
  <1>1. core' = core /\ UNCHANGED <<dead, owed, issued, lapsed, conn>>
    BY DEF Ages, RouteRefused, OpenAbandoned, RouteGranted, Stays, authority, forwarder
  <1>2. AliveKept
    <2>0. op[k] \in OpType
      BY DEF IInv, Tight, OpsOK
    <2>1. CASE Ages(k)
      <3> DEFINE z == [op[k] EXCEPT !.aged = TRUE]
      <3>1. op' = [op EXCEPT ![k] = z]
        BY <2>1 DEF Ages
      <3>2. z.phase = op[k].phase /\ z.src = op[k].src /\ z.tgt = op[k].tgt /\ z.route = op[k].route
        BY <2>0 DEF OpType
      <3> HIDE DEF z
      <3>3. z.phase \notin {"opening", "active"} \/ k \in Alive
        BY <3>2 DEF Alive
      <3> QED BY <3>1, <3>2, <3>3, OneOpenKept
    <2>2. CASE RouteRefused(k)
      <3> DEFINE z == [op[k] EXCEPT !.phase = "refused"]
      <3>1. op' = [op EXCEPT ![k] = z] /\ z.phase = "refused"
        BY <2>0, <2>2 DEF RouteRefused, OpType
      <3> HIDE DEF z
      <3> QED BY <3>1, OneOpenKept
    <2>3. CASE OpenAbandoned(k)
      <3>1. op' = [op EXCEPT ![k] = Over]
        BY <2>3, Zenon DEF OpenAbandoned, Ended, Over
      <3> QED BY <3>1, OverType, OneOpenKept
    <2>4. ASSUME NEW e \in Endpoint, NEW r \in Route, RouteGranted(k, e, r) PROVE AliveKept
      <3>1. op' = [op EXCEPT ![k].phase = "granted", ![k].to = e, ![k].route = r]
        BY <2>4, Zenon DEF RouteGranted
      <3>2. op'[k].phase = "granted" /\ \A j \in Open : j # k => op'[j] = op[j]
        BY <2>0, <3>1 DEF IInv, Tight, OpsOK, OpType
      <3> QED BY <3>2 DEF AliveKept, Alive
    <2> QED BY <2>1, <2>2, <2>3, <2>4
  <1>3. SameGrants(core) /\ OutKept
    BY <1>1, StaysSame
  <1> QED BY <1>1, <1>2, <1>3, SteadyQuietly

LEMMA StreamQuietly ==
  ASSUME IInv, IInv', Gens(core), NEW c \in Conn, NEW i \in Id,
         Accept(c, i) \/ (Fin(c, i) /\ op[Own(c, i)].fins = {})
  PROVE  Quietly /\ Gens(core)'
  <1> DEFINE k == Own(c, i)
  <1>1. core' = core /\ UNCHANGED <<dead, owed, issued, lapsed, conn>> /\ k # 0
    BY DEF Accept, Fin, Flows, Live, Stays, authority, forwarder
  <1>2. k \in Alive /\ k \in Open
    BY <1>1, OwnAlive, TypesOfGens DEF Alive
  <1>3. op[k] \in OpType
    BY <1>2 DEF IInv, Tight, OpsOK
  <1>4. AliveKept
    <2>1. CASE Accept(c, i)
      <3> DEFINE z == [op[k] EXCEPT !.phase = "active"]
      <3>1. op' = [op EXCEPT ![k] = z]
        BY <2>1 DEF Accept
      <3>2. z.src = op[k].src /\ z.tgt = op[k].tgt /\ z.route = op[k].route
        BY <1>3 DEF OpType
      <3> HIDE DEF z, k
      <3> QED BY <1>2, <3>1, <3>2, OneOpenKept
    <2>2. CASE Fin(c, i) /\ op[k].fins = {}
      <3> DEFINE z == [op[k] EXCEPT !.fins = {c}]
      <3>1. op' = [op EXCEPT ![k] = z]
        BY <2>2 DEF Fin
      <3>2. z.src = op[k].src /\ z.tgt = op[k].tgt /\ z.route = op[k].route
        BY <1>3 DEF OpType
      <3> HIDE DEF z, k
      <3> QED BY <1>2, <3>1, <3>2, OneOpenKept
    <2> QED BY <2>1, <2>2
  <1>5. SameGrants(core) /\ OutKept
    BY <1>1, StaysSame
  <1> QED BY <1>1, <1>4, <1>5, SteadyQuietly

LEMMA ReservesQuietly ==
  ASSUME IInv, IInv', Gens(core), NEW c \in Conn, NEW i \in Id, NEW k \in Open, OpenReserves(c, i, k)
  PROVE  Quietly /\ Gens(core)'
  <1> DEFINE z == [None EXCEPT !.phase = "asking", !.src = c, !.sid = i, !.mark = core.sequence]
  <1>1. op' = [op EXCEPT ![k] = z]
    BY Zenon DEF OpenReserves
  <1>2. z.phase = "asking"
    BY DEF None
  <1> HIDE DEF z
  <1>3. AliveKept
    BY <1>1, <1>2, OneOpenKept
  <1>4. core'.at = core.at /\ core'.endpoints = core.endpoints /\ core'.fences = core.fences
    <2>1. core' = [core EXCEPT !.pending[c][i] = k, !.count = @ + 1, !.told[c] = @ \cup {i}]
      BY DEF OpenReserves
    <2> QED BY <2>1, TypesOfGens DEF CoreType
  <1>5. SameGrants(core) /\ OutKept
    BY StaysSame DEF OpenReserves, Stays, authority, forwarder
  <1> QED BY <1>3, <1>4, <1>5, SteadyQuietly

LEMMA ShutsQuietly ==
  ASSUME IInv, IInv', Gens(core), NEW c \in Conn, Shuts(c) PROVE Quietly /\ Gens(core)'
  <1> DEFINE u == core'
  <1>1. u = [core EXCEPT !.at[c] = "shut", !.told[c] = {}] /\ core.at[c] = "open"
        /\ UNCHANGED <<op, conn, dead, owed, issued, lapsed>>
    BY DEF Shuts, authority, forwarder
  <1>2. u \in CoreType
    <2>1. (core \in CoreType)'
      BY TypesOfGens, PTL
    <2> QED BY <2>1 DEF CoreType
  <1> HIDE DEF u
  <1>3. /\ \A d \in Conn : u.at[d] = IF d = c THEN "shut" ELSE core.at[d]
        /\ u.endpoints = core.endpoints /\ u.fences = core.fences
    BY <1>1, TypesOfGens DEF CoreType
  <1>4. Calm(core, u)
    BY <1>1, <1>3 DEF Calm, Ends, Seen
  <1>5. AliveKept
    BY <1>1 DEF AliveKept, Alive
  <1>6. SameGrants(core) /\ OutKept
    BY <1>1, StaysSame
  <1>7. core' = u
    BY DEF u
  <1> QED BY <1>2, <1>4, <1>5, <1>6, <1>7, CalmQuietly

(* A socket that is asked about, and one that is given its grant. *)
LEMMA UpgradeQuietly ==
  ASSUME IInv, IInv', Gens(core), NEW c \in Conn, Upgrade(c) PROVE Quietly /\ Gens(core)'
  <1> DEFINE u == core'
  <1>0. core \in CoreType
    BY TypesOfGens
  <1>1. u \in CoreType
    <2>1. (core \in CoreType)'
      BY TypesOfGens, PTL
    <2> QED BY <2>1 DEF CoreType
  <1>2. /\ u = Placed(core, c, "asking") /\ core.at[c] = "none"
        /\ \A b \in 1..(c - 1) : core.at[b] # "none"
        /\ UNCHANGED <<op, dead, owed, issued, lapsed>>
        /\ conn' = [conn EXCEPT ![c].mark = core.sequence, ![c].epoch = epoch]
    BY DEF Upgrade, Placed, authority
  <1> HIDE DEF u
  <1>3. /\ \A d \in Conn : u.at[d] = IF d = c THEN "asking" ELSE core.at[d]
        /\ u.endpoints = core.endpoints
    <2>1. "asking" \in Places
      BY DEF Places
    <2> QED BY <1>0, <1>2, <2>1, PlaceType
  <1>4. u.fences = core.fences
    BY <1>0, <1>2 DEF Placed, CoreType
  <1>5. Ends(core, u) /\ \A d \in Conn : u.at[d] = "answered" => core.at[d] = "answered"
    BY <1>2, <1>3 DEF Ends, Seen
  <1>6. Gens(u)
    <2>1. \A e : Had(u, e) = Had(core, e) /\ Answering(u, e) = Answering(core, e)
      BY <1>2, <1>3 DEF Had, Answering, Seen
    <2>2. InOrder(u)
      <3> SUFFICES ASSUME NEW d \in Conn, u.at[d] # "none", NEW b \in 1..d PROVE u.at[b] # "none"
        BY DEF InOrder
      <3>1. b \in Conn /\ c \in Nat /\ d \in Nat
        BY RelayFabricAssumption DEF Conn
      <3>2. CASE d = c
        <4>1. b = c \/ b \in 1..(c - 1)
          BY <3>1, <3>2
        <4> QED BY <1>2, <1>3, <3>1, <4>1
      <3>3. CASE d # c
        BY <1>3, <3>1, <3>3 DEF Gens, InOrder
      <3> QED BY <3>2, <3>3
    <2>3. IssuedAll(u)
      BY <1>3 DEF Gens, IssuedAll, Seen
    <2> QED BY <1>4, <2>1, <2>2, <2>3 DEF Gens, Newest, FenceAbove, LaterNewer, UnfencedNewer
  <1>7. AliveKept
    BY <1>2 DEF AliveKept, Alive
  <1>8. SameGrants(core) /\ OutKept
    <2>1. \A d \in Conn : conn'[d].who = conn[d].who /\ conn'[d].gen = conn[d].gen
      <3> DEFINE z == [conn[c] EXCEPT !.mark = core.sequence, !.epoch = epoch]
      <3>1. conn \in [Conn -> ConnType]
        BY DEF IInv, Tight, ConnOK
      <3>2. z.who = conn[c].who /\ z.gen = conn[c].gen
        BY <3>1 DEF ConnType
      <3>3. conn' = [conn EXCEPT ![c] = z]
        BY <1>2, <3>1
      <3> HIDE DEF z
      <3> QED BY <3>1, <3>2, <3>3
    <2> QED BY <1>2, <2>1, StaysSame
  <1>9. core' = u
    BY DEF u
  <1> QED BY <1>1, <1>5, <1>6, <1>7, <1>8, <1>9, GensQuietly

LEMMA GrantedQuietly ==
  ASSUME IInv, IInv', Gens(core), NEW c \in Conn, NEW e \in Endpoint, EndpointGranted(c, e)
  PROVE  Quietly /\ Gens(core)'
  <1> DEFINE g == issued[e] + 1
  <1>0. core \in CoreType /\ conn \in [Conn -> ConnType] /\ GensType /\ GensType'
        /\ issued \in [Endpoint -> Nat] /\ lapsed \in [Endpoint -> Nat]
    BY TypesOfGens, PTL DEF GensType, ConnOK
  <1>1. /\ core' = Placed(core, c, "answered") /\ core.at[c] = "asking"
        /\ issued' = [issued EXCEPT ![e] = g]
        /\ UNCHANGED <<op, dead, owed, lapsed>>
        /\ conn' = [conn EXCEPT ![c].who = e, ![c].gen = g]
    BY DEF EndpointGranted, Placed
  <1>2. /\ \A d \in Conn : core'.at[d] = IF d = c THEN "answered" ELSE core.at[d]
        /\ core'.endpoints = core.endpoints
    <2>1. "answered" \in Places
      BY DEF Places
    <2> QED BY <1>0, <1>1, <2>1, PlaceType
  <1>3. core'.fences = core.fences
    BY <1>0, <1>1 DEF Placed, CoreType
  <1>4. /\ conn'[c].who = e /\ conn'[c].gen = g
        /\ \A d \in Conn : d # c => conn'[d] = conn[d]
    BY <1>0, <1>1 DEF ConnType
  <1>5. /\ g \in Nat /\ g # 0 /\ issued[e] < g /\ issued[e] \in Nat
        /\ \A x \in Endpoint : issued'[x] = IF x = e THEN g ELSE issued[x]
    BY <1>0, <1>1
  <1> HIDE DEF g
  <1>6. Quietly
    <2>1. Ends(core, core')
      BY <1>1, <1>2 DEF Ends, Seen
    <2>2. SeenKept
      BY <1>1, <1>4 DEF SeenKept, Seen
    <2>3. AliveKept /\ OutKept
      BY <1>1 DEF AliveKept, Alive, OutKept
    <2> QED BY <2>1, <2>2, <2>3 DEF Quietly
  <1> DEFINE had(x) == {d \in Conn : conn'[d].who = x /\ core'.at[d] \in Seen}
             answering(x) == {d \in Conn : conn'[d].who = x /\ core'.at[d] = "answered"}
  <1>7. \A x : had(x) = Had(core, x) /\ c \notin had(x)
    BY <1>1, <1>2, <1>4 DEF Had, Seen
  <1>8. \A x : \A d \in answering(x) : (d = c /\ x = e) \/ (d # c /\ d \in Answering(core, x))
    <2> SUFFICES ASSUME NEW x, NEW d \in answering(x)
                 PROVE  (d = c /\ x = e) \/ (d # c /\ d \in Answering(core, x))
      OBVIOUS
    <2>1. d \in Conn /\ conn'[d].who = x /\ core'.at[d] = "answered"
      OBVIOUS
    <2> HIDE DEF answering
    <2>2. CASE d = c
      BY <1>4, <2>1, <2>2
    <2>3. CASE d # c
      BY <1>2, <1>4, <2>1, <2>3 DEF Answering
    <2> QED BY <2>2, <2>3
  <1>9. \A x : had(x) = Had(core, x)' /\ answering(x) = Answering(core, x)'
    BY DEF Had, Answering
  <1>10. \A x \in Endpoint : \A d \in had(x) :
           conn'[d].gen = conn[d].gen /\ conn[d].gen \in Nat /\ conn[d].gen <= issued[x]
    <2> SUFFICES ASSUME NEW x \in Endpoint, NEW d \in had(x)
                 PROVE  conn'[d].gen = conn[d].gen /\ conn[d].gen \in Nat /\ conn[d].gen <= issued[x]
      OBVIOUS
    <2>1. d \in Had(core, x) /\ d # c /\ d \in Conn
      BY <1>7
    <2> QED BY <1>0, <1>4, <2>1 DEF Had, Gens, IssuedAll, Seen, ConnType
  <1>11. \A x \in Endpoint : core.fences[x].gen \in Nat /\ core.fences[x].seq \in Nat /\ issued[x] \in Nat
    BY <1>0 DEF CoreType
  <1>12. InOrder(core)'
    <2>1. \A d \in Conn : core'.at[d] # "none" <=> core.at[d] # "none"
      BY <1>1, <1>2
    <2>2. \A d \in Conn : 1..d \subseteq Conn
      BY RelayFabricAssumption DEF Conn
    <2> QED BY <2>1, <2>2 DEF Gens, InOrder
  <1>13. IssuedAll(core)'
    <2> SUFFICES ASSUME NEW d \in Conn, core'.at[d] \in Seen \cup {"answered"}
                 PROVE  /\ conn'[d].who \in Endpoint /\ conn'[d].gen # 0
                        /\ conn'[d].gen <= issued'[conn'[d].who]
      BY DEF IssuedAll
    <2>1. CASE d = c
      BY <1>4, <1>5, <2>1
    <2>2. CASE d # c
      <3>1. conn'[d] = conn[d] /\ conn[d].who \in Endpoint /\ conn[d].gen # 0
            /\ conn[d].gen <= issued[conn[d].who] /\ conn[d].gen \in Nat
        BY <1>0, <1>2, <1>4, <2>2 DEF Gens, IssuedAll, ConnType
      <3> QED BY <1>5, <1>11, <3>1
    <2> QED BY <2>1, <2>2
  <1>14. Newest(core)'
    <2>1. \A x \in Endpoint : had(x) # {} =>
            \E m \in had(x) : \A d \in had(x) : conn'[d].gen <= conn'[m].gen
      BY <1>7, <1>10 DEF Gens, Newest
    <2> HIDE DEF had
    <2> QED BY <1>9, <2>1 DEF Newest
  <1>15. FenceAbove(core)'
    <2>1. ASSUME NEW x \in Endpoint, core.fences[x].gen # 0
          PROVE  /\ core.fences[x].gen <= issued'[x]
                 /\ \A d \in had(x) : conn'[d].gen <= core.fences[x].gen
      BY <1>5, <1>7, <1>10, <1>11, <2>1 DEF Gens, FenceAbove
    <2> HIDE DEF had
    <2> QED BY <1>3, <1>9, <2>1 DEF FenceAbove
  <1>16. LaterNewer(core)'
    <2>1. ASSUME NEW x \in Endpoint, core.fences[x].gen # 0, NEW d \in answering(x),
                 d > core.fences[x].seq
          PROVE  conn'[d].gen > core.fences[x].gen
      <3>1. CASE d = c /\ x = e
        BY <1>4, <1>5, <1>11, <2>1, <3>1 DEF Gens, FenceAbove
      <3>2. CASE d # c /\ d \in Answering(core, x)
        BY <1>4, <2>1, <3>2 DEF Gens, LaterNewer
      <3> QED BY <1>8, <2>1, <3>1, <3>2
    <2> HIDE DEF answering
    <2> QED BY <1>3, <1>9, <2>1 DEF LaterNewer
  <1>17. UnfencedNewer(core)'
    <2>1. ASSUME NEW x \in Endpoint, core.fences[x].gen = 0, NEW d \in answering(x)
          PROVE  conn'[d].gen <= lapsed[x] \/ \A b \in had(x) : conn'[b].gen < conn'[d].gen
      <3>1. CASE d = c /\ x = e
        BY <1>4, <1>5, <1>10, <3>1
      <3>2. CASE d # c /\ d \in Answering(core, x)
        BY <1>4, <1>7, <1>10, <2>1, <3>2 DEF Gens, UnfencedNewer
      <3> QED BY <1>8, <2>1, <3>1, <3>2
    <2> HIDE DEF answering, had
    <2> QED BY <1>1, <1>3, <1>9, <2>1 DEF UnfencedNewer
  <1> QED BY <1>6, <1>12, <1>13, <1>14, <1>15, <1>16, <1>17 DEF Gens
-----------------------------------------------------------------------------
(* The promise: what a handler does to the variables of FabricPromise. *)
On(e) == IF core.endpoints[e] = 0 THEN 0 ELSE conn[core.endpoints[e]].gen
Joins(k) == {conn[op[k].src].who, conn[op[k].tgt].who}
Stream(k) == [open |-> k, route |-> op[k].route, ends |-> Joins(k)]
BestOf == [e \in Endpoint |-> Best(e)]
OnlineOf == [e \in Endpoint |-> On(e)]
BoundOf == {Stream(k) : k \in Alive}
OutOf == dead \ owed

IsBest(e) ==
  \/ Had(core, e) = {} /\ Best(e) = 0
  \/ \E m \in Had(core, e) : /\ Best(e) = conn[m].gen
                             /\ \A d \in Had(core, e) : conn[d].gen <= Best(e)

Bests == \A e \in Endpoint : IsBest(e)

LEMMA BestIs == IInv /\ Gens(core) => Bests
  <1> SUFFICES ASSUME IInv, Gens(core), NEW e \in Endpoint PROVE IsBest(e)
    BY DEF Bests
  <1> DEFINE gens == {conn[c].gen : c \in Had(core, e)}
  <1>1. Best(e) = IF gens = {} THEN 0 ELSE CHOOSE g \in gens : \A h \in gens : h <= g
    BY DEF Best, Had, Seen
  <1>2. CASE Had(core, e) = {}
    BY <1>1, <1>2 DEF IsBest
  <1>3. CASE Had(core, e) # {}
    <2>1. PICK m \in Had(core, e) : \A d \in Had(core, e) : conn[d].gen <= conn[m].gen
      BY <1>3 DEF Gens, Newest
    <2>2. \E g \in gens : \A h \in gens : h <= g
      BY <2>1
    <2>3. gens # {}
      BY <1>3
    <2>4. Best(e) \in gens /\ \A h \in gens : h <= Best(e)
      <3> HIDE DEF gens
      <3> QED BY <1>1, <2>2, <2>3
    <2> QED BY <2>4 DEF IsBest
  <1> QED BY <1>2, <1>3

LEMMA BestType ==
  ASSUME IInv, NEW e \in Endpoint, IsBest(e) PROVE Best(e) \in Nat
  BY DEF IsBest, Had, IInv, Tight, ConnOK, ConnType

LEMMA BestSame ==
  ASSUME IInv, IInv', Gens(core), Gens(core)', NEW e \in Endpoint, Had(core, e)' = Had(core, e),
         \A d \in Had(core, e) : conn'[d].gen = conn[d].gen
  PROVE  Best(e)' = Best(e)
  <1>1. IsBest(e) /\ IsBest(e)'
    <2>1. Bests /\ Bests'
      BY BestIs, PTL
    <2> QED BY <2>1 DEF Bests
  <1>2. \A d \in Had(core, e) : conn[d].gen \in Nat
    BY DEF Had, IInv, Tight, ConnOK, ConnType
  <1> QED BY <1>1, <1>2 DEF IsBest

LEMMA StreamEnds ==
  ASSUME IInv, NEW k \in Alive
  PROVE  /\ k \in Open /\ op[k].src \in Conn /\ op[k].tgt \in Conn /\ op[k].route \in Route
         /\ Connected(core, op[k].src) /\ Connected(core, op[k].tgt)
         /\ conn[op[k].src].who \in Endpoint /\ conn[op[k].tgt].who \in Endpoint
         /\ core.endpoints[conn[op[k].src].who] = op[k].src
         /\ core.endpoints[conn[op[k].tgt].who] = op[k].tgt
         /\ core.routes[op[k].route] = k /\ k # 0
  <1>1. /\ k \in Open /\ k # 0 /\ Holds(core, k) /\ op[k].src \in Conn /\ op[k].sid \in Id
        /\ op[k].tgt \in Conn /\ op[k].tid \in Id /\ op[k].route \in Route
    BY ConnOpen DEF Alive, IInv, Tight, OpsOK
  <1>2. Connected(core, op[k].src) /\ Connected(core, op[k].tgt)
    BY <1>1 DEF Holds, IInv, Tight, Good, Linked
  <1> QED BY <1>1, <1>2 DEF Holds, IInv, Tight, Good, Loose, Named

StreamsOn ==
  \A k \in Alive : /\ op[k].src \in Conn /\ op[k].tgt \in Conn /\ op[k].route \in Route
                   /\ core.endpoints[conn[op[k].src].who] = op[k].src
                   /\ core.endpoints[conn[op[k].tgt].who] = op[k].tgt
                   /\ core.routes[op[k].route] = k /\ k # 0
LEMMA StreamsEnds == IInv => StreamsOn
  BY StreamEnds DEF StreamsOn

(* What a step that begins nothing may do is what End allows. *)
LEMMA QuietEnds ==
  ASSUME IInv, IInv', Gens(core), Gens(core)', Quietly
  PROVE  \E gone \in SUBSET Endpoint : Promise!End(gone, OutOf' \ OutOf)
  <1> DEFINE gone == {e \in Endpoint : core'.endpoints[e] = 0}
             H == OutOf' \ OutOf
  <1>1. OutOf' = OutOf \cup H
    BY DEF Quietly, OutKept, OutOf
  <1>2. H \cap Endpoint \subseteq gone
    <2>1. \A h \in dead' \ owed' : ~InUse(h)'
      BY DEF IInv, Fenced, Out
    <2> QED BY <2>1, RelayFabricAssumption DEF OutOf, InUse
  <1>3. ASSUME NEW e \in Endpoint PROVE On(e)' = IF e \in gone THEN 0 ELSE On(e)
    <2>1. CASE core'.endpoints[e] = 0
      BY <2>1 DEF On
    <2>2. CASE core'.endpoints[e] # 0
      <3>1. core'.endpoints[e] = core.endpoints[e]
        BY <2>2 DEF Quietly, Ends
      <3>2. core.endpoints[e] \in Conn /\ core.at[core.endpoints[e]] \in Seen
        BY <2>2, <3>1, TypesOfGens DEF CoreType, Tight, Good, Loose, Named, Connected, Seen
      <3> QED BY <2>2, <3>1, <3>2 DEF On, Quietly, SeenKept
    <2> QED BY <2>1, <2>2
  <1>4. OnlineOf' = [e \in Endpoint |-> IF e \in gone THEN 0 ELSE OnlineOf[e]]
    <2> HIDE DEF gone
    <2> QED BY <1>3 DEF OnlineOf
  <1>5. BestOf' = BestOf
    <2>1. ASSUME NEW e \in Endpoint PROVE Best(e)' = Best(e)
      <3>1. Had(core, e)' = Had(core, e) /\ \A d \in Had(core, e) : conn'[d].gen = conn[d].gen
        BY DEF Had, Quietly, Ends, SeenKept
      <3> QED BY <3>1, BestSame
    <2> QED BY <2>1 DEF BestOf
  <1>6. ASSUME NEW k \in Alive'
        PROVE  /\ k \in Alive /\ Stream(k)' = Stream(k)
               /\ Stream(k).ends \cap gone = {} /\ Stream(k).route \notin H
    <2>1. k \in Alive /\ op'[k].src = op[k].src /\ op'[k].tgt = op[k].tgt /\ op'[k].route = op[k].route
      BY DEF Quietly, AliveKept
    <2>2. op[k].src \in Conn /\ op[k].tgt \in Conn /\ Connected(core, op[k].src)
          /\ Connected(core, op[k].tgt)
      BY <2>1, StreamEnds
    <2>3. conn'[op[k].src].who = conn[op[k].src].who /\ conn'[op[k].tgt].who = conn[op[k].tgt].who
      BY <2>2 DEF Quietly, SeenKept, Connected, Seen
    <2>4. /\ core'.endpoints[conn'[op'[k].src].who] = op'[k].src
          /\ core'.endpoints[conn'[op'[k].tgt].who] = op'[k].tgt
          /\ core'.routes[op'[k].route] = k /\ k # 0 /\ op'[k].route \in Route
      <3>1. StreamsOn'
        BY StreamsEnds, PTL
      <3> QED BY <3>1 DEF StreamsOn
    <2>5. Joins(k)' = Joins(k)
      BY <2>1, <2>3 DEF Joins
    <2>6. Joins(k) \cap gone = {}
      BY <2>1, <2>2, <2>3, <2>4, ConnOpen DEF Joins
    <2>7. op[k].route \notin H
      <3>1. \A h \in dead' \ owed' : ~InUse(h)'
        BY DEF IInv, Fenced, Out
      <3> QED BY <2>1, <2>4, <3>1 DEF OutOf, InUse
    <2> HIDE DEF gone, H
    <2>8. Stream(k)' = Stream(k)
      BY <2>1, <2>5 DEF Stream
    <2> QED BY <2>1, <2>6, <2>7, <2>8 DEF Stream
  <1>7. BoundOf' \subseteq {s \in BoundOf : s.ends \cap gone = {} /\ s.route \notin H}
    <2> HIDE DEF gone, H
    <2> QED BY <1>6 DEF BoundOf
  <1> HIDE DEF H
  <1>8. Promise!End(gone, H)
    BY <1>1, <1>2, <1>4, <1>5, <1>7, Zenon
       DEF Promise!End, OutOf, OnlineOf, BoundOf, BestOf, On, Stream, Joins, Alive
  <1>9. gone \in SUBSET Endpoint
    OBVIOUS
  <1> QED BY <1>8, <1>9 DEF H

(* An OPEN that is bound: one stream more, between endpoints that are online. *)
LEMMA SteadyGens ==
  ASSUME IInv, IInv', Gens(core), core'.at = core.at, core'.endpoints = core.endpoints,
         core'.fences = core.fences, SameGrants(core)
  PROVE  Gens(core)'
  <1> DEFINE u == core'
  <1>1. u \in CoreType /\ GensType /\ GensType'
    <2>1. GensType /\ GensType' /\ (core \in CoreType)'
      BY TypesOfGens, PTL
    <2> QED BY <2>1
  <1>2. Gens(u)
    <2>1. Calm(core, u)
      BY DEF Calm, Ends
    <2> HIDE DEF u
    <2> QED BY <2>1, CalmGens
  <1>3. core' = u /\ SameGrants(u)
    BY DEF SameGrants
  <1> HIDE DEF u
  <1> QED BY <1>1, <1>2, <1>3, GensNow

LEMMA BindsBinds ==
  ASSUME IInv, IInv', Gens(core), NEW k \in Open, OpenBinds(k)
  PROVE  Gens(core)' /\ \E s \in BoundOf' : Promise!Bind(s)
  <1> DEFINE t == core.endpoints[op[k].to]
  <1>0. /\ core \in CoreType /\ op \in [Open -> OpType] /\ Settles(k) /\ Usable(k) /\ Reachable(k)
        /\ UNCHANGED <<dead, owed, issued, lapsed, conn>> /\ Tight
    BY DEF OpenBinds, Stays, authority, forwarder, IInv, Tight, Good, Loose, OpsOK
  <1>1. /\ op[k].src \in Conn /\ k \notin Alive /\ core.pending[op[k].src][op[k].sid] = k
        /\ Connected(core, op[k].src) /\ core.endpoints[conn[op[k].src].who] # 0
        /\ conn[op[k].src].who \in Endpoint /\ op[k].sid \in Id
        /\ Good(Cleared(k)) /\ Cleared(k).at = core.at /\ Cleared(k).endpoints = core.endpoints
    BY <1>0, Clearing
  <1>2. op[k].phase = "granted" /\ op[k].to \in Endpoint /\ op[k].route \in Route
        /\ core.routes[op[k].route] = 0 /\ ~WasRevokedSince(core, op[k].route, op[k].mark)
    BY <1>0 DEF Usable, Tight, OpsOK
  <1>3. t \in Conn /\ t # 0 /\ Connected(core, t) /\ conn[t].who = op[k].to
    <2>1. t # 0
      BY <1>0 DEF Reachable
    <2> QED BY <1>0, <1>2, <2>1 DEF CoreType, Tight, Good, Loose, Named
  <1>4. PICK i \in Free(core, t) :
          /\ core' = BoundCore(Cleared(k), op[k].src, op[k].sid, k, t, i, op[k].route, core.at[t])
          /\ op' = [op EXCEPT ![k].phase = "opening", ![k].tgt = t, ![k].tid = i, ![k].mark = 0]
    BY Zenon DEF OpenBinds, Source, BoundCore
  <1>5. i \in Id
    BY DEF Free
  <1> HIDE DEF t
  <1>6. core'.at = core.at /\ core'.endpoints = core.endpoints
    BY <1>1, <1>2, <1>3, <1>4, <1>5, BoundCoreType DEF Good, Loose
  <1>7. core'.fences = core.fences
    <2>1. Cleared(k).fences = core.fences
      BY <1>0, <1>1, CancelCuts DEF Cleared, Source, Cuts, Tight
    <2> DEFINE s == Cleared(k)
    <2>2. s \in CoreType
      BY <1>1 DEF Good, Loose
    <2> HIDE DEF s
    <2>3. \A c, n, r, a : BoundCore(s, c, n, k, t, i, r, a).fences = s.fences
      BY <2>2 DEF BoundCore, CoreType
    <2> QED BY <1>4, <2>1, <2>3 DEF s
  <1>8. /\ op'[k].phase = "opening" /\ op'[k].src = op[k].src /\ op'[k].tgt = t
        /\ op'[k].route = op[k].route /\ \A j \in Open : j # k => op'[j] = op[j]
    <2> DEFINE z == BoundOp(op[k], t, i)
    <2>1. /\ z.phase = "opening" /\ z.src = op[k].src /\ z.tgt = t /\ z.route = op[k].route
      BY <1>0, <1>3, <1>5, BoundOpType
    <2>2. op' = [op EXCEPT ![k] = z]
      BY <1>0, <1>4 DEF BoundOp
    <2> HIDE DEF z
    <2> QED BY <1>0, <2>1, <2>2
  <1>9. Alive' = Alive \cup {k}
    BY <1>8 DEF Alive
  <1>10. Gens(core)'
    BY <1>0, <1>6, <1>7, StaysSame, SteadyGens
  <1>21. PICK s : s = [open |-> k, route |-> op[k].route,
                       ends |-> {conn[op[k].src].who, conn[t].who}]
    OBVIOUS
  <1>11. s.route \notin OutOf
    BY <1>1, <1>2, <1>21 DEF IInv, Fenced, Granted, OutOf
  <1>12. \A x \in BoundOf : x.route # s.route
    <2>1. \A j \in Alive : op[j].route # op[k].route
      BY <1>2, StreamsEnds DEF StreamsOn
    <2> QED BY <1>21, <2>1 DEF BoundOf, Stream
  <1>13. \A e \in s.ends : OnlineOf[e] # 0
    <2>1. /\ core.endpoints[conn[op[k].src].who] = op[k].src /\ op[k].src # 0
          /\ core.endpoints[conn[t].who] = t
      BY <1>0, <1>1, <1>2, <1>3, ConnOpen DEF t, Tight, Good, Loose, Named
    <2>2. conn[op[k].src].gen # 0 /\ conn[t].gen # 0
      BY <1>1, <1>3 DEF Gens, IssuedAll, Connected, Seen
    <2> QED BY <1>1, <1>2, <1>3, <1>21, <2>1, <2>2 DEF OnlineOf, On
  <1>14. \A j \in Alive : Stream(j)' = Stream(j)
    <2>1. \A j \in Alive : op'[j] = op[j]
      BY <1>1, <1>8 DEF Alive
    <2> QED BY <1>0, <2>1 DEF Stream, Joins
  <1>15. Stream(k)' = s
    BY <1>0, <1>8, <1>21 DEF Stream, Joins
  <1>16. BoundOf' = BoundOf \cup {s}
    BY <1>9, <1>14, <1>15 DEF BoundOf
  <1>17. OnlineOf' = OnlineOf /\ OutOf' = OutOf
    BY <1>0, <1>6 DEF OnlineOf, On, OutOf
  <1>18. BestOf' = BestOf
    <2>1. \A e \in Endpoint : Had(core, e)' = Had(core, e)
      BY <1>0, <1>6 DEF Had
    <2>2. \A e \in Endpoint : Best(e)' = Best(e)
      BY <1>0, <1>10, <2>1, BestSame
    <2> QED BY <2>2 DEF BestOf
  <1>19. Promise!Bind(s)
    BY <1>11, <1>12, <1>13, <1>16, <1>17, <1>18, Zenon
       DEF Promise!Bind, OutOf, OnlineOf, BoundOf, BestOf, On, Stream, Joins, Alive
  <1>20. s \in BoundOf'
    BY <1>16
  <1> QED BY <1>10, <1>19, <1>20, Zenon
-----------------------------------------------------------------------------
(* An endpoint that comes online: what its former connection leaves, exactly. *)
LEMMA UnregisterExact ==
  ASSUME OpsOK, NEW s, Good(s), NEW c \in Conn, Connected(s, c)
  PROVE  LET v == Unregister(s, c) IN
         /\ \A d \in Conn : v.at[d] = IF d = c THEN "gone" ELSE s.at[d]
         /\ \A x \in Endpoint : v.endpoints[x] = IF x = conn[c].who THEN 0 ELSE s.endpoints[x]
         /\ \A d \in Conn, i \in Id : s.streams[d][i] # 0 =>
              \/ v.streams[d][i] = s.streams[d][i]
              \/ c \in {op[s.streams[d][i]].src, op[s.streams[d][i]].tgt}
  <1> DEFINE e == conn[c].who
             n == Monus(s.count, Cardinality(Held(s, c)))
             t == [s EXCEPT
                     !.at[c] = "gone",
                     !.endpoints[e] = IF @ = c THEN 0 ELSE @,
                     !.count = n,
                     !.pending[c] = Blank(0),
                     !.tombs[c] = Blank(-1),
                     !.strikes[c] = 0]
             B == Bound(s, c)
             u == CloseBindings(t, B, {c})
             v == [u EXCEPT !.told[c] = {}]
  <1>1. Unregister(s, c) = v
    BY DEF Unregister
  <1>2. e \in Endpoint /\ s.endpoints[e] = c
    BY DEF Good, Loose, Named
  <1>3. n \in Nat
    <2>1. s.count \in Nat
      BY DEF Good, Loose, CoreType
    <2> QED BY <2>1, Counts DEF Monus
  <1>4. Blank(0) \in [Id -> Open \cup {0}] /\ Blank(-1) \in [Id -> -1..LateMax]
    BY ConnOpen DEF Blank
  <1>5. \A k \in B : k \in Alive /\ c \in {op[k].src, op[k].tgt} /\ Holds(s, k)
    BY DEF Bound, Good, Loose, Wired, Legs
  <1> HIDE DEF e, n, B
  <1>0. s \in CoreType
    BY DEF Good, Loose
  <1>6. t \in CoreType
    <2>1. [s.at EXCEPT ![c] = "gone"] \in [Conn -> Places]
      BY <1>0 DEF CoreType, Places
    <2>2. [s.endpoints EXCEPT ![e] = IF @ = c THEN 0 ELSE @] \in [Endpoint -> Conn \cup {0}]
      BY <1>0 DEF CoreType
    <2>3. [s.pending EXCEPT ![c] = Blank(0)] \in [Conn -> [Id -> Open \cup {0}]]
      BY <1>0, <1>4 DEF CoreType
    <2>4. [s.tombs EXCEPT ![c] = Blank(-1)] \in [Conn -> [Id -> -1..LateMax]]
      BY <1>0, <1>4 DEF CoreType
    <2>5. [s.strikes EXCEPT ![c] = 0] \in [Conn -> Nat]
      BY <1>0 DEF CoreType
    <2> QED BY <1>0, <1>3, <2>1, <2>2, <2>3, <2>4, <2>5 DEF CoreType
  <1>7. /\ \A d \in Conn : t.at[d] = IF d = c THEN "gone" ELSE s.at[d]
        /\ \A x \in Endpoint : t.endpoints[x] = IF x = e THEN 0 ELSE s.endpoints[x]
        /\ t.streams = s.streams
    BY <1>0, <1>2 DEF CoreType
  <1> HIDE DEF t
  <1>8. /\ u \in CoreType /\ u.at = t.at /\ u.endpoints = t.endpoints
        /\ \A d \in Conn, i \in Id :
             u.streams[d][i] = IF \E k \in B : <<d, i>> \in Legs(k) THEN 0 ELSE t.streams[d][i]
    BY <1>6, CloseFields
  <1> HIDE DEF u
  <1>9. v.at = u.at /\ v.endpoints = u.endpoints /\ v.streams = u.streams
    BY <1>8 DEF CoreType
  <1> HIDE DEF v
  <1>10. ASSUME NEW d \in Conn, NEW i \in Id, s.streams[d][i] # 0
         PROVE  \/ v.streams[d][i] = s.streams[d][i]
                \/ c \in {op[s.streams[d][i]].src, op[s.streams[d][i]].tgt}
    <2>1. CASE \E k \in B : <<d, i>> \in Legs(k)
      <3>1. PICK k \in B : <<d, i>> \in Legs(k)
        BY <2>1
      <3>2. s.streams[d][i] = k
        BY <1>5, <3>1 DEF Holds, Legs
      <3> QED BY <1>5, <3>2
    <2>2. CASE ~\E k \in B : <<d, i>> \in Legs(k)
      BY <1>7, <1>8, <1>9, <2>2
    <2> QED BY <2>1, <2>2
  <1>11. /\ \A d \in Conn : v.at[d] = IF d = c THEN "gone" ELSE s.at[d]
         /\ \A x \in Endpoint : v.endpoints[x] = IF x = e THEN 0 ELSE s.endpoints[x]
    BY <1>7, <1>8, <1>9
  <1> QED BY <1>1, <1>10, <1>11 DEF e

(* Connections are numbered as they come: none is beyond the number that have begun. *)
LEMMA BegunAll ==
  ASSUME NEW s, InOrder(s), NEW d \in Conn, s.at[d] # "none" PROVE d <= Begun(s)
  <1> DEFINE B == {c \in Conn : s.at[c] # "none"}
  <1>1. d \in Nat /\ 1..d \subseteq B
    BY RelayFabricAssumption DEF InOrder, Conn
  <1>2. IsFiniteSet(B)
    <2>1. IsFiniteSet(Conn) /\ B \subseteq Conn
      BY RelayFabricAssumption, FS_Interval DEF Conn
    <2> QED BY <2>1, FS_Subset
  <1>3. Cardinality(1..d) = d /\ IsFiniteSet(1..d)
    BY <1>1, FS_Interval
  <1> HIDE DEF B
  <1>4. Cardinality(1..d) <= Cardinality(B)
    BY <1>1, <1>2, FS_Subset
  <1> QED BY <1>3, <1>4 DEF B, Begun

(* The fences after an endpoint has come online with a grant above all before. *)
LEMMA JoinedGens ==
  ASSUME GensType, NEW t \in CoreType, Gens(t), NEW c \in Conn, t.at[c] = "answered",
         NEW e \in Endpoint, e = conn[c].who,
         \A d \in Had(t, e) : conn[d].gen < conn[c].gen,
         NEW u, u \in CoreType,
         \A d \in Conn : \/ d = c /\ u.at[d] = "open"
                         \/ d # c /\ u.at[d] = t.at[d]
                         \/ d # c /\ t.at[d] \in Seen /\ u.at[d] \in Seen,
         \A x \in Endpoint : u.fences[x] =
            IF x = e THEN [gen |-> conn[c].gen, seq |-> Begun(t)] ELSE t.fences[x]
  PROVE  Gens(u)
  <1> DEFINE g == conn[c].gen
  <1>0. /\ conn \in [Conn -> ConnType] /\ g \in Nat /\ g # 0 /\ g <= issued[e]
        /\ \A d \in Conn : conn[d].gen \in Nat
        /\ Begun(t) \in Nat
    BY Counts DEF GensType, ConnOK, ConnType, Gens, IssuedAll
  <1>1. \A x \in Endpoint : /\ Had(u, x) = IF x = e THEN Had(t, x) \cup {c} ELSE Had(t, x)
                            /\ Answering(u, x) \subseteq Answering(t, x)
                            /\ c \notin Answering(u, x)
    BY DEF Had, Answering, Seen
  <1>2. InOrder(u)
    <2>1. \A d \in Conn : u.at[d] = "none" <=> t.at[d] = "none"
      BY DEF Seen
    <2>2. \A d \in Conn : 1..d \subseteq Conn
      BY RelayFabricAssumption DEF Conn
    <2> QED BY <2>1, <2>2 DEF Gens, InOrder
  <1>3. IssuedAll(u)
    BY DEF Gens, IssuedAll, Seen
  <1> HIDE DEF g
  <1>4. \A d \in Had(u, e) : conn[d].gen <= g
    <2>1. \A d \in Had(t, e) : d \in Conn /\ conn[d].gen < g
      BY DEF Had, g
    <2> QED BY <1>0, <1>1, <2>1 DEF g
  <1>5. Newest(u)
    <2> SUFFICES ASSUME NEW x \in Endpoint, Had(u, x) # {}
                 PROVE  \E m \in Had(u, x) : \A d \in Had(u, x) : conn[d].gen <= conn[m].gen
      BY DEF Newest
    <2>1. CASE x = e
      BY <1>1, <1>4, <2>1 DEF g
    <2>2. CASE x # e
      BY <1>1, <2>2 DEF Gens, Newest
    <2> QED BY <2>1, <2>2
  <1>6. FenceAbove(u)
    <2> SUFFICES ASSUME NEW x \in Endpoint, u.fences[x].gen # 0
                 PROVE  u.fences[x].gen <= issued[x] /\ \A d \in Had(u, x) : conn[d].gen <= u.fences[x].gen
      BY DEF FenceAbove
    <2>1. CASE x = e
      BY <1>0, <1>4, <2>1 DEF g
    <2>2. CASE x # e
      BY <1>1, <2>2 DEF Gens, FenceAbove
    <2> QED BY <2>1, <2>2
  <1>7. LaterNewer(u)
    <2> SUFFICES ASSUME NEW x \in Endpoint, u.fences[x].gen # 0, NEW d \in Answering(u, x),
                        d > u.fences[x].seq
                 PROVE  conn[d].gen > u.fences[x].gen
      BY DEF LaterNewer
    <2>1. CASE x = e
      <3>1. d \in Conn /\ t.at[d] # "none"
        BY <1>1 DEF Answering
      <3>2. d <= Begun(t) /\ d \in Nat
        BY <3>1, BegunAll, ConnOpen DEF Gens
      <3>3. u.fences[x].seq = Begun(t)
        BY <2>1
      <3> QED BY <1>0, <3>2, <3>3
    <2>2. CASE x # e
      BY <1>1, <2>2 DEF Gens, LaterNewer
    <2> QED BY <2>1, <2>2
  <1>8. UnfencedNewer(u)
    <2> SUFFICES ASSUME NEW x \in Endpoint, u.fences[x].gen = 0, NEW d \in Answering(u, x)
                 PROVE  conn[d].gen <= lapsed[x] \/ \A b \in Had(u, x) : conn[b].gen < conn[d].gen
      BY DEF UnfencedNewer
    <2>1. x # e
      BY <1>0 DEF g
    <2> QED BY <1>1, <2>1 DEF Gens, UnfencedNewer
  <1> QED BY <1>2, <1>3, <1>5, <1>6, <1>7, <1>8 DEF Gens

LEMMA RefusedQuietly ==
  ASSUME IInv, IInv', Gens(core), NEW c \in Conn, core.at[c] = "answered",
         conn' = [conn EXCEPT ![c].mark = 0, ![c].epoch = 0], UNCHANGED authority,
         Into(Finished([Pruned(core, InFlight(core)) EXCEPT !.at[c] = "away"]))
  PROVE  Quietly /\ Gens(core)'
  <1> DEFINE t == Pruned(core, InFlight(core))
             u == [t EXCEPT !.at[c] = "away"]
  <1>1. Good(t) /\ t.at = core.at /\ t.endpoints = core.endpoints /\ Gens(t) /\ GensType
    <2>1. \A d \in Conn : core.at[d] = "answered" => d \in InFlight(core)
      BY DEF InFlight
    <2> QED BY <2>1, TypesOfGens, PrunedGood, PrunedGens
  <1> HIDE DEF t
  <1>2. u \in CoreType /\ Calm(t, u)
    BY <1>1, AwayCalm
  <1>3. Into(Pruned(u, InFlight(u)))
    BY DEF Finished, t
  <1> HIDE DEF u
  <1>4. Gens(u)
    BY <1>1, <1>2, CalmGens
  <1>5. Ends(core, u) /\ \A d \in Conn : u.at[d] = "answered" => core.at[d] = "answered"
    <2>1. Ends(core, t)
      BY <1>1 DEF Ends
    <2> QED BY <1>1, <1>2, <2>1, EndsAgain DEF Calm
  <1>6. AliveKept
    BY <1>3, SettledKept DEF Into
  <1>7. SameGrants(core) /\ OutKept
    BY FinishedGrants
  <1>8. \A d \in Conn : u.at[d] = "answered" => d \in InFlight(u)
    BY DEF InFlight
  <1>9. core' = Pruned(u, InFlight(u))
    BY <1>3 DEF Into
  <1> QED BY <1>2, <1>4, <1>5, <1>6, <1>7, <1>8, <1>9, GensQuietly

(* The core after an admission that succeeds. *)
Joined(t, c, e, fence) ==
  LET fenced == [t EXCEPT !.fences[e] = fence]
  IN Online(IF t.endpoints[e] = 0 THEN fenced ELSE Unregister(fenced, t.endpoints[e]), c)

LEMMA JoinedCore ==
  ASSUME IInv, NEW c \in Conn, NEW t, Good(t), t.at[c] = "answered",
         NEW e \in Endpoint, e = conn[c].who, NEW fence \in [gen : Nat, seq : Nat],
         \A k \in Alive : Holds(t, k)
  PROVE  LET u == Joined(t, c, e, fence)
         IN /\ u \in CoreType /\ Good(u)
            /\ \A d \in Conn : \/ d = c /\ u.at[d] = "open"
                               \/ d # c /\ u.at[d] = t.at[d]
                               \/ d # c /\ t.at[d] \in Seen /\ u.at[d] \in Seen
            /\ \A x \in Endpoint : u.fences[x] = IF x = e THEN fence ELSE t.fences[x]
            /\ \A x \in Endpoint : u.endpoints[x] = IF x = e THEN c ELSE t.endpoints[x]
            /\ \A k \in Alive : conn[op[k].src].who # e /\ conn[op[k].tgt].who # e =>
                  u.streams[op[k].src][op[k].sid] = k
  <1> DEFINE old == t.endpoints[e]
             fenced == [t EXCEPT !.fences[e] = fence]
             freed == IF old = 0 THEN fenced ELSE Unregister(fenced, old)
             u == Online(freed, c)
  <1>0. t \in CoreType /\ OpsOK /\ ConnOK
    BY DEF Good, Loose, IInv, Tight
  <1>1. /\ Good(fenced) /\ fenced.endpoints = t.endpoints /\ fenced.at = t.at
        /\ fenced.streams = t.streams
        /\ \A x \in Endpoint : fenced.fences[x] = IF x = e THEN fence ELSE t.fences[x]
    <2> DEFINE fences == [t.fences EXCEPT ![e] = fence]
    <2>1. /\ fences \in [Endpoint -> [gen : Nat, seq : Nat]]
          /\ \A x \in Endpoint : fences[x] = IF x = e THEN fence ELSE t.fences[x]
      BY <1>0 DEF CoreType
    <2>2. fenced = [t EXCEPT !.fences = fences]
      BY <1>0 DEF CoreType
    <2> HIDE DEF fences, fenced
    <2>3. /\ fenced \in CoreType /\ fenced.at = t.at /\ fenced.endpoints = t.endpoints
          /\ fenced.routes = t.routes /\ fenced.streams = t.streams /\ fenced.table = t.table
          /\ fenced.floor = t.floor /\ fenced.sequence = t.sequence /\ fenced.pending = t.pending
          /\ fenced.count = t.count /\ fenced.fences = fences
      BY <1>0, <2>1, <2>2 DEF CoreType
    <2>4. Good(fenced)
      BY <2>3, GoodTrimmed, Uncounted
    <2> QED BY <2>1, <2>3, <2>4
  <1> HIDE DEF fenced
  <1>2. /\ Good(freed) /\ freed.fences = fenced.fences
        /\ \A d \in Conn : freed.at[d] = t.at[d] \/ (t.at[d] \in Seen /\ freed.at[d] \in Seen)
        /\ \A x \in Endpoint : freed.endpoints[x] = IF x = e THEN 0 ELSE t.endpoints[x]
        /\ \A k \in Alive : conn[op[k].src].who # e /\ conn[op[k].tgt].who # e =>
              freed.streams[op[k].src][op[k].sid] = k
    <2>0. \A k \in Alive : /\ fenced.streams[op[k].src][op[k].sid] = k
                           /\ op[k].src \in Conn /\ op[k].sid \in Id /\ k # 0
      BY <1>0, <1>1, ConnOpen DEF Holds, Alive, OpsOK
    <2>1. CASE old = 0
      BY <1>1, <2>0, <2>1
    <2>2. CASE old # 0
      <3>1. old \in Conn /\ Connected(fenced, old) /\ conn[old].who = e
        BY <1>0, <1>1, <2>2 DEF CoreType, Good, Loose, Named, Connected
      <3>2. freed = Unregister(fenced, old)
        BY <2>2
      <3> HIDE DEF freed, old
      <3>3. Good(freed) /\ freed.fences = fenced.fences
        BY <1>0, <1>1, <3>1, <3>2, UnregisterCuts DEF Cuts
      <3>4. /\ \A d \in Conn : freed.at[d] = IF d = old THEN "gone" ELSE fenced.at[d]
            /\ \A x \in Endpoint : freed.endpoints[x] = IF x = conn[old].who THEN 0 ELSE fenced.endpoints[x]
            /\ \A d \in Conn, i \in Id : fenced.streams[d][i] # 0 =>
                 \/ freed.streams[d][i] = fenced.streams[d][i]
                 \/ old \in {op[fenced.streams[d][i]].src, op[fenced.streams[d][i]].tgt}
        BY <1>0, <1>1, <3>1, <3>2, UnregisterExact
      <3>5. \A d \in Conn : freed.at[d] = t.at[d] \/ (t.at[d] \in Seen /\ freed.at[d] \in Seen)
        BY <1>1, <3>1, <3>4 DEF Connected, Seen
      <3>6. ASSUME NEW k \in Alive, conn[op[k].src].who # e, conn[op[k].tgt].who # e
            PROVE  freed.streams[op[k].src][op[k].sid] = k
        BY <2>0, <3>1, <3>4, <3>6
      <3> QED BY <1>1, <3>1, <3>3, <3>4, <3>5, <3>6
    <2> QED BY <2>1, <2>2
  <1> HIDE DEF freed
  <1>3. ~Connected(freed, c)
    BY <1>2 DEF Connected, Seen
  <1>4. /\ Good(u)
        /\ \A d \in Conn : u.at[d] = IF d = c THEN "open" ELSE freed.at[d]
        /\ \A x \in Endpoint : u.endpoints[x] = IF x = e THEN c ELSE freed.endpoints[x]
    BY <1>0, <1>2, <1>3, PutOnline
  <1>5. u.fences = freed.fences /\ u.streams = freed.streams
    BY <1>2 DEF Online, Good, Loose, CoreType
  <1> HIDE DEF u, old
  <1>6. \A d \in Conn : \/ d = c /\ u.at[d] = "open"
                        \/ d # c /\ u.at[d] = t.at[d]
                        \/ d # c /\ t.at[d] \in Seen /\ u.at[d] \in Seen
    BY <1>2, <1>4
  <1>7. \A x \in Endpoint : /\ u.fences[x] = IF x = e THEN fence ELSE t.fences[x]
                            /\ u.endpoints[x] = IF x = e THEN c ELSE t.endpoints[x]
    BY <1>1, <1>2, <1>4, <1>5
  <1>8. \A k \in Alive : conn[op[k].src].who # e /\ conn[op[k].tgt].who # e =>
          u.streams[op[k].src][op[k].sid] = k
    BY <1>2, <1>5
  <1>9. u \in CoreType
    BY <1>4 DEF Good, Loose
  <1>10. Joined(t, c, e, fence) = u
    BY DEF Joined, u, freed, fenced, old
  <1> QED BY <1>4, <1>6, <1>7, <1>8, <1>9, <1>10

LEMMA OnlineDomain == OnlineOf = [e \in Endpoint |-> OnlineOf[e]] /\ DOMAIN OnlineOf = Endpoint
  BY DEF OnlineOf

(* An admission either turns its connection away or joins it. *)
LEMMA RegisterJoins ==
  ASSUME IInv, IInv', Gens(core), NEW c \in Conn, Register(c)
  PROVE  /\ Gens(core)'
         /\ Quietly \/ \E e \in Endpoint : \E g : g = OnlineOf'[e] /\ Promise!Join(e, g)
  <1>0. PICK e \in Endpoint : e = conn[c].who
    BY DEF Register, IInv, Fenced, Answered
  <1> DEFINE t == Pruned(core, InFlight(core))
             fence == [gen |-> conn[c].gen, seq |-> Begun(t)]
             away == [t EXCEPT !.at[c] = "away"]
             u == Joined(t, c, e, fence)
             refuse == \/ WasRevokedSince(t, e, conn[c].mark)
                       \/ t.fences[e].gen # 0 /\ conn[c].gen <= t.fences[e].gen
                       \/ t.fences[e].gen = 0 /\ Cardinality(Fences(t)) >= lim["fences"]
  <1>1. /\ core.at[c] = "answered" /\ Admitted(c)
        /\ Into(Finished(Registers(core, c)))
        /\ conn' = [conn EXCEPT ![c].mark = 0, ![c].epoch = 0]
        /\ UNCHANGED <<authority, ready, epoch>>
    BY Zenon DEF Register
  <1>2. Registers(core, c) = IF refuse THEN away ELSE u
    BY <1>0, Zenon DEF Registers, Online, Joined
  <1>3. CASE refuse
    <2>1. Into(Finished(away))
      BY <1>1, <1>2, <1>3
    <2> HIDE DEF refuse
    <2> QED BY <1>1, <2>1, RefusedQuietly
  <1>4. CASE ~refuse
    <2>1. /\ Good(t) /\ t.at = core.at /\ t.endpoints = core.endpoints /\ Trims(core, t)
          /\ Gens(t) /\ GensType /\ GensType' /\ t \in CoreType /\ Tight
      <3>1. \A d \in Conn : core.at[d] = "answered" => d \in InFlight(core)
        BY DEF InFlight
      <3>2. GensType'
        BY TypesOfGens, PTL
      <3> QED BY <3>1, <3>2, TypesOfGens, PrunedGood, PrunedGens DEF Good, Loose
    <2>2. conn[c].gen \in Nat
      BY <2>1 DEF Tight, ConnOK, ConnType
    <2>3. \A d \in Had(t, e) : conn[d].gen < conn[c].gen
      <3>1. c \in Answering(t, e)
        BY <1>0, <1>1, <2>1 DEF Answering
      <3>2. \A d \in Had(t, e) : conn[d].gen \in Nat
        BY <2>1 DEF Had, GensType, ConnOK, ConnType
      <3>3. t.fences[e].gen \in Nat /\ lapsed[e] \in Nat
        BY <2>1, <2>2 DEF CoreType, GensType
      <3>4. ~(conn[c].gen <= lapsed[e])
        BY <1>0, <1>1 DEF Admitted, Expired
      <3>5. CASE t.fences[e].gen = 0
        BY <2>1, <2>2, <3>1, <3>4, <3>5 DEF Gens, UnfencedNewer
      <3>6. CASE t.fences[e].gen # 0
        <4>1. ~(conn[c].gen <= t.fences[e].gen)
          BY <1>4, <3>6
        <4>2. \A d \in Had(t, e) : conn[d].gen <= t.fences[e].gen
          BY <2>1, <2>2, <3>6 DEF Gens, FenceAbove
        <4> QED BY <2>2, <3>2, <3>3, <4>1, <4>2
      <3> QED BY <3>5, <3>6
    <2>4. fence \in [gen : Nat, seq : Nat]
      BY <2>2, Counts
    <2>5. \A k \in Alive : Holds(t, k)
      <3>1. t.streams = core.streams /\ t.routes = core.routes
        BY <2>1 DEF Pruned, Tight, Good, Loose, CoreType
      <3> QED BY <2>1, <3>1 DEF Tight, Holds
    <2>6. e \notin OutOf
      <3>1. ~WasRevokedSince(core, e, conn[c].mark)
        BY <1>4, <2>1 DEF Trims, WasRevokedSince
      <3>2. conn[c].epoch = epoch
        BY <1>1 DEF Admitted
      <3> QED BY <1>0, <1>1, <3>1, <3>2 DEF IInv, Fenced, Answered, OutOf
    <2>7. Into(Finished(u))
      BY <1>1, <1>2, <1>4
    <2> HIDE DEF t, refuse, fence
    <2>8. /\ u \in CoreType /\ Good(u)
          /\ \A d \in Conn : \/ d = c /\ u.at[d] = "open"
                             \/ d # c /\ u.at[d] = t.at[d]
                             \/ d # c /\ t.at[d] \in Seen /\ u.at[d] \in Seen
          /\ \A x \in Endpoint : u.fences[x] = IF x = e THEN fence ELSE t.fences[x]
          /\ \A x \in Endpoint : u.endpoints[x] = IF x = e THEN c ELSE t.endpoints[x]
          /\ \A k \in Alive : conn[op[k].src].who # e /\ conn[op[k].tgt].who # e =>
                u.streams[op[k].src][op[k].sid] = k
      <3>1. t.at[c] = "answered" /\ e = conn[c].who
        BY <1>0, <1>1, <2>1
      <3> QED BY <2>1, <2>2, <2>4, <2>5, <3>1, JoinedCore
    <2> HIDE DEF u, away
    <2>9. Gens(u)
      <3>1. t.at[c] = "answered" /\ e = conn[c].who
        BY <1>0, <1>1, <2>1
      <3>2. fence = [gen |-> conn[c].gen, seq |-> Begun(t)]
        BY DEF fence
      <3> QED BY <2>1, <2>2, <2>3, <2>8, <3>1, <3>2, JoinedGens
    <2> DEFINE v == Pruned(u, InFlight(u))
    <2>10. core' = v /\ op' = Settled(v)
      BY <2>7 DEF Into, Finished
    <2>11. v \in CoreType /\ v.at = u.at /\ v.endpoints = u.endpoints /\ v.streams = u.streams /\ Gens(v)
      <3>1. \A d \in Conn : u.at[d] = "answered" => d \in InFlight(u)
        BY DEF InFlight
      <3>2. v.streams = u.streams
        BY <2>8 DEF Pruned, CoreType
      <3> QED BY <2>1, <2>8, <2>9, <3>1, <3>2, PrunedFences, PrunedGens
    <2> HIDE DEF v
    <2>12. \A d \in Conn : conn'[d].who = conn[d].who /\ conn'[d].gen = conn[d].gen
      <3> DEFINE z == [conn[c] EXCEPT !.mark = 0, !.epoch = 0]
      <3>1. conn \in [Conn -> ConnType]
        BY <2>1 DEF Tight, ConnOK
      <3>2. z.who = conn[c].who /\ z.gen = conn[c].gen
        BY <3>1 DEF ConnType
      <3>3. conn' = [conn EXCEPT ![c] = z]
        BY <1>1, <3>1
      <3> HIDE DEF z
      <3> QED BY <3>1, <3>2, <3>3
    <2>13. UNCHANGED <<dead, owed, issued, lapsed>>
      BY <1>1 DEF authority
    <2>14. Gens(core)'
      <3>1. SameGrants(v)
        BY <2>1, <2>12, <2>13 DEF SameGrants, GensType
      <3> QED BY <2>1, <2>10, <2>11, <3>1, GensNow
    <2>15. OutOf' = OutOf
      BY <2>13 DEF OutOf
    <2>16. OnlineOf' = [OnlineOf EXCEPT ![e] = conn[c].gen]
      <3>1. ASSUME NEW x \in Endpoint PROVE On(x)' = IF x = e THEN conn[c].gen ELSE On(x)
        <4>1. core'.endpoints[x] = IF x = e THEN c ELSE core.endpoints[x]
          BY <2>1, <2>8, <2>10, <2>11
        <4>2. core.endpoints[x] \in Conn \cup {0} /\ c # 0
          BY <2>1, TypesOfGens, ConnOpen DEF CoreType
        <4> QED BY <2>12, <4>1, <4>2 DEF On
      <3>2. OnlineOf' = [x \in Endpoint |-> IF x = e THEN conn[c].gen ELSE OnlineOf[x]]
        BY <3>1 DEF OnlineOf, On
      <3> QED BY <2>2, <3>2, OnlineDomain
    <2>17. /\ Had(core, e)' = Had(core, e) \cup {c}
           /\ \A x \in Endpoint : x # e => Had(core, x)' = Had(core, x)
      <3>1. \A d \in Conn : core'.at[d] \in Seen <=> d = c \/ core.at[d] \in Seen
        BY <2>1, <2>8, <2>10, <2>11 DEF Seen
      <3> QED BY <1>0, <2>12, <3>1 DEF Had
    <2>18. Had(t, e) = Had(core, e)
      BY <2>1 DEF Had
    <2>19. Bests /\ Bests'
      BY <2>14, BestIs, PTL
    <2>20. conn[c].gen > Best(e)
      <3>1. conn[c].gen # 0
        BY <1>1 DEF Gens, IssuedAll
      <3> QED BY <2>2, <2>3, <2>18, <2>19, <3>1 DEF Bests, IsBest
    <2>21. BestOf' = [BestOf EXCEPT ![e] = conn[c].gen]
      <3>1. ASSUME NEW x \in Endpoint, x # e PROVE Best(x)' = Best(x)
        <4>1. Had(core, x)' = Had(core, x) /\ \A d \in Had(core, x) : conn'[d].gen = conn[d].gen
          BY <2>12, <2>17, <3>1 DEF Had
        <4> QED BY <2>14, <4>1, BestSame
      <3>2. Best(e)' = conn[c].gen
        <4>1. IsBest(e)'
          BY <2>2, <2>19 DEF Bests
        <4>2. \A d \in Had(core, e)' : conn'[d].gen \in Nat /\ conn'[d].gen <= conn[c].gen
          <5>1. \A d \in Had(core, e) : d \in Conn /\ conn[d].gen \in Nat /\ conn[d].gen < conn[c].gen
            BY <2>1, <2>3, <2>18 DEF Had, GensType, ConnOK, ConnType
          <5> QED BY <2>2, <2>12, <2>17, <5>1
        <4>3. c \in Had(core, e)' /\ conn'[c].gen = conn[c].gen
          BY <2>12, <2>17
        <4> QED BY <2>2, <4>1, <4>2, <4>3 DEF IsBest
      <3> QED BY <2>2, <3>1, <3>2 DEF BestOf
    <2>22. \A k \in Open : k \in Alive' <=> k \in Alive /\ e \notin Joins(k)
      <3> SUFFICES ASSUME NEW k \in Open PROVE k \in Alive' <=> k \in Alive /\ e \notin Joins(k)
        OBVIOUS
      <3>1. op'[k] = IF op[k].phase \in {"opening", "active"} /\ v.streams[op[k].src][op[k].sid] # k
                     THEN [None EXCEPT !.phase = "closed"] ELSE op[k]
        BY <2>10 DEF Settled
      <3>2. ASSUME k \in Alive, e \notin Joins(k) PROVE k \in Alive'
        <4>1. v.streams[op[k].src][op[k].sid] = k
          BY <2>8, <2>11, <3>2 DEF Joins
        <4> QED BY <3>1, <3>2, <4>1 DEF Alive
      <3>3. ASSUME k \in Alive' PROVE k \in Alive /\ e \notin Joins(k)
        <4>1. k \in Alive /\ op'[k] = op[k]
          BY <3>1, <3>3 DEF Alive, None
        <4>2. /\ core'.endpoints[conn'[op'[k].src].who] = op'[k].src
              /\ core'.endpoints[conn'[op'[k].tgt].who] = op'[k].tgt
          <5>1. StreamsOn'
            BY StreamsEnds, PTL
          <5> QED BY <3>3, <5>1 DEF StreamsOn
        <4>3. /\ op[k].src \in Conn /\ op[k].tgt \in Conn /\ op[k].src # c /\ op[k].tgt # c
          BY <1>1, <4>1, StreamEnds DEF Connected
        <4>4. core'.endpoints[e] = c
          BY <2>2, <2>8, <2>10, <2>11
        <4> QED BY <2>12, <4>1, <4>2, <4>3, <4>4 DEF Joins
      <3> QED BY <3>2, <3>3
    <2>23. \A k \in Alive' : Stream(k)' = Stream(k)
      <3> SUFFICES ASSUME NEW k \in Alive' PROVE Stream(k)' = Stream(k)
        OBVIOUS
      <3>1. k \in Alive /\ k \in Open /\ op'[k] = op[k]
        <4>1. k \in Open /\ op'[k].phase \in {"opening", "active"} /\ op'[k] = Settled(v)[k]
          BY <2>10 DEF Alive
        <4> QED BY <4>1 DEF Settled, None, Alive
      <3>2. op[k].src \in Conn /\ op[k].tgt \in Conn
        BY <3>1, StreamEnds
      <3> QED BY <2>12, <3>1, <3>2 DEF Stream, Joins
    <2>24. BoundOf' = {s \in BoundOf : e \notin s.ends}
      <3>1. \A k : Stream(k).ends = Joins(k)
        BY DEF Stream
      <3>2. \A k \in Alive : k \in Open
        BY DEF Alive
      <3>3. \A k \in Alive' : k \in Open
        BY DEF Alive
      <3>4. BoundOf' = {Stream(k) : k \in Alive'}
        BY <2>23 DEF BoundOf
      <3>5. Alive' = {k \in Alive : e \notin Joins(k)}
        BY <2>22, <3>2, <3>3
      <3> QED BY <3>1, <3>4, <3>5 DEF BoundOf
    <2>25. OnlineOf'[e] = conn[c].gen
      BY <2>16, OnlineDomain
    <2>26. PICK g : g = conn[c].gen
      OBVIOUS
    <2>27. e \notin OutOf /\ g > BestOf[e]
      BY <2>6, <2>20, <2>26 DEF BestOf
    <2>28. Promise!Join(e, g)
      BY <2>15, <2>16, <2>21, <2>24, <2>26, <2>27, Zenon
         DEF Promise!Join, OutOf, OnlineOf, BoundOf, BestOf, On, Stream, Joins, Alive
    <2> QED BY <2>14, <2>25, <2>26, <2>28, Zenon
  <1> QED BY <1>3, <1>4
-----------------------------------------------------------------------------
(* Every handler is one step of the promise, and keeps the order of the generations. *)
Keeps ==
  \/ Quietly
  \/ \E e \in Endpoint : \E g : g = OnlineOf'[e] /\ Promise!Join(e, g)
  \/ \E s \in BoundOf' : Promise!Bind(s)

LEMMA BindingExpiresQuietly ==
  ASSUME IInv, IInv', Gens(core), NEW k \in Open, BindingExpires(k) PROVE Quietly /\ Gens(core)'
  <1>1. k \in Alive /\ Into(CloseBindings(core, {k}, {})) /\ UNCHANGED <<authority, forwarder>>
    BY DEF BindingExpires, Alive, Stays
  <1>2. Cuts(core, CloseBindings(core, {k}, {}))
    BY <1>1, TypesOfGens, AloneCuts
  <1> QED BY <1>1, <1>2, IntoQuietly

LEMMA StepKeeps ==
  ASSUME IInv, IInv', Gens(core), [Next]_vars PROVE Keeps /\ Gens(core)'
  <1>1. CASE LinkConnects \/ Synchronized \/ LinkDrops \/ UNCHANGED vars
    BY <1>1, OutsideQuietly, LinkDropsQuietly DEF Keeps
  <1>2. ASSUME NEW h \in Handle, Revoke(h) \/ Delivers(h) \/ RevocationAges(h)
        PROVE  Keeps /\ Gens(core)'
    BY <1>2, OutsideQuietly, DeliversQuietly DEF Keeps
  <1>3. ASSUME NEW e \in Endpoint, Lapse(e) PROVE Keeps /\ Gens(core)'
    BY <1>3, OutsideQuietly DEF Keeps
  <1>4. ASSUME NEW c \in Conn,
               \/ Upgrade(c) \/ Register(c) \/ TurnedAway(c)
               \/ Leaves(c) \/ Shuts(c) \/ EndpointExpires(c)
               \/ \E e \in Endpoint : EndpointGranted(c, e)
        PROVE  Keeps /\ Gens(core)'
    <2>1. CASE Register(c)
      BY <2>1, RegisterJoins DEF Keeps
    <2> QED BY <1>4, <2>1, UpgradeQuietly, TurnedAwayQuietly, EndingQuietly, ShutsQuietly,
               GrantedQuietly DEF Keeps
  <1>5. ASSUME NEW c \in Conn, NEW i \in Id,
               \/ \E k \in Open : OpenReserves(c, i, k)
               \/ OpenRejected(c, i) \/ OpenAgain(c, i) \/ OpenOvertaken(c, i)
               \/ Accept(c, i) \/ DataUndrained(c, i) \/ Fin(c, i) \/ Reset(c, i)
               \/ Violates(c, i) \/ LateFrame(c, i) \/ TombExpires(c, i)
        PROVE  Keeps /\ Gens(core)'
    BY <1>5, ReservesQuietly, FrameQuietly, StreamQuietly, OutsideQuietly DEF Keeps
  <1>6. ASSUME NEW k \in Open,
               \/ Ages(k) \/ RouteRefused(k) \/ OpenAbandoned(k)
               \/ OpenFails(k) \/ OpenBinds(k) \/ BindingExpires(k)
               \/ \E e \in Endpoint, r \in Route : RouteGranted(k, e, r)
        PROVE  Keeps /\ Gens(core)'
    <2>1. CASE OpenBinds(k)
      BY <2>1, BindsBinds DEF Keeps
    <2> QED BY <1>6, <2>1, OpenQuietly, OpenFailsQuietly, BindingExpiresQuietly DEF Keeps
  <1> QED BY <1>1, <1>2, <1>3, <1>4, <1>5, <1>6 DEF Next

LEMMA InitGens == Init => Gens(core)
  BY DEF Init, Gens, InOrder, IssuedAll, Newest, FenceAbove, LaterNewer, UnfencedNewer,
         Had, Answering, Seen

LEMMA GensStep == IInv /\ IInv' /\ Gens(core) /\ [Next]_vars => Gens(core)'
  BY StepKeeps

LEMMA GensHold == Spec => []Gens(core)
  BY InitGens, GensStep, Inv, PTL DEF Spec

LEMMA PromiseStep ==
  IInv /\ IInv' /\ Gens(core) /\ [Next]_vars => [Promise!PromiseNext]_(Promise!pvars)
  <1> SUFFICES ASSUME IInv, IInv', Gens(core), [Next]_vars PROVE Promise!PromiseNext
    OBVIOUS
  <1>1. Keeps /\ Gens(core)'
    BY StepKeeps
  <1>2. CASE Quietly
    <2>1. \E gone \in SUBSET Endpoint : Promise!End(gone, OutOf' \ OutOf)
      BY <1>1, <1>2, QuietEnds
    <2> QED BY <2>1, Zenon DEF Promise!PromiseNext, OutOf
  <1>3. CASE \E e \in Endpoint : \E g : g = OnlineOf'[e] /\ Promise!Join(e, g)
    <2>1. PICK e \in Endpoint : \E g : g = OnlineOf'[e] /\ Promise!Join(e, g)
      BY <1>3, Zenon
    <2> QED BY <2>1, Zenon DEF Promise!PromiseNext, Promise!Join, OnlineOf, On
  <1>4. CASE \E s \in BoundOf' : Promise!Bind(s)
    BY <1>4, Zenon DEF Promise!PromiseNext, BoundOf, Alive, Stream, Joins
  <1> QED BY <1>1, <1>2, <1>3, <1>4 DEF Keeps

(* The relay's core implements FabricPromise: whatever its maps, fences and prunings
   do, an endpoint comes online only with a generation above every one it has had,
   and nothing outlives what it depends on (fabric-core.ts, register, "Otherwise an
   older authorization response ... could become current"). *)
THEOREM FabricKeepsPromise == Spec => ImplementsPromise
  <1>1. Init => Promise!PromiseInit
    <2> SUFFICES ASSUME Init PROVE Promise!PromiseInit
      OBVIOUS
    <2>1. Alive = {}
      BY DEF Init, Alive, None
    <2>2. \A e \in Endpoint : On(e) = 0
      BY DEF Init, On
    <2>3. \A e \in Endpoint : Best(e) = 0
      BY DEF Init, Best
    <2>4. BestOf = [e \in Endpoint |-> 0] /\ OnlineOf = [e \in Endpoint |-> 0]
          /\ BoundOf = {} /\ OutOf = {}
      BY <2>1, <2>2, <2>3 DEF BestOf, OnlineOf, BoundOf, OutOf, Init
    <2> QED BY <2>4, Zenon DEF Promise!PromiseInit, OutOf, OnlineOf, BoundOf, BestOf, On,
                               Stream, Joins, Alive
  <1> QED BY <1>1, PromiseStep, Inv, GensHold, PTL
          DEF Spec, ImplementsPromise, Promise!PromiseSpec
=============================================================================

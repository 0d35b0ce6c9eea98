--------------------------- MODULE FabricPromise ---------------------------
(***************************************************************************)
(* What the relay's fabric promises to the endpoints and to the authority, *)
(* whatever its maps and fences look like: an endpoint is online with one  *)
(* connection, of a generation above every one it has had; a route is      *)
(* bound once, between two endpoints that are online, for no longer than   *)
(* both connections last; and what is revoked is gone and stays gone.      *)
(***************************************************************************)
EXTENDS Integers

CONSTANTS Endpoint, Route

VARIABLES
  best,     \* the highest generation an endpoint has been online with
  online,   \* the generation it is online with, 0 if it is not
  bound,    \* the streams: which OPEN, its route, the two endpoints it joins
  out       \* the handles whose revocation has taken effect

pvars == <<best, online, bound, out>>

PromiseInit ==
  /\ best = [e \in Endpoint |-> 0] /\ online = [e \in Endpoint |-> 0]
  /\ bound = {} /\ out = {}

\* A new connection takes the place of the old one, whose streams end.
Join(e, g) ==
  /\ e \notin out /\ g > best[e]
  /\ best' = [best EXCEPT ![e] = g]
  /\ online' = [online EXCEPT ![e] = g]
  /\ bound' = {s \in bound : e \notin s.ends}
  /\ UNCHANGED out

Bind(s) ==
  /\ s.route \notin out /\ \A t \in bound : t.route # s.route
  /\ \A e \in s.ends : online[e] # 0
  /\ bound' = bound \cup {s}
  /\ UNCHANGED <<best, online, out>>

\* Endpoints leave, streams end, handles are revoked: never one without what
\* depends on it.
End(gone, H) ==
  /\ out' = out \cup H
  /\ H \cap Endpoint \subseteq gone
  /\ online' = [e \in Endpoint |-> IF e \in gone THEN 0 ELSE online[e]]
  /\ bound' \subseteq {s \in bound : s.ends \cap gone = {} /\ s.route \notin H}
  /\ UNCHANGED best

PromiseNext ==
  \/ \E e \in Endpoint : Join(e, online'[e])
  \/ \E s \in bound' : Bind(s)
  \/ \E gone \in SUBSET Endpoint : End(gone, out' \ out)

PromiseSpec == PromiseInit /\ [][PromiseNext]_pvars
=============================================================================

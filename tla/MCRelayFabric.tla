--------------------------- MODULE MCRelayFabric ---------------------------
(* RelayFabric with two endpoints and two routes. *)
EXTENDS RelayFabric

CONSTANTS a, b, r1, r2

MCEndpoint == {a, b}
MCRoute == {r1, r2}
Only(some) == [kind \in Kinds |-> IF kind \in DOMAIN some THEN some[kind] ELSE 0]
Roomy == [[l \in Limits |-> 9] EXCEPT !["strikes"] = 2]
With(some, lims) == [may |-> Only(some), lim |-> lims]

\* Each profile is one thing that may go wrong, or two that meet.
MCProfiles ==
  { \* an authorization that crosses a revocation and an outage
    With([join |-> 3, revoke |-> 1, outage |-> 1], Roomy),
    \* generations out of order, at the limits of endpoints and of fences
    With([join |-> 3, leave |-> 1, lapse |-> 1, error |-> 1],
         [Roomy EXCEPT !["endpoints"] = 1]),
    With([join |-> 3, leave |-> 1, lapse |-> 1], [Roomy EXCEPT !["fences"] = 1]),
    \* an OPEN whose endpoint is replaced or leaves
    With([join |-> 3, open |-> 1, leave |-> 1], Roomy),
    With([join |-> 2, open |-> 1, outage |-> 1], Roomy),
    With([join |-> 2, open |-> 1, revoke |-> 1], Roomy),
    With([join |-> 2, open |-> 1, shut |-> 1, lapse |-> 2], Roomy),
    \* two OPENs: of one id, of one route, at the limits
    With([join |-> 2, open |-> 2], Roomy),
    With([join |-> 2, open |-> 2, error |-> 1],
         [Roomy EXCEPT !["streamsPer"] = 1]),
    \* an endpoint that breaks the rules until it is evicted
    With([join |-> 2, open |-> 1, rogue |-> 2], Roomy) }
=============================================================================

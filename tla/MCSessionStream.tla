-------------------------- MODULE MCSessionStream --------------------------
(* SessionStream with a replay window and a broadcast of one or two events. *)
EXTENDS SessionStream

Only(some) == [kind \in Kinds |-> IF kind \in DOMAIN some THEN some[kind] ELSE 0]

\* What may meet: a lost connection, a restart, a refused subscribe and events
\* that are published without the lock.
OrdinaryProfiles ==
  { Only([drop |-> 1, refuse |-> 1, free |-> 1]),
    Only([restart |-> 1, free |-> 2]),
    Only([drop |-> 1, restart |-> 1]) }

(* Three ways to lose an event, which the run leaves out: one is published while a
   subscribe reads the session, a retry asks between dial and identity, and an
   event in the new numbering overtakes the reply that resets the old one. *)
BesideProfiles == { Only([drop |-> 1, free |-> 1, beside |-> 1]) }
DialingProfiles == { Only([drop |-> 1, restart |-> 1, dialing |-> 1]) }
OvertakeProfiles == { Only([restart |-> 1, overtake |-> 1]) }
=============================================================================

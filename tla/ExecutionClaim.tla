--------------------------- MODULE ExecutionClaim ---------------------------
(***************************************************************************)
(* What a session promises about its executions, whatever carries them     *)
(* out: at most one owns the session, an agent works only for the owner,   *)
(* the session changes hands only while no agent works, a prompt reaches   *)
(* an agent at most once, and an execution that has ended stays ended.     *)
(***************************************************************************)
CONSTANTS Execution,  \* the executions
          Nobody      \* no execution; not one of them

VARIABLES
  holder,   \* the execution that owns the session, or Nobody
  working,  \* the executions some agent is working on
  prompted, \* the executions whose prompt has reached an agent
  ended     \* the executions that have been released

vars == <<holder, working, prompted, ended>>

Init == holder = Nobody /\ working = {} /\ prompted = {} /\ ended = {}

(* An execution claims the session; an owner that has finished and only waits
   for its answer to be saved is released by it. *)
Take(x) ==
  /\ working = {} /\ x \notin ended \cup prompted \cup {holder}
  /\ holder' = x /\ ended' = ended \cup ({holder} \ {Nobody})
  /\ UNCHANGED <<working, prompted>>

(* The agent accepts the owner's prompt. *)
Work ==
  /\ holder # Nobody /\ holder \notin prompted
  /\ working' = {holder} /\ prompted' = prompted \cup {holder}
  /\ UNCHANGED <<holder, ended>>

(* The agent ends the turn, or ends itself. *)
Settle == working # {} /\ working' = {} /\ UNCHANGED <<holder, prompted, ended>>

(* The owner is released, whoever commits its end. *)
Release ==
  /\ holder # Nobody /\ working = {}
  /\ holder' = Nobody /\ ended' = ended \cup {holder}
  /\ UNCHANGED <<working, prompted>>

Next == (\E x \in Execution : Take(x)) \/ Work \/ Settle \/ Release
Spec == Init /\ [][Next]_vars
=============================================================================

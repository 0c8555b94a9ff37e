----------------------------- MODULE Bootstrap -----------------------------
(***************************************************************************)
(* What the operator promises for a NodeConfig, whoever works on it and    *)
(* however often: one attempt.  A NodeConfig is claimed by creating its    *)
(* cloud-init Secret, a host is given its configuration by the attempt     *)
(* that claimed it and by no other, and the attempt ends with Ready or     *)
(* never does.  Neither is taken back while the NodeConfig exists.         *)
(***************************************************************************)
CONSTANTS
  Names  \* names of NodeConfigs

VARIABLES
  phase,      \* of the NodeConfig of each name
  configured  \* whether the host of a name has a reference to the Secret
vars == <<phase, configured>>

\* none, gone: before the first NodeConfig of a name, and after it;
\* disturbed: a second one was created, or a Secret deleted by hand, and
\* nothing is promised any more.
Phases == {"none", "pending", "working", "ready", "abandoned", "gone",
           "disturbed"}

Init ==
  /\ phase = [n \in Names |-> "none"]
  /\ configured = [n \in Names |-> FALSE]

Move(n, from, to) ==
  /\ phase[n] \in from
  /\ phase' = [phase EXCEPT ![n] = to]
  /\ UNCHANGED configured

Create(n) == Move(n, {"none"}, "pending")

Claim(n) == Move(n, {"pending"}, "working")

Finish(n) == Move(n, {"working"}, "ready")

\* The attempt fails, or nobody learns that the NodeConfig was claimed.
Abandon(n) == Move(n, {"pending", "working"}, "abandoned")

Remove(n) == Move(n, {"pending", "working", "ready", "abandoned"}, "gone")

Disturb(n) == Move(n, Phases, "disturbed")

\* The attempt goes on when the NodeConfig is removed under it.
Configure(n) ==
  /\ phase[n] \in {"working", "gone", "disturbed"}
  /\ configured' = [configured EXCEPT ![n] = TRUE]
  /\ UNCHANGED phase

LoseHost(n) ==
  /\ configured' = [configured EXCEPT ![n] = FALSE]
  /\ UNCHANGED phase

Next ==
  \E n \in Names :
    \/ Create(n) \/ Claim(n) \/ Finish(n) \/ Abandon(n) \/ Remove(n)
    \/ Disturb(n) \/ Configure(n) \/ LoseHost(n)

Spec == Init /\ [][Next]_vars

=============================================================================

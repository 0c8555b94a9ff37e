------------------------ MODULE BootstrapRefinement ------------------------
(***************************************************************************)
(* The NodeConfig controller implements Bootstrap.                         *)
(***************************************************************************)
EXTENDS ReconcilerProperties

\* The worker is at the attempt for the NodeConfig of this name: it created
\* the Secret itself, which its copy of the NodeConfig does not tell of.
Attempt(n) ==
  /\ req = n
  /\ pc # "idle"
  /\ config.userData
  /\ ~ before.userData

\* The first of these which applies is the phase of a name.
Phase(n) ==
  IF ~ Undisturbed(n) THEN "disturbed"
  ELSE IF nc[n].uid = 0 THEN IF made[n] = 0 THEN "none" ELSE "gone"
  ELSE IF nc[n].ready THEN "ready"
  ELSE IF secret[n] # BootstrapSecret(nc[n].uid) THEN "pending"
  ELSE IF Attempt(n) THEN "working" ELSE "abandoned"

Abstract == INSTANCE Bootstrap WITH
              phase <- [n \in Names |-> Phase(n)],
              configured <- [n \in Names |-> host[n].userData]

\* Every behaviour of the controller, with lagging caches, lost calls, crashes
\* and panics, is one of Bootstrap: whatever is retried, there is one attempt.
ImplementsBootstrap == Abstract!Spec

=============================================================================

---------------------------- MODULE MCReconciler ----------------------------
(* Small instances of the NodeConfig controller for TLC. *)
EXTENDS BootstrapRefinement, DocumentedClaims

CONSTANTS Node, Credentials

OneName == {Node}
TwoSecrets == {Node, Credentials}
CredentialsName == [n \in {Node} |-> Credentials]

\* One state of each kind: just registered, usable before it is ready,
\* ready, and in provisioning, which only a host that is online gets to.
SomeStates == {"", "registering", "ready", "provisioning"}
SomeSteps == {<<"", "registering">>, <<"registering", "ready">>,
              <<"ready", "provisioning">>}

FewStates == {"", "ready"}
FewSteps == {<<"", "ready">>}

\* Moves of users and faults share the bound of a run.
FewDisturbances == userOps + faults <= MaxUserOps

=============================================================================

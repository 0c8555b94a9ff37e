-------------------------- MODULE DocumentedClaims --------------------------
(***************************************************************************)
(* What the documents and comments of the repository say the controller    *)
(* does, and its code does not.  Every claim is refuted by a run.          *)
(***************************************************************************)
EXTENDS NodeConfigReconciler

\* docs/nodeconfig-workflow.md:5, scenario #1: when nothing is registered for
\* a node, the controller creates the cloud-init Secret, the host and its
\* credentials, and writes image and user data to the host.  So a NodeConfig
\* that is created in an empty cluster gets Ready if nothing goes wrong.
ScenarioOne ==
  (\A s \in SecretNames : secret[s] = NoSecret)
    => \A n \in Names : nc[n].uid # 0 ~> nc[n].ready

\* docs/nodeconfig-workflow.md:33, scenario #3: NodeConfig and host are both
\* removed.  So once the host is being deleted, the NodeConfig goes in the end.
BothRemoved ==
  \A n \in Names : pc = "deleteConfig" /\ req = n ~> nc[n].uid = 0

\* util/configmanager.go:243: the host owns its BMC credentials once it is
\* created, provided that they still exist.
CredentialsOwned ==
  [][pc = "createHost" /\ pc' = "associate"
       /\ secret[CredentialsOf[req]] # NoSecret
       => secret'[CredentialsOf[req]].owner = host'[req].uid]_vars

\* api/v1alpha1/nodeconfig_types.go:68: Ready says that the bootstrap data
\* can be consumed.  So its Secret exists, unless a user deleted it.
ReadyMeansData ==
  \A n \in Names : nc[n].ready /\ n \notin handDeleted
                     => secret[n].data = "cloudinit"

=============================================================================

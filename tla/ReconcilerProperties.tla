----------------------- MODULE ReconcilerProperties -----------------------
(***************************************************************************)
(* What the NodeConfig controller guarantees, and what its documents and   *)
(* comments claim of it.                                                   *)
(***************************************************************************)
EXTENDS NodeConfigReconciler

\* Types of all variables.
TypeOK ==
  /\ ClusterTypeOK
  /\ ncCache \in [Names -> NodeConfig]
  /\ hostCache \in [Names -> BareMetalHost]
  /\ queue \subseteq Names
  /\ pc \in Steps
  /\ req \in Names
  /\ before \in NodeConfig
  /\ config \in NodeConfig
  /\ err \in Endings
  /\ faults \in Nat

-----------------------------------------------------------------------------
(* Guarantees *)

\* The NodeConfig of this name is the first one, and no user deleted its
\* cloud-init Secret: what the guarantees about the Secret depend on.
Undisturbed(n) == made[n] <= 1 /\ n \notin handDeleted

\* A NodeConfig that is Ready has its bootstrap data: the Secret holds what
\* was generated for this incarnation, whatever Secret of the same name was
\* there before, whatever call got lost and however stale the caches are.
ReadySecret ==
  \A n \in Names : Undisturbed(n) /\ nc[n].ready
                     => secret[n] = BootstrapSecret(nc[n].uid)

\* The operator leaves the host of a Ready NodeConfig alone, although the
\* cache may still show the NodeConfig as not Ready: the Secret which exists
\* stops it before it finds, deletes, creates or changes a host.
ReadyHandsOff ==
  Undisturbed(req) /\ nc[req].ready => pc \notin HostPhase

\* The host which a NodeConfig names as its owner was given an image and the
\* reference to the cloud-init Secret before, unless users remove the specs of
\* NodeConfigs ("strip"): without an image, the host is associated as it is.
OwnerConfigured ==
  \A n \in Names : nc[n].owner # 0 /\ nc[n].owner = host[n].uid
                     => host[n].image # NoImage /\ host[n].userData

\* A NodeConfig that is Ready has its host configured, even if only one of the
\* two halves of the final patch was stored, and whatever copy of the host the
\* changes were computed from.  (Another host of that name need not be.)
ReadyConfigured ==
  \A n \in Names : nc[n].ready /\ host[n].uid # 0 /\ hostMade[n] <= 1
                     => host[n].image # NoImage /\ host[n].userData

\* A late retry may leave a message on a NodeConfig that is Ready already, but
\* it is the one about the Secret: what is Ready does not report a problem
\* with its host.
ReadyMessage ==
  \A n \in Names : Undisturbed(n) /\ nc[n].ready
                     => nc[n].failure \in {"", "cloudinit"}

\* No step takes Ready away from a NodeConfig, although every Reconcile
\* patches the status from a copy that may be older than Ready.
ReadyStable ==
  [][\A n \in Names : nc[n].ready /\ nc'[n].uid = nc[n].uid
                        => nc'[n].ready]_vars

\* The operator's patches never revert or change what users write in a spec.
SpecUntouched ==
  [][\A n \in Names : nc'[n].uid = nc[n].uid /\ nc'[n].image # nc[n].image
                        => pc' = pc /\ userOps' # userOps]_vars

\* A NodeConfig gets Ready or a failure message, or disappears: whatever gets
\* lost, no NodeConfig is left without a word.
NotForgotten ==
  \A n \in Names : nc[n].uid # 0
     ~> nc[n].uid = 0 \/ nc[n].ready \/ nc[n].failure # ""

=============================================================================

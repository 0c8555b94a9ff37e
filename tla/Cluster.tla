------------------------------ MODULE Cluster ------------------------------
(***************************************************************************)
(* The objects which the NodeConfig operator shares with the rest of the   *)
(* cluster, as the API server stores them: NodeConfigs, BareMetalHosts and *)
(* Secrets of one namespace, and the steps of everybody but the operator:  *)
(* users, the garbage collector and the bare metal operator (BMO).         *)
(*                                                                         *)
(* A NodeConfig, its BareMetalHost and its cloud-init Secret bear the same *)
(* name; the Secret with the BMC credentials bears that name with a suffix *)
(* (CredentialsOf).  An object that does not exist has uid 0, and uids are *)
(* never used twice: a re-created object is another incarnation.  Fields   *)
(* which no behaviour of the operator depends on are left out.             *)
(***************************************************************************)
EXTENDS Naturals

CONSTANTS
  Names,          \* names of NodeConfigs
  SecretNames,    \* names of Secrets
  CredentialsOf,  \* the name of the Secret with a host's BMC credentials
  Images,         \* OS images a NodeConfig can ask for
  NoImage,        \* an image field which is not set
  HostStates,     \* provisioning states of a host
  HostSteps,      \* pairs of states: how the BMO moves a host
  UserMoves,      \* what users do: a subset of Moves
  MaxHosts,       \* bound on the hosts ever created with one name
  MaxUserOps      \* bound on what users do altogether

Moves == {"create", "edit", "strip", "delete", "register", "unregister",
          "remove"}

ASSUME ClusterAssumption ==
  /\ Names \subseteq SecretNames
  /\ CredentialsOf \in [Names -> SecretNames]
  /\ \A n \in Names : CredentialsOf[n] # n
  /\ NoImage \notin Images
  /\ "" \in HostStates
  /\ HostSteps \subseteq HostStates \X HostStates
  /\ UserMoves \subseteq Moves
  /\ MaxHosts \in Nat
  /\ MaxUserOps \in Nat

VARIABLES
  nc,           \* NodeConfig of each name
  host,         \* BareMetalHost of each name
  secret,       \* Secret of each name
  made,         \* how many NodeConfigs of a name were created: the last uid
  hostMade,     \* how many BareMetalHosts of a name were created
  handDeleted,  \* names of the Secrets which a user deleted by hand
  userOps       \* how much users did

clusterVars == <<nc, host, secret, made, hostMade, handDeleted, userOps>>

-----------------------------------------------------------------------------
(* Objects *)

\* Which error message the status of a NodeConfig carries, "" for none.
Failures == {"", "cloudinit", "create", "unavailable", "associate"}

\* userData: whether the status refers to the cloud-init Secret;
\* owner: uid of the BareMetalHost in the owner reference, 0 for none.
NodeConfig == [uid : Nat, image : Images \cup {NoImage}, ready : BOOLEAN,
               userData : BOOLEAN, failure : Failures, owner : Nat]

\* ok: whether the operational status is "OK".
BareMetalHost == [uid : Nat, state : HostStates, ok : BOOLEAN,
                  online : BOOLEAN, image : Images \cup {NoImage},
                  userData : BOOLEAN, deleting : BOOLEAN]

\* owner: uid of the NodeConfig ("cloudinit") or of the host that owns it.
Secret == [data : {"", "cloudinit", "bmc", "other"}, owner : Nat]

\* Types of the shared objects.
ClusterTypeOK ==
  /\ nc \in [Names -> NodeConfig]
  /\ host \in [Names -> BareMetalHost]
  /\ secret \in [SecretNames -> Secret]
  /\ made \in [Names -> Nat]
  /\ hostMade \in [Names -> Nat]
  /\ handDeleted \subseteq SecretNames
  /\ userOps \in Nat

NoConfig == [uid |-> 0, image |-> NoImage, ready |-> FALSE,
             userData |-> FALSE, failure |-> "", owner |-> 0]

NoHost == [uid |-> 0, state |-> "", ok |-> FALSE, online |-> FALSE,
           image |-> NoImage, userData |-> FALSE, deleting |-> FALSE]

NoSecret == [data |-> "", owner |-> 0]

NewConfig(uid, image) == [NoConfig EXCEPT !.uid = uid, !.image = image]

NewHost(uid, image, online) ==
  [NoHost EXCEPT !.uid = uid, !.image = image, !.online = online]

BootstrapSecret(uid) == [data |-> "cloudinit", owner |-> uid]

\* Mutant of CredentialsSecret: data which nobody knows.
UnknownSecret == [data |-> "credentials", owner |-> 0]

CredentialsSecret == [data |-> "bmc", owner |-> 0]

\* A field of the stored object after the merge patch that turns `b` into
\* `a`: the patch holds the fields which differ, and only them.
Merge(stored, b, a) == IF a = b THEN stored ELSE a

\* Nothing exists but Secrets somebody left behind.
ClusterInit ==
  /\ nc = [n \in Names |-> NoConfig]
  /\ host = [n \in Names |-> NoHost]
  /\ secret \in [SecretNames -> {NoSecret, [data |-> "other", owner |-> 0]}]
  /\ made = [n \in Names |-> 0]
  /\ hostMade = [n \in Names |-> 0]
  /\ handDeleted = {}
  /\ userOps = 0

-----------------------------------------------------------------------------
(* Users *)

UserOp(move) ==
  /\ move \in UserMoves
  /\ userOps < MaxUserOps
  /\ userOps' = userOps + 1

CreateConfig(n) ==
  /\ UserOp("create")
  /\ nc[n].uid = 0
  /\ \E i \in Images : nc' = [nc EXCEPT ![n] = NewConfig(made[n] + 1, i)]
  /\ made' = [made EXCEPT ![n] = @ + 1]
  /\ UNCHANGED <<host, secret, hostMade, handDeleted>>

\* The webhook accepts every update.
EditConfig(n) ==
  /\ UserOp("edit")
  /\ nc[n].uid # 0
  /\ \E i \in Images \ {nc[n].image} : nc' = [nc EXCEPT ![n].image = i]
  /\ UNCHANGED <<host, secret, made, hostMade, handDeleted>>

\* Nor does the schema require a spec, without which there is no image.
StripConfig(n) ==
  /\ UserOp("strip")
  /\ nc[n].uid # 0
  /\ nc[n].image # NoImage
  /\ nc' = [nc EXCEPT ![n].image = NoImage]
  /\ UNCHANGED <<host, secret, made, hostMade, handDeleted>>

\* A NodeConfig has no finalizer: it disappears at once.
DeleteConfigByHand(n) ==
  /\ UserOp("delete")
  /\ nc[n].uid # 0
  /\ nc' = [nc EXCEPT ![n] = NoConfig]
  /\ UNCHANGED <<host, secret, made, hostMade, handDeleted>>

RegisterHost(n) ==
  /\ UserOp("register")
  /\ host[n].uid = 0
  /\ hostMade[n] < MaxHosts
  /\ \E i \in Images \cup {NoImage}, on \in BOOLEAN :
       host' = [host EXCEPT ![n] = NewHost(hostMade[n] + 1, i, on)]
  /\ hostMade' = [hostMade EXCEPT ![n] = @ + 1]
  /\ UNCHANGED <<nc, secret, made, handDeleted>>

\* The BMO's finalizer keeps a deleted host until it is deprovisioned.
DeleteHostByHand(n) ==
  /\ UserOp("unregister")
  /\ host[n].uid # 0
  /\ ~ host[n].deleting
  /\ host' = [host EXCEPT ![n].deleting = TRUE]
  /\ UNCHANGED <<nc, secret, made, hostMade, handDeleted>>

DeleteSecretByHand(s) ==
  /\ UserOp("remove")
  /\ secret[s] # NoSecret
  /\ secret' = [secret EXCEPT ![s] = NoSecret]
  /\ handDeleted' = handDeleted \cup {s}
  /\ UNCHANGED <<nc, host, made, hostMade>>

User ==
  \/ \E n \in Names : \/ CreateConfig(n) \/ EditConfig(n) \/ StripConfig(n)
                      \/ DeleteConfigByHand(n)
                      \/ RegisterHost(n) \/ DeleteHostByHand(n)
  \/ \E s \in SecretNames : DeleteSecretByHand(s)

-----------------------------------------------------------------------------
(* The garbage collector deletes an object whose owner is gone.            *)

Dangling(s) ==
  /\ secret[s].owner # 0
  /\ \A n \in Names :
       /\ secret[s].data = "cloudinit" /\ n = s => nc[n].uid # secret[s].owner
       /\ secret[s].data # "cloudinit" /\ CredentialsOf[n] = s
            => host[n].uid # secret[s].owner

CollectSecret(s) ==
  /\ Dangling(s)
  /\ secret' = [secret EXCEPT ![s] = NoSecret]
  /\ UNCHANGED <<nc, host, made, hostMade, handDeleted, userOps>>

CollectConfig(n) ==
  /\ nc[n].owner # 0
  /\ nc[n].owner # host[n].uid
  /\ nc' = [nc EXCEPT ![n] = NoConfig]
  /\ UNCHANGED <<host, secret, made, hostMade, handDeleted, userOps>>

GarbageCollector ==
  \/ \E s \in SecretNames : CollectSecret(s)
  \/ \E n \in Names : CollectConfig(n)

-----------------------------------------------------------------------------
(* The bare metal operator *)

Progress(n) ==
  /\ host[n].uid # 0
  /\ ~ host[n].deleting
  /\ \E s \in HostStates :
       /\ <<host[n].state, s>> \in HostSteps
       /\ s = "provisioning" => host[n].online /\ host[n].image # NoImage
       /\ host' = [host EXCEPT ![n].state = s]
  /\ UNCHANGED <<nc, secret, made, hostMade, handDeleted, userOps>>

ChangeHealth(n) ==
  /\ host[n].uid # 0
  /\ host' = [host EXCEPT ![n].ok = ~ @]
  /\ UNCHANGED <<nc, secret, made, hostMade, handDeleted, userOps>>

Finalize(n) ==
  /\ host[n].deleting
  /\ host' = [host EXCEPT ![n] = NoHost]
  /\ UNCHANGED <<nc, secret, made, hostMade, handDeleted, userOps>>

\* The BMO makes the host the owner of the credentials it reads.
AdoptCredentials(n) ==
  /\ host[n].uid # 0
  /\ secret[CredentialsOf[n]] # NoSecret
  /\ secret[CredentialsOf[n]].owner = 0
  /\ secret' = [secret EXCEPT ![CredentialsOf[n]].owner = host[n].uid]
  /\ UNCHANGED <<nc, host, made, hostMade, handDeleted, userOps>>

BareMetalOperator ==
  \E n \in Names : \/ Progress(n) \/ ChangeHealth(n)
                   \/ Finalize(n) \/ AdoptCredentials(n)

Environment == User \/ GarbageCollector \/ BareMetalOperator

=============================================================================

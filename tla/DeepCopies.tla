----------------------------- MODULE DeepCopies -----------------------------
(***************************************************************************)
(* The generated deep copies of the API types.  The informers' cache hands *)
(* out copies of the NodeConfigs it keeps, and the patch helper computes   *)
(* its patches from a copy taken before Reconcile changes the object: both *)
(* go wrong without an error when a copy shares memory with its original,  *)
(* as it does when a field is added to a type and the generator is not run *)
(* again.                                                                  *)
(*                                                                         *)
(* A pointer, a slice and a map are references to a cell, and the elements *)
(* of a slice or of a map are one cell.  A field without references is     *)
(* part of the cell that its struct is in, and is left out.                *)
(***************************************************************************)
EXTENDS Naturals, Sequences, SequencesExt

CONSTANTS
  MaxWrites,  \* bound on the writes to an object and its copy
  MaxDepth    \* bound on the nesting of fields

ASSUME CopiesAssumption == MaxWrites \in Nat /\ MaxDepth \in Nat

VARIABLES
  object,   \* what is copied: its package, its type and its cells
  memory,   \* the number of writes to each cell of the object and of its copy
  own,      \* the cells that the copy does not share; none before DeepCopy
  writes    \* number of writes so far
vars == <<object, memory, own, writes>>

-----------------------------------------------------------------------------
(* The fields of the types that refer to cells, or are structs *)

Ref(type) == [kind |-> "reference", type |-> type]
Part(type) == [kind |-> "part", type |-> type]

\* Types without references: strings, numbers, structs of them
Plain == Ref("plain")

\* k8s.io/apimachinery and k8s.io/api.  A time refers to its time zone, which
\* nobody can change: it counts as a type without references.
ExternalLayout ==
  [ListMeta |-> [RemainingItemCount |-> Plain],
   ObjectMeta |-> [DeletionTimestamp |-> Plain,
                   DeletionGracePeriodSeconds |-> Plain, Labels |-> Plain,
                   Annotations |-> Plain, Finalizers |-> Plain,
                   OwnerReferences |-> Ref("OwnerReference"),
                   ManagedFields |-> Ref("ManagedFieldsEntry")],
   OwnerReference |-> [Controller |-> Plain, BlockOwnerDeletion |-> Plain],
   ManagedFieldsEntry |-> [Time |-> Plain, FieldsV1 |-> Ref("FieldsV1")],
   FieldsV1 |-> [Raw |-> Plain],
   Taint |-> [TimeAdded |-> Plain]]

ConfigLayout ==
  [NodeConfigList |-> [ListMeta |-> Part("ListMeta"),
                       Items |-> Ref("NodeConfig")],
   NodeConfig |-> [ObjectMeta |-> Part("ObjectMeta"),
                   Spec |-> Part("NodeConfigSpec"),
                   Status |-> Part("NodeConfigStatus")],
   NodeConfigSpec |-> [BMC |-> Plain, Image |-> Plain, Files |-> Plain,
                       CloudInitCommands |-> Plain, Users |-> Ref("User"),
                       NTP |-> Ref("NTP")],
   NodeConfigStatus |-> [DataSecretName |-> Plain, UserData |-> Plain,
                         FailureMessage |-> Plain]]

UserLayout ==
  [User |-> [Gecos |-> Plain, Groups |-> Plain, HomeDir |-> Plain,
             Inactive |-> Plain, Shell |-> Plain, Passwd |-> Plain,
             PrimaryGroup |-> Plain, LockPassword |-> Plain, Sudo |-> Plain,
             SSHAuthorizedKeys |-> Plain],
   NTP |-> [Servers |-> Plain, Enabled |-> Plain]]

\* kubeadm's types, v1beta1
InitLayout ==
  [InitConfiguration |-> [BootstrapTokens |-> Ref("BootstrapToken"),
                          NodeRegistration |-> Part("NodeRegistrationOptions"),
                          LocalAPIEndpoint |-> Part("APIEndpoint")],
   ClusterConfiguration |-> [Etcd |-> Part("Etcd"),
                             Networking |-> Part("Networking"),
                             APIServer |-> Part("APIServer"),
                             ControllerManager |-> Part("ControlPlaneComponent"),
                             Scheduler |-> Part("ControlPlaneComponent"),
                             DNS |-> Part("DNS"), FeatureGates |-> Plain],
   ControlPlaneComponent |-> [ExtraArgs |-> Plain, ExtraVolumes |-> Plain],
   APIServer |-> [ControlPlaneComponent |-> Part("ControlPlaneComponent"),
                  CertSANs |-> Plain, TimeoutForControlPlane |-> Plain]]

ClusterLayout ==
  [DNS |-> [ImageMeta |-> Part("ImageMeta")],
   ClusterStatus |-> [APIEndpoints |-> Plain],
   NodeRegistrationOptions |-> [Taints |-> Ref("Taint"),
                                KubeletExtraArgs |-> Plain],
   BootstrapToken |-> [Token |-> Plain, TTL |-> Plain, Expires |-> Plain,
                       Usages |-> Plain, Groups |-> Plain],
   Etcd |-> [Local |-> Ref("LocalEtcd"), External |-> Ref("ExternalEtcd")]]

JoinLayout ==
  [LocalEtcd |-> [ImageMeta |-> Part("ImageMeta"), ExtraArgs |-> Plain,
                  ServerCertSANs |-> Plain, PeerCertSANs |-> Plain],
   ExternalEtcd |-> [Endpoints |-> Plain],
   JoinConfiguration |-> [NodeRegistration |-> Part("NodeRegistrationOptions"),
                          Discovery |-> Part("Discovery"),
                          ControlPlane |-> Ref("JoinControlPlane")],
   JoinControlPlane |-> [LocalAPIEndpoint |-> Part("APIEndpoint")],
   Discovery |-> [BootstrapToken |-> Ref("BootstrapTokenDiscovery"),
                  File |-> Plain, Timeout |-> Plain],
   BootstrapTokenDiscovery |-> [CACertHashes |-> Plain]]

\* v1beta2 differs from v1beta1 in one type with references.
RegistrationLayout ==
  [Taints |-> Ref("Taint"), KubeletExtraArgs |-> Plain,
   IgnorePreflightErrors |-> Plain]

-----------------------------------------------------------------------------
(* What DeepCopyInto does to these fields after *out = *in                 *)
(*   "assigned"  nothing, or assigns the field again                       *)
(*   "new"       a new cell with what the old one has in it                *)
(*   "deep"      a new cell, and DeepCopyInto on what is in it             *)
(*   "into"      DeepCopyInto on a struct that is part of this one         *)

ExternalCopying ==
  [ListMeta |-> [RemainingItemCount |-> "new"],
   ObjectMeta |-> [DeletionTimestamp |-> "new",
                   DeletionGracePeriodSeconds |-> "new", Labels |-> "new",
                   Annotations |-> "new", Finalizers |-> "new",
                   OwnerReferences |-> "deep", ManagedFields |-> "deep"],
   OwnerReference |-> [Controller |-> "new", BlockOwnerDeletion |-> "new"],
   ManagedFieldsEntry |-> [Time |-> "new", FieldsV1 |-> "deep"],
   FieldsV1 |-> [Raw |-> "new"],
   Taint |-> [TimeAdded |-> "new"]]

\* Mutant of ConfigCopying: Users has no pointers yet when the code for
\* NodeConfigSpec is generated.
OldConfigCopying ==
  [NodeConfigList |-> [ListMeta |-> "into", Items |-> "deep"],
   NodeConfig |-> [ObjectMeta |-> "into", Spec |-> "into", Status |-> "into"],
   NodeConfigSpec |-> [BMC |-> "new", Image |-> "new", Files |-> "new",
                       CloudInitCommands |-> "new", Users |-> "new",
                       NTP |-> "deep"],
   NodeConfigStatus |-> [DataSecretName |-> "new", UserData |-> "new",
                         FailureMessage |-> "new"]]

ConfigCopying ==
  [NodeConfigList |-> [ListMeta |-> "into", Items |-> "deep"],
   NodeConfig |-> [ObjectMeta |-> "into", Spec |-> "into", Status |-> "into"],
   NodeConfigSpec |-> [BMC |-> "new", Image |-> "new", Files |-> "new",
                       CloudInitCommands |-> "new", Users |-> "deep",
                       NTP |-> "deep"],
   NodeConfigStatus |-> [DataSecretName |-> "new", UserData |-> "new",
                         FailureMessage |-> "new"]]

NTPCopying == [NTP |-> [Servers |-> "new", Enabled |-> "new"]]

UserCopying ==
  [User |-> [Gecos |-> "new", Groups |-> "new", HomeDir |-> "new",
             Inactive |-> "new", Shell |-> "new", Passwd |-> "new",
             PrimaryGroup |-> "new", LockPassword |-> "new", Sudo |-> "new",
             SSHAuthorizedKeys |-> "new"]]

TokenCopying ==
  [APIServer |-> [ControlPlaneComponent |-> "into", CertSANs |-> "new",
                  TimeoutForControlPlane |-> "new"],
   BootstrapToken |-> [Token |-> "new", TTL |-> "new", Expires |-> "new",
                       Usages |-> "new", Groups |-> "new"],
   BootstrapTokenDiscovery |-> [CACertHashes |-> "new"]]

ClusterCopying ==
  [ClusterConfiguration |-> [Etcd |-> "into", Networking |-> "assigned",
                             APIServer |-> "into",
                             ControllerManager |-> "into",
                             Scheduler |-> "into", DNS |-> "assigned",
                             FeatureGates |-> "new"],
   ClusterStatus |-> [APIEndpoints |-> "new"],
   ControlPlaneComponent |-> [ExtraArgs |-> "new", ExtraVolumes |-> "new"],
   DNS |-> [ImageMeta |-> "assigned"],
   Discovery |-> [BootstrapToken |-> "deep", File |-> "new",
                  Timeout |-> "new"]]

EtcdCopying ==
  [Etcd |-> [Local |-> "deep", External |-> "deep"],
   ExternalEtcd |-> [Endpoints |-> "new"],
   InitConfiguration |-> [BootstrapTokens |-> "deep",
                          NodeRegistration |-> "into",
                          LocalAPIEndpoint |-> "assigned"]]

JoinCopying ==
  [JoinConfiguration |-> [NodeRegistration |-> "into", Discovery |-> "into",
                          ControlPlane |-> "new"],
   JoinControlPlane |-> [LocalAPIEndpoint |-> "assigned"],
   LocalEtcd |-> [ImageMeta |-> "assigned", ExtraArgs |-> "new",
                  ServerCertSANs |-> "new", PeerCertSANs |-> "new"],
   NodeRegistrationOptions |-> [Taints |-> "deep", KubeletExtraArgs |-> "new"]]

RegistrationCopying ==
  [Taints |-> "deep", KubeletExtraArgs |-> "new",
   IgnorePreflightErrors |-> "new"]

-----------------------------------------------------------------------------
(* The packages *)

Packages == {"v1alpha1", "v1beta1", "v1beta2"}

\* f with what only g is defined for
Joined(f, g) ==
  [x \in DOMAIN f \cup DOMAIN g |-> IF x \in DOMAIN f THEN f[x] ELSE g[x]]

KubeadmLayout ==
  Joined(Joined(InitLayout, ClusterLayout), Joined(JoinLayout, ExternalLayout))
KubeadmCopying ==
  Joined(Joined(TokenCopying, ClusterCopying),
         Joined(EtcdCopying, Joined(JoinCopying, ExternalCopying)))

Layout ==
  [v1alpha1 |-> Joined(Joined(ConfigLayout, UserLayout), ExternalLayout),
   v1beta1 |-> KubeadmLayout,
   v1beta2 |-> [KubeadmLayout EXCEPT !.NodeRegistrationOptions =
                  RegistrationLayout]]

Copying ==
  [v1alpha1 |-> Joined(Joined(ConfigCopying, NTPCopying),
                       Joined(UserCopying, ExternalCopying)),
   v1beta1 |-> KubeadmCopying,
   v1beta2 |-> [KubeadmCopying EXCEPT !.NodeRegistrationOptions =
                  RegistrationCopying]]

\* The types which code generated here copies
Types(p) == DOMAIN Layout[p] \ DOMAIN ExternalLayout

-----------------------------------------------------------------------------
(* Cells are named by the fields that lead to them.                        *)

\* The cell that an object itself is in
Self == <<>>

Under(f, cells) == {<<f>> \o c : c \in cells}

\* The cells of a type; those without references have none.
Of(cells, type) == IF type \in DOMAIN cells THEN cells[type] ELSE {}

None(p) == [type \in DOMAIN Layout[p] |-> {}]

\* The cells that belong to a struct, besides the one that it is in, from
\* those that belong to the types of its fields
Belonging(p, cells) ==
  [type \in DOMAIN Layout[p] |->
     UNION {LET field == Layout[p][type][f]
            IN  Under(f, Of(cells, field.type))
                  \cup (IF field.kind = "reference" THEN {<<f>>} ELSE {})
            : f \in DOMAIN Layout[p][type]}]

Cells(p) ==
  LET cells[d \in 0 .. MaxDepth] ==
        IF d = 0 THEN None(p) ELSE Belonging(p, cells[d - 1])
  IN  cells[MaxDepth]

\* Those of them for which DeepCopyInto makes new ones
Copied(p, cells) ==
  [type \in DOMAIN Layout[p] |->
     UNION {LET way == Copying[p][type][f]
                below == Of(cells, Layout[p][type][f].type)
            IN  (IF way \in {"deep", "into"} THEN Under(f, below) ELSE {})
                  \cup (IF way \in {"deep", "new"} THEN {<<f>>} ELSE {})
            : f \in DOMAIN Layout[p][type]}]

CopiedCells(p) ==
  LET cells[d \in 0 .. MaxDepth] ==
        IF d = 0 THEN None(p) ELSE Copied(p, cells[d - 1])
  IN  cells[MaxDepth]

\* The cells behind a reference that is nil are not there.
Behind(reference, cells) == {c \in cells : IsPrefix(reference, c)}

\* Where a cell is found from the object and from its copy
Address(side, c) ==
  IF side = "copy" /\ c \in own THEN <<"copy", c>> ELSE <<"original", c>>
Seen(side) == [c \in object.cells |-> memory[Address(side, c)]]

-----------------------------------------------------------------------------
\* Any object, with all references set or with one that is nil
Init ==
  /\ \E p \in Packages : \E type \in Types(p) :
       LET all == Cells(p)[type]
       IN  \E gone \in {{}} \cup {Behind(r, all) : r \in all} :
             object = [package |-> p, type |-> type,
                       cells |-> {Self} \cup (all \ gone)]
  /\ memory = [a \in {"original"} \X object.cells |-> 0]
  /\ own = {}
  /\ writes = 0

\* What is nil stays nil; the new cells get what the old ones have in them.
DeepCopy ==
  /\ own = {}
  /\ own' = object.cells
              \cap ({Self} \cup CopiedCells(object.package)[object.type])
  /\ memory' = Joined(memory,
                      [a \in {"copy"} \X own' |-> memory[<<"original", a[2]>>]])
  /\ UNCHANGED <<object, writes>>

\* Someone who has the object, or the copy, changes a cell.
Write(side) ==
  /\ writes < MaxWrites
  /\ side = "copy" => own # {}
  /\ \E c \in object.cells : memory' = [memory EXCEPT ![Address(side, c)] = @ + 1]
  /\ writes' = writes + 1
  /\ UNCHANGED <<object, own>>

Next == DeepCopy \/ \E side \in {"original", "copy"} : Write(side)

Spec == Init /\ [][Next]_vars

-----------------------------------------------------------------------------
(* Properties *)

\* A copy shows what its original showed when it was made; and from then on
\* no step changes both: whoever changes the NodeConfig that the cache gave to
\* him changes neither the cache nor the copy his patch is computed from.
CopiesApart ==
  [][IF own # {} THEN Seen("original")' = Seen("original")
                      \/ Seen("copy")' = Seen("copy")
               ELSE own' # {} => Seen("copy")' = Seen("original")]_vars

=============================================================================

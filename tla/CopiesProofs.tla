---------------------------- MODULE CopiesProofs ----------------------------
(***************************************************************************)
(* Proofs about DeepCopies.  The heart is that the tables of the generated *)
(* code agree with those of the types: every reference gets a new cell,    *)
(* and DeepCopyInto goes down wherever there are cells below.  Then a deep *)
(* copy has every cell of its own, at whatever depth, and writes to one    *)
(* side never show on the other.                                           *)
(***************************************************************************)
EXTENDS DeepCopies, TLAPS

-----------------------------------------------------------------------------
(* The tables *)

\* The types without cells: those of fields which DeepCopyInto does not go
\* down into
Flat == {"plain", "DNS", "JoinControlPlane", "Networking", "APIEndpoint",
         "ImageMeta"}

\* DeepCopyInto treats the fields of a struct as their types ask for.
Agree(fields, ways) ==
  \A f \in DOMAIN fields :
     /\ fields[f].kind = "reference" <=> ways[f] \in {"deep", "new"}
     /\ ways[f] \in {"deep", "into"} \/ fields[f].type \in Flat

\* The fields of the flat types are structs without references.
FlatHere(layout) ==
  \A type \in DOMAIN layout \cap Flat : \A f \in DOMAIN layout[type] :
     layout[type][f].kind = "part" /\ layout[type][f].type \notin DOMAIN layout

\* What the layout of a package and the generated code must have in common
Sound(layout, copying) ==
  /\ \A type \in DOMAIN layout : Agree(layout[type], copying[type])
  /\ FlatHere(layout)

\* f and g have no arguments in common.
Disjoint(f, g) == DOMAIN f \cap DOMAIN g = {}

\* h has the values of both.
Joins(h, f, g) ==
  /\ DOMAIN h = DOMAIN f \cup DOMAIN g
  /\ \A x \in DOMAIN f : h[x] = f[x]
  /\ \A x \in DOMAIN g : h[x] = g[x]

\* The values of functions that are joined
LEMMA DisjointJoined ==
  ASSUME NEW f, NEW g, Disjoint(f, g)
  PROVE  Joins(Joined(f, g), f, g)
BY DEF Joined, Disjoint, Joins

\* The types of each table of v1alpha1
LEMMA ConfigTypes ==
  /\ DOMAIN ConfigLayout =
       {"NodeConfigList", "NodeConfig", "NodeConfigSpec", "NodeConfigStatus"}
  /\ DOMAIN UserLayout = {"User", "NTP"}
  /\ DOMAIN ExternalLayout =
       {"ListMeta", "ObjectMeta", "OwnerReference", "ManagedFieldsEntry",
        "FieldsV1", "Taint"}
  /\ DOMAIN ConfigCopying =
       {"NodeConfigList", "NodeConfig", "NodeConfigSpec", "NodeConfigStatus"}
  /\ DOMAIN NTPCopying = {"NTP"}
  /\ DOMAIN UserCopying = {"User"}
  /\ DOMAIN ExternalCopying =
       {"ListMeta", "ObjectMeta", "OwnerReference", "ManagedFieldsEntry",
        "FieldsV1", "Taint"}
BY DEF ConfigLayout, UserLayout, ExternalLayout, ConfigCopying, NTPCopying,
       UserCopying, ExternalCopying

\* The types of each table of kubeadm's packages
LEMMA KubeadmTypes ==
  /\ DOMAIN InitLayout = {"InitConfiguration", "ClusterConfiguration",
                          "ControlPlaneComponent", "APIServer"}
  /\ DOMAIN ClusterLayout = {"DNS", "ClusterStatus",
                             "NodeRegistrationOptions", "BootstrapToken",
                             "Etcd"}
  /\ DOMAIN JoinLayout = {"LocalEtcd", "ExternalEtcd", "JoinConfiguration",
                          "JoinControlPlane", "Discovery",
                          "BootstrapTokenDiscovery"}
  /\ DOMAIN TokenCopying = {"APIServer", "BootstrapToken",
                            "BootstrapTokenDiscovery"}
  /\ DOMAIN ClusterCopying = {"ClusterConfiguration", "ClusterStatus",
                              "ControlPlaneComponent", "DNS", "Discovery"}
  /\ DOMAIN EtcdCopying = {"Etcd", "ExternalEtcd", "InitConfiguration"}
  /\ DOMAIN JoinCopying = {"JoinConfiguration", "JoinControlPlane",
                           "LocalEtcd", "NodeRegistrationOptions"}
BY DEF InitLayout, ClusterLayout, JoinLayout, TokenCopying, ClusterCopying,
       EtcdCopying, JoinCopying

\* The types that both kinds of packages take from Kubernetes
LEMMA ExternalSound ==
  \A type \in DOMAIN ExternalLayout :
     Agree(ExternalLayout[type], ExternalCopying[type])
BY DEF Agree, ExternalLayout, ExternalCopying, Ref, Part, Plain, Flat

\* NodeConfig and what it is made of
LEMMA ConfigSound == Sound(Layout["v1alpha1"], Copying["v1alpha1"])
<1> DEFINE LA == Joined(ConfigLayout, UserLayout)
           CA == Joined(ConfigCopying, NTPCopying)
           CB == Joined(UserCopying, ExternalCopying)
           L == Joined(LA, ExternalLayout)
           C == Joined(CA, CB)
<1>1. Layout["v1alpha1"] = L /\ Copying["v1alpha1"] = C
  BY DEF Layout, Copying
<1>2. /\ Disjoint(ConfigLayout, UserLayout)
      /\ Disjoint(ConfigCopying, NTPCopying)
      /\ Disjoint(UserCopying, ExternalCopying)
  BY ConfigTypes DEF Disjoint
<1>3. /\ Joins(LA, ConfigLayout, UserLayout)
      /\ Joins(CA, ConfigCopying, NTPCopying)
      /\ Joins(CB, UserCopying, ExternalCopying)
  BY <1>2, DisjointJoined, Zenon
<1> HIDE DEF LA, CA, CB
<1>4. Disjoint(LA, ExternalLayout) /\ Disjoint(CA, CB)
  BY <1>3, ConfigTypes DEF Disjoint, Joins
<1>5. Joins(L, LA, ExternalLayout) /\ Joins(C, CA, CB)
  BY <1>4, DisjointJoined, Zenon
<1> HIDE DEF L, C
<1>6. DOMAIN L = DOMAIN ConfigLayout \cup DOMAIN UserLayout
                   \cup DOMAIN ExternalLayout
  BY <1>3, <1>5 DEF Joins
<1>7. \A type \in DOMAIN ConfigLayout :
         L[type] = ConfigLayout[type] /\ C[type] = ConfigCopying[type]
  BY <1>3, <1>5, ConfigTypes DEF Joins
<1>8. \A type \in DOMAIN UserLayout : L[type] = UserLayout[type]
  BY <1>3, <1>5 DEF Joins
<1>9. C["User"] = UserCopying["User"] /\ C["NTP"] = NTPCopying["NTP"]
  BY <1>3, <1>5, ConfigTypes DEF Joins
<1>10. \A type \in DOMAIN ExternalLayout :
         L[type] = ExternalLayout[type] /\ C[type] = ExternalCopying[type]
  BY <1>3, <1>5, ConfigTypes DEF Joins
<1>11. \A type \in DOMAIN ConfigLayout : Agree(L[type], C[type])
  <2>1. \A type \in DOMAIN ConfigLayout :
           Agree(ConfigLayout[type], ConfigCopying[type])
    BY DEF Agree, ConfigLayout, ConfigCopying, Ref, Part, Plain, Flat
  <2>2. QED
    BY <2>1, <1>7
<1>12. \A type \in DOMAIN UserLayout : Agree(L[type], C[type])
  <2>1. Agree(UserLayout["User"], UserCopying["User"])
    BY DEF Agree, UserLayout, UserCopying, Ref, Plain, Flat
  <2>2. Agree(UserLayout["NTP"], NTPCopying["NTP"])
    BY DEF Agree, UserLayout, NTPCopying, Ref, Plain, Flat
  <2>3. QED
    BY <2>1, <2>2, <1>8, <1>9, ConfigTypes
<1>13. \A type \in DOMAIN ExternalLayout : Agree(L[type], C[type])
  BY ExternalSound, <1>10
<1>14. FlatHere(L)
  BY <1>6, ConfigTypes DEF FlatHere, Flat
<1>15. QED
  BY <1>1, <1>6, <1>11, <1>12, <1>13, <1>14 DEF Sound

\* kubeadm's types, and the one that v1beta2 has its own version of
LEMMA KubeadmSound ==
  /\ Sound(KubeadmLayout, KubeadmCopying)
  /\ DOMAIN KubeadmLayout \cap DOMAIN KubeadmCopying = DOMAIN KubeadmLayout
<1> DEFINE LA == Joined(InitLayout, ClusterLayout)
           LB == Joined(JoinLayout, ExternalLayout)
           CA == Joined(TokenCopying, ClusterCopying)
           CD == Joined(JoinCopying, ExternalCopying)
           CB == Joined(EtcdCopying, CD)
           L == KubeadmLayout
           C == KubeadmCopying
<1>1. /\ Disjoint(InitLayout, ClusterLayout)
      /\ Disjoint(JoinLayout, ExternalLayout)
      /\ Disjoint(TokenCopying, ClusterCopying)
      /\ Disjoint(JoinCopying, ExternalCopying)
  BY KubeadmTypes, ConfigTypes DEF Disjoint
<1>2. Joins(LA, InitLayout, ClusterLayout)
      /\ Joins(LB, JoinLayout, ExternalLayout)
  BY <1>1, DisjointJoined, Zenon
<1>3. Joins(CA, TokenCopying, ClusterCopying)
      /\ Joins(CD, JoinCopying, ExternalCopying)
  BY <1>1, DisjointJoined, Zenon
<1> HIDE DEF CD
<1>4. Disjoint(EtcdCopying, CD)
  BY <1>3, KubeadmTypes, ConfigTypes DEF Disjoint, Joins
<1>5. Joins(CB, EtcdCopying, CD)
  BY <1>4, DisjointJoined, Zenon
<1> HIDE DEF LA, LB, CA, CB
<1>6. Disjoint(LA, LB) /\ Disjoint(CA, CB)
  BY <1>2, <1>3, <1>5, KubeadmTypes, ConfigTypes DEF Disjoint, Joins
<1>7. L = Joined(LA, LB) /\ C = Joined(CA, CB)
  BY DEF KubeadmLayout, KubeadmCopying, LA, LB, CA, CB, CD
<1> HIDE DEF L, C
<1>8. Joins(L, LA, LB) /\ Joins(C, CA, CB)
  BY <1>6, <1>7, DisjointJoined, Zenon
<1>9. /\ DOMAIN L = DOMAIN InitLayout \cup DOMAIN ClusterLayout
                      \cup DOMAIN JoinLayout \cup DOMAIN ExternalLayout
      /\ DOMAIN C = DOMAIN TokenCopying \cup DOMAIN ClusterCopying
                      \cup DOMAIN EtcdCopying \cup DOMAIN JoinCopying
                      \cup DOMAIN ExternalCopying
  BY <1>2, <1>3, <1>5, <1>8 DEF Joins
<1>10. /\ \A type \in DOMAIN InitLayout : L[type] = InitLayout[type]
       /\ \A type \in DOMAIN ClusterLayout : L[type] = ClusterLayout[type]
       /\ \A type \in DOMAIN JoinLayout : L[type] = JoinLayout[type]
       /\ \A type \in DOMAIN ExternalLayout : L[type] = ExternalLayout[type]
  BY <1>2, <1>8 DEF Joins
<1>11. /\ \A type \in DOMAIN TokenCopying : C[type] = TokenCopying[type]
       /\ \A type \in DOMAIN ClusterCopying : C[type] = ClusterCopying[type]
  BY <1>3, <1>8 DEF Joins
<1>12. /\ \A type \in DOMAIN EtcdCopying : C[type] = EtcdCopying[type]
       /\ \A type \in DOMAIN JoinCopying : C[type] = JoinCopying[type]
       /\ \A type \in DOMAIN ExternalCopying : C[type] = ExternalCopying[type]
  BY <1>3, <1>5, <1>8 DEF Joins
<1>13. \A type \in DOMAIN InitLayout : Agree(L[type], C[type])
  <2>1. Agree(InitLayout["InitConfiguration"], EtcdCopying["InitConfiguration"])
    BY DEF Agree, InitLayout, EtcdCopying, Ref, Part, Plain, Flat
  <2>2. Agree(InitLayout["ClusterConfiguration"],
              ClusterCopying["ClusterConfiguration"])
    BY DEF Agree, InitLayout, ClusterCopying, Ref, Part, Plain, Flat
  <2>3. Agree(InitLayout["ControlPlaneComponent"],
              ClusterCopying["ControlPlaneComponent"])
    BY DEF Agree, InitLayout, ClusterCopying, Ref, Part, Plain, Flat
  <2>4. Agree(InitLayout["APIServer"], TokenCopying["APIServer"])
    BY DEF Agree, InitLayout, TokenCopying, Ref, Part, Plain, Flat
  <2>5. QED
    BY <2>1, <2>2, <2>3, <2>4, <1>10, <1>11, <1>12, KubeadmTypes
<1>14. \A type \in DOMAIN ClusterLayout : Agree(L[type], C[type])
  <2>1. Agree(ClusterLayout["DNS"], ClusterCopying["DNS"])
    BY DEF Agree, ClusterLayout, ClusterCopying, Ref, Part, Plain, Flat
  <2>2. Agree(ClusterLayout["ClusterStatus"], ClusterCopying["ClusterStatus"])
    BY DEF Agree, ClusterLayout, ClusterCopying, Ref, Part, Plain, Flat
  <2>3. Agree(ClusterLayout["NodeRegistrationOptions"],
              JoinCopying["NodeRegistrationOptions"])
    BY DEF Agree, ClusterLayout, JoinCopying, Ref, Part, Plain, Flat
  <2>4. Agree(ClusterLayout["BootstrapToken"], TokenCopying["BootstrapToken"])
    BY DEF Agree, ClusterLayout, TokenCopying, Ref, Part, Plain, Flat
  <2>5. Agree(ClusterLayout["Etcd"], EtcdCopying["Etcd"])
    BY DEF Agree, ClusterLayout, EtcdCopying, Ref, Part, Plain, Flat
  <2>6. QED
    BY <2>1, <2>2, <2>3, <2>4, <2>5, <1>10, <1>11, <1>12, KubeadmTypes
<1>15. \A type \in DOMAIN JoinLayout : Agree(L[type], C[type])
  <2>1. Agree(JoinLayout["LocalEtcd"], JoinCopying["LocalEtcd"])
    BY DEF Agree, JoinLayout, JoinCopying, Ref, Part, Plain, Flat
  <2>2. Agree(JoinLayout["ExternalEtcd"], EtcdCopying["ExternalEtcd"])
    BY DEF Agree, JoinLayout, EtcdCopying, Ref, Part, Plain, Flat
  <2>3. Agree(JoinLayout["JoinConfiguration"], JoinCopying["JoinConfiguration"])
    BY DEF Agree, JoinLayout, JoinCopying, Ref, Part, Plain, Flat
  <2>4. Agree(JoinLayout["JoinControlPlane"], JoinCopying["JoinControlPlane"])
    BY DEF Agree, JoinLayout, JoinCopying, Ref, Part, Plain, Flat
  <2>5. Agree(JoinLayout["Discovery"], ClusterCopying["Discovery"])
    BY DEF Agree, JoinLayout, ClusterCopying, Ref, Part, Plain, Flat
  <2>6. Agree(JoinLayout["BootstrapTokenDiscovery"],
              TokenCopying["BootstrapTokenDiscovery"])
    BY DEF Agree, JoinLayout, TokenCopying, Ref, Part, Plain, Flat
  <2>7. QED
    BY <2>1, <2>2, <2>3, <2>4, <2>5, <2>6, <1>10, <1>11, <1>12, KubeadmTypes
<1>16. \A type \in DOMAIN ExternalLayout : Agree(L[type], C[type])
  BY ExternalSound, ConfigTypes, <1>10, <1>12
<1>17. FlatHere(L)
  <2>1. DOMAIN L \cap Flat = {"DNS", "JoinControlPlane"}
    BY <1>9, KubeadmTypes, ConfigTypes DEF Flat
  <2>2. L["DNS"] = [ImageMeta |-> Part("ImageMeta")]
    BY <1>10, KubeadmTypes DEF ClusterLayout
  <2>3. L["JoinControlPlane"] = [LocalAPIEndpoint |-> Part("APIEndpoint")]
    BY <1>10, KubeadmTypes DEF JoinLayout
  <2>4. QED
    BY <1>9, <2>1, <2>2, <2>3, KubeadmTypes, ConfigTypes
    DEF FlatHere, Part
<1>18. DOMAIN L \cap DOMAIN C = DOMAIN L
  BY <1>9, KubeadmTypes, ConfigTypes
<1>19. \A type \in DOMAIN L : Agree(L[type], C[type])
  BY <1>9, <1>13, <1>14, <1>15, <1>16
<1>20. QED
  BY <1>17, <1>18, <1>19 DEF Sound, L, C

\* The code generated for every package agrees with its types.
LEMMA PackagesSound == \A p \in Packages : Sound(Layout[p], Copying[p])
<1>1. Sound(Layout["v1beta1"], Copying["v1beta1"])
  BY KubeadmSound DEF Layout, Copying
<1>2. Sound(Layout["v1beta2"], Copying["v1beta2"])
  <2> DEFINE L == Layout["v1beta2"]
             C == Copying["v1beta2"]
             N == "NodeRegistrationOptions"
  <2>1. L = [KubeadmLayout EXCEPT !.NodeRegistrationOptions =
               RegistrationLayout]
    BY DEF Layout
  <2>2. C = [KubeadmCopying EXCEPT !.NodeRegistrationOptions =
               RegistrationCopying]
    BY DEF Copying
  <2> HIDE DEF L, C
  <2>3. /\ DOMAIN L = DOMAIN KubeadmLayout
        /\ \A type \in DOMAIN L \ {N} :
              L[type] = KubeadmLayout[type] /\ C[type] = KubeadmCopying[type]
    BY <2>1, <2>2, KubeadmSound
  <2>4. N \in DOMAIN L => L[N] = RegistrationLayout /\ C[N] = RegistrationCopying
    BY <2>1, <2>2, KubeadmSound
  <2>5. Agree(RegistrationLayout, RegistrationCopying)
    BY DEF Agree, RegistrationLayout, RegistrationCopying, Ref, Plain, Flat
  <2>6. \A type \in DOMAIN L : Agree(L[type], C[type])
    BY <2>3, <2>4, <2>5, KubeadmSound DEF Sound
  <2>7. FlatHere(L)
    BY <2>3, KubeadmSound DEF Sound, FlatHere, Flat
  <2>8. QED
    BY <2>6, <2>7 DEF Sound, L, C
<1>3. QED
  BY <1>1, <1>2, ConfigSound DEF Packages

-----------------------------------------------------------------------------
(* Every cell is copied *)

\* No cells belong to the flat types.
FlatCells(cells) == \A type \in Flat : Of(cells, type) = {}

\* One level down, the cells of every type and those that are copied are the
\* same.
LEMMA OneLevel ==
  ASSUME NEW p \in Packages, NEW cells, FlatCells(cells)
  PROVE  Belonging(p, cells) = Copied(p, cells)
<1> DEFINE field(type, f) == Layout[p][type][f]
           way(type, f) == Copying[p][type][f]
           below(type, f) == Of(cells, field(type, f).type)
           here(type, f) ==
             Under(f, below(type, f))
               \cup (IF field(type, f).kind = "reference" THEN {<<f>>} ELSE {})
           copied(type, f) ==
             (IF way(type, f) \in {"deep", "into"} THEN Under(f, below(type, f))
                                                  ELSE {})
               \cup (IF way(type, f) \in {"deep", "new"} THEN {<<f>>} ELSE {})
<1>1. ASSUME NEW type \in DOMAIN Layout[p], NEW f \in DOMAIN Layout[p][type]
      PROVE  here(type, f) = copied(type, f)
  <2>1. /\ field(type, f).kind = "reference" <=> way(type, f) \in {"deep", "new"}
        /\ way(type, f) \in {"deep", "into"} \/ field(type, f).type \in Flat
    BY PackagesSound DEF Sound, Agree
  <2>2. way(type, f) \in {"deep", "into"} \/ Under(f, below(type, f)) = {}
    BY <2>1 DEF FlatCells, Under
  <2> HIDE DEF field, way, below
  <2>3. QED
    BY <2>1, <2>2
<1>2. Belonging(p, cells) =
        [type \in DOMAIN Layout[p] |->
           UNION {here(type, f) : f \in DOMAIN Layout[p][type]}]
  BY Zenon DEF Belonging
<1>3. Copied(p, cells) =
        [type \in DOMAIN Layout[p] |->
           UNION {copied(type, f) : f \in DOMAIN Layout[p][type]}]
  BY Zenon DEF Copied
<1> HIDE DEF here, copied
<1>4. ASSUME NEW type \in DOMAIN Layout[p]
      PROVE  UNION {here(type, f) : f \in DOMAIN Layout[p][type]}
             = UNION {copied(type, f) : f \in DOMAIN Layout[p][type]}
  BY <1>1
<1>5. QED
  BY <1>2, <1>3, <1>4

\* The flat types have no cells of their own, nor copies of any.
LEMMA FlatLevel ==
  ASSUME NEW p \in Packages, NEW cells, DOMAIN cells = DOMAIN Layout[p]
  PROVE  FlatCells(Belonging(p, cells)) /\ FlatCells(Copied(p, cells))
<1>1. ASSUME NEW type \in Flat, type \in DOMAIN Layout[p]
      PROVE  Belonging(p, cells)[type] = {} /\ Copied(p, cells)[type] = {}
  <2>1. \A f \in DOMAIN Layout[p][type] :
           /\ Layout[p][type][f].kind # "reference"
           /\ Copying[p][type][f] \notin {"deep", "new"}
           /\ Of(cells, Layout[p][type][f].type) = {}
    BY <1>1, PackagesSound DEF Sound, Agree, FlatHere, Of
  <2>2. ASSUME NEW f PROVE Under(f, {}) = {}
    BY DEF Under
  <2>3. QED
    BY <2>1, <2>2, <1>1 DEF Belonging, Copied
<1>2. QED
  BY <1>1, Zenon DEF FlatCells, Of, Belonging, Copied

\* DeepCopy makes new cells for all that belong to an object, whatever the
\* depth: what recursion says of the cells, it says of the copied ones.
LEMMA AllCopied == ASSUME NEW p \in Packages PROVE Cells(p) = CopiedCells(p)
<1> DEFINE A(h) == [d \in 0 .. MaxDepth |->
                      IF d = 0 THEN None(p) ELSE Belonging(p, h[d - 1])]
           B(h) == [d \in 0 .. MaxDepth |->
                      IF d = 0 THEN None(p) ELSE Copied(p, h[d - 1])]
           Regular(h) == \A d \in 0 .. MaxDepth : FlatCells(h[d])
<1>1. \A d \in 0 .. MaxDepth : d # 0 => d - 1 \in 0 .. MaxDepth
  BY CopiesAssumption
<1>2. ASSUME NEW h, Regular(h) PROVE A(h) = B(h)
  <2>1. \A d \in 0 .. MaxDepth :
           d # 0 => Belonging(p, h[d - 1]) = Copied(p, h[d - 1])
    BY <1>1, <1>2, OneLevel
  <2>2. QED
    BY <2>1
<1>3. FlatCells(None(p)) /\ DOMAIN None(p) = DOMAIN Layout[p]
  BY DEF FlatCells, Of, None
<1>4. \A cells : DOMAIN Belonging(p, cells) = DOMAIN Layout[p]
                 /\ DOMAIN Copied(p, cells) = DOMAIN Layout[p]
  BY Zenon DEF Belonging, Copied
<1>5. ASSUME NEW h, h = A(h) \/ h = B(h), NEW d \in 0 .. MaxDepth
      PROVE  DOMAIN h[d] = DOMAIN Layout[p]
  <2>1. h[d] \in {None(p), Belonging(p, h[d - 1]), Copied(p, h[d - 1])}
    BY <1>5
  <2>2. QED
    BY <2>1, <1>3, <1>4
<1>6. ASSUME NEW h, h = A(h) \/ h = B(h) PROVE Regular(h)
  <2>1. ASSUME NEW d \in 0 .. MaxDepth, d # 0 PROVE FlatCells(h[d])
    <3>1. h[d] = Belonging(p, h[d - 1]) \/ h[d] = Copied(p, h[d - 1])
      BY <1>6, <2>1
    <3>2. DOMAIN h[d - 1] = DOMAIN Layout[p]
      BY <1>1, <1>5, <1>6, <2>1
    <3>3. QED
      BY <3>1, <3>2, FlatLevel
  <2>2. 0 \in 0 .. MaxDepth => h[0] = None(p)
    BY <1>6
  <2>3. QED
    BY <2>1, <2>2, <1>3
<1> HIDE DEF Regular
<1>7. \A h : h = A(h) <=> h = B(h)
  BY <1>2, <1>6
<1>8. QED
  BY <1>7, Zenon DEF Cells, CopiedCells

-----------------------------------------------------------------------------
(* The invariant *)

\* An object has cells of its type only; the copy has all of them or, before
\* DeepCopy, none; and nothing else is in memory.
IInv ==
  /\ object.package \in Packages
  /\ object.cells \subseteq {Self} \cup Cells(object.package)[object.type]
  /\ own = {} \/ own = object.cells
  /\ DOMAIN memory = ({"original"} \X object.cells) \cup ({"copy"} \X own)

\* Objects that are made fulfil the invariant.
LEMMA InitIInv == Init => IInv
<1>1. SUFFICES ASSUME Init PROVE IInv
  OBVIOUS
<1>2. PICK p \in Packages : \E type \in Types(p) : \E gone :
         object = [package |-> p, type |-> type,
                   cells |-> {Self} \cup (Cells(p)[type] \ gone)]
  BY <1>1, Zenon DEF Init
<1>3. PICK type, gone :
         object = [package |-> p, type |-> type,
                   cells |-> {Self} \cup (Cells(p)[type] \ gone)]
  BY <1>2, Zenon
<1>4. object.package = p /\ object.type = type
      /\ object.cells \subseteq {Self} \cup Cells(p)[type]
  BY <1>3
<1>5. QED
  BY <1>1, <1>4 DEF Init, IInv

\* A deep copy has every cell of the object, with the same in it.
LEMMA DeepCopyApart ==
  ASSUME IInv, DeepCopy
  PROVE  IInv' /\ Seen("copy")' = Seen("original")
<1> DEFINE news == [a \in {"copy"} \X own' |-> memory[<<"original", a[2]>>]]
<1>1. own = {} /\ object' = object /\ memory' = Joined(memory, news)
  BY DEF DeepCopy
<1>2. own' = object.cells
  BY AllCopied DEF IInv, DeepCopy
<1>3. DOMAIN memory = {"original"} \X object.cells
  BY <1>1 DEF IInv
<1>4. DOMAIN news = {"copy"} \X object.cells
  BY <1>2
<1>5. Disjoint(memory, news)
  BY <1>3, <1>4 DEF Disjoint
<1>6. Joins(memory', memory, news)
  BY <1>1, <1>5, DisjointJoined, Zenon
<1>7. IInv'
  BY <1>1, <1>2, <1>3, <1>4, <1>6 DEF IInv, Joins
<1>8. \A c \in object.cells : memory'[<<"copy", c>>] = memory[<<"original", c>>]
  BY <1>2, <1>4, <1>6 DEF Joins
<1>9. Seen("copy")' = [c \in object.cells |-> memory'[<<"copy", c>>]]
  BY <1>1, <1>2 DEF Seen, Address
<1>10. Seen("original") = [c \in object.cells |-> memory[<<"original", c>>]]
  BY DEF Seen, Address
<1>11. QED
  BY <1>7, <1>8, <1>9, <1>10

\* A write changes a cell of one side.
LEMMA WriteApart ==
  ASSUME IInv, NEW side \in {"original", "copy"}, Write(side)
  PROVE  /\ IInv' /\ own' = own
         /\ own # {} => Seen("original")' = Seen("original")
                        \/ Seen("copy")' = Seen("copy")
<1>1. PICK c \in object.cells :
         memory' = [memory EXCEPT ![Address(side, c)] = @ + 1]
  BY DEF Write
<1>2. object' = object /\ own' = own /\ DOMAIN memory' = DOMAIN memory
  BY <1>1 DEF Write
<1>3. IInv'
  BY <1>2 DEF IInv
<1>4. ASSUME own # {}, NEW other \in {"original", "copy"}, other # side
      PROVE  Seen(other)' = Seen(other)
  <2>1. own = object.cells
    BY <1>4 DEF IInv
  <2>2. \A s \in {"original", "copy"} : \A d \in object.cells :
           Address(s, d) = <<s, d>> /\ <<s, d>> \in DOMAIN memory
    BY <2>1 DEF Address, IInv
  <2>3. \A d \in object.cells : memory'[<<other, d>>] = memory[<<other, d>>]
    <3>1. Address(side, c) = <<side, c>>
      BY <1>1, <2>2
    <3>2. \A d \in object.cells : <<other, d>> # <<side, c>>
      BY <1>4
    <3>3. \A a \in DOMAIN memory : a # Address(side, c) => memory'[a] = memory[a]
      BY <1>1
    <3>4. QED
      BY <1>4, <2>2, <3>1, <3>2, <3>3
  <2>4. Seen(other) = [d \in object.cells |-> memory[<<other, d>>]]
    BY <2>2 DEF Seen
  <2>5. Seen(other)' = [d \in object.cells |-> memory'[<<other, d>>]]
    BY <1>2, <2>1 DEF Seen, Address
  <2>6. QED
    BY <2>3, <2>4, <2>5
<1>5. QED
  BY <1>2, <1>3, <1>4

\* Steps that change nothing
LEMMA StutterApart ==
  ASSUME IInv, UNCHANGED vars
  PROVE  IInv' /\ own' = own /\ Seen("original")' = Seen("original")
BY DEF IInv, vars, Seen, Address

-----------------------------------------------------------------------------
\* A copy shows what its original showed, and no step changes both from then
\* on: for every type, whatever its references, however often and wherever it
\* is written, and however deep one looks.
THEOREM CopiesApartHolds == Spec => CopiesApart
<1> DEFINE Apart == IF own # {} THEN Seen("original")' = Seen("original")
                                     \/ Seen("copy")' = Seen("copy")
                                ELSE own' # {} => Seen("copy")' = Seen("original")
<1>1. IInv /\ [Next]_vars => IInv' /\ [Apart]_vars
  <2>1. ASSUME IInv, DeepCopy PROVE IInv' /\ Apart
    BY <2>1, DeepCopyApart DEF DeepCopy
  <2>2. ASSUME IInv, NEW side \in {"original", "copy"}, Write(side)
        PROVE  IInv' /\ Apart
    BY <2>2, WriteApart
  <2>3. ASSUME IInv, UNCHANGED vars PROVE IInv' /\ Apart
    BY <2>3, StutterApart
  <2>4. QED
    BY <2>1, <2>2, <2>3 DEF Next
<1>2. QED
  BY <1>1, InitIInv, PTL DEF Spec, CopiesApart
=============================================================================

-------------------------- MODULE ReconcilerProofs --------------------------
(***************************************************************************)
(* Proofs about the NodeConfig controller for any set of names, images and *)
(* host states, and any number of users' steps, faults and hosts.          *)
(***************************************************************************)
EXTENDS ReconcilerProperties, TLAPS

-----------------------------------------------------------------------------
(* Type correctness *)

\* Each object which can be stored is an object.
LEMMA ObjectsTyped ==
  /\ NoConfig \in NodeConfig
  /\ NoHost \in BareMetalHost
  /\ NoSecret \in Secret
  /\ CredentialsSecret \in Secret
  /\ \A uid \in Nat : BootstrapSecret(uid) \in Secret
  /\ \A uid \in Nat, i \in Images : NewConfig(uid, i) \in NodeConfig
  /\ \A uid \in Nat, i \in Images \cup {NoImage}, on \in BOOLEAN :
       NewHost(uid, i, on) \in BareMetalHost
  BY ClusterAssumption
     DEF ClusterAssumption, NoConfig, NoHost, NoSecret, CredentialsSecret,
         BootstrapSecret, NewConfig, NewHost, NodeConfig, BareMetalHost,
         Secret, Failures

\* What is absent and what is created differ in these fields.
LEMMA AbsentFields ==
  /\ NoConfig.uid = 0 /\ ~ NoConfig.ready
  /\ \A uid : /\ BootstrapSecret(uid).data = "cloudinit"
              /\ BootstrapSecret(uid).owner = uid
              /\ BootstrapSecret(uid) # NoSecret
  <1>1. NoConfig.uid = 0 /\ ~ NoConfig.ready
    BY DEF NoConfig
  <1>2. NoSecret.data = ""
    BY DEF NoSecret
  <1>3. \A uid : /\ BootstrapSecret(uid).data = "cloudinit"
                /\ BootstrapSecret(uid).owner = uid
    BY DEF BootstrapSecret
  <1> QED
    BY <1>1, <1>2, <1>3

\* The types of the fields of an object, and of what becomes of the object
\* when one of them changes.
LEMMA ConfigFields ==
  ASSUME NEW c \in NodeConfig
  PROVE  /\ c.uid \in Nat
         /\ c.owner \in Nat
         /\ c.ready \in BOOLEAN
         /\ c.userData \in BOOLEAN
         /\ c.failure \in Failures
         /\ \A i \in Images \cup {NoImage} :
              [c EXCEPT !.image = i] \in NodeConfig
         /\ \A u \in Nat : [c EXCEPT !.owner = u] \in NodeConfig
         /\ [c EXCEPT !.userData = TRUE] \in NodeConfig
         /\ \A f \in Failures : [c EXCEPT !.failure = f] \in NodeConfig
         /\ \A r, d \in BOOLEAN, f \in Failures :
              [c EXCEPT !.ready = r, !.userData = d, !.failure = f]
                \in NodeConfig
         /\ \A u \in Nat, f \in Failures :
              [c EXCEPT !.failure = f, !.owner = u, !.ready = TRUE]
                \in NodeConfig
  BY DEF NodeConfig

LEMMA HostFields ==
  ASSUME NEW h \in BareMetalHost
  PROVE  /\ h.uid \in Nat
         /\ h.image \in Images \cup {NoImage}
         /\ h.ok \in BOOLEAN
         /\ h.online \in BOOLEAN
         /\ h.userData \in BOOLEAN
         /\ [h EXCEPT !.deleting = TRUE] \in BareMetalHost
         /\ \A s \in HostStates : [h EXCEPT !.state = s] \in BareMetalHost
         /\ \A k \in BOOLEAN : [h EXCEPT !.ok = k] \in BareMetalHost
         /\ \A i \in Images \cup {NoImage}, d, on \in BOOLEAN :
              [h EXCEPT !.image = i, !.userData = d, !.online = on]
                \in BareMetalHost
  BY DEF BareMetalHost

\* A patch of an object is an object.
LEMMA MetaPatchTyped ==
  ASSUME before \in NodeConfig, config \in NodeConfig, NEW c \in NodeConfig
  PROVE  MetaPatched(c) \in NodeConfig
  BY ConfigFields DEF MetaPatched, Merge

LEMMA StatusPatchTyped ==
  ASSUME before \in NodeConfig, config \in NodeConfig, NEW c \in NodeConfig
  PROVE  StatusPatched(c) \in NodeConfig
  <1>1. Merge(c.ready, before.ready, config.ready) \in BOOLEAN
    BY ConfigFields DEF Merge
  <1>2. Merge(c.userData, before.userData, config.userData) \in BOOLEAN
    BY ConfigFields DEF Merge
  <1>3. Merge(c.failure, before.failure, config.failure) \in Failures
    BY ConfigFields DEF Merge
  <1> QED
    BY <1>1, <1>2, <1>3, ConfigFields DEF StatusPatched

LEMMA HostPatchTyped ==
  ASSUME NEW h \in BareMetalHost, NEW b \in BareMetalHost,
         NEW a \in BareMetalHost
  PROVE  PatchHost(h, b, a) \in BareMetalHost
  <1>1. Merge(h.image, b.image, a.image) \in Images \cup {NoImage}
    BY HostFields DEF Merge
  <1>2. Merge(h.userData, b.userData, a.userData) \in BOOLEAN
    BY HostFields DEF Merge
  <1>3. Merge(h.online, b.online, a.online) \in BOOLEAN
    BY HostFields DEF Merge
  <1> QED
    BY <1>1, <1>2, <1>3, HostFields DEF PatchHost

LEMMA HostSpecTyped ==
  ASSUME NEW h \in BareMetalHost, NEW c \in NodeConfig
  PROVE  SetHostSpec(h, c) \in BareMetalHost
  <1>1. c.image \in Images \cup {NoImage}
    BY DEF NodeConfig
  <1>2. (h.online \/ h.state = "ready") \in BOOLEAN
    OBVIOUS
  <1>3. [h EXCEPT !.image = c.image, !.userData = TRUE,
                  !.online = (h.online \/ h.state = "ready")] \in BareMetalHost
    BY <1>1, <1>2, HostFields
  <1> QED
    BY <1>3 DEF SetHostSpec

\* The owner of the credentials stays what it is.
LEMMA OwnerNotSet ==
  ASSUME NEW s \in Secret, NEW uid \in Nat
  PROVE  SetBMHCredentialsOwner(s, uid) = s
  BY DEF SetBMHCredentialsOwner, Merge, Secret

\* A step of anybody but the operator keeps the types.
LEMMA EnvironmentTyped ==
  ASSUME ClusterTypeOK, Environment
  PROVE  ClusterTypeOK'
  <1> USE DEF ClusterTypeOK
  <1>1. ASSUME NEW n \in Names, CreateConfig(n) PROVE ClusterTypeOK'
    <2>1. made' \in [Names -> Nat] /\ userOps' \in Nat
      BY <1>1 DEF CreateConfig, UserOp
    <2>2. nc' \in [Names -> NodeConfig]
      BY <1>1, ObjectsTyped DEF CreateConfig
    <2> QED
      BY <1>1, <2>1, <2>2 DEF CreateConfig
  <1>2. ASSUME NEW n \in Names, EditConfig(n) PROVE ClusterTypeOK'
    <2>1. PICK i \in Images : nc' = [nc EXCEPT ![n].image = i]
      BY <1>2 DEF EditConfig
    <2>2. [nc[n] EXCEPT !.image = i] \in NodeConfig
      BY ConfigFields
    <2>3. nc' \in [Names -> NodeConfig]
      BY <2>1, <2>2
    <2> QED
      BY <1>2, <2>3 DEF EditConfig, UserOp
  <1>s. ASSUME NEW n \in Names, StripConfig(n) PROVE ClusterTypeOK'
    <2>1. [nc[n] EXCEPT !.image = NoImage] \in NodeConfig
      BY ConfigFields
    <2>2. nc' \in [Names -> NodeConfig]
      BY <1>s, <2>1 DEF StripConfig
    <2> QED
      BY <1>s, <2>2 DEF StripConfig, UserOp
  <1>3. ASSUME NEW n \in Names, DeleteConfigByHand(n) PROVE ClusterTypeOK'
    BY <1>3, ObjectsTyped DEF DeleteConfigByHand, UserOp
  <1>4. ASSUME NEW n \in Names, RegisterHost(n) PROVE ClusterTypeOK'
    <2>1. hostMade' \in [Names -> Nat] /\ userOps' \in Nat
      BY <1>4 DEF RegisterHost, UserOp
    <2>2. PICK i \in Images \cup {NoImage}, on \in BOOLEAN :
            host' = [host EXCEPT ![n] = NewHost(hostMade[n] + 1, i, on)]
      BY <1>4 DEF RegisterHost
    <2>3. NewHost(hostMade[n] + 1, i, on) \in BareMetalHost
      <3>1. hostMade[n] + 1 \in Nat
        OBVIOUS
      <3> QED
        BY <3>1, ObjectsTyped
    <2>4. host' \in [Names -> BareMetalHost]
      BY <2>2, <2>3
    <2> QED
      BY <1>4, <2>1, <2>4 DEF RegisterHost
  <1>5. ASSUME NEW n \in Names, DeleteHostByHand(n) PROVE ClusterTypeOK'
    <2>1. host' \in [Names -> BareMetalHost]
      BY <1>5, HostFields DEF DeleteHostByHand
    <2> QED
      BY <1>5, <2>1 DEF DeleteHostByHand, UserOp
  <1>6. ASSUME NEW s \in SecretNames, DeleteSecretByHand(s)
        PROVE  ClusterTypeOK'
    BY <1>6, ObjectsTyped DEF DeleteSecretByHand, UserOp
  <1>7. ASSUME NEW s \in SecretNames, CollectSecret(s) PROVE ClusterTypeOK'
    BY <1>7, ObjectsTyped DEF CollectSecret
  <1>8. ASSUME NEW n \in Names, CollectConfig(n) PROVE ClusterTypeOK'
    BY <1>8, ObjectsTyped DEF CollectConfig
  <1>9. ASSUME NEW n \in Names, Progress(n) PROVE ClusterTypeOK'
    <2>1. PICK s \in HostStates : host' = [host EXCEPT ![n].state = s]
      BY <1>9 DEF Progress
    <2>2. [host[n] EXCEPT !.state = s] \in BareMetalHost
      BY HostFields
    <2>3. host' \in [Names -> BareMetalHost]
      BY <2>1, <2>2
    <2> QED
      BY <1>9, <2>3 DEF Progress
  <1>10. ASSUME NEW n \in Names, ChangeHealth(n) PROVE ClusterTypeOK'
    <2>1. (~ host[n].ok) \in BOOLEAN
      OBVIOUS
    <2>2. host' \in [Names -> BareMetalHost]
      BY <1>10, <2>1, HostFields DEF ChangeHealth
    <2> QED
      BY <1>10, <2>2 DEF ChangeHealth
  <1>11. ASSUME NEW n \in Names, Finalize(n) PROVE ClusterTypeOK'
    BY <1>11, ObjectsTyped DEF Finalize
  <1>12. ASSUME NEW n \in Names, AdoptCredentials(n) PROVE ClusterTypeOK'
    <2>1. CredentialsOf[n] \in SecretNames
      BY ClusterAssumption DEF ClusterAssumption
    <2>2. host[n].uid \in Nat
      BY HostFields
    <2>3. \A s \in Secret, u \in Nat : [s EXCEPT !.owner = u] \in Secret
      BY DEF Secret
    <2>4. secret' \in [SecretNames -> Secret]
      BY <1>12, <2>1, <2>2, <2>3 DEF AdoptCredentials
    <2> QED
      BY <1>12, <2>4 DEF AdoptCredentials
  <1> QED
    BY <1>1, <1>2, <1>s, <1>3, <1>4, <1>5, <1>6, <1>7, <1>8, <1>9, <1>10,
       <1>11, <1>12
       DEF Environment, User, GarbageCollector, BareMetalOperator

\* A message of the controller is a failure message, and its steps are steps.
LEMMA StepsTyped ==
  /\ {"", "error", "panic"} \subseteq Endings
  /\ {"", "cloudinit", "create", "unavailable", "associate"} \subseteq Failures
  /\ {"idle", "createInit", "findHost", "storeCredentials", "createHost",
      "associate", "deleteHost", "deleteConfig", "patchMeta", "patchStatus",
      "deferMeta", "deferStatus", "return"} \subseteq Steps
  BY DEF Failures, Endings, Steps, HostPhase, PatchPhase

\* How the parts of a step change the worker's own variables.
LEMMA LocalTyped ==
  ASSUME TypeOK
  PROVE  /\ \A f \in Failures :
              FailWith(f) => /\ req' = req /\ before' = before
                             /\ config' \in NodeConfig
                             /\ err' \in Endings /\ pc' \in Steps
         /\ Fail => /\ req' = req /\ before' = before
                    /\ config' \in NodeConfig
                    /\ err' \in Endings /\ pc' \in Steps
         /\ Panic => /\ req' = req /\ before' = before
                     /\ config' \in NodeConfig
                     /\ err' \in Endings /\ pc' \in Steps
         /\ \A step \in Steps :
              Goto(step) => /\ req' = req /\ before' = before
                            /\ config' \in NodeConfig
                            /\ err' \in Endings /\ pc' \in Steps
         /\ \A uid \in Nat :
              Associated(uid) => /\ req' = req /\ before' = before
                                 /\ config' \in NodeConfig
                                 /\ err' \in Endings /\ pc' \in Steps
         /\ \A ok \in BOOLEAN :
              pc \in {"patchMeta", "patchStatus", "deferMeta", "deferStatus"}
              /\ PatchDone(ok) => /\ req' = req /\ before' = before
                                  /\ config' \in NodeConfig
                                  /\ err' \in Endings /\ pc' \in Steps
         /\ Fault => faults' \in Nat
  <1> USE DEF TypeOK
  <1>1. ASSUME NEW f \in Failures, FailWith(f)
        PROVE  /\ req' = req /\ before' = before /\ config' \in NodeConfig
               /\ err' \in Endings /\ pc' \in Steps
    BY <1>1, ConfigFields, StepsTyped DEF FailWith
  <1>2. ASSUME Fail
        PROVE  /\ req' = req /\ before' = before /\ config' \in NodeConfig
               /\ err' \in Endings /\ pc' \in Steps
    BY <1>2, StepsTyped DEF Fail
  <1>p. ASSUME Panic
        PROVE  /\ req' = req /\ before' = before /\ config' \in NodeConfig
               /\ err' \in Endings /\ pc' \in Steps
    BY <1>p, StepsTyped DEF Panic
  <1>3. ASSUME NEW step \in Steps, Goto(step)
        PROVE  /\ req' = req /\ before' = before /\ config' \in NodeConfig
               /\ err' \in Endings /\ pc' \in Steps
    BY <1>3 DEF Goto, localVars
  <1>4. ASSUME NEW uid \in Nat, Associated(uid)
        PROVE  /\ req' = req /\ before' = before /\ config' \in NodeConfig
               /\ err' \in Endings /\ pc' \in Steps
    BY <1>4, ConfigFields, StepsTyped DEF Associated
  <1>5. ASSUME NEW ok \in BOOLEAN, PatchDone(ok),
               pc \in {"patchMeta", "patchStatus", "deferMeta", "deferStatus"}
        PROVE  /\ req' = req /\ before' = before /\ config' \in NodeConfig
               /\ err' \in Endings /\ pc' \in Steps
    <2>1. pc' \in Steps
      BY <1>5, StepsTyped DEF PatchDone, AfterPatch
    <2>2. err' \in Endings
      BY <1>5, StepsTyped DEF PatchDone
    <2> QED
      BY <1>5, <2>1, <2>2 DEF PatchDone
  <1>6. Fault => faults' \in Nat
    BY DEF Fault
  <1> QED
    BY <1>1, <1>2, <1>p, <1>3, <1>4, <1>5, <1>6

\* A process that starts again is typed.
LEMMA RestartTyped ==
  ASSUME TypeOK, Restart, faults' \in Nat
  PROVE  TypeOK'
  <1>1. /\ ncCache' \in [Names -> NodeConfig]
        /\ hostCache' \in [Names -> BareMetalHost]
        /\ queue' \subseteq Names
    BY DEF Restart, TypeOK, ClusterTypeOK
  <1> QED
    BY <1>1, ObjectsTyped, StepsTyped
       DEF Restart, TypeOK, ClusterTypeOK, clusterVars

\* A step of the worker keeps the types.
LEMMA WorkerTyped ==
  ASSUME TypeOK, Worker
  PROVE  TypeOK'
  <1> DEFINE LocalOK == /\ req' \in Names /\ before' \in NodeConfig
                        /\ config' \in NodeConfig
                        /\ err' \in Endings /\ pc' \in Steps
  <1>a. TypeOK /\ ClusterTypeOK
    BY DEF TypeOK
  <1>b. req \in Names /\ before \in NodeConfig /\ config \in NodeConfig
    BY DEF TypeOK
  <1>1. ASSUME NEW n \in Names, Begin(n) PROVE TypeOK'
    <2>1. LocalOK
      BY <1>1, StepsTyped DEF Begin, TypeOK, localVars
    <2>2. queue' \subseteq Names /\ faults' \in Nat
      <3>1. queue' \subseteq queue
        BY <1>1 DEF Begin
      <3>2. UNCHANGED faults \/ Fault
        BY <1>1 DEF Begin
      <3> QED
        BY <3>1, <3>2, LocalTyped DEF TypeOK
    <2> QED
      BY <1>1, <2>1, <2>2
         DEF Begin, TypeOK, ClusterTypeOK, clusterVars, informerVars
  <1>2. CASE CreateNodeInitConfig
    <2>1. req \in SecretNames /\ BootstrapSecret(config.uid) \in Secret
      BY <1>b, ClusterAssumption, ConfigFields, ObjectsTyped
         DEF ClusterAssumption
    <2>2. secret' \in [SecretNames -> Secret]
      BY <1>2, <1>a, <2>1 DEF CreateNodeInitConfig, Call, ClusterTypeOK
    <2>3. LocalOK
      <3>1. FailWith("cloudinit") => LocalOK
        BY <1>b, LocalTyped, StepsTyped
      <3>2. [config EXCEPT !.userData = TRUE] \in NodeConfig
        BY <1>b, ConfigFields
      <3>3. /\ config' = [config EXCEPT !.userData = TRUE]
            /\ pc' = "findHost"
            /\ UNCHANGED <<req, before, err>>
            => LocalOK
        BY <1>b, <3>2, StepsTyped DEF TypeOK
      <3> HIDE DEF LocalOK
      <3> QED
        BY <1>2, <3>1, <3>3 DEF CreateNodeInitConfig, Call
    <2>4. faults' \in Nat
      BY <1>2, LocalTyped DEF CreateNodeInitConfig, Call, TypeOK
    <2> QED
      BY <1>2, <2>2, <2>3, <2>4
         DEF CreateNodeInitConfig, TypeOK, ClusterTypeOK, informerVars
  <1>3. CASE FindHost
    <2>1. LocalOK
      <3>1. [config EXCEPT !.failure = "unavailable"] \in NodeConfig
        BY <1>b, ConfigFields, StepsTyped
      <3> QED
        BY <1>3, <3>1, <1>b, LocalTyped, StepsTyped DEF FindHost, TypeOK
    <2>2. faults' \in Nat
      BY <1>3, LocalTyped DEF FindHost, TypeOK
    <2> QED
      BY <1>3, <2>1, <2>2
         DEF FindHost, TypeOK, ClusterTypeOK, clusterVars, informerVars
  <1>4. CASE DeleteHost
    <2>1. LocalOK
      BY <1>4, <1>b, LocalTyped, StepsTyped DEF DeleteHost, Call
    <2>2. faults' \in Nat
      BY <1>4, LocalTyped DEF DeleteHost, Call, TypeOK
    <2>3. host' \in [Names -> BareMetalHost]
      <3>1. [host[req] EXCEPT !.deleting = TRUE] \in BareMetalHost
        BY <1>a, <1>b, HostFields DEF ClusterTypeOK
      <3> QED
        BY <1>4, <1>a, <1>b, <3>1 DEF DeleteHost, Call, ClusterTypeOK
    <2> QED
      BY <1>4, <2>1, <2>2, <2>3
         DEF DeleteHost, TypeOK, ClusterTypeOK, informerVars
  <1>5. CASE DeleteConfig
    <2>1. LocalOK
      BY <1>5, <1>b, LocalTyped, StepsTyped DEF DeleteConfig, Call
    <2>2. faults' \in Nat
      BY <1>5, LocalTyped DEF DeleteConfig, Call, TypeOK
    <2>3. nc' \in [Names -> NodeConfig]
      BY <1>5, <1>a, <1>b, ObjectsTyped DEF DeleteConfig, Call, ClusterTypeOK
    <2> QED
      BY <1>5, <2>1, <2>2, <2>3
         DEF DeleteConfig, TypeOK, ClusterTypeOK, informerVars
  <1>6. CASE StoreBMHCredentials
    <2>1. LocalOK
      BY <1>6, <1>b, LocalTyped, StepsTyped DEF StoreBMHCredentials, Call
    <2>2. faults' \in Nat
      BY <1>6, LocalTyped DEF StoreBMHCredentials, Call, TypeOK
    <2>3. secret' \in [SecretNames -> Secret]
      BY <1>6, <1>a, ObjectsTyped
         DEF StoreBMHCredentials, Call, ClusterTypeOK
    <2> QED
      BY <1>6, <2>1, <2>2, <2>3
         DEF StoreBMHCredentials, TypeOK, ClusterTypeOK, informerVars
  <1>c. CASE CheckBMHDetails
    <2>1. LocalOK
      BY <1>c, <1>b, LocalTyped DEF CheckBMHDetails
    <2> QED
      BY <1>c, <2>1
         DEF CheckBMHDetails, TypeOK, ClusterTypeOK, clusterVars, informerVars
  <1>7. CASE CreateBareMetalHost
    <2> DEFINE uid == hostMade[req] + 1
    <2>1. /\ CredentialsOf[req] \in SecretNames
          /\ uid \in Nat
          /\ NewHost(uid, NoImage, FALSE) \in BareMetalHost
      <3>1. CredentialsOf[req] \in SecretNames
        BY <1>b, ClusterAssumption DEF ClusterAssumption
      <3>2. uid \in Nat
        BY <1>a, <1>b DEF ClusterTypeOK
      <3> QED
        BY <3>1, <3>2, ObjectsTyped
    <2>2. SetBMHCredentialsOwner(secret[CredentialsOf[req]], uid) \in Secret
      BY <1>a, <2>1, OwnerNotSet DEF ClusterTypeOK
    <2> HIDE DEF uid
    <2>3. LocalOK
      BY <1>7, <1>b, LocalTyped, StepsTyped DEF CreateBareMetalHost, Call
    <2>4. faults' \in Nat
      BY <1>7, LocalTyped DEF CreateBareMetalHost, Call, TypeOK
    <2>5. /\ host' \in [Names -> BareMetalHost]
          /\ hostMade' \in [Names -> Nat]
      BY <1>7, <1>a, <1>b, <2>1
         DEF CreateBareMetalHost, Call, ClusterTypeOK, uid
    <2>6. secret' \in [SecretNames -> Secret]
      BY <1>7, <1>a, <2>1, <2>2
         DEF CreateBareMetalHost, Call, ClusterTypeOK, uid
    <2> QED
      BY <1>7, <2>3, <2>4, <2>5, <2>6
         DEF CreateBareMetalHost, TypeOK, ClusterTypeOK, informerVars
  <1>8. CASE Associate
    <2> DEFINE h == hostCache[req]
               wanted == SetHostSpec(h, config)
    <2>1. h \in BareMetalHost /\ h.uid \in Nat
      BY <1>b, HostFields DEF TypeOK
    <2>2. PatchHost(host[req], h, wanted) \in BareMetalHost
      BY <1>a, <1>b, <2>1, HostSpecTyped, HostPatchTyped DEF ClusterTypeOK
    <2> HIDE DEF h, wanted
    <2>3. host' \in [Names -> BareMetalHost]
      BY <1>8, <1>a, <1>b, <2>2 DEF Associate, Call, ClusterTypeOK, h, wanted
    <2>4. LocalOK
      BY <1>8, <1>b, <2>1, LocalTyped, StepsTyped
         DEF Associate, Call, h, wanted
    <2>5. faults' \in Nat
      BY <1>8, LocalTyped DEF Associate, Call, TypeOK
    <2> QED
      BY <1>8, <2>3, <2>4, <2>5
         DEF Associate, TypeOK, ClusterTypeOK, informerVars
  <1>9. CASE PatchMeta
    <2>1. LocalOK
      BY <1>9, <1>b, LocalTyped DEF PatchMeta, Call
    <2>2. faults' \in Nat
      BY <1>9, LocalTyped DEF PatchMeta, Call, TypeOK
    <2>3. nc' \in [Names -> NodeConfig]
      BY <1>9, <1>a, <1>b, MetaPatchTyped DEF PatchMeta, Call, ClusterTypeOK
    <2> QED
      BY <1>9, <2>1, <2>2, <2>3
         DEF PatchMeta, TypeOK, ClusterTypeOK, informerVars
  <1>10. CASE PatchStatus
    <2>1. LocalOK
      BY <1>10, <1>b, LocalTyped DEF PatchStatus, Call
    <2>2. faults' \in Nat
      BY <1>10, LocalTyped DEF PatchStatus, Call, TypeOK
    <2>3. nc' \in [Names -> NodeConfig]
      BY <1>10, <1>a, <1>b, StatusPatchTyped
         DEF PatchStatus, Call, ClusterTypeOK
    <2> QED
      BY <1>10, <2>1, <2>2, <2>3
         DEF PatchStatus, TypeOK, ClusterTypeOK, informerVars
  <1>11. CASE Return
    <2>1. queue' \subseteq Names
      BY <1>11 DEF Return, TypeOK
    <2>2. LocalOK
      BY <1>11, <1>b, ObjectsTyped, StepsTyped DEF Return
    <2> QED
      BY <1>11, <2>1, <2>2
         DEF Return, TypeOK, ClusterTypeOK, clusterVars, informerVars
  <1>12. CASE Die
    BY <1>12, RestartTyped DEF Die, TypeOK
  <1> QED
    BY <1>1, <1>2, <1>3, <1>4, <1>5, <1>6, <1>c, <1>7, <1>8, <1>9, <1>10,
       <1>11, <1>12
       DEF Worker

\* Every step keeps the types.
LEMMA TypeStep ==
  ASSUME TypeOK, [Next]_vars
  PROVE  TypeOK'
  <1> USE DEF TypeOK, ClusterTypeOK, clusterVars, informerVars, localVars
  <1>1. CASE Worker
    BY <1>1, WorkerTyped
  <1>2. ASSUME NEW n \in Names, SyncConfig(n) PROVE TypeOK'
    BY <1>2 DEF SyncConfig
  <1>3. ASSUME NEW n \in Names, SyncHost(n) PROVE TypeOK'
    BY <1>3 DEF SyncHost
  <1>4. CASE Resync
    BY <1>4 DEF Resync
  <1>5. CASE Crash
    BY <1>5, RestartTyped DEF Crash, Fault
  <1>6. CASE /\ Environment
             /\ UNCHANGED <<informerVars, queue, pc, localVars, faults>>
    BY <1>6, EnvironmentTyped
  <1>7. CASE UNCHANGED vars
    BY <1>7 DEF vars
  <1> QED
    BY <1>1, <1>2, <1>3, <1>4, <1>5, <1>6, <1>7 DEF Next

\* Every initial state is typed.
LEMMA TypeInit ==
  ASSUME Init
  PROVE  TypeOK
  <1>1. {NoSecret, [data |-> "other", owner |-> 0]} \subseteq Secret
    BY DEF NoSecret, Secret
  <1>2. ClusterTypeOK
    BY <1>1, ObjectsTyped DEF Init, ClusterInit, ClusterTypeOK
  <1>3. /\ ncCache \in [Names -> NodeConfig]
        /\ hostCache \in [Names -> BareMetalHost]
    BY <1>2 DEF Init, ClusterTypeOK
  <1>4. queue \subseteq Names /\ req \in Names /\ faults \in Nat
    BY DEF Init
  <1>5. pc \in Steps /\ err \in Endings
    BY StepsTyped DEF Init
  <1>6. before \in NodeConfig /\ config \in NodeConfig
    BY ObjectsTyped DEF Init
  <1> QED
    BY <1>2, <1>3, <1>4, <1>5, <1>6 DEF TypeOK

\* TypeOK holds in every state: no step of the controller, of its informers
\* or of anybody else stores something that is not of its type.
THEOREM TypeCorrect == Spec => []TypeOK
  <1>1. Init => TypeOK
    BY TypeInit
  <1>2. TypeOK /\ [Next]_vars => TypeOK'
    BY TypeStep
  <1> QED
    BY <1>1, <1>2, PTL DEF Spec

-----------------------------------------------------------------------------
(* The cloud-init Secret as a fence.  ReadySecret and ReadyHandsOff are not *)
(* inductive: they need that the worker has the Secret of its NodeConfig    *)
(* from the moment it created it until Ready is stored.                     *)

\* The NodeConfig has its Secret, or is gone.
Held(n) == nc[n].uid = 0 \/ secret[n] = BootstrapSecret(nc[n].uid)

\* Uids do not come out of nothing, and what is absent is not Ready.
UidsOK ==
  \A n \in Names : /\ nc[n].uid <= made[n]
                   /\ ncCache[n].uid <= made[n]
                   /\ nc[n].uid = 0 => ~ nc[n].ready

\* The worker works on a NodeConfig that was not Ready when it was read, and
\* makes it Ready at the end only.
WorkerOK ==
  /\ ~ before.ready
  /\ pc # "idle" => config.uid # 0 /\ config.uid <= made[req]
  /\ config.ready => pc \in PatchPhase

\* Whoever is Ready, or is made Ready, or has a host sought for it, holds
\* its Secret, and the last of them is not Ready yet.
FenceOK ==
  /\ \A n \in Names : Undisturbed(n) /\ nc[n].ready => Held(n)
  /\ Undisturbed(req) /\ pc \in HostPhase => Held(req) /\ ~ nc[req].ready
  /\ Undisturbed(req) /\ config.ready => Held(req)

FenceInv == TypeOK /\ UidsOK /\ WorkerOK /\ FenceOK

\* What a step does to the NodeConfig of a name.
Created(n) ==
  /\ nc[n].uid = 0
  /\ made'[n] = made[n] + 1
  /\ nc'[n].uid = made'[n]
  /\ ~ nc'[n].ready

Deleted(n) == nc'[n] = NoConfig /\ made'[n] = made[n]

Kept(n) ==
  /\ made'[n] = made[n]
  /\ nc'[n].uid = nc[n].uid
  /\ nc[n].ready => nc'[n].ready
  /\ nc'[n].ready => \/ nc[n].ready
                     \/ nc[n].uid # 0 /\ n = req /\ config.ready

\* What a step does to the worker.
Ended == pc' = "idle" /\ before' = NoConfig /\ config' = NoConfig /\ req' = req

Begun ==
  /\ pc' = "createInit"
  /\ req' \in Names
  /\ config' = ncCache[req'] /\ before' = ncCache[req']
  /\ ncCache[req'].uid # 0 /\ ~ ncCache[req'].ready
  /\ UNCHANGED clusterVars

Fenced ==
  /\ pc = "createInit" /\ pc' = "findHost"
  /\ secret[req] = NoSecret /\ secret'[req] = BootstrapSecret(config.uid)
  /\ config'.uid = config.uid /\ config'.ready = config.ready
  /\ config'.userData
  /\ UNCHANGED <<req, before, nc, made, handDeleted>>

Continued ==
  /\ UNCHANGED <<req, before>>
  /\ config'.uid = config.uid
  /\ config'.userData = config.userData
  /\ pc = "idle" <=> pc' = "idle"
  /\ pc' \in HostPhase => pc \in HostPhase
  /\ config'.ready => \/ config.ready /\ (pc' \in PatchPhase \/ pc' = pc)
                      \/ pc = "associate" /\ pc' \in PatchPhase

\* What a step can do to the NodeConfig of a name.
LEMMA ConfigStep ==
  ASSUME TypeOK, ~ before.ready, [Next]_vars, NEW n \in Names
  PROVE  Created(n) \/ Deleted(n) \/ Kept(n)
  <1>a. /\ nc \in [Names -> NodeConfig]
        /\ made \in [Names -> Nat]
        /\ req \in Names
    BY DEF TypeOK, ClusterTypeOK
  <1>b. /\ NoConfig.uid = 0 /\ ~ NoConfig.ready
        /\ \A uid \in Nat, i \in Images :
             NewConfig(uid, i).uid = uid /\ ~ NewConfig(uid, i).ready
    BY DEF NoConfig, NewConfig
  <1>c. CASE UNCHANGED <<nc, made>>
    BY <1>c DEF Kept
  <1>1. ASSUME NEW m \in Names, CreateConfig(m)
        PROVE  Created(n) \/ Kept(n)
    <2>1. CASE n = m
      <3>1. PICK i \in Images :
              nc' = [nc EXCEPT ![m] = NewConfig(made[m] + 1, i)]
        BY <1>1 DEF CreateConfig
      <3>2. made[m] + 1 \in Nat
        BY <1>a
      <3>3. nc'[m] = NewConfig(made[m] + 1, i) /\ made'[m] = made[m] + 1
        BY <1>1, <1>a, <3>1 DEF CreateConfig
      <3> QED
        BY <1>1, <1>b, <2>1, <3>2, <3>3 DEF CreateConfig, Created
    <2>2. CASE n # m
      BY <1>1, <1>a, <2>2 DEF CreateConfig, Kept
    <2> QED
      BY <2>1, <2>2
  <1>2. ASSUME NEW m \in Names, EditConfig(m) \/ StripConfig(m)
        PROVE  Kept(n)
    <2>1. PICK i : nc' = [nc EXCEPT ![m].image = i]
      BY <1>2 DEF EditConfig, StripConfig
    <2>2. nc'[n].uid = nc[n].uid /\ nc'[n].ready = nc[n].ready
      BY <1>a, <2>1 DEF NodeConfig
    <2> QED
      BY <1>2, <2>2 DEF EditConfig, StripConfig, Kept
  <1>3. ASSUME NEW m \in Names, DeleteConfigByHand(m) \/ CollectConfig(m)
        PROVE  Deleted(n) \/ Kept(n)
    BY <1>3, <1>a DEF DeleteConfigByHand, CollectConfig, Deleted, Kept
  <1>4. ASSUME DeleteConfig
        PROVE  Deleted(n) \/ Kept(n)
    BY <1>4, <1>a DEF DeleteConfig, Call, Deleted, Kept
  <1>5. ASSUME PatchMeta
        PROVE  Kept(n)
    <2>1. CASE UNCHANGED nc
      BY <1>5, <2>1 DEF PatchMeta, Kept
    <2>2. CASE nc' = [nc EXCEPT ![req] = MetaPatched(@)]
      <3>1. nc'[n].uid = nc[n].uid /\ nc'[n].ready = nc[n].ready
        BY <1>a, <2>2 DEF MetaPatched, NodeConfig
      <3> QED
        BY <1>5, <3>1 DEF PatchMeta, Kept
    <2> QED
      BY <1>5, <2>1, <2>2 DEF PatchMeta, Call
  <1>6. ASSUME PatchStatus
        PROVE  Kept(n)
    <2>1. CASE UNCHANGED nc
      BY <1>6, <2>1 DEF PatchStatus, Kept
    <2>2. CASE nc' = [nc EXCEPT ![req] = StatusPatched(@)] /\ nc[req].uid # 0
      <3>1. CASE n = req
        <4>1. nc[n] \in NodeConfig /\ nc'[n] = StatusPatched(nc[n])
          BY <1>a, <2>2, <3>1
        <4>2. nc'[n].uid = nc[n].uid
          BY <4>1 DEF StatusPatched, NodeConfig
        <4>3. nc'[n].ready = Merge(nc[n].ready, before.ready, config.ready)
          BY <4>1 DEF StatusPatched, NodeConfig
        <4>4. /\ nc[n].ready \in BOOLEAN /\ before.ready \in BOOLEAN
              /\ config.ready \in BOOLEAN
          BY <4>1, ConfigFields DEF TypeOK
        <4>5. /\ nc[n].ready => nc'[n].ready
              /\ nc'[n].ready => nc[n].ready \/ config.ready
          BY <4>3, <4>4 DEF Merge
        <4> QED
          BY <1>6, <2>2, <3>1, <4>2, <4>5 DEF PatchStatus, Kept
      <3>2. CASE n # req
        BY <1>6, <1>a, <2>2, <3>2 DEF PatchStatus, Kept
      <3> QED
        BY <3>1, <3>2
    <2> QED
      BY <1>6, <2>1, <2>2 DEF PatchStatus, Call
  <1>7. CASE Worker
    <2>1. ASSUME NEW m \in Names, Begin(m) PROVE UNCHANGED <<nc, made>>
      BY <2>1 DEF Begin, clusterVars
    <2>2. CreateNodeInitConfig => UNCHANGED <<nc, made>>
      BY DEF CreateNodeInitConfig
    <2>3. FindHost => UNCHANGED <<nc, made>>
      BY DEF FindHost, clusterVars
    <2>4. DeleteHost => UNCHANGED <<nc, made>>
      BY DEF DeleteHost
    <2>5. StoreBMHCredentials => UNCHANGED <<nc, made>>
      BY DEF StoreBMHCredentials
    <2>6. CreateBareMetalHost => UNCHANGED <<nc, made>>
      BY DEF CreateBareMetalHost
    <2>7. Associate => UNCHANGED <<nc, made>>
      BY DEF Associate
    <2>8. Return \/ Die \/ CheckBMHDetails => UNCHANGED <<nc, made>>
      BY DEF Return, Die, Restart, CheckBMHDetails, clusterVars
    <2> QED
      BY <1>7, <1>c, <1>4, <1>5, <1>6, <2>1, <2>2, <2>3, <2>4, <2>5, <2>6,
         <2>7, <2>8 DEF Worker
  <1>8. CASE Environment
    <2>1. ASSUME NEW m \in Names,
                 \/ RegisterHost(m) \/ DeleteHostByHand(m)
                 \/ Progress(m) \/ ChangeHealth(m) \/ Finalize(m)
                 \/ AdoptCredentials(m)
          PROVE  UNCHANGED <<nc, made>>
      BY <2>1 DEF RegisterHost, DeleteHostByHand, Progress, ChangeHealth,
                  Finalize, AdoptCredentials
    <2>2. ASSUME NEW s \in SecretNames,
                 DeleteSecretByHand(s) \/ CollectSecret(s)
          PROVE  UNCHANGED <<nc, made>>
      BY <2>2 DEF DeleteSecretByHand, CollectSecret
    <2> QED
      BY <1>8, <1>c, <1>1, <1>2, <1>3, <2>1, <2>2
         DEF Environment, User, GarbageCollector, BareMetalOperator
  <1>9. CASE \/ \E m \in Names : SyncConfig(m) \/ SyncHost(m)
             \/ Resync \/ Crash \/ UNCHANGED vars
    <2>1. UNCHANGED <<nc, made>>
      BY <1>9 DEF SyncConfig, SyncHost, Resync, Crash, Restart, vars,
                  clusterVars
    <2> QED
      BY <2>1, <1>c
  <1> QED
    BY <1>7, <1>8, <1>9 DEF Next

\* No step takes a Secret from the NodeConfig that owns it, users excepted.
LEMMA SecretStep ==
  ASSUME TypeOK, [Next]_vars, NEW s \in SecretNames
  PROVE  \/ secret'[s] = secret[s]
         \/ secret[s] = NoSecret
         \/ secret[s].owner = 0
         \/ Dangling(s)
         \/ s \in handDeleted'
  <1>a. secret \in [SecretNames -> Secret] /\ req \in Names
    BY DEF TypeOK, ClusterTypeOK
  <1>b. /\ req \in SecretNames
        /\ \A n \in Names : CredentialsOf[n] \in SecretNames
    BY <1>a, ClusterAssumption DEF ClusterAssumption
  <1> DEFINE Safe == \/ secret'[s] = secret[s]
                     \/ secret[s] = NoSecret
                     \/ secret[s].owner = 0
                     \/ Dangling(s)
                     \/ s \in handDeleted'
  <1>c. UNCHANGED secret => Safe
    OBVIOUS
  <1>1. CASE Worker
    <2>1. ASSUME NEW m \in Names, Begin(m) PROVE UNCHANGED secret
      BY <2>1 DEF Begin, clusterVars
    <2>2. CreateNodeInitConfig => Safe
      BY <1>a, <1>b DEF CreateNodeInitConfig, Call
    <2>3. FindHost => UNCHANGED secret
      BY DEF FindHost, clusterVars
    <2>4. DeleteHost \/ DeleteConfig => UNCHANGED secret
      BY DEF DeleteHost, DeleteConfig
    <2>5. StoreBMHCredentials => Safe
      BY <1>a, <1>b DEF StoreBMHCredentials, Call
    <2>6. CreateBareMetalHost => Safe
      <3>1. SetBMHCredentialsOwner(secret[CredentialsOf[req]],
                                   hostMade[req] + 1)
              = secret[CredentialsOf[req]]
        <4>1. hostMade[req] + 1 \in Nat
          BY DEF TypeOK, ClusterTypeOK
        <4>2. secret[CredentialsOf[req]] \in Secret
          BY <1>a, <1>b
        <4> QED
          BY <4>1, <4>2, OwnerNotSet
      <3> QED
        BY <1>a, <1>b, <3>1 DEF CreateBareMetalHost, Call
    <2>7. Associate \/ PatchMeta \/ PatchStatus => UNCHANGED secret
      BY DEF Associate, PatchMeta, PatchStatus
    <2>8. Return \/ Die \/ CheckBMHDetails => UNCHANGED secret
      BY DEF Return, Die, Restart, CheckBMHDetails, clusterVars
    <2> HIDE DEF Safe
    <2>9. Safe
      BY <1>1, <1>c, <2>1, <2>2, <2>3, <2>4, <2>5, <2>6, <2>7, <2>8
         DEF Worker
    <2> QED
      BY <2>9 DEF Safe
  <1>2. CASE Environment
    <2>1. ASSUME NEW m \in Names,
                 \/ CreateConfig(m) \/ EditConfig(m) \/ StripConfig(m)
                 \/ DeleteConfigByHand(m)
                 \/ RegisterHost(m) \/ DeleteHostByHand(m)
                 \/ CollectConfig(m)
                 \/ Progress(m) \/ ChangeHealth(m) \/ Finalize(m)
          PROVE  UNCHANGED secret
      BY <2>1 DEF CreateConfig, EditConfig, StripConfig, DeleteConfigByHand,
                  RegisterHost, DeleteHostByHand, CollectConfig, Progress,
                  ChangeHealth, Finalize
    <2>2. ASSUME NEW m \in Names, AdoptCredentials(m) PROVE Safe
      BY <2>2, <1>a, <1>b DEF AdoptCredentials
    <2>3. ASSUME NEW t \in SecretNames,
                 DeleteSecretByHand(t) \/ CollectSecret(t)
          PROVE  Safe
      BY <2>3, <1>a DEF DeleteSecretByHand, CollectSecret
    <2> HIDE DEF Safe
    <2>4. Safe
      BY <1>2, <1>c, <2>1, <2>2, <2>3
         DEF Environment, User, GarbageCollector, BareMetalOperator
    <2> QED
      BY <2>4 DEF Safe
  <1>3. CASE \/ \E m \in Names : SyncConfig(m) \/ SyncHost(m)
             \/ Resync \/ Crash \/ UNCHANGED vars
    BY <1>3 DEF SyncConfig, SyncHost, Resync, Crash, Restart, vars,
                clusterVars
  <1> QED
    BY <1>1, <1>2, <1>3 DEF Next

\* Nothing that was counted or recorded is taken back.
LEMMA HistoryStep ==
  ASSUME TypeOK, [Next]_vars
  PROVE  /\ handDeleted \subseteq handDeleted'
         /\ \A n \in Names : made[n] <= made'[n]
  <1>a. made \in [Names -> Nat]
    BY DEF TypeOK, ClusterTypeOK
  <1>b. UNCHANGED <<made, handDeleted>>
          => /\ handDeleted \subseteq handDeleted'
             /\ \A n \in Names : made[n] <= made'[n]
    BY <1>a
  <1>1. CASE Worker
    BY <1>1, <1>b
       DEF Worker, Begin, CreateNodeInitConfig, FindHost, DeleteHost,
           DeleteConfig, CheckBMHDetails, StoreBMHCredentials,
           CreateBareMetalHost, Associate, PatchMeta, PatchStatus, Return,
           Die, Restart, clusterVars
  <1>2. CASE Environment
    <2>1. ASSUME NEW m \in Names, CreateConfig(m)
          PROVE  /\ handDeleted \subseteq handDeleted'
                 /\ \A n \in Names : made[n] <= made'[n]
      BY <2>1, <1>a DEF CreateConfig
    <2>2. ASSUME NEW t \in SecretNames, DeleteSecretByHand(t)
          PROVE  /\ handDeleted \subseteq handDeleted'
                 /\ \A n \in Names : made[n] <= made'[n]
      BY <2>2, <1>a DEF DeleteSecretByHand
    <2>3. ASSUME NEW m \in Names,
                 \/ EditConfig(m) \/ StripConfig(m) \/ DeleteConfigByHand(m)
                 \/ RegisterHost(m) \/ DeleteHostByHand(m)
                 \/ CollectConfig(m)
                 \/ Progress(m) \/ ChangeHealth(m) \/ Finalize(m)
                 \/ AdoptCredentials(m)
          PROVE  UNCHANGED <<made, handDeleted>>
      BY <2>3 DEF EditConfig, StripConfig, DeleteConfigByHand, RegisterHost,
                  DeleteHostByHand, CollectConfig, Progress, ChangeHealth,
                  Finalize, AdoptCredentials
    <2>4. ASSUME NEW t \in SecretNames, CollectSecret(t)
          PROVE  UNCHANGED <<made, handDeleted>>
      BY <2>4 DEF CollectSecret
    <2> QED
      BY <1>2, <1>b, <2>1, <2>2, <2>3, <2>4
         DEF Environment, User, GarbageCollector, BareMetalOperator
  <1>3. CASE \/ \E m \in Names : SyncConfig(m) \/ SyncHost(m)
             \/ Resync \/ Crash \/ UNCHANGED vars
    BY <1>3, <1>b DEF SyncConfig, SyncHost, Resync, Crash, Restart, vars,
                      clusterVars
  <1> QED
    BY <1>1, <1>2, <1>3 DEF Next

\* The informer's cache changes only to what is stored.
LEMMA CacheStep ==
  ASSUME TypeOK, [Next]_vars, NEW n \in Names
  PROVE  ncCache'[n] = ncCache[n] \/ ncCache'[n] = nc[n]
  <1>a. ncCache \in [Names -> NodeConfig]
    BY DEF TypeOK
  <1>1. ASSUME NEW m \in Names, SyncConfig(m)
        PROVE  ncCache'[n] = ncCache[n] \/ ncCache'[n] = nc[n]
    BY <1>1, <1>a DEF SyncConfig
  <1>2. Crash \/ Die => ncCache' = nc
    BY DEF Crash, Die, Restart
  <1>3. Worker => Die \/ UNCHANGED ncCache
    BY DEF Worker, Begin, CreateNodeInitConfig, FindHost, DeleteHost,
           DeleteConfig, CheckBMHDetails, StoreBMHCredentials,
           CreateBareMetalHost, Associate, PatchMeta, PatchStatus, Return,
           informerVars
  <1>4. ASSUME \/ \E m \in Names : SyncHost(m)
               \/ Resync \/ UNCHANGED vars
               \/ UNCHANGED <<informerVars, queue, pc, localVars, faults>>
        PROVE  UNCHANGED ncCache
    BY <1>4 DEF SyncHost, Resync, vars, informerVars
  <1> QED
    BY <1>1, <1>2, <1>3, <1>4 DEF Next

\* What a step can do to the worker.
LEMMA WorkerStep ==
  ASSUME TypeOK, WorkerOK, [Next]_vars
  PROVE  Ended \/ Begun \/ Fenced \/ Continued
  <1>a. /\ req \in Names /\ config \in NodeConfig /\ pc \in Steps
        /\ ncCache \in [Names -> NodeConfig]
    BY DEF TypeOK
  <1>b. ~ NoConfig.ready
    BY DEF NoConfig
  <1>c. /\ [config EXCEPT !.userData = TRUE].uid = config.uid
        /\ [config EXCEPT !.userData = TRUE].ready = config.ready
        /\ [config EXCEPT !.userData = TRUE].userData
        /\ \A f : /\ [config EXCEPT !.failure = f].uid = config.uid
                  /\ [config EXCEPT !.failure = f].ready = config.ready
                  /\ [config EXCEPT !.failure = f].userData = config.userData
        /\ \A u : LET c == [config EXCEPT !.failure = "", !.owner = u,
                                          !.ready = TRUE]
                  IN  c.uid = config.uid /\ c.userData = config.userData
    BY <1>a DEF NodeConfig
  <1>d. UNCHANGED <<pc, localVars>> => Continued
    BY DEF Continued, localVars
  <1>e. \A f : pc # "idle" /\ FailWith(f) => Continued
    BY <1>c DEF FailWith, Continued, HostPhase, PatchPhase
  <1>f. pc # "idle" /\ Fail => Continued
    BY DEF Fail, Continued, HostPhase, PatchPhase
  <1>h. pc # "idle" /\ Panic => Continued
    BY DEF Panic, Continued, HostPhase, PatchPhase
  <1>i. Restart => Ended
    BY <1>b DEF Restart, Ended
  <1>g. \A step \in HostPhase \cup PatchPhase :
          pc \in HostPhase /\ Goto(step) => Continued
    BY DEF Goto, localVars, Continued, HostPhase, PatchPhase, WorkerOK
  <1>1. CASE Worker
    <2>1. ASSUME NEW m \in Names, Begin(m) PROVE Begun \/ Continued
      <3>1. CASE UNCHANGED <<pc, localVars>>
        BY <3>1, <1>d
      <3>2. CASE ~ UNCHANGED <<pc, localVars>>
        BY <2>1, <3>2, <1>a DEF Begin, Begun
      <3> QED
        BY <3>1, <3>2
    <2>2. ASSUME CreateNodeInitConfig PROVE Fenced \/ Continued
      <3>1. CASE FailWith("cloudinit")
        BY <2>2, <3>1, <1>e DEF CreateNodeInitConfig
      <3>2. CASE ~ FailWith("cloudinit")
        <4>1. /\ secret[req] = NoSecret
              /\ secret' = [secret EXCEPT ![req] = BootstrapSecret(config.uid)]
              /\ config' = [config EXCEPT !.userData = TRUE]
              /\ pc' = "findHost" /\ UNCHANGED <<req, before>>
          BY <2>2, <3>2 DEF CreateNodeInitConfig, Call
        <4>2. secret'[req] = BootstrapSecret(config.uid)
          BY <4>1, <1>a, ClusterAssumption
             DEF TypeOK, ClusterTypeOK, ClusterAssumption
        <4> QED
          BY <2>2, <4>1, <4>2, <1>c DEF CreateNodeInitConfig, Fenced
      <3> QED
        BY <3>1, <3>2
    <2>3. ASSUME FindHost PROVE Continued
      <3>1. CASE config' = [config EXCEPT !.failure = "unavailable"]
                 /\ pc' = "deleteHost" /\ UNCHANGED <<req, before>>
        BY <2>3, <3>1, <1>c
           DEF FindHost, Continued, HostPhase, PatchPhase, WorkerOK
      <3>2. CASE Goto("storeCredentials") \/ Goto("associate")
        BY <2>3, <3>2, <1>g DEF FindHost, HostPhase
      <3> QED
        BY <2>3, <3>1, <3>2 DEF FindHost
    <2>4. DeleteHost => Continued
      BY <1>f, <1>g DEF DeleteHost, Call, HostPhase
    <2>5. DeleteConfig => Continued
      BY <1>f, <1>g DEF DeleteConfig, Call, HostPhase, PatchPhase
    <2>6. StoreBMHCredentials => Continued
      BY <1>e, <1>g DEF StoreBMHCredentials, Call, HostPhase
    <2>c. CheckBMHDetails => Continued
      BY <1>h DEF CheckBMHDetails
    <2>7. CreateBareMetalHost => Continued
      BY <1>e, <1>g DEF CreateBareMetalHost, Call, HostPhase
    <2>8. ASSUME Associate PROVE Continued
      <3>1. Associated(hostCache[req].uid) \/ FailWith("associate")
        BY <2>8 DEF Associate, Call
      <3>2. pc = "associate"
        BY <2>8 DEF Associate
      <3>3. Associated(hostCache[req].uid) => Continued
        BY <3>2, <1>c DEF Associated, Continued, HostPhase, PatchPhase
      <3> QED
        BY <3>1, <3>2, <3>3, <1>e
    <2>9. \A ok : pc \in {"patchMeta", "patchStatus", "deferMeta",
                          "deferStatus"} /\ PatchDone(ok) => Continued
      BY DEF PatchDone, AfterPatch, Continued, HostPhase, PatchPhase
    <2>10. PatchMeta \/ PatchStatus => Continued
      BY <2>9 DEF PatchMeta, PatchStatus, Call
    <2>11. Return \/ Die => Ended
      BY <1>b, <1>i DEF Return, Die, Ended
    <2> QED
      BY <1>1, <2>1, <2>2, <2>3, <2>4, <2>5, <2>6, <2>c, <2>7, <2>8, <2>10,
         <2>11
         DEF Worker
  <1>2. Crash => Ended
    BY <1>i DEF Crash
  <1>3. ASSUME \/ \E m \in Names : SyncConfig(m) \/ SyncHost(m)
               \/ Resync \/ UNCHANGED vars
               \/ UNCHANGED <<informerVars, queue, pc, localVars, faults>>
        PROVE  UNCHANGED <<pc, localVars>>
    BY <1>3 DEF SyncConfig, SyncHost, Resync, vars, localVars
  <1> QED
    BY <1>1, <1>2, <1>3, <1>d DEF Next

\* Whoever holds its Secret still does after a step that neither creates the
\* next NodeConfig nor is a user's deletion of the Secret.
LEMMA HeldStep ==
  ASSUME FenceInv, [Next]_vars, NEW n \in Names, Held(n), Undisturbed(n)',
         Deleted(n) \/ Kept(n)
  PROVE  Held(n)'
  <1>1. CASE nc'[n].uid = 0
    BY <1>1 DEF Held
  <1>2. CASE nc'[n].uid # 0
    <2>1. nc'[n].uid = nc[n].uid /\ secret[n] = BootstrapSecret(nc[n].uid)
      BY <1>2, AbsentFields DEF Deleted, Kept, Held
    <2>2. n \in SecretNames /\ n \notin handDeleted'
      BY ClusterAssumption DEF ClusterAssumption, Undisturbed
    <2>3. /\ secret[n] # NoSecret
          /\ secret[n].data = "cloudinit"
          /\ secret[n].owner = nc[n].uid
      BY <2>1, AbsentFields
    <2>4. ~ Dangling(n)
      BY <2>3 DEF Dangling
    <2>5. secret'[n] = secret[n]
      BY <1>2, <2>1, <2>2, <2>3, <2>4, SecretStep DEF FenceInv
    <2> QED
      BY <2>1, <2>5 DEF Held
  <1> QED
    BY <1>1, <1>2

LEMMA FenceStep ==
  ASSUME FenceInv, [Next]_vars
  PROVE  UidsOK' /\ WorkerOK' /\ FenceOK'
  <1> USE DEF FenceInv
  <1>a. ~ before.ready
    BY DEF WorkerOK
  <1>b. \A n \in Names : Created(n) \/ Deleted(n) \/ Kept(n)
    BY <1>a, ConfigStep
  <1>c. Ended \/ Begun \/ Fenced \/ Continued
    BY WorkerStep
  <1>d. \A n \in Names : /\ made[n] \in Nat /\ made'[n] \in Nat
                         /\ made[n] <= made'[n]
                         /\ nc[n].uid \in Nat /\ ncCache[n].uid \in Nat
    <2>1. TypeOK'
      BY EnvironmentTyped, WorkerTyped, TypeStep
    <2> QED
      BY <2>1, HistoryStep, ConfigFields DEF TypeOK, ClusterTypeOK
  <1>e. handDeleted \subseteq handDeleted'
    BY HistoryStep
  <1>f. req \in Names /\ req' \in Names
    BY <1>c DEF TypeOK, Ended, Begun, Fenced, Continued
  <1>g. \A n \in Names : Undisturbed(n)' => Undisturbed(n)
    BY <1>d, <1>e DEF Undisturbed
  <1>1. UidsOK'
    <2> SUFFICES ASSUME NEW n \in Names
                 PROVE  /\ nc'[n].uid <= made'[n]
                        /\ ncCache'[n].uid <= made'[n]
                        /\ nc'[n].uid = 0 => ~ nc'[n].ready
      BY DEF UidsOK
    <2>1. /\ nc'[n].uid <= made'[n]
          /\ nc'[n].uid = 0 => ~ nc'[n].ready
      BY <1>b, <1>d, AbsentFields DEF UidsOK, Created, Deleted, Kept
    <2>2. ncCache'[n].uid <= made'[n]
      <3>1. ncCache'[n] = ncCache[n] \/ ncCache'[n] = nc[n]
        BY CacheStep
      <3> QED
        BY <3>1, <1>d DEF UidsOK
    <2> QED
      BY <2>1, <2>2
  <1>2. WorkerOK'
    <2>1. CASE Ended
      BY <2>1, AbsentFields DEF Ended, WorkerOK
    <2>2. CASE Begun
      BY <2>2, <1>f DEF Begun, WorkerOK, UidsOK, clusterVars
    <2>3. CASE Fenced
      BY <2>3 DEF Fenced, WorkerOK, PatchPhase
    <2>4. CASE Continued
      <3>1. ~ before'.ready
        BY <2>4 DEF Continued, WorkerOK
      <3>2. pc' # "idle" => config'.uid # 0 /\ config'.uid <= made'[req']
        <4>1. made[req] <= made'[req] /\ config.uid \in Nat
          BY <1>d, <1>f, ConfigFields DEF TypeOK
        <4> QED
          BY <2>4, <4>1, <1>d, <1>f DEF Continued, WorkerOK
      <3>3. config'.ready => pc' \in PatchPhase
        BY <2>4 DEF Continued, WorkerOK
      <3> QED
        BY <3>1, <3>2, <3>3 DEF WorkerOK
    <2> QED
      BY <1>c, <2>1, <2>2, <2>3, <2>4
  <1>3. ASSUME NEW n \in Names, Undisturbed(n)', nc'[n].ready
        PROVE  Held(n)'
    <2>1. Undisturbed(n) /\ ~ Created(n)
      BY <1>3, <1>g DEF Created
    <2>2. Held(n)
      BY <1>3, <2>1, <1>b, AbsentFields DEF Deleted, Kept, FenceOK
    <2> QED
      BY <1>3, <1>b, <2>1, <2>2, HeldStep
  \* The worker's NodeConfig is not created while the worker is at it.
  <1>4. pc # "idle" /\ req' = req /\ Undisturbed(req)'
          => Deleted(req) \/ Kept(req)
    <2>1. config.uid \in Nat
      BY ConfigFields DEF TypeOK
    <2> QED
      BY <1>b, <1>d, <1>f, <2>1 DEF Created, WorkerOK, Undisturbed
  <1>5. ASSUME Undisturbed(req)', req' = req, pc # "idle", Held(req)
        PROVE  Held(req)'
    BY <1>4, <1>5, <1>f, HeldStep
  <1>6. ASSUME Undisturbed(req)', pc' \in HostPhase
        PROVE  Held(req)' /\ ~ nc'[req'].ready
    <2>1. CASE Fenced
      <3>1. req' = req /\ nc' = nc /\ pc = "createInit"
        BY <2>1 DEF Fenced
      <3>2. Undisturbed(req)
        BY <1>6, <1>f, <1>g, <3>1
      <3>3. ~ nc[req].ready
        <4>1. secret[req] # BootstrapSecret(nc[req].uid)
          BY <2>1, AbsentFields DEF Fenced
        <4> QED
          BY <3>2, <4>1, <1>f DEF FenceOK, Held, UidsOK
      <3>4. nc[req].uid = 0 \/ nc[req].uid = config.uid
        <4>1. config.uid \in Nat /\ config.uid # 0 /\ config.uid <= made[req]
          BY <3>1, ConfigFields DEF TypeOK, WorkerOK
        <4>2. nc[req].uid \in Nat /\ nc[req].uid <= made[req]
          BY <1>d, <1>f DEF UidsOK
        <4>3. made[req] <= 1 /\ made[req] \in Nat
          BY <3>2, <1>d, <1>f DEF Undisturbed
        <4> QED
          BY <4>1, <4>2, <4>3
      <3> QED
        BY <2>1, <3>1, <3>3, <3>4 DEF Fenced, Held
    <2>2. CASE Continued
      <3>1. req' = req /\ pc \in HostPhase
        BY <1>6, <2>2 DEF Continued
      <3>2. Undisturbed(req)
        BY <1>6, <1>f, <1>g, <3>1
      <3>3. Held(req) /\ ~ nc[req].ready /\ ~ config.ready /\ pc # "idle"
        BY <3>1, <3>2 DEF FenceOK, WorkerOK, HostPhase, PatchPhase
      <3>4. ~ nc'[req].ready
        BY <1>4, <1>6, <3>1, <3>3, AbsentFields DEF Deleted, Kept
      <3> QED
        BY <1>5, <1>6, <3>1, <3>3, <3>4
    <2>3. ~ Ended /\ ~ Begun
      BY <1>6 DEF Ended, Begun, HostPhase
    <2> QED
      BY <1>c, <2>1, <2>2, <2>3
  <1>7. ASSUME Undisturbed(req)', config'.ready
        PROVE  Held(req)'
    <2>1. Continued
      BY <1>7, <1>c, AbsentFields DEF Ended, Begun, Fenced, WorkerOK,
                                      PatchPhase
    <2>2. req' = req /\ Undisturbed(req)
      BY <1>7, <1>f, <1>g, <2>1 DEF Continued
    <2>3. Held(req) /\ pc # "idle"
      BY <1>7, <2>1, <2>2 DEF Continued, FenceOK, WorkerOK, HostPhase,
                              PatchPhase
    <2> QED
      BY <1>5, <1>7, <2>2, <2>3
  <1> QED
    BY <1>1, <1>2, <1>3, <1>6, <1>7 DEF FenceOK

\* FenceInv is an invariant.
LEMMA FenceInvariant == Spec => []FenceInv
  <1>1. Init => FenceInv
    <2> SUFFICES ASSUME Init PROVE FenceInv
      OBVIOUS
    <2>1. TypeOK
      BY TypeInit
    <2>2. /\ pc = "idle" /\ before = NoConfig /\ config = NoConfig
          /\ nc = [n \in Names |-> NoConfig] /\ ncCache = nc
          /\ made = [n \in Names |-> 0]
      BY DEF Init, ClusterInit
    <2>3. UidsOK
      <3>1. \A n \in Names : /\ nc[n] = NoConfig /\ ncCache[n] = NoConfig
                             /\ made[n] = 0
        BY <2>2
      <3>2. NoConfig.uid <= 0
        BY AbsentFields
      <3> QED
        BY <3>1, <3>2, AbsentFields DEF UidsOK
    <2>4. WorkerOK
      BY <2>2, AbsentFields DEF WorkerOK
    <2>5. FenceOK
      BY <2>2, AbsentFields DEF FenceOK, HostPhase
    <2> QED
      BY <2>1, <2>3, <2>4, <2>5 DEF FenceInv
  <1>2. FenceInv /\ [Next]_vars => FenceInv'
    BY FenceStep, TypeStep DEF FenceInv
  <1> QED
    BY <1>1, <1>2, PTL DEF Spec

\* ReadySecret holds in every state: a NodeConfig which is Ready has the
\* Secret that was generated for it, for every set of names, also where the
\* name of one NodeConfig's Secret is the name of another one's credentials.
THEOREM ReadySecretHolds == Spec => []ReadySecret
  <1>1. FenceInv => ReadySecret
    BY DEF FenceInv, UidsOK, FenceOK, Held, ReadySecret
  <1> QED
    BY <1>1, FenceInvariant, PTL

\* ReadyHandsOff holds in every state: the worker is never about to find,
\* delete, create or change the host of a NodeConfig that is Ready.
THEOREM ReadyHandsOffHolds == Spec => []ReadyHandsOff
  <1>1. FenceInv => ReadyHandsOff
    BY DEF FenceInv, FenceOK, ReadyHandsOff
  <1> QED
    BY <1>1, FenceInvariant, PTL

\* ReadyStable holds of every step: no patch from an older copy and no other
\* step takes Ready away from a NodeConfig that stays.
THEOREM ReadyStableHolds == Spec => ReadyStable
  <1>1. FenceInv /\ [Next]_vars
          => [\A n \in Names : nc[n].ready /\ nc'[n].uid = nc[n].uid
                                 => nc'[n].ready]_vars
    <2> SUFFICES ASSUME FenceInv, [Next]_vars, NEW n \in Names,
                        nc[n].ready, nc'[n].uid = nc[n].uid
                 PROVE  nc'[n].ready
      OBVIOUS
    <2>1. nc[n].uid \in Nat /\ nc[n].uid # 0
      BY ConfigFields DEF FenceInv, UidsOK, TypeOK, ClusterTypeOK
    <2>2. Created(n) \/ Deleted(n) \/ Kept(n)
      BY ConfigStep DEF FenceInv, WorkerOK
    <2> QED
      BY <2>1, <2>2, AbsentFields DEF Created, Deleted, Kept
  <1> QED
    BY <1>1, FenceInvariant, PTL DEF Spec, ReadyStable

=============================================================================

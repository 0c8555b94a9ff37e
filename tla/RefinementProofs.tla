-------------------------- MODULE RefinementProofs --------------------------
(***************************************************************************)
(* Proof that the NodeConfig controller implements Bootstrap.              *)
(***************************************************************************)
EXTENDS BootstrapRefinement, ReconcilerProofs

\* A cloud-init Secret belongs to a NodeConfig that was created.
SecretsOK ==
  \A n \in Names : secret[n].data = "cloudinit"
                     => secret[n].owner # 0 /\ secret[n].owner <= made[n]

\* Whose status refers to the Secret has it, as it is stored, cached and
\* worked on, and what is absent refers to none.
DataHeld ==
  /\ \A n \in Names : /\ nc[n].uid = 0 => ~ nc[n].userData
                      /\ ncCache[n].uid = 0 => ~ ncCache[n].userData
                      /\ Undisturbed(n) /\ (nc[n].userData \/ ncCache[n].userData)
                           => Held(n)
  /\ /\ Undisturbed(req) /\ pc # "idle"
     /\ config.userData \/ before.userData
     => Held(req)

\* Whoever looks for a host, or makes a NodeConfig Ready, is at the attempt.
AttemptOK ==
  /\ Undisturbed(req) /\ nc[req].uid # 0
  /\ pc \in HostPhase \/ config.ready
  => Attempt(req)

AttemptInv == FenceInv /\ SecretsOK /\ DataHeld /\ AttemptOK

-----------------------------------------------------------------------------
(* AttemptInv is an invariant *)

\* A status that refers to the Secret was patched by the worker.
LEMMA DataStep ==
  ASSUME FenceInv, [Next]_vars, NEW n \in Names
  PROVE  \/ ~ nc'[n].userData
         \/ /\ nc'[n].uid = nc[n].uid
            /\ \/ nc[n].userData
               \/ nc[n].uid # 0 /\ n = req /\ pc # "idle" /\ config.userData
  <1> DEFINE Goal == \/ ~ nc'[n].userData
                     \/ /\ nc'[n].uid = nc[n].uid
                        /\ \/ nc[n].userData
                           \/ /\ nc[n].uid # 0 /\ n = req /\ pc # "idle"
                              /\ config.userData
  <1>a. nc \in [Names -> NodeConfig] /\ nc[n] \in NodeConfig
    BY DEF FenceInv, TypeOK, ClusterTypeOK
  <1>b. ~ NoConfig.userData
    BY DEF NoConfig
  <1>c. nc'[n] = nc[n] => Goal
    OBVIOUS
  <1>d. nc'[n] = NoConfig => Goal
    BY <1>b
  <1>e. UNCHANGED nc => Goal
    BY <1>c
  <1>1. ASSUME NEW m \in Names, CreateConfig(m) PROVE Goal
    <2>1. PICK i \in Images : nc' = [nc EXCEPT ![m] = NewConfig(made[m] + 1, i)]
      BY <1>1 DEF CreateConfig
    <2>2. ~ NewConfig(made[m] + 1, i).userData
      BY DEF NewConfig, NoConfig
    <2>3. nc'[n] = NewConfig(made[m] + 1, i) \/ nc'[n] = nc[n]
      BY <1>a, <2>1
    <2> QED
      BY <2>2, <2>3, <1>c
  <1>2. ASSUME NEW m \in Names, EditConfig(m) \/ StripConfig(m) PROVE Goal
    <2>1. PICK i : nc' = [nc EXCEPT ![m].image = i]
      BY <1>2 DEF EditConfig, StripConfig
    <2>2. nc'[n].uid = nc[n].uid /\ nc'[n].userData = nc[n].userData
      BY <1>a, <2>1 DEF NodeConfig
    <2> QED
      BY <2>2
  <1>3. ASSUME NEW m \in Names, DeleteConfigByHand(m) \/ CollectConfig(m)
        PROVE  Goal
    <2>1. nc'[n] = NoConfig \/ nc'[n] = nc[n]
      BY <1>3, <1>a DEF DeleteConfigByHand, CollectConfig
    <2> QED
      BY <2>1, <1>c, <1>d
  <1>4. ASSUME DeleteConfig PROVE Goal
    <2>1. nc'[n] = NoConfig \/ nc'[n] = nc[n]
      BY <1>4, <1>a DEF DeleteConfig, Call
    <2> QED
      BY <2>1, <1>c, <1>d
  <1>5. ASSUME PatchMeta PROVE Goal
    <2>1. UNCHANGED nc \/ nc' = [nc EXCEPT ![req] = MetaPatched(@)]
      BY <1>5 DEF PatchMeta, Call
    <2>2. nc'[n] = nc[n] \/ nc'[n] = MetaPatched(nc[n])
      BY <1>a, <2>1
    <2>3. nc'[n].uid = nc[n].uid /\ nc'[n].userData = nc[n].userData
      BY <1>a, <2>2 DEF MetaPatched, NodeConfig
    <2> QED
      BY <2>3
  <1>6. ASSUME PatchStatus PROVE Goal
    <2>1. \/ UNCHANGED nc
          \/ nc' = [nc EXCEPT ![req] = StatusPatched(@)] /\ nc[req].uid # 0
      BY <1>6 DEF PatchStatus, Call
    <2>2. \/ nc'[n] = nc[n]
          \/ n = req /\ nc'[n] = StatusPatched(nc[n]) /\ nc[n].uid # 0
      BY <1>a, <2>1
    <2>3. /\ StatusPatched(nc[n]).uid = nc[n].uid
          /\ StatusPatched(nc[n]).userData
               = Merge(nc[n].userData, before.userData, config.userData)
      BY <1>a DEF StatusPatched, NodeConfig
    <2>4. Merge(nc[n].userData, before.userData, config.userData)
            => nc[n].userData \/ config.userData
      BY <1>a, ConfigFields DEF Merge, FenceInv, TypeOK
    <2>5. pc # "idle"
      BY <1>6 DEF PatchStatus
    <2> QED
      BY <1>c, <2>2, <2>3, <2>4, <2>5
  <1> HIDE DEF Goal
  <1>7. ASSUME Worker PROVE Goal
    <2>1. ASSUME NEW m \in Names, Begin(m) PROVE UNCHANGED nc
      BY <2>1 DEF Begin, clusterVars
    <2>2. ASSUME \/ CreateNodeInitConfig \/ FindHost \/ DeleteHost
                 \/ CheckBMHDetails \/ StoreBMHCredentials
                 \/ CreateBareMetalHost \/ Associate \/ Return \/ Die
          PROVE  UNCHANGED nc
      BY <2>2 DEF CreateNodeInitConfig, FindHost, DeleteHost,
                  CheckBMHDetails, StoreBMHCredentials, CreateBareMetalHost,
                  Associate, Return, Die, Restart, clusterVars
    <2> QED
      BY <1>7, <1>e, <1>4, <1>5, <1>6, <2>1, <2>2 DEF Worker
  <1>8. ASSUME Environment PROVE Goal
    <2>1. ASSUME NEW m \in Names,
                 \/ RegisterHost(m) \/ DeleteHostByHand(m)
                 \/ Progress(m) \/ ChangeHealth(m) \/ Finalize(m)
                 \/ AdoptCredentials(m)
          PROVE  UNCHANGED nc
      BY <2>1 DEF RegisterHost, DeleteHostByHand, Progress, ChangeHealth,
                  Finalize, AdoptCredentials
    <2>2. ASSUME NEW s \in SecretNames,
                 DeleteSecretByHand(s) \/ CollectSecret(s)
          PROVE  UNCHANGED nc
      BY <2>2 DEF DeleteSecretByHand, CollectSecret
    <2> QED
      BY <1>8, <1>e, <1>1, <1>2, <1>3, <2>1, <2>2
         DEF Environment, User, GarbageCollector, BareMetalOperator
  <1>9. ASSUME \/ \E m \in Names : SyncConfig(m) \/ SyncHost(m)
               \/ Resync \/ Crash \/ UNCHANGED vars
        PROVE  Goal
    BY <1>9, <1>e DEF SyncConfig, SyncHost, Resync, Crash, Restart, vars,
                      clusterVars
  <1>10. Goal
    BY <1>7, <1>8, <1>9 DEF Next
  <1> QED
    BY <1>10 DEF Goal

\* Only the worker stores cloud-init data, for the NodeConfig it is at.
LEMMA SecretsStep ==
  ASSUME FenceInv, SecretsOK, [Next]_vars, NEW n \in Names
  PROVE  \/ secret'[n] = secret[n]
         \/ secret'[n].data # "cloudinit"
         \/ n = req /\ pc # "idle" /\ secret'[n] = BootstrapSecret(config.uid)
  <1> DEFINE Goal == \/ secret'[n] = secret[n]
                     \/ secret'[n].data # "cloudinit"
                     \/ /\ n = req /\ pc # "idle"
                        /\ secret'[n] = BootstrapSecret(config.uid)
  <1>a. /\ secret \in [SecretNames -> Secret] /\ req \in Names
        /\ n \in SecretNames /\ secret[n] \in Secret
        /\ \A m \in Names : CredentialsOf[m] \in SecretNames
    BY ClusterAssumption
       DEF FenceInv, TypeOK, ClusterTypeOK, ClusterAssumption
  <1>b. NoSecret.data # "cloudinit" /\ CredentialsSecret.data # "cloudinit"
    BY DEF NoSecret, CredentialsSecret
  <1>c. UNCHANGED secret => Goal
    OBVIOUS
  <1>d. secret'[n] \in {secret[n], NoSecret, CredentialsSecret} => Goal
    BY <1>b
  <1>1. ASSUME CreateNodeInitConfig PROVE Goal
    <2>1. \/ UNCHANGED secret
          \/ secret' = [secret EXCEPT ![req] = BootstrapSecret(config.uid)]
      BY <1>1 DEF CreateNodeInitConfig, Call
    <2>2. pc # "idle"
      BY <1>1 DEF CreateNodeInitConfig
    <2> QED
      BY <1>a, <2>1, <2>2
  <1>2. ASSUME StoreBMHCredentials PROVE Goal
    <2>1. secret'[n] \in {secret[n], CredentialsSecret}
      BY <1>2, <1>a DEF StoreBMHCredentials, Call
    <2> QED
      BY <2>1, <1>d
  <1>3. ASSUME CreateBareMetalHost PROVE Goal
    <2>1. SetBMHCredentialsOwner(secret[CredentialsOf[req]],
                                 hostMade[req] + 1)
            = secret[CredentialsOf[req]]
      <3>1. hostMade[req] + 1 \in Nat
        BY <1>a DEF FenceInv, TypeOK, ClusterTypeOK
      <3>2. secret[CredentialsOf[req]] \in Secret
        BY <1>a
      <3> QED
        BY <3>1, <3>2, OwnerNotSet
    <2>2. secret'[n] = secret[n]
      BY <1>3, <1>a, <2>1 DEF CreateBareMetalHost, Call
    <2> QED
      BY <2>2, <1>d
  <1>4. ASSUME NEW s \in SecretNames, DeleteSecretByHand(s) \/ CollectSecret(s)
        PROVE  Goal
    <2>1. secret'[n] \in {secret[n], NoSecret}
      BY <1>4, <1>a DEF DeleteSecretByHand, CollectSecret
    <2> QED
      BY <2>1, <1>d
  <1>5. ASSUME NEW m \in Names, AdoptCredentials(m) PROVE Goal
    <2>1. /\ secret' = [secret EXCEPT ![CredentialsOf[m]].owner = host[m].uid]
          /\ secret[CredentialsOf[m]].owner = 0
      BY <1>5 DEF AdoptCredentials
    <2>2. CASE n = CredentialsOf[m]
      <3>1. secret[n].data # "cloudinit"
        BY <2>1, <2>2 DEF SecretsOK
      <3>2. secret'[n].data = secret[n].data
        BY <1>a, <2>1 DEF Secret
      <3> QED
        BY <3>1, <3>2
    <2>3. CASE n # CredentialsOf[m]
      BY <1>a, <1>d, <2>1, <2>3
    <2> QED
      BY <2>2, <2>3
  <1> HIDE DEF Goal
  <1>6. ASSUME Worker PROVE Goal
    <2>1. ASSUME NEW m \in Names, Begin(m) PROVE UNCHANGED secret
      BY <2>1 DEF Begin, clusterVars
    <2>2. ASSUME \/ FindHost \/ DeleteHost \/ DeleteConfig \/ CheckBMHDetails
                 \/ Associate \/ PatchMeta \/ PatchStatus \/ Return \/ Die
          PROVE  UNCHANGED secret
      BY <2>2 DEF FindHost, DeleteHost, DeleteConfig, CheckBMHDetails,
                  Associate, PatchMeta, PatchStatus, Return, Die, Restart,
                  clusterVars
    <2> QED
      BY <1>6, <1>c, <1>1, <1>2, <1>3, <2>1, <2>2 DEF Worker
  <1>7. ASSUME Environment PROVE Goal
    <2>1. ASSUME NEW m \in Names,
                 \/ CreateConfig(m) \/ EditConfig(m) \/ StripConfig(m)
                 \/ DeleteConfigByHand(m) \/ CollectConfig(m)
                 \/ RegisterHost(m) \/ DeleteHostByHand(m)
                 \/ Progress(m) \/ ChangeHealth(m) \/ Finalize(m)
          PROVE  UNCHANGED secret
      BY <2>1 DEF CreateConfig, EditConfig, StripConfig, DeleteConfigByHand,
                  CollectConfig, RegisterHost, DeleteHostByHand, Progress,
                  ChangeHealth, Finalize
    <2> QED
      BY <1>7, <1>c, <1>4, <1>5, <2>1
         DEF Environment, User, GarbageCollector, BareMetalOperator
  <1>8. ASSUME \/ \E m \in Names : SyncConfig(m) \/ SyncHost(m)
               \/ Resync \/ Crash \/ UNCHANGED vars
        PROVE  Goal
    BY <1>8, <1>c DEF SyncConfig, SyncHost, Resync, Crash, Restart, vars,
                      clusterVars
  <1>9. Goal
    BY <1>6, <1>7, <1>8 DEF Next
  <1> QED
    BY <1>9 DEF Goal

\* At work, the NodeConfig which the worker was given is the first one of its
\* name, and no other one comes, unless the name is disturbed.
LEMMA OnlyOne ==
  ASSUME FenceInv, [Next]_vars, NEW n \in Names, n = req, pc # "idle",
         Undisturbed(n)'
  PROVE  /\ made[n] = 1 /\ config.uid = 1
         /\ Deleted(n) \/ Kept(n)
  <1>1. /\ made[n] \in Nat /\ made'[n] \in Nat /\ config.uid \in Nat
    BY TypeStep, ConfigFields DEF FenceInv, TypeOK, ClusterTypeOK
  <1>2. config.uid # 0 /\ config.uid <= made[n]
    BY DEF FenceInv, WorkerOK
  <1>3. made[n] <= made'[n] /\ made'[n] <= 1
    BY HistoryStep DEF FenceInv, Undisturbed
  <1>4. made[n] = 1 /\ config.uid = 1
    BY <1>1, <1>2, <1>3
  <1>5. ~ Created(n)
    BY <1>3, <1>4 DEF Created
  <1> QED
    BY <1>4, <1>5, ConfigStep DEF FenceInv, WorkerOK

\* Every step leaves AttemptInv.
LEMMA AttemptStep ==
  ASSUME AttemptInv, [Next]_vars
  PROVE  SecretsOK' /\ DataHeld' /\ AttemptOK'
  <1>a. FenceInv /\ TypeOK /\ WorkerOK /\ UidsOK /\ req \in Names
    BY DEF AttemptInv, FenceInv, TypeOK
  <1>b. /\ handDeleted \subseteq handDeleted'
        /\ \A n \in Names : /\ made[n] <= made'[n]
                            /\ made[n] \in Nat /\ made'[n] \in Nat
    BY <1>a, HistoryStep, TypeStep DEF TypeOK, ClusterTypeOK
  <1>c. \A n \in Names : Undisturbed(n)' => Undisturbed(n)
    BY <1>b DEF Undisturbed
  <1>d. \A n \in Names : /\ Held(n) /\ Undisturbed(n)'
                         /\ Deleted(n) \/ Kept(n)
                         => Held(n)'
    BY <1>a, HeldStep
  <1>e. \A n \in Names : /\ n = req /\ pc # "idle" /\ Undisturbed(n)'
                         => /\ made[n] = 1 /\ config.uid = 1
                            /\ Deleted(n) \/ Kept(n)
    BY <1>a, OnlyOne
  <1>f. Ended \/ Begun \/ Fenced \/ Continued
    BY <1>a, WorkerStep
  <1>g. \A n \in Names : nc[n].uid \in Nat /\ nc[n].uid <= made[n]
    BY <1>a, ConfigFields DEF TypeOK, ClusterTypeOK, UidsOK
  <1>h. \A n \in Names : ncCache[n].uid \in Nat /\ ncCache[n].uid <= made[n]
    BY <1>a, ConfigFields DEF TypeOK, UidsOK
  <1>i. NoConfig.uid = 0 /\ ~ NoConfig.ready /\ ~ NoConfig.userData
    BY DEF NoConfig
  <1>j. PICK r \in Names : r = req'
    BY <1>a, TypeStep DEF TypeOK
  <1>1. SecretsOK'
    <2> SUFFICES ASSUME NEW n \in Names, secret'[n].data = "cloudinit"
                 PROVE  secret'[n].owner # 0 /\ secret'[n].owner <= made'[n]
      BY DEF SecretsOK
    <2>1. CASE secret'[n] = secret[n]
      <3>1. secret[n].owner # 0 /\ secret[n].owner <= made[n]
        BY <2>1 DEF AttemptInv, SecretsOK
      <3>2. secret[n].owner \in Nat
        BY <1>a, ClusterAssumption
           DEF TypeOK, ClusterTypeOK, ClusterAssumption, Secret
      <3> QED
        BY <1>b, <2>1, <3>1, <3>2
    <2>2. CASE /\ n = req /\ pc # "idle"
               /\ secret'[n] = BootstrapSecret(config.uid)
      <3>1. config.uid \in Nat /\ config.uid # 0 /\ config.uid <= made[n]
        BY <1>a, <2>2, ConfigFields DEF TypeOK, WorkerOK
      <3>2. secret'[n].owner = config.uid
        BY <2>2, AbsentFields
      <3> QED
        BY <1>b, <3>1, <3>2
    <2> QED
      BY <2>1, <2>2, SecretsStep DEF AttemptInv
  <1>2. ASSUME NEW n \in Names
        PROVE  /\ nc'[n].uid = 0 => ~ nc'[n].userData
               /\ ncCache'[n].uid = 0 => ~ ncCache'[n].userData
    BY <1>a, DataStep, CacheStep DEF AttemptInv, DataHeld
  <1>3. ASSUME NEW n \in Names, Undisturbed(n)',
               nc'[n].userData \/ ncCache'[n].userData
        PROVE  Held(n)'
    <2>1. Undisturbed(n)
      BY <1>3, <1>c
    <2>2. \/ nc'[n].userData /\ nc'[n].uid = nc[n].uid
          \/ nc[n].userData \/ ncCache[n].userData
      BY <1>3, <1>a, DataStep, CacheStep
    <2>3. \/ nc[n].userData \/ ncCache[n].userData
          \/ n = req /\ pc # "idle" /\ config.userData
      BY <1>3, <1>a, DataStep, CacheStep
    <2>4. Held(n)
      BY <2>1, <2>3 DEF AttemptInv, DataHeld
    <2>5. ~ Created(n)
      <3> SUFFICES ASSUME Created(n) PROVE FALSE
        OBVIOUS
      <3>1. made[n] = 0 /\ nc[n].uid = 0 /\ nc'[n].uid # nc[n].uid
        BY <1>3, <1>b DEF Created, Undisturbed
      <3>2. ncCache[n].uid = 0
        BY <1>h, <3>1
      <3>3. ~ nc[n].userData /\ ~ ncCache[n].userData
        BY <3>1, <3>2 DEF AttemptInv, DataHeld
      <3> QED
        BY <2>2, <3>1, <3>3
    <2>6. Deleted(n) \/ Kept(n)
      BY <1>a, <2>5, ConfigStep DEF WorkerOK
    <2> QED
      BY <1>3, <1>d, <2>4, <2>6
  <1>4. ASSUME Undisturbed(r)', pc' # "idle",
               config'.userData \/ before'.userData
        PROVE  Held(r)'
    <2>1. ~ Ended
      BY <1>4 DEF Ended
    <2>2. CASE Begun
      <3>1. ncCache[r].userData /\ UNCHANGED <<nc, secret, made, handDeleted>>
        BY <1>4, <1>j, <2>2 DEF Begun, clusterVars
      <3>2. Held(r)
        BY <1>4, <1>c, <3>1 DEF AttemptInv, DataHeld
      <3> QED
        BY <3>1, <3>2 DEF Held
    <2>3. CASE Fenced
      <3>1. /\ r = req /\ nc' = nc /\ pc # "idle"
            /\ secret'[r] = BootstrapSecret(config.uid)
        BY <1>j, <2>3 DEF Fenced
      <3>2. made[r] = 1 /\ config.uid = 1
        BY <1>4, <1>e, <3>1
      <3>3. nc[r].uid = 0 \/ nc[r].uid = 1
        BY <1>g, <3>2
      <3> QED
        BY <3>1, <3>2, <3>3 DEF Held
    <2>4. CASE Continued
      <3>1. /\ r = req /\ pc # "idle"
            /\ config.userData \/ before.userData
        BY <1>4, <1>j, <2>4 DEF Continued
      <3>2. Held(r)
        BY <1>4, <1>c, <3>1 DEF AttemptInv, DataHeld
      <3> QED
        BY <1>4, <1>d, <1>e, <3>1, <3>2
    <2> QED
      BY <1>f, <2>1, <2>2, <2>3, <2>4
  <1>5. DataHeld'
    BY <1>2, <1>3, <1>4, <1>j DEF DataHeld
  <1>6. ASSUME Undisturbed(r)', nc'[r].uid # 0,
               pc' \in HostPhase \/ config'.ready
        PROVE  Attempt(r)'
    <2>1. ~ Ended /\ ~ Begun
      BY <1>6, <1>i DEF Ended, Begun, HostPhase
    <2>2. CASE Fenced
      <3>1. /\ r = req /\ req' = r /\ pc # "idle" /\ pc' = "findHost"
            /\ nc' = nc /\ before' = before /\ config'.userData
            /\ secret[r] = NoSecret
        BY <1>j, <2>2 DEF Fenced
      <3>2. ~ Held(r)
        BY <1>6, <3>1, AbsentFields DEF Held
      <3>3. ~ before.userData
        BY <1>6, <1>c, <3>1, <3>2 DEF AttemptInv, DataHeld
      <3> QED
        BY <3>1, <3>3 DEF Attempt
    <2>3. CASE Continued
      <3>1. /\ r = req /\ req' = r /\ before' = before
            /\ config'.userData = config.userData
            /\ pc = "idle" <=> pc' = "idle"
            /\ pc \in HostPhase \/ config.ready
        BY <1>6, <1>j, <2>3 DEF Continued, HostPhase
      <3>2. pc # "idle"
        BY <1>a, <3>1 DEF WorkerOK, HostPhase, PatchPhase
      <3>3. Deleted(r) \/ Kept(r)
        BY <1>6, <1>e, <3>1, <3>2
      <3>4. nc[r].uid # 0
        BY <1>6, <1>i, <3>3 DEF Deleted, Kept
      <3>5. Attempt(r)
        BY <1>6, <1>c, <3>1, <3>4 DEF AttemptInv, AttemptOK
      <3> QED
        BY <3>1, <3>2, <3>5 DEF Attempt
    <2> QED
      BY <1>f, <2>1, <2>2, <2>3
  <1>7. AttemptOK'
    BY <1>6, <1>j DEF AttemptOK
  <1> QED
    BY <1>1, <1>5, <1>7

\* AttemptInv is an invariant.
LEMMA AttemptInvariant == Spec => []AttemptInv
  <1>1. Init => SecretsOK /\ DataHeld /\ AttemptOK
    <2> SUFFICES ASSUME Init PROVE SecretsOK /\ DataHeld /\ AttemptOK
      OBVIOUS
    <2>1. /\ pc = "idle" /\ config = NoConfig
          /\ nc = [n \in Names |-> NoConfig] /\ ncCache = nc
          /\ secret \in [SecretNames -> {NoSecret, [data |-> "other",
                                                    owner |-> 0]}]
      BY DEF Init, ClusterInit
    <2>2. /\ NoConfig.uid = 0 /\ ~ NoConfig.ready /\ ~ NoConfig.userData
          /\ NoSecret.data = ""
      BY DEF NoConfig, NoSecret
    <2>3. ASSUME NEW n \in Names PROVE secret[n].data # "cloudinit"
      <3>1. n \in SecretNames
        BY ClusterAssumption DEF ClusterAssumption
      <3> DEFINE Old == {NoSecret, [data |-> "other", owner |-> 0]}
      <3>2. secret[n] \in Old
        <4>1. secret \in [SecretNames -> Old]
          BY <2>1
        <4> HIDE DEF Old
        <4> QED
          BY <3>1, <4>1
      <3>3. [data |-> "other", owner |-> 0].data # "cloudinit"
        OBVIOUS
      <3>4. secret[n] = NoSecret \/ secret[n] = [data |-> "other", owner |-> 0]
        BY <3>2
      <3> QED
        BY <2>2, <3>3, <3>4
    <2>4. \A n \in Names : nc[n] = NoConfig /\ ncCache[n] = NoConfig
      BY <2>1
    <2> QED
      BY <2>1, <2>2, <2>3, <2>4
         DEF SecretsOK, DataHeld, AttemptOK, HostPhase
  <1>2. AttemptInv /\ [Next]_vars => SecretsOK' /\ DataHeld' /\ AttemptOK'
    BY AttemptStep
  <1>3. FenceInv /\ SecretsOK /\ DataHeld /\ AttemptOK <=> AttemptInv
    BY DEF AttemptInv
  <1> QED
    BY <1>1, <1>2, <1>3, FenceInvariant, PTL DEF Spec

-----------------------------------------------------------------------------
(* Every step is one of Bootstrap *)

\* How the phase of a name may change.
PhaseMove(p, q) ==
  \/ p = "none" /\ q = "pending"
  \/ p = "pending" /\ q = "working"
  \/ p = "working" /\ q = "ready"
  \/ p \in {"pending", "working"} /\ q = "abandoned"
  \/ p \in {"pending", "working", "ready", "abandoned"} /\ q = "gone"
  \/ p \in Abstract!Phases /\ q = "disturbed"

\* What a step does to the phase of a name.
LEMMA PhaseStep ==
  ASSUME AttemptInv, [Next]_vars, NEW n \in Names
  PROVE  Phase(n)' = Phase(n) \/ PhaseMove(Phase(n), Phase(n)')
  <1>a. FenceInv /\ TypeOK /\ WorkerOK /\ UidsOK /\ req \in Names
    BY DEF AttemptInv, FenceInv, TypeOK
  <1>b. /\ handDeleted \subseteq handDeleted'
        /\ made[n] <= made'[n] /\ made[n] \in Nat /\ made'[n] \in Nat
        /\ nc[n].uid \in Nat /\ nc[n].uid <= made[n]
        /\ nc[n].uid = 0 => ~ nc[n].ready
    BY <1>a, HistoryStep, TypeStep, ConfigFields
       DEF TypeOK, ClusterTypeOK, UidsOK
  <1>c. Phase(n) \in Abstract!Phases
    BY DEF Phase, Abstract!Phases
  <1>d. Ended \/ Begun \/ Fenced \/ Continued
    BY <1>a, WorkerStep
  <1>1. CASE ~ Undisturbed(n)'
    BY <1>1, <1>c DEF Phase, PhaseMove
  <1>2. ASSUME Undisturbed(n)', Created(n)
        PROVE  PhaseMove(Phase(n), Phase(n)')
    <2>1. made[n] = 0 /\ made'[n] = 1 /\ Undisturbed(n)
      BY <1>2, <1>b DEF Created, Undisturbed
    <2>2. Phase(n) = "none"
      BY <1>2, <2>1 DEF Created, Phase
    <2>3. nc'[n].uid = 1 /\ ~ nc'[n].ready
      BY <1>2, <2>1 DEF Created
    <2>4. secret'[n] # BootstrapSecret(1)
      <3>1. secret[n].data # "cloudinit"
        <4>1. secret[n].owner \in Nat
          BY <1>a, ClusterAssumption
             DEF TypeOK, ClusterTypeOK, ClusterAssumption, Secret
        <4> QED
          BY <2>1, <4>1 DEF AttemptInv, SecretsOK
      <3>2. secret[n] # BootstrapSecret(1)
        BY <3>1, AbsentFields
      <3>3. n = req => pc = "idle"
        <4>1. config.uid \in Nat
          BY <1>a, ConfigFields DEF TypeOK
        <4> QED
          BY <2>1, <4>1, <1>a DEF WorkerOK
      <3> QED
        BY <3>1, <3>2, <3>3, SecretsStep, AbsentFields DEF AttemptInv
    <2>5. Phase(n)' = "pending"
      BY <1>2, <2>3, <2>4 DEF Phase
    <2> QED
      BY <2>2, <2>5 DEF PhaseMove
  <1>3. ASSUME Undisturbed(n)', Deleted(n)
        PROVE  Phase(n)' = Phase(n) \/ PhaseMove(Phase(n), Phase(n)')
    <2>1. Undisturbed(n) /\ made'[n] = made[n] /\ nc'[n].uid = 0
      BY <1>3, <1>b, AbsentFields DEF Deleted, Undisturbed
    <2>2. CASE nc[n].uid = 0
      BY <1>3, <2>1, <2>2 DEF Phase
    <2>3. CASE nc[n].uid # 0
      <3>1. Phase(n)' = "gone"
        BY <1>b, <1>3, <2>1, <2>3 DEF Phase
      <3>2. Phase(n) \in {"pending", "working", "ready", "abandoned"}
        BY <2>1, <2>3 DEF Phase
      <3> QED
        BY <3>1, <3>2 DEF PhaseMove
    <2> QED
      BY <2>2, <2>3
  <1>4. ASSUME Undisturbed(n)', Kept(n)
        PROVE  Phase(n)' = Phase(n) \/ PhaseMove(Phase(n), Phase(n)')
    <2>1. /\ Undisturbed(n) /\ made'[n] = made[n]
          /\ nc'[n].uid = nc[n].uid
      BY <1>4, <1>b DEF Kept, Undisturbed
    <2>2. CASE nc[n].uid = 0
      BY <1>4, <2>1, <2>2 DEF Phase
    <2>3. CASE nc[n].uid # 0 /\ nc[n].ready
      <3>1. nc'[n].ready
        BY <1>4, <2>3 DEF Kept
      <3> QED
        BY <1>4, <2>1, <2>3, <3>1 DEF Phase
    <2>4. CASE nc[n].uid # 0 /\ ~ nc[n].ready /\ nc'[n].ready
      <3>1. n = req /\ config.ready
        BY <1>4, <2>4 DEF Kept
      <3>2. Attempt(n) /\ secret[n] = BootstrapSecret(nc[n].uid)
        BY <2>1, <2>4, <3>1
           DEF AttemptInv, AttemptOK, FenceInv, FenceOK, Held
      <3>3. Phase(n) = "working"
        BY <2>1, <2>4, <3>2 DEF Phase
      <3>4. Phase(n)' = "ready"
        BY <1>4, <2>1, <2>4 DEF Phase
      <3> QED
        BY <3>3, <3>4 DEF PhaseMove
    <2>5. CASE /\ nc[n].uid # 0 /\ ~ nc[n].ready /\ ~ nc'[n].ready
               /\ secret[n] # BootstrapSecret(nc[n].uid)
      <3>1. Phase(n) = "pending"
        BY <2>1, <2>5 DEF Phase
      <3>2. Phase(n)' \in {"pending", "working", "abandoned"}
        BY <1>4, <2>1, <2>5 DEF Phase
      <3> QED
        BY <3>1, <3>2 DEF PhaseMove
    <2>6. CASE /\ nc[n].uid # 0 /\ ~ nc[n].ready /\ ~ nc'[n].ready
               /\ secret[n] = BootstrapSecret(nc[n].uid)
      <3>1. secret'[n] = BootstrapSecret(nc'[n].uid)
        <4>1. Held(n)'
          BY <1>a, <1>4, <2>6, HeldStep DEF Held
        <4> QED
          BY <2>1, <2>6, <4>1 DEF Held
      <3>2. Attempt(n)' => Attempt(n)
        <4>1. CASE Ended
          BY <4>1 DEF Ended, Attempt
        <4>2. CASE Begun
          BY <4>2 DEF Begun, Attempt
        <4>3. CASE Fenced
          BY <2>6, <4>3, AbsentFields DEF Fenced, Attempt
        <4>4. CASE Continued
          BY <4>4 DEF Continued, Attempt
        <4> QED
          BY <1>d, <4>1, <4>2, <4>3, <4>4
      <3>3. Phase(n) = IF Attempt(n) THEN "working" ELSE "abandoned"
        BY <2>1, <2>6 DEF Phase
      <3>4. Phase(n)' = IF Attempt(n)' THEN "working" ELSE "abandoned"
        BY <1>4, <2>1, <2>6, <3>1 DEF Phase
      <3> QED
        BY <3>2, <3>3, <3>4 DEF PhaseMove
    <2> QED
      BY <2>2, <2>3, <2>4, <2>5, <2>6
  <1> QED
    BY <1>a, <1>1, <1>2, <1>3, <1>4, ConfigStep DEF WorkerOK

\* Nothing of a name changes that its phase depends on.
SameObjects(n) ==
  /\ made'[n] = made[n]
  /\ n \in handDeleted' <=> n \in handDeleted
  /\ nc'[n].uid = nc[n].uid
  /\ nc'[n].ready = nc[n].ready
  /\ nc[n].uid # 0 => (secret'[n] = BootstrapSecret(nc[n].uid)
                         <=> secret[n] = BootstrapSecret(nc[n].uid))

LEMMA SamePhase ==
  ASSUME NEW n \in Names, SameObjects(n), Attempt(n)' <=> Attempt(n)
  PROVE  Phase(n)' = Phase(n)
  BY DEF SameObjects, Phase, Undisturbed

\* What the worker does to names it is not at, while no one else moves.
LEMMA WorkerFrame ==
  ASSUME AttemptInv, [Next]_vars, Worker \/ Crash, NEW n \in Names, n # req
  PROVE  SameObjects(n)
  <1>a. /\ req \in Names /\ n \in SecretNames
        /\ nc \in [Names -> NodeConfig]
        /\ secret \in [SecretNames -> Secret]
        /\ \A m \in Names : CredentialsOf[m] \in SecretNames
    BY ClusterAssumption
       DEF AttemptInv, FenceInv, TypeOK, ClusterTypeOK, ClusterAssumption
  <1>c. /\ UNCHANGED <<made, handDeleted>>
        /\ nc'[n] = nc[n]
        /\ \/ secret'[n] = secret[n]
           \/ secret[n] = NoSecret /\ secret'[n] = CredentialsSecret
        => SameObjects(n)
    <2>1. \A u : BootstrapSecret(u) # NoSecret
      BY AbsentFields
    <2>2. \A u : BootstrapSecret(u) # CredentialsSecret
      BY DEF BootstrapSecret, CredentialsSecret
    <2> QED
      BY <2>1, <2>2 DEF SameObjects
  <1>1. ASSUME NEW m \in Names, Begin(m) PROVE SameObjects(n)
    BY <1>1, <1>c DEF Begin, clusterVars
  <1>2. ASSUME CreateNodeInitConfig PROVE SameObjects(n)
    <2>1. secret'[n] = secret[n]
      BY <1>2, <1>a DEF CreateNodeInitConfig, Call
    <2> QED
      BY <1>2, <1>c, <2>1 DEF CreateNodeInitConfig
  <1>3. ASSUME FindHost \/ CheckBMHDetails \/ Return \/ Die \/ Crash
        PROVE  SameObjects(n)
    <2>1. UNCHANGED <<made, handDeleted, nc, secret>>
      BY <1>3 DEF FindHost, CheckBMHDetails, Return, Die, Crash, Restart,
                  clusterVars
    <2> QED
      BY <1>c, <2>1
  <1>4. ASSUME DeleteHost \/ Associate PROVE SameObjects(n)
    BY <1>4, <1>c DEF DeleteHost, Associate
  <1>5. ASSUME DeleteConfig \/ PatchMeta \/ PatchStatus PROVE SameObjects(n)
    <2>1. nc'[n] = nc[n]
      BY <1>5, <1>a DEF DeleteConfig, PatchMeta, PatchStatus, Call
    <2> QED
      BY <1>5, <1>c, <2>1 DEF DeleteConfig, PatchMeta, PatchStatus
  <1>6. ASSUME StoreBMHCredentials PROVE SameObjects(n)
    <2>1. \/ secret'[n] = secret[n]
          \/ secret[n] = NoSecret /\ secret'[n] = CredentialsSecret
      BY <1>6, <1>a DEF StoreBMHCredentials, Call
    <2> QED
      BY <1>6, <1>c, <2>1 DEF StoreBMHCredentials
  <1>7. ASSUME CreateBareMetalHost PROVE SameObjects(n)
    <2>1. SetBMHCredentialsOwner(secret[CredentialsOf[req]],
                                 hostMade[req] + 1)
            = secret[CredentialsOf[req]]
      <3>1. hostMade[req] + 1 \in Nat
        BY <1>a DEF AttemptInv, FenceInv, TypeOK, ClusterTypeOK
      <3>2. secret[CredentialsOf[req]] \in Secret
        BY <1>a
      <3> QED
        BY <3>1, <3>2, OwnerNotSet
    <2>2. secret'[n] = secret[n]
      BY <1>7, <1>a, <2>1 DEF CreateBareMetalHost, Call
    <2> QED
      BY <1>7, <1>c, <2>2 DEF CreateBareMetalHost
  <1> QED
    BY <1>1, <1>2, <1>3, <1>4, <1>5, <1>6, <1>7 DEF Worker

\* What anybody else does to names they are not at.
LEMMA EnvironmentFrame ==
  ASSUME AttemptInv, Environment
  PROVE  \E m \in Names : \A n \in Names \ {m} : SameObjects(n)
  <1>a. /\ req \in Names
        /\ nc \in [Names -> NodeConfig] /\ made \in [Names -> Nat]
        /\ secret \in [SecretNames -> Secret]
        /\ \A m \in Names : CredentialsOf[m] \in SecretNames
        /\ Names \subseteq SecretNames
    BY ClusterAssumption
       DEF AttemptInv, FenceInv, TypeOK, ClusterTypeOK, ClusterAssumption
  <1>1. ASSUME NEW m \in Names,
               \/ CreateConfig(m) \/ EditConfig(m) \/ StripConfig(m)
               \/ DeleteConfigByHand(m) \/ CollectConfig(m)
        PROVE  \A n \in Names \ {m} : SameObjects(n)
    <2> SUFFICES ASSUME NEW n \in Names, n # m PROVE SameObjects(n)
      OBVIOUS
    <2>1. nc'[n] = nc[n] /\ made'[n] = made[n]
      BY <1>1, <1>a DEF CreateConfig, EditConfig, StripConfig,
                        DeleteConfigByHand, CollectConfig
    <2>2. UNCHANGED <<secret, handDeleted>>
      BY <1>1 DEF CreateConfig, EditConfig, StripConfig, DeleteConfigByHand,
                  CollectConfig
    <2> QED
      BY <2>1, <2>2 DEF SameObjects
  <1>2. ASSUME NEW m \in Names,
               \/ RegisterHost(m) \/ DeleteHostByHand(m)
               \/ Progress(m) \/ ChangeHealth(m) \/ Finalize(m)
        PROVE  \A n \in Names \ {m} : SameObjects(n)
    <2>1. UNCHANGED <<nc, made, secret, handDeleted>>
      BY <1>2 DEF RegisterHost, DeleteHostByHand, Progress, ChangeHealth,
                  Finalize
    <2> QED
      BY <2>1 DEF SameObjects
  <1>3. ASSUME NEW m \in Names, AdoptCredentials(m)
        PROVE  \A n \in Names \ {m} : SameObjects(n)
    <2> SUFFICES ASSUME NEW n \in Names PROVE SameObjects(n)
      OBVIOUS
    <2>1. /\ UNCHANGED <<nc, made, handDeleted>>
          /\ secret' = [secret EXCEPT ![CredentialsOf[m]].owner = host[m].uid]
          /\ secret[CredentialsOf[m]].owner = 0
      BY <1>3 DEF AdoptCredentials
    <2>2. \/ secret'[n] = secret[n]
          \/ secret[n].owner = 0 /\ secret'[n].data = secret[n].data
      <3>1. CASE n = CredentialsOf[m]
        BY <1>a, <2>1, <3>1 DEF Secret
      <3>2. CASE n # CredentialsOf[m]
        BY <1>a, <2>1, <3>2
      <3> QED
        BY <3>1, <3>2
    <2>3. \/ secret'[n] = secret[n]
          \/ secret[n].data # "cloudinit" /\ secret'[n].data # "cloudinit"
      BY <2>2 DEF AttemptInv, SecretsOK
    <2>4. secret'[n] = BootstrapSecret(nc[n].uid)
            <=> secret[n] = BootstrapSecret(nc[n].uid)
      BY <2>3, AbsentFields
    <2> QED
      BY <2>1, <2>4 DEF SameObjects
  <1>4. ASSUME NEW s \in SecretNames, DeleteSecretByHand(s) \/ CollectSecret(s)
        PROVE  \A n \in Names \ {s} : SameObjects(n)
    <2> SUFFICES ASSUME NEW n \in Names, n # s PROVE SameObjects(n)
      OBVIOUS
    <2>1. /\ UNCHANGED <<nc, made>>
          /\ secret'[n] = secret[n]
          /\ n \in handDeleted' <=> n \in handDeleted
      BY <1>4, <1>a DEF DeleteSecretByHand, CollectSecret
    <2> QED
      BY <2>1 DEF SameObjects
  <1>5. ASSUME NEW s \in SecretNames, DeleteSecretByHand(s) \/ CollectSecret(s)
        PROVE  \E m \in Names : \A n \in Names \ {m} : SameObjects(n)
    <2>1. CASE s \in Names
      BY <1>4, <1>5, <2>1
    <2>2. CASE s \notin Names
      BY <1>4, <1>5, <1>a, <2>2
    <2> QED
      BY <2>1, <2>2
  <1> QED
    BY <1>1, <1>2, <1>3, <1>5
       DEF Environment, User, GarbageCollector, BareMetalOperator

\* A step changes the phase of one name at most.
LEMMA FocusStep ==
  ASSUME AttemptInv, [Next]_vars
  PROVE  \E m \in Names : \A n \in Names \ {m} : Phase(n)' = Phase(n)
  <1>a. req \in Names /\ TypeOK /\ WorkerOK
    BY DEF AttemptInv, FenceInv, TypeOK
  <1>1. CASE Worker \/ Crash
    <2>1. ASSUME NEW n \in Names, n # req PROVE Phase(n)' = Phase(n)
      <3>1. ~ Attempt(n)
        BY <2>1 DEF Attempt
      <3>2. ~ Attempt(n)'
        <4>1. Ended \/ Begun \/ Fenced \/ Continued
          BY <1>a, WorkerStep
        <4> QED
          BY <2>1, <4>1 DEF Ended, Begun, Fenced, Continued, Attempt
      <3>3. SameObjects(n)
        BY <1>1, <2>1, WorkerFrame
      <3> QED
        BY <3>1, <3>2, <3>3, SamePhase
    <2> QED
      BY <1>a, <2>1
  <1>2. CASE Environment /\ UNCHANGED <<informerVars, queue, pc, localVars,
                                        faults>>
    <2>1. \A n \in Names : Attempt(n)' <=> Attempt(n)
      BY <1>2 DEF localVars, Attempt
    <2> QED
      BY <1>2, <2>1, EnvironmentFrame, SamePhase
  <1>3. CASE \/ \E m \in Names : SyncConfig(m) \/ SyncHost(m)
             \/ Resync \/ UNCHANGED vars
    <2>1. UNCHANGED <<nc, made, secret, handDeleted, pc, req, before, config>>
      BY <1>3 DEF SyncConfig, SyncHost, Resync, vars, clusterVars, localVars
    <2>2. \A n \in Names : SameObjects(n) /\ (Attempt(n)' <=> Attempt(n))
      BY <2>1 DEF SameObjects, Attempt
    <2> QED
      BY <1>a, <2>2, SamePhase
  <1> QED
    BY <1>1, <1>2, <1>3 DEF Next

\* Only the attempt of the name, or an attempt for one that is gone, gives the
\* host a reference to the Secret; a step that does leaves all phases.
LEMMA HostDataStep ==
  ASSUME AttemptInv, [Next]_vars
  PROVE  \/ \A n \in Names : host'[n].userData = host[n].userData
         \/ \E m \in Names :
              /\ \A n \in Names : Phase(n)' = Phase(n)
              /\ \A n \in Names \ {m} : host'[n].userData = host[n].userData
              /\ \/ host'[m].userData = FALSE
                 \/ /\ host'[m].userData = TRUE
                    /\ Phase(m) \in {"working", "gone", "disturbed"}
  <1>a. /\ req \in Names /\ host \in [Names -> BareMetalHost]
        /\ config \in NodeConfig
    BY DEF AttemptInv, FenceInv, TypeOK, ClusterTypeOK
  <1>b. ASSUME UNCHANGED <<nc, made, secret, handDeleted>>,
               \A n \in Names : Attempt(n)' <=> Attempt(n)
        PROVE  \A n \in Names : Phase(n)' = Phase(n)
    BY <1>b, SamePhase DEF SameObjects
  <1>c. ASSUME \E f : FailWith(f) \/ Goto("associate")
                      \/ Associated(hostCache[req].uid),
               pc # "idle"
        PROVE  \A n \in Names : Attempt(n)' <=> Attempt(n)
    <2>1. /\ UNCHANGED <<req, before>>
          /\ config'.userData = config.userData
          /\ pc' # "idle"
      BY <1>a, <1>c DEF FailWith, Goto, Associated, localVars, NodeConfig
    <2> QED
      BY <1>c, <2>1 DEF Attempt
  <1>1. ASSUME NEW m \in Names, RegisterHost(m), UNCHANGED <<pc, localVars>>
        PROVE  /\ \A n \in Names : Phase(n)' = Phase(n)
               /\ \A n \in Names \ {m} : host'[n].userData = host[n].userData
               /\ host'[m].userData = FALSE
    <2>1. PICK i, on : host' = [host EXCEPT ![m] = NewHost(hostMade[m] + 1,
                                                           i, on)]
      BY <1>1 DEF RegisterHost
    <2>2. NewHost(hostMade[m] + 1, i, on).userData = FALSE
      BY DEF NewHost, NoHost
    <2>3. UNCHANGED <<nc, made, secret, handDeleted>>
      BY <1>1 DEF RegisterHost
    <2>4. \A n \in Names : Attempt(n)' <=> Attempt(n)
      BY <1>1 DEF localVars, Attempt
    <2> QED
      BY <1>a, <1>b, <2>1, <2>2, <2>3, <2>4
  <1>2. ASSUME NEW m \in Names, Finalize(m), UNCHANGED <<pc, localVars>>
        PROVE  /\ \A n \in Names : Phase(n)' = Phase(n)
               /\ \A n \in Names \ {m} : host'[n].userData = host[n].userData
               /\ host'[m].userData = FALSE
    <2>1. /\ host' = [host EXCEPT ![m] = NoHost]
          /\ UNCHANGED <<nc, made, secret, handDeleted>>
      BY <1>2 DEF Finalize
    <2>2. NoHost.userData = FALSE
      BY DEF NoHost
    <2>3. \A n \in Names : Attempt(n)' <=> Attempt(n)
      BY <1>2 DEF localVars, Attempt
    <2> QED
      BY <1>a, <1>b, <2>1, <2>2, <2>3
  <1>3. ASSUME NEW m \in Names,
               \/ DeleteHostByHand(m) \/ Progress(m) \/ ChangeHealth(m)
               \/ m = req /\ DeleteHost
        PROVE  \A n \in Names : host'[n].userData = host[n].userData
    <2>1. \/ host' = [host EXCEPT ![m].deleting = TRUE]
          \/ \E s : host' = [host EXCEPT ![m].state = s]
          \/ host' = [host EXCEPT ![m].ok = ~ @]
          \/ host' = host
      BY <1>3 DEF DeleteHostByHand, Progress, ChangeHealth, DeleteHost, Call
    <2> QED
      BY <1>a, <2>1 DEF BareMetalHost
  <1>4. ASSUME CreateBareMetalHost
        PROVE  \/ UNCHANGED host
               \/ /\ \A n \in Names : Phase(n)' = Phase(n)
                  /\ \A n \in Names \ {req} :
                       host'[n].userData = host[n].userData
                  /\ host'[req].userData = FALSE
    <2>1. \/ UNCHANGED host
          \/ host' = [host EXCEPT ![req] = NewHost(hostMade[req] + 1, NoImage,
                                                  FALSE)]
      BY <1>4 DEF CreateBareMetalHost, Call
    <2>2. NewHost(hostMade[req] + 1, NoImage, FALSE).userData = FALSE
      BY DEF NewHost, NoHost
    <2>3. \A n \in Names : Attempt(n)' <=> Attempt(n)
      BY <1>4, <1>c DEF CreateBareMetalHost, Call
    <2>4. UNCHANGED <<nc, made, handDeleted>>
      BY <1>4 DEF CreateBareMetalHost
    <2>5. UNCHANGED secret
      <3>1. SetBMHCredentialsOwner(secret[CredentialsOf[req]],
                                   hostMade[req] + 1)
              = secret[CredentialsOf[req]]
        <4>1. hostMade[req] + 1 \in Nat
          BY <1>a DEF AttemptInv, FenceInv, TypeOK, ClusterTypeOK
        <4>2. secret[CredentialsOf[req]] \in Secret
          BY <1>a, ClusterAssumption
             DEF AttemptInv, FenceInv, TypeOK, ClusterTypeOK,
                 ClusterAssumption
        <4> QED
          BY <4>1, <4>2, OwnerNotSet
      <3>2. secret \in [SecretNames -> Secret]
        BY DEF AttemptInv, FenceInv, TypeOK, ClusterTypeOK
      <3> QED
        BY <1>4, <3>1, <3>2 DEF CreateBareMetalHost, Call
    <2> QED
      BY <1>a, <1>b, <2>1, <2>2, <2>3, <2>4, <2>5
  <1>5. ASSUME Associate
        PROVE  \/ \A n \in Names : host'[n].userData = host[n].userData
               \/ /\ \A n \in Names : Phase(n)' = Phase(n)
                  /\ \A n \in Names \ {req} :
                       host'[n].userData = host[n].userData
                  /\ host'[req].userData = TRUE
                  /\ Phase(req) \in {"working", "gone", "disturbed"}
    <2> DEFINE h == hostCache[req]
               wanted == SetHostSpec(h, config)
    <2>1. h \in BareMetalHost /\ pc = "associate" /\ wanted \in BareMetalHost
      BY <1>5, <1>a, HostSpecTyped DEF Associate, AttemptInv, FenceInv, TypeOK
    <2>2. \A n \in Names : Phase(n)' = Phase(n)
      <3>1. UNCHANGED <<nc, made, secret, handDeleted>>
        BY <1>5 DEF Associate
      <3>2. Associated(hostCache[req].uid) \/ FailWith("associate")
        BY <1>5 DEF Associate, Call
      <3>3. \A n \in Names : Attempt(n)' <=> Attempt(n)
        BY <1>c, <2>1, <3>2
      <3> QED
        BY <1>b, <3>1, <3>3
    <2>3. Phase(req) \in {"working", "gone", "disturbed"}
      <3>1. pc \in HostPhase /\ pc # "idle"
        BY <2>1 DEF HostPhase
      <3>2. made[req] # 0
        <4>1. made[req] \in Nat /\ config.uid \in Nat
          BY <1>a, ConfigFields DEF AttemptInv, FenceInv, TypeOK, ClusterTypeOK
        <4> QED
          BY <3>1, <4>1 DEF AttemptInv, FenceInv, WorkerOK
      <3>3. Undisturbed(req) /\ nc[req].uid # 0
              => /\ ~ nc[req].ready
                 /\ secret[req] = BootstrapSecret(nc[req].uid)
                 /\ Attempt(req)
        BY <3>1 DEF AttemptInv, AttemptOK, FenceInv, FenceOK, Held
      <3> QED
        BY <3>2, <3>3 DEF Phase
    <2>4. UNCHANGED host \/ host' = [host EXCEPT ![req] = PatchHost(@, h, wanted)]
      BY <1>5 DEF Associate, Call
    <2>5. wanted.userData = h.userData \/ wanted.userData = TRUE
      BY <2>1 DEF SetHostSpec, BareMetalHost
    <2> HIDE DEF h, wanted
    <2>6. CASE host' = [host EXCEPT ![req] = PatchHost(@, h, wanted)]
      <3>1. /\ host'[req] = PatchHost(host[req], h, wanted)
            /\ \A n \in Names \ {req} : host'[n] = host[n]
        BY <1>a, <2>6
      <3>2. host'[req].userData
              = Merge(host[req].userData, h.userData, wanted.userData)
        BY <1>a, <3>1 DEF PatchHost, BareMetalHost
      <3>3. host'[req].userData = host[req].userData
            \/ host'[req].userData = TRUE
        BY <2>5, <3>2 DEF Merge
      <3> QED
        BY <2>2, <2>3, <3>1, <3>3
    <2> QED
      BY <2>4, <2>6
  <1>6. CASE Worker
    <2>1. ASSUME NEW m \in Names, Begin(m) PROVE UNCHANGED host
      BY <2>1 DEF Begin, clusterVars
    <2>2. ASSUME \/ CreateNodeInitConfig \/ FindHost \/ DeleteConfig
                 \/ CheckBMHDetails \/ StoreBMHCredentials \/ PatchMeta
                 \/ PatchStatus \/ Return \/ Die
          PROVE  UNCHANGED host
      BY <2>2 DEF CreateNodeInitConfig, FindHost, DeleteConfig,
                  CheckBMHDetails, StoreBMHCredentials, PatchMeta,
                  PatchStatus, Return, Die, Restart, clusterVars
    <2>3. CASE UNCHANGED host
      BY <2>3
    <2> QED
      BY <1>6, <1>a, <1>3, <1>4, <1>5, <2>1, <2>2, <2>3 DEF Worker
  <1>7. CASE Environment /\ UNCHANGED <<informerVars, queue, pc, localVars,
                                        faults>>
    <2>1. ASSUME NEW m \in Names,
                 \/ CreateConfig(m) \/ EditConfig(m) \/ StripConfig(m)
                 \/ DeleteConfigByHand(m) \/ CollectConfig(m)
                 \/ AdoptCredentials(m)
          PROVE  UNCHANGED host
      BY <2>1 DEF CreateConfig, EditConfig, StripConfig, DeleteConfigByHand,
                  CollectConfig, AdoptCredentials
    <2>2. ASSUME NEW s \in SecretNames,
                 DeleteSecretByHand(s) \/ CollectSecret(s)
          PROVE  UNCHANGED host
      BY <2>2 DEF DeleteSecretByHand, CollectSecret
    <2>3. CASE UNCHANGED host
      BY <2>3
    <2> QED
      BY <1>7, <1>1, <1>2, <1>3, <2>1, <2>2, <2>3
         DEF Environment, User, GarbageCollector, BareMetalOperator
  <1>8. CASE \/ \E m \in Names : SyncConfig(m) \/ SyncHost(m)
             \/ Resync \/ Crash \/ UNCHANGED vars
    <2>1. UNCHANGED host
      BY <1>8 DEF SyncConfig, SyncHost, Resync, Crash, Restart, vars,
                  clusterVars
    <2> QED
      BY <2>1
  <1> QED
    BY <1>6, <1>7, <1>8 DEF Next

\* ImplementsBootstrap: every step of the controller, of its informers and of
\* anybody else is a step of Bootstrap or leaves its state as it is.
THEOREM BootstrapImplemented == Spec => ImplementsBootstrap
  <1> DEFINE phases == [n \in Names |-> Phase(n)]
             given == [n \in Names |-> host[n].userData]
  <1>1. Init => Abstract!Init
    <2> SUFFICES ASSUME Init PROVE Abstract!Init
      OBVIOUS
    <2>1. \A n \in Names : /\ nc[n] = NoConfig /\ host[n] = NoHost
                           /\ made[n] = 0 /\ handDeleted = {}
      BY DEF Init, ClusterInit
    <2>2. ASSUME NEW n \in Names PROVE Phase(n) = "none"
      <3>1. Undisturbed(n)
        BY <2>1 DEF Undisturbed
      <3> QED
        BY <2>1, <3>1, AbsentFields DEF Phase
    <2>3. ASSUME NEW n \in Names PROVE host[n].userData = FALSE
      <3>1. NoHost.userData = FALSE
        BY DEF NoHost
      <3> QED
        BY <2>1, <3>1
    <2> QED
      BY <2>2, <2>3 DEF Abstract!Init
  <1>2. AttemptInv /\ [Next]_vars => [Abstract!Next]_(Abstract!vars)
    <2> SUFFICES ASSUME AttemptInv, [Next]_vars
                 PROVE  Abstract!Next \/ UNCHANGED <<phases, given>>
      BY DEF Abstract!vars
    <2>1. CASE \A n \in Names : host'[n].userData = host[n].userData
      <3>1. UNCHANGED given
        BY <2>1
      <3>2. PICK m \in Names : \A n \in Names \ {m} : Phase(n)' = Phase(n)
        BY FocusStep
      <3>3. \/ UNCHANGED phases
            \/ /\ phases' = [phases EXCEPT ![m] = Phase(m)']
               /\ PhaseMove(Phase(m), Phase(m)')
        <4>1. CASE Phase(m)' = Phase(m)
          BY <3>2, <4>1
        <4>2. phases' = [phases EXCEPT ![m] = Phase(m)']
          BY <3>2
        <4> QED
          BY <4>1, <4>2, PhaseStep
      <3> QED
        BY <3>1, <3>3
           DEF PhaseMove, Abstract!Next, Abstract!Move, Abstract!Create,
               Abstract!Claim, Abstract!Finish, Abstract!Abandon,
               Abstract!Remove, Abstract!Disturb
    <2>2. ASSUME NEW m \in Names,
                 \A n \in Names : Phase(n)' = Phase(n),
                 \A n \in Names \ {m} : host'[n].userData = host[n].userData,
                 \/ host'[m].userData = FALSE
                 \/ /\ host'[m].userData = TRUE
                    /\ Phase(m) \in {"working", "gone", "disturbed"}
          PROVE  Abstract!Next
      <3>1. UNCHANGED phases
        BY <2>2
      <3>2. given' = [given EXCEPT ![m] = host'[m].userData]
        BY <2>2
      <3> QED
        BY <2>2, <3>1, <3>2
           DEF Abstract!Next, Abstract!Configure, Abstract!LoseHost
    <2> QED
      BY <2>1, <2>2, HostDataStep
  <1> QED
    BY <1>1, <1>2, AttemptInvariant, PTL
       DEF Spec, ImplementsBootstrap, Abstract!Spec

=============================================================================

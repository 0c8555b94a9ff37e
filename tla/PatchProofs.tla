---------------------------- MODULE PatchProofs ----------------------------
(***************************************************************************)
(* Proofs about what the operator writes into a NodeConfig, from a copy    *)
(* that may be old: it leaves the spec to its users, and a NodeConfig that *)
(* is Ready carries no message about its host.                             *)
(***************************************************************************)
EXTENDS ReconcilerProofs

-----------------------------------------------------------------------------
(* The spec *)

\* A NodeConfig that does not exist has no spec either.  Without this, the
\* garbage collector could be thought to change the spec of such a one.
AbsentOK == \A n \in Names : nc[n].uid = 0 => nc[n] = NoConfig

\* What a step does to the spec of a NodeConfig.
Appears(n) == nc[n].uid = 0 /\ nc'[n].uid # 0
Vanishes(n) == nc'[n] = NoConfig
SameSpec(n) == nc[n].uid # 0 /\ nc'[n].uid = nc[n].uid
                 /\ nc'[n].image = nc[n].image
ByUser == pc' = pc /\ userOps' # userOps

\* The patches change neither uid nor spec of what is stored.
LEMMA PatchFields ==
  ASSUME NEW c \in NodeConfig
  PROVE  /\ MetaPatched(c).uid = c.uid /\ MetaPatched(c).image = c.image
         /\ StatusPatched(c).uid = c.uid /\ StatusPatched(c).image = c.image
  BY DEF NodeConfig, MetaPatched, StatusPatched

\* The fields of new and absent NodeConfigs, and of one that was edited.
LEMMA SpecFields ==
  /\ NoConfig.uid = 0 /\ NoConfig.owner = 0
  /\ \A uid \in Nat, i \in Images : NewConfig(uid, i).uid = uid
  /\ \A c \in NodeConfig : \A i : [c EXCEPT !.image = i].uid = c.uid
  BY DEF NoConfig, NewConfig, NodeConfig

\* Each step leaves a stored NodeConfig alone or does one of four things to it.
LEMMA SpecStep ==
  ASSUME TypeOK, AbsentOK, [Next]_vars, NEW n \in Names
  PROVE  \/ nc'[n] = nc[n]
         \/ Appears(n) \/ Vanishes(n) \/ SameSpec(n)
         \/ nc[n].uid # 0 /\ nc'[n].uid = nc[n].uid /\ ByUser
  <1>a. /\ nc \in [Names -> NodeConfig]
        /\ made \in [Names -> Nat]
        /\ userOps \in Nat
        /\ req \in Names
    BY DEF TypeOK, ClusterTypeOK
  <1>1. ASSUME NEW m \in Names, CreateConfig(m)
        PROVE  nc'[n] = nc[n] \/ Appears(n)
    <2>1. PICK i \in Images :
            nc' = [nc EXCEPT ![m] = NewConfig(made[m] + 1, i)]
      BY <1>1 DEF CreateConfig
    <2>2. made[m] + 1 \in Nat /\ made[m] + 1 # 0
      BY <1>a
    <2>3. NewConfig(made[m] + 1, i).uid # 0
      BY <2>2, SpecFields
    <2> QED
      BY <1>1, <1>a, <2>1, <2>3 DEF CreateConfig, Appears
  <1>2. ASSUME NEW m \in Names, EditConfig(m) \/ StripConfig(m), pc' = pc
        PROVE  \/ nc'[n] = nc[n]
               \/ nc[n].uid # 0 /\ nc'[n].uid = nc[n].uid /\ ByUser
    <2>1. PICK i : nc' = [nc EXCEPT ![m].image = i]
      BY <1>2 DEF EditConfig, StripConfig
    <2>2. userOps' = userOps + 1 /\ nc[m].uid # 0
      BY <1>2 DEF EditConfig, StripConfig, UserOp
    <2>3. userOps' # userOps
      BY <1>a, <2>2
    <2>4. n = m => nc'[n] = [nc[n] EXCEPT !.image = i]
      BY <1>a, <2>1
    <2>5. n # m => nc'[n] = nc[n]
      BY <1>a, <2>1
    <2>6. nc[n] \in NodeConfig
      BY <1>a
    <2> QED
      BY <1>2, <2>2, <2>3, <2>4, <2>5, <2>6, SpecFields DEF ByUser
  <1>3. ASSUME NEW m \in Names, DeleteConfigByHand(m) \/ CollectConfig(m)
        PROVE  nc'[n] = nc[n] \/ Vanishes(n)
    BY <1>3, <1>a DEF DeleteConfigByHand, CollectConfig, Vanishes
  <1>4. ASSUME DeleteConfig
        PROVE  nc'[n] = nc[n] \/ Vanishes(n)
    BY <1>4, <1>a DEF DeleteConfig, Call, Vanishes
  <1>5. ASSUME PatchMeta
        PROVE  nc'[n] = nc[n] \/ SameSpec(n)
    <2>1. \/ UNCHANGED nc
          \/ nc' = [nc EXCEPT ![req] = MetaPatched(@)] /\ nc[req].uid # 0
      BY <1>5 DEF PatchMeta, Call
    <2> QED
      BY <1>a, <2>1, PatchFields DEF SameSpec
  <1>6. ASSUME PatchStatus
        PROVE  nc'[n] = nc[n] \/ SameSpec(n)
    <2>1. \/ UNCHANGED nc
          \/ nc' = [nc EXCEPT ![req] = StatusPatched(@)] /\ nc[req].uid # 0
      BY <1>6 DEF PatchStatus, Call
    <2> QED
      BY <1>a, <2>1, PatchFields DEF SameSpec
  <1>7. CASE Worker
    <2>1. ASSUME NEW m \in Names, Begin(m) PROVE UNCHANGED nc
      BY <2>1 DEF Begin, clusterVars
    <2>2. ASSUME \/ CreateNodeInitConfig \/ FindHost \/ DeleteHost
                 \/ CheckBMHDetails \/ StoreBMHCredentials
                 \/ CreateBareMetalHost \/ Associate \/ Return \/ Die
          PROVE  UNCHANGED nc
      BY <2>2 DEF CreateNodeInitConfig, FindHost, DeleteHost,
                  CheckBMHDetails, StoreBMHCredentials, CreateBareMetalHost,
                  Associate, Return, Die, Restart, clusterVars
    <2>3. UNCHANGED nc \/ DeleteConfig \/ PatchMeta \/ PatchStatus
      BY <1>7, <2>1, <2>2 DEF Worker
    <2> QED
      BY <1>4, <1>5, <1>6, <2>3
  <1>8. CASE Environment /\ pc' = pc
    <2>1. ASSUME NEW m \in Names,
                 \/ RegisterHost(m) \/ DeleteHostByHand(m)
                 \/ Progress(m) \/ ChangeHealth(m) \/ Finalize(m)
                 \/ AdoptCredentials(m)
          PROVE  UNCHANGED nc
      BY <2>1 DEF RegisterHost, DeleteHostByHand, Progress, ChangeHealth,
                  Finalize, AdoptCredentials
    <2>2. ASSUME NEW s \in SecretNames,
                 DeleteSecretByHand(s) \/ CollectSecret(s)
          PROVE  UNCHANGED nc
      BY <2>2 DEF DeleteSecretByHand, CollectSecret
    <2> QED
      BY <1>8, <1>1, <1>2, <1>3, <2>1, <2>2
         DEF Environment, User, GarbageCollector, BareMetalOperator
  <1>9. CASE \/ \E m \in Names : SyncConfig(m) \/ SyncHost(m)
             \/ Resync \/ Crash \/ UNCHANGED vars
    BY <1>9 DEF SyncConfig, SyncHost, Resync, Crash, Restart, vars,
                clusterVars
  <1> QED
    BY <1>7, <1>8, <1>9 DEF Next

\* SpecUntouched holds of every step: whatever the operator's patches are
\* computed from, only a user changes the spec of a NodeConfig that stays.
THEOREM SpecUntouchedHolds == Spec => SpecUntouched
  <1>1. Init => TypeOK /\ AbsentOK
    BY TypeInit DEF Init, ClusterInit, AbsentOK
  <1>2. TypeOK /\ AbsentOK /\ [Next]_vars => TypeOK' /\ AbsentOK'
    <2> SUFFICES ASSUME TypeOK, AbsentOK, [Next]_vars
                 PROVE  AbsentOK'
      BY TypeStep
    <2>1. ASSUME NEW n \in Names, nc'[n].uid = 0
          PROVE  nc'[n] = NoConfig
      BY <2>1, SpecStep DEF AbsentOK, Appears, Vanishes, SameSpec
    <2> QED
      BY <2>1 DEF AbsentOK
  <1>3. TypeOK /\ AbsentOK /\ [Next]_vars
          => [\A n \in Names : nc'[n].uid = nc[n].uid
                                 /\ nc'[n].image # nc[n].image
                 => pc' = pc /\ userOps' # userOps]_vars
    <2> SUFFICES ASSUME TypeOK, AbsentOK, [Next]_vars, NEW n \in Names,
                        nc'[n].uid = nc[n].uid, nc'[n].image # nc[n].image
                 PROVE  pc' = pc /\ userOps' # userOps
      OBVIOUS
    <2>1. Vanishes(n) => nc[n] = NoConfig
      BY SpecFields DEF AbsentOK, Vanishes
    <2>2. ~ Vanishes(n)
      BY <2>1 DEF Vanishes
    <2> QED
      BY <2>2, SpecStep DEF Appears, SameSpec, ByUser
  <1> QED
    BY <1>1, <1>2, <1>3, PTL DEF Spec, SpecUntouched

-----------------------------------------------------------------------------
(* The message *)

\* A message about the host, which only the attempt leaves that has the Secret.
Report(f) == f \notin {"", "cloudinit"}

\* Where the attempt goes on to Ready.
Promising == {"findHost", "storeCredentials", "createHost", "associate"}

\* A report is stored or cached, or the worker carries one.
Reported(n) ==
  \/ Report(nc[n].failure)
  \/ Report(ncCache[n].failure)
  \/ /\ req = n
     /\ pc # "idle"
     /\ Report(config.failure) \/ Report(before.failure)

\* The NodeConfig has its Secret, which no other attempt gets past, and will
\* not be Ready.
GivenUp(n) ==
  /\ Held(n)
  /\ ~ nc[n].ready
  /\ req = n => pc \notin Promising /\ ~ config.ready

MessageOK ==
  \A n \in Names :
    /\ nc[n].uid = 0 => ~ Report(nc[n].failure)
    /\ ncCache[n].uid = 0 => ~ Report(ncCache[n].failure)
    /\ Undisturbed(n) /\ nc[n].uid # 0 /\ Reported(n) => GivenUp(n)

MessageInv == FenceInv /\ MessageOK

-----------------------------------------------------------------------------
(* MessageInv is an invariant *)

\* A report in the status was there before, or was patched by the worker.
LEMMA ReportStep ==
  ASSUME FenceInv, [Next]_vars, NEW n \in Names
  PROVE  \/ ~ Report(nc'[n].failure)
         \/ /\ nc'[n].uid = nc[n].uid
            /\ \/ Report(nc[n].failure)
               \/ nc[n].uid # 0 /\ n = req /\ pc # "idle" /\ Report(config.failure)
  <1> DEFINE Goal == \/ ~ Report(nc'[n].failure)
                     \/ /\ nc'[n].uid = nc[n].uid
                        /\ \/ Report(nc[n].failure)
                           \/ /\ nc[n].uid # 0 /\ n = req /\ pc # "idle"
                              /\ Report(config.failure)
  <1>a. nc \in [Names -> NodeConfig] /\ nc[n] \in NodeConfig
    BY DEF FenceInv, TypeOK, ClusterTypeOK
  <1>b. ~ Report(NoConfig.failure)
    BY DEF NoConfig, Report
  <1>c. nc'[n] = nc[n] => Goal
    OBVIOUS
  <1>d. nc'[n] = NoConfig => Goal
    BY <1>b
  <1>e. UNCHANGED nc => Goal
    BY <1>c
  <1>1. ASSUME NEW m \in Names, CreateConfig(m) PROVE Goal
    <2>1. PICK i \in Images : nc' = [nc EXCEPT ![m] = NewConfig(made[m] + 1, i)]
      BY <1>1 DEF CreateConfig
    <2>2. ~ Report(NewConfig(made[m] + 1, i).failure)
      BY DEF NewConfig, NoConfig, Report
    <2>3. nc'[n] = NewConfig(made[m] + 1, i) \/ nc'[n] = nc[n]
      BY <1>a, <2>1
    <2> QED
      BY <2>2, <2>3, <1>c
  <1>2. ASSUME NEW m \in Names, EditConfig(m) \/ StripConfig(m) PROVE Goal
    <2>1. PICK i : nc' = [nc EXCEPT ![m].image = i]
      BY <1>2 DEF EditConfig, StripConfig
    <2>2. nc'[n].uid = nc[n].uid /\ nc'[n].failure = nc[n].failure
      BY <1>a, <2>1 DEF NodeConfig
    <2> QED
      BY <2>2
  <1>3. ASSUME NEW m \in Names, DeleteConfigByHand(m) \/ CollectConfig(m)
        PROVE  Goal
    <2>1. nc'[n] = NoConfig \/ nc'[n] = nc[n]
      BY <1>3, <1>a DEF DeleteConfigByHand, CollectConfig
    <2> QED
      BY <2>1, <1>c, <1>d
  <1>4. ASSUME DeleteConfig PROVE Goal
    <2>1. nc'[n] = NoConfig \/ nc'[n] = nc[n]
      BY <1>4, <1>a DEF DeleteConfig, Call
    <2> QED
      BY <2>1, <1>c, <1>d
  <1>5. ASSUME PatchMeta PROVE Goal
    <2>1. UNCHANGED nc \/ nc' = [nc EXCEPT ![req] = MetaPatched(@)]
      BY <1>5 DEF PatchMeta, Call
    <2>2. nc'[n] = nc[n] \/ nc'[n] = MetaPatched(nc[n])
      BY <1>a, <2>1
    <2>3. nc'[n].uid = nc[n].uid /\ nc'[n].failure = nc[n].failure
      BY <1>a, <2>2 DEF MetaPatched, NodeConfig
    <2> QED
      BY <2>3
  <1>6. ASSUME PatchStatus PROVE Goal
    <2>1. \/ UNCHANGED nc
          \/ nc' = [nc EXCEPT ![req] = StatusPatched(@)] /\ nc[req].uid # 0
      BY <1>6 DEF PatchStatus, Call
    <2>2. \/ nc'[n] = nc[n]
          \/ n = req /\ nc'[n] = StatusPatched(nc[n]) /\ nc[n].uid # 0
      BY <1>a, <2>1
    <2>3. /\ StatusPatched(nc[n]).uid = nc[n].uid
          /\ StatusPatched(nc[n]).failure
               = Merge(nc[n].failure, before.failure, config.failure)
      BY <1>a DEF StatusPatched, NodeConfig
    <2>4. Merge(nc[n].failure, before.failure, config.failure)
            \in {nc[n].failure, config.failure}
      BY DEF Merge
    <2>5. pc # "idle"
      BY <1>6 DEF PatchStatus
    <2> QED
      BY <1>c, <2>2, <2>3, <2>4, <2>5
  <1> HIDE DEF Goal
  <1>7. ASSUME Worker PROVE Goal
    <2>1. ASSUME NEW m \in Names, Begin(m) PROVE UNCHANGED nc
      BY <2>1 DEF Begin, clusterVars
    <2>2. ASSUME \/ CreateNodeInitConfig \/ FindHost \/ DeleteHost
                 \/ CheckBMHDetails \/ StoreBMHCredentials
                 \/ CreateBareMetalHost \/ Associate \/ Return \/ Die
          PROVE  UNCHANGED nc
      BY <2>2 DEF CreateNodeInitConfig, FindHost, DeleteHost,
                  CheckBMHDetails, StoreBMHCredentials, CreateBareMetalHost,
                  Associate, Return, Die, Restart, clusterVars
    <2> QED
      BY <1>7, <1>e, <1>4, <1>5, <1>6, <2>1, <2>2 DEF Worker
  <1>8. ASSUME Environment PROVE Goal
    <2>1. ASSUME NEW m \in Names,
                 \/ RegisterHost(m) \/ DeleteHostByHand(m)
                 \/ Progress(m) \/ ChangeHealth(m) \/ Finalize(m)
                 \/ AdoptCredentials(m)
          PROVE  UNCHANGED nc
      BY <2>1 DEF RegisterHost, DeleteHostByHand, Progress, ChangeHealth,
                  Finalize, AdoptCredentials
    <2>2. ASSUME NEW s \in SecretNames,
                 DeleteSecretByHand(s) \/ CollectSecret(s)
          PROVE  UNCHANGED nc
      BY <2>2 DEF DeleteSecretByHand, CollectSecret
    <2> QED
      BY <1>8, <1>e, <1>1, <1>2, <1>3, <2>1, <2>2
         DEF Environment, User, GarbageCollector, BareMetalOperator
  <1>9. ASSUME \/ \E m \in Names : SyncConfig(m) \/ SyncHost(m)
               \/ Resync \/ Crash \/ UNCHANGED vars
        PROVE  Goal
    BY <1>9, <1>e DEF SyncConfig, SyncHost, Resync, Crash, Restart, vars,
                      clusterVars
  <1>10. Goal
    BY <1>7, <1>8, <1>9 DEF Next
  <1> QED
    BY <1>10 DEF Goal

\* How a step changes the message that the worker carries.
Silent == config'.failure \in {config.failure, "", "cloudinit"}
GivesUp ==
  /\ pc \in Promising /\ pc' \notin Promising
  /\ config'.ready = config.ready

\* The worker gets a report from the cache, or gives up when it makes one;
\* and it only gets to where it is promising from there or with the Secret.
LEMMA MessageStep ==
  ASSUME TypeOK, [Next]_vars
  PROVE  /\ Silent \/ GivesUp \/ config' = ncCache[req']
         /\ pc' \in Promising => pc \in Promising \cup {"createInit"}
  <1> DEFINE Goal == /\ Silent \/ GivesUp \/ config' = ncCache[req']
                     /\ pc' \in Promising => pc \in Promising \cup {"createInit"}
  <1>a. config \in NodeConfig
    BY DEF TypeOK
  <1>b. /\ [config EXCEPT !.userData = TRUE].failure = config.failure
        /\ \A f \in Failures :
             /\ [config EXCEPT !.failure = f].failure = f
             /\ [config EXCEPT !.failure = f].ready = config.ready
        /\ \A u : [config EXCEPT !.failure = "", !.owner = u,
                                 !.ready = TRUE].failure = ""
    BY <1>a DEF NodeConfig
  <1>c. UNCHANGED <<pc, localVars>> => Goal
    BY DEF Silent, localVars, Promising
  <1>d. config' = NoConfig => Silent
    <2>1. NoConfig.failure = ""
      BY DEF NoConfig
    <2> QED
      BY <2>1 DEF Silent
  <1>e. pc' \in {"idle", "deferMeta"} => pc' \notin Promising
    BY DEF Promising
  <1>f. ASSUME NEW f \in Failures, FailWith(f), pc \in Promising PROVE Goal
    BY <1>f, <1>b, <1>e DEF FailWith, GivesUp
  <1>g. Fail \/ Panic => Goal
    BY <1>e DEF Fail, Panic, Silent
  <1>h. \A step : Goto(step) /\ (pc \in Promising \/ step \notin Promising)
                    => Goal
    BY DEF Goto, localVars, Silent
  <1>i. Restart => Goal
    BY <1>d, <1>e DEF Restart
  <1>1. ASSUME Worker PROVE Goal
    <2>1. ASSUME NEW m \in Names, Begin(m) PROVE Goal
      <3>1. CASE UNCHANGED <<pc, localVars>>
        BY <3>1, <1>c
      <3>2. CASE req' = m /\ config' = ncCache[m] /\ pc' = "createInit"
        BY <3>2 DEF Promising
      <3> QED
        BY <2>1, <3>1, <3>2 DEF Begin
    <2>2. ASSUME CreateNodeInitConfig PROVE Goal
      <3>1. CASE FailWith("cloudinit")
        BY <3>1, <1>b, <1>e, StepsTyped DEF FailWith, Silent
      <3>2. CASE config' = [config EXCEPT !.userData = TRUE]
        BY <2>2, <3>2, <1>b DEF CreateNodeInitConfig, Silent
      <3> QED
        BY <2>2, <3>1, <3>2 DEF CreateNodeInitConfig, Call
    <2>3. ASSUME FindHost PROVE Goal
      <3>1. pc \in Promising
        BY <2>3 DEF FindHost, Promising
      <3>2. CASE /\ config' = [config EXCEPT !.failure = "unavailable"]
                 /\ pc' = "deleteHost"
        BY <3>1, <3>2, <1>b, StepsTyped DEF GivesUp, Promising
      <3>3. CASE Goto("storeCredentials") \/ Goto("associate")
        BY <3>1, <3>3, <1>h
      <3> QED
        BY <2>3, <3>2, <3>3 DEF FindHost
    <2>4. ASSUME DeleteHost \/ DeleteConfig PROVE Goal
      <3>1. Fail \/ Goto("deleteConfig") \/ Goto("deferMeta")
        BY <2>4 DEF DeleteHost, DeleteConfig, Call
      <3> QED
        BY <3>1, <1>g, <1>h DEF Promising
    <2>5. ASSUME CheckBMHDetails PROVE Goal
      BY <2>5, <1>g DEF CheckBMHDetails
    <2>6. ASSUME StoreBMHCredentials \/ CreateBareMetalHost PROVE Goal
      <3>1. pc \in Promising
        BY <2>6 DEF StoreBMHCredentials, CreateBareMetalHost, Promising
      <3>2. FailWith("create") \/ Goto("createHost") \/ Goto("associate")
        BY <2>6 DEF StoreBMHCredentials, CreateBareMetalHost, Call
      <3> QED
        BY <3>1, <3>2, <1>f, <1>h, StepsTyped
    <2>7. ASSUME Associate PROVE Goal
      <3>1. pc \in Promising
        BY <2>7 DEF Associate, Promising
      <3>2. FailWith("associate") \/ Associated(hostCache[req].uid)
        BY <2>7 DEF Associate, Call
      <3>3. Associated(hostCache[req].uid) => Goal
        BY <1>b, <3>1 DEF Associated, Silent
      <3> QED
        BY <3>1, <3>2, <3>3, <1>f, StepsTyped
    <2>8. ASSUME PatchMeta \/ PatchStatus PROVE Goal
      <3>1. pc' = AfterPatch(pc) /\ config' = config
        BY <2>8 DEF PatchMeta, PatchStatus, Call, PatchDone
      <3>2. pc \in {"patchMeta", "patchStatus", "deferMeta", "deferStatus"}
        BY <2>8 DEF PatchMeta, PatchStatus
      <3> QED
        BY <3>1, <3>2 DEF AfterPatch, Promising, Silent
    <2>9. ASSUME Return \/ Die PROVE Goal
      BY <2>9, <1>d, <1>e, <1>i DEF Return, Die
    <2> HIDE DEF Goal
    <2> QED
      BY <1>1, <2>1, <2>2, <2>3, <2>4, <2>5, <2>6, <2>7, <2>8, <2>9 DEF Worker
  <1>2. Crash => Goal
    BY <1>i DEF Crash
  <1>3. ASSUME \/ \E m \in Names : SyncConfig(m) \/ SyncHost(m)
               \/ Resync \/ UNCHANGED vars
               \/ UNCHANGED <<informerVars, queue, pc, localVars, faults>>
        PROVE  UNCHANGED <<pc, localVars>>
    BY <1>3 DEF SyncConfig, SyncHost, Resync, vars, localVars
  <1> HIDE DEF Goal
  <1>4. Goal
    BY <1>1, <1>2, <1>3, <1>c DEF Next
  <1> QED
    BY <1>4 DEF Goal

\* Who carries a report after a step carried one before, or gives up in it.
LEMMA ReportedStep ==
  ASSUME MessageInv, [Next]_vars, NEW n \in Names, Kept(n), nc[n].uid # 0,
         Reported(n)'
  PROVE  Reported(n) \/ (n = req /\ req' = req /\ GivesUp)
  <1>a. FenceInv /\ TypeOK /\ WorkerOK
    BY DEF MessageInv, FenceInv
  <1>1. CASE Report(nc'[n].failure)
    BY <1>1, <1>a, ReportStep DEF Reported
  <1>2. CASE Report(ncCache'[n].failure)
    BY <1>2, <1>a, CacheStep DEF Reported
  <1>3. CASE /\ req' = n /\ pc' # "idle"
             /\ Report(config'.failure) \/ Report(before'.failure)
    <2>1. CASE Begun
      BY <1>3, <2>1 DEF Begun, Reported
    <2>2. CASE Fenced \/ Continued
      <3>1. req' = req /\ before' = before /\ pc # "idle"
        BY <1>3, <2>2 DEF Fenced, Continued
      <3>2. CASE Report(before'.failure)
        BY <1>3, <3>1, <3>2 DEF Reported
      <3>3. CASE Report(config'.failure) /\ Silent
        <4>1. config'.failure = config.failure
          BY <3>3 DEF Silent, Report
        <4> QED
          BY <1>3, <3>1, <3>3, <4>1 DEF Reported
      <3>4. CASE Report(config'.failure) /\ config' = ncCache[req']
        BY <1>3, <3>4 DEF Reported
      <3> QED
        BY <1>3, <1>a, <3>1, <3>2, <3>3, <3>4, MessageStep
    <2>3. ~ Ended
      BY <1>3 DEF Ended
    <2> QED
      BY <1>a, <2>1, <2>2, <2>3, WorkerStep
  <1> QED
    BY <1>1, <1>2, <1>3 DEF Reported

\* Who gave up stays there.
LEMMA GivenUpStep ==
  ASSUME FenceInv, [Next]_vars, NEW n \in Names, Kept(n), nc[n].uid # 0,
         Undisturbed(n)', GivenUp(n)
  PROVE  GivenUp(n)'
  <1>1. Held(n)'
    BY HeldStep DEF GivenUp
  <1>2. ~ nc'[n].ready
    BY DEF Kept, GivenUp
  <1>3. ASSUME req' = n
        PROVE  pc' \notin Promising /\ ~ config'.ready
    <2>1. CASE Ended
      BY <2>1, AbsentFields DEF Ended, Promising
    <2>2. CASE Begun
      BY <2>2 DEF Begun, Promising
    <2>3. ~ Fenced
      <3>1. req = n => secret[req] # NoSecret
        BY AbsentFields DEF GivenUp, Held
      <3> QED
        BY <1>3, <3>1 DEF Fenced
    <2>4. CASE Continued
      <3>1. pc \notin Promising /\ ~ config.ready
        BY <1>3, <2>4 DEF Continued, GivenUp
      <3>2. pc' \notin Promising
        BY <2>4, <3>1, MessageStep
           DEF Continued, FenceInv, Promising, HostPhase
      <3>3. ~ config'.ready
        BY <2>4, <3>1 DEF Continued, Promising
      <3> QED
        BY <3>2, <3>3
    <2> QED
      BY <2>1, <2>2, <2>3, <2>4, WorkerStep DEF FenceInv
  <1> QED
    BY <1>1, <1>2, <1>3 DEF GivenUp

\* Nobody reports about a NodeConfig that was just created.
LEMMA NothingReported ==
  ASSUME MessageInv, [Next]_vars, NEW n \in Names, Created(n),
         Undisturbed(n)'
  PROVE  ~ Reported(n)'
  <1>a. FenceInv /\ TypeOK /\ WorkerOK /\ UidsOK
    BY DEF MessageInv, FenceInv
  <1>b. made[n] = 0 /\ nc[n].uid = 0 /\ ncCache[n].uid = 0
    <2>1. made[n] \in Nat /\ ncCache[n].uid \in Nat
      BY <1>a, ConfigFields DEF TypeOK, ClusterTypeOK
    <2> QED
      BY <1>a, <2>1 DEF Created, Undisturbed, UidsOK
  <1>1. ~ Report(nc'[n].failure)
    <2>1. nc'[n].uid # nc[n].uid
      BY <1>b DEF Created
    <2> QED
      BY <1>a, <2>1, ReportStep
  <1>2. ~ Report(ncCache'[n].failure)
    BY <1>a, <1>b, CacheStep DEF MessageInv, MessageOK
  <1>3. ~ (req' = n /\ pc' # "idle")
    <2>1. made' # made
      BY <1>b DEF Created
    <2>2. ~ Begun /\ ~ Fenced
      BY <2>1 DEF Begun, Fenced, clusterVars
    <2>3. req = n => pc = "idle"
      <3>1. config.uid \in Nat
        BY <1>a, ConfigFields DEF TypeOK
      <3> QED
        BY <1>a, <1>b, <3>1 DEF WorkerOK
    <2> QED
      BY <1>a, <2>2, <2>3, WorkerStep DEF Ended, Continued
  <1> QED
    BY <1>1, <1>2, <1>3 DEF Reported

\* Every step leaves MessageInv.
LEMMA MessageInvStep ==
  ASSUME MessageInv, [Next]_vars
  PROVE  MessageOK'
  <1>a. FenceInv /\ TypeOK /\ WorkerOK /\ FenceOK
    BY DEF MessageInv, FenceInv
  <1>b. ASSUME NEW n \in Names, Undisturbed(n)' PROVE Undisturbed(n)
    <2>1. made[n] \in Nat /\ made'[n] \in Nat
      BY <1>a, TypeStep DEF TypeOK, ClusterTypeOK
    <2> QED
      BY <1>a, <1>b, <2>1, HistoryStep DEF Undisturbed
  <1> SUFFICES ASSUME NEW n \in Names
               PROVE  /\ nc'[n].uid = 0 => ~ Report(nc'[n].failure)
                      /\ ncCache'[n].uid = 0 => ~ Report(ncCache'[n].failure)
                      /\ Undisturbed(n)' /\ nc'[n].uid # 0 /\ Reported(n)'
                           => GivenUp(n)'
    BY DEF MessageOK
  <1>1. nc'[n].uid = 0 => ~ Report(nc'[n].failure)
    BY <1>a, ReportStep DEF MessageInv, MessageOK
  <1>2. ncCache'[n].uid = 0 => ~ Report(ncCache'[n].failure)
    BY <1>a, CacheStep DEF MessageInv, MessageOK
  <1>3. ASSUME Undisturbed(n)', nc'[n].uid # 0, Reported(n)'
        PROVE  GivenUp(n)'
    <2>1. Kept(n) /\ nc[n].uid # 0
      <3>1. ~ Created(n)
        BY <1>3, NothingReported
      <3>2. ~ Deleted(n)
        BY <1>3, AbsentFields DEF Deleted
      <3> QED
        BY <1>3, <1>a, <3>1, <3>2, ConfigStep DEF WorkerOK, Kept
    <2>2. CASE Reported(n)
      <3>1. GivenUp(n)
        BY <1>b, <1>3, <2>1, <2>2 DEF MessageInv, MessageOK
      <3> QED
        BY <1>a, <1>3, <2>1, <3>1, GivenUpStep
    <2>3. CASE n = req /\ req' = req /\ GivesUp
      <3>1. Held(n) /\ ~ nc[n].ready /\ ~ config.ready
        BY <1>a, <1>b, <1>3, <2>3
           DEF GivesUp, FenceOK, WorkerOK, Promising, HostPhase, PatchPhase
      <3>2. Held(n)'
        BY <1>a, <1>3, <2>1, <3>1, HeldStep
      <3>3. ~ nc'[n].ready
        BY <2>1, <3>1 DEF Kept
      <3> QED
        BY <2>3, <3>1, <3>2, <3>3 DEF GivenUp, GivesUp
    <2> QED
      BY <1>3, <2>1, <2>2, <2>3, ReportedStep
  <1> QED
    BY <1>1, <1>2, <1>3

\* MessageInv is an invariant.
LEMMA MessageInvariant == Spec => []MessageInv
  <1>1. Init => MessageOK
    <2> SUFFICES ASSUME Init PROVE MessageOK
      OBVIOUS
    <2>1. /\ pc = "idle"
          /\ \A n \in Names : nc[n] = NoConfig /\ ncCache[n] = NoConfig
      BY DEF Init, ClusterInit
    <2>2. NoConfig.uid = 0 /\ ~ Report(NoConfig.failure)
      BY DEF NoConfig, Report
    <2> QED
      BY <2>1, <2>2 DEF MessageOK
  <1>2. MessageOK /\ FenceInv /\ [Next]_vars => MessageOK'
    BY MessageInvStep DEF MessageInv
  <1> QED
    BY <1>1, <1>2, FenceInvariant, PTL DEF Spec, MessageInv

\* ReadyMessage holds in every state: what is Ready carries no message about
\* its host, since whoever leaves one has given up an attempt, and with the
\* Secret that this attempt created there is no other one.
THEOREM ReadyMessageHolds == Spec => []ReadyMessage
  <1>1. MessageInv => ReadyMessage
    <2> SUFFICES ASSUME MessageInv, NEW n \in Names, Undisturbed(n),
                        nc[n].ready
                 PROVE  nc[n].failure \in {"", "cloudinit"}
      BY DEF ReadyMessage
    <2>1. nc[n].uid # 0
      BY DEF MessageInv, FenceInv, UidsOK
    <2>2. ~ Reported(n)
      BY <2>1 DEF MessageInv, MessageOK, GivenUp
    <2> QED
      BY <2>2 DEF Reported, Report
  <1> QED
    BY <1>1, MessageInvariant, PTL

=============================================================================

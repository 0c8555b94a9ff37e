----------------------------- MODULE HostProofs -----------------------------
(***************************************************************************)
(* Proofs that the host of a NodeConfig was configured, where users leave  *)
(* NodeConfigs their specs.                                                *)
(***************************************************************************)
EXTENDS ReconcilerProofs

Configured(h) == h.image # NoImage /\ h.userData

\* The host of this uid is configured, if it is still there.
Given(n, u) ==
  /\ u # 0
  /\ u <= hostMade[n]
  /\ host[n].uid = u => Configured(host[n])

\* Uids of hosts do not come out of nothing either.
HostUidsOK ==
  \A n \in Names : host[n].uid <= hostMade[n] /\ hostCache[n].uid <= hostMade[n]

\* What the cache shows of a host that is still there is not taken back.
HostCacheOK ==
  \A n \in Names :
    hostCache[n].uid # 0 /\ hostCache[n].uid = host[n].uid
      => /\ hostCache[n].image # NoImage => host[n].image # NoImage
         /\ hostCache[n].userData => host[n].userData

\* Every NodeConfig has a spec, as it is stored, cached and worked on.
ImagesOK ==
  /\ \A n \in Names : /\ nc[n].uid # 0 => nc[n].image # NoImage
                      /\ ncCache[n].uid # 0 => ncCache[n].image # NoImage
  /\ pc # "idle" => config.image # NoImage

\* The worker that looks for a host has a Secret to refer to.
DataOK == pc \in HostPhase => config.userData

\* A host is configured before it is named as an owner, and before Ready.
OwnersOK ==
  /\ \A n \in Names : /\ nc[n].owner # 0 => Given(n, nc[n].owner)
                      /\ ncCache[n].owner # 0 => Given(n, ncCache[n].owner)
                      /\ nc[n].ready => \E u \in Nat : Given(n, u)
  /\ config.owner # 0 => Given(req, config.owner)
  /\ config.ready => config.owner # 0

HostInv ==
  TypeOK /\ WorkerOK /\ HostUidsOK /\ HostCacheOK /\ ImagesOK /\ DataOK
  /\ OwnersOK

-----------------------------------------------------------------------------
(* What a step does to a host *)

HostKept(n) ==
  /\ host'[n].uid = host[n].uid
  /\ hostMade'[n] = hostMade[n]
  /\ host[n].image # NoImage => host'[n].image # NoImage
  /\ host[n].userData => host'[n].userData

HostGone(n) == host'[n] = NoHost /\ hostMade'[n] = hostMade[n]

HostMade(n) ==
  /\ host'[n].uid = hostMade[n] + 1
  /\ hostMade'[n] = hostMade[n] + 1

\* The fields of the specification the host is to have.
LEMMA HostSpecFields ==
  ASSUME NEW h \in BareMetalHost, NEW c \in NodeConfig,
         c.image # NoImage, c.userData
  PROVE  /\ SetHostSpec(h, c).image = c.image
         /\ SetHostSpec(h, c).userData = TRUE
  BY DEF SetHostSpec, BareMetalHost

\* A patch keeps a host what it is, and configures it if its copy was right.
LEMMA HostPatchFields ==
  ASSUME NEW s \in BareMetalHost, NEW h \in BareMetalHost,
         NEW a \in BareMetalHost, a.image # NoImage, a.userData = TRUE
  PROVE  LET p == PatchHost(s, h, a)
         IN  /\ p.uid = s.uid
             /\ s.image # NoImage => p.image # NoImage
             /\ s.userData => p.userData
             /\ /\ h.image # NoImage => s.image # NoImage
                /\ h.userData => s.userData
                => Configured(p)
  <1> DEFINE p == PatchHost(s, h, a)
  <1>1. /\ p.uid = s.uid
        /\ p.image = Merge(s.image, h.image, a.image)
        /\ p.userData = Merge(s.userData, h.userData, a.userData)
    BY DEF PatchHost, BareMetalHost
  <1>2. (p.image = s.image /\ h.image = a.image) \/ p.image = a.image
    BY <1>1 DEF Merge
  <1>3. \/ p.userData = s.userData /\ h.userData = a.userData
        \/ p.userData = a.userData
    BY <1>1 DEF Merge
  <1> HIDE DEF p
  <1>4. /\ p.uid = s.uid
        /\ s.image # NoImage => p.image # NoImage
        /\ s.userData => p.userData
        /\ /\ h.image # NoImage => s.image # NoImage
           /\ h.userData => s.userData
           => Configured(p)
    BY <1>1, <1>2, <1>3 DEF Configured
  <1> QED
    BY <1>4 DEF p

\* What a step can do to the host of a name.
LEMMA HostStep ==
  ASSUME HostInv, [Next]_vars, NEW n \in Names
  PROVE  HostKept(n) \/ HostGone(n) \/ HostMade(n)
  <1>a. /\ host \in [Names -> BareMetalHost]
        /\ hostMade \in [Names -> Nat]
        /\ req \in Names
    BY DEF HostInv, TypeOK, ClusterTypeOK
  <1>c. UNCHANGED <<host, hostMade>> => HostKept(n)
    BY DEF HostKept
  <1>1. ASSUME NEW m \in Names, RegisterHost(m)
        PROVE  HostMade(n) \/ HostKept(n)
    <2>1. PICK i, on : host' = [host EXCEPT ![m] = NewHost(hostMade[m] + 1,
                                                           i, on)]
      BY <1>1 DEF RegisterHost
    <2>2. NewHost(hostMade[m] + 1, i, on).uid = hostMade[m] + 1
      BY DEF NewHost, NoHost
    <2>3. CASE n = m
      BY <1>1, <1>a, <2>1, <2>2, <2>3 DEF RegisterHost, HostMade
    <2>4. CASE n # m
      BY <1>1, <1>a, <2>1, <2>4 DEF RegisterHost, HostKept
    <2> QED
      BY <2>3, <2>4
  <1>2. ASSUME NEW m \in Names,
               DeleteHostByHand(m) \/ Progress(m) \/ ChangeHealth(m)
        PROVE  HostKept(n)
    <2>1. \/ host' = [host EXCEPT ![m].deleting = TRUE]
          \/ \E s : host' = [host EXCEPT ![m].state = s]
          \/ host' = [host EXCEPT ![m].ok = ~ @]
      BY <1>2 DEF DeleteHostByHand, Progress, ChangeHealth
    <2>2. /\ host'[n].uid = host[n].uid /\ host'[n].image = host[n].image
          /\ host'[n].userData = host[n].userData
      BY <1>a, <2>1 DEF BareMetalHost
    <2>3. UNCHANGED hostMade
      BY <1>2 DEF DeleteHostByHand, Progress, ChangeHealth
    <2> QED
      BY <2>2, <2>3 DEF HostKept
  <1>3. ASSUME NEW m \in Names, Finalize(m)
        PROVE  HostGone(n) \/ HostKept(n)
    BY <1>3, <1>a DEF Finalize, HostGone, HostKept
  <1>4. ASSUME DeleteHost PROVE HostKept(n)
    <2>1. CASE host' = [host EXCEPT ![req].deleting = TRUE]
      <3>1. /\ host'[n].uid = host[n].uid /\ host'[n].image = host[n].image
            /\ host'[n].userData = host[n].userData
        BY <1>a, <2>1 DEF BareMetalHost
      <3> QED
        BY <1>4, <3>1 DEF DeleteHost, HostKept
    <2> QED
      BY <1>4, <1>c, <2>1 DEF DeleteHost, Call
  <1>5. ASSUME CreateBareMetalHost PROVE HostMade(n) \/ HostKept(n)
    <2>1. CASE /\ host' = [host EXCEPT ![req] = NewHost(hostMade[req] + 1,
                                                       NoImage, FALSE)]
               /\ hostMade' = [hostMade EXCEPT ![req] = hostMade[req] + 1]
      <3>1. NewHost(hostMade[req] + 1, NoImage, FALSE).uid = hostMade[req] + 1
        BY DEF NewHost, NoHost
      <3> QED
        BY <1>a, <2>1, <3>1 DEF HostMade, HostKept
    <2> QED
      BY <1>5, <1>c, <2>1 DEF CreateBareMetalHost, Call
  <1>6. ASSUME Associate PROVE HostKept(n)
    <2> DEFINE h == hostCache[req]
               wanted == SetHostSpec(h, config)
    <2>1. h \in BareMetalHost /\ config \in NodeConfig /\ pc = "associate"
      BY <1>6, <1>a DEF HostInv, TypeOK, Associate
    <2>2. config.image # NoImage /\ config.userData
      BY <2>1 DEF HostInv, ImagesOK, DataOK, HostPhase
    <2>3. /\ wanted \in BareMetalHost
          /\ wanted.image # NoImage /\ wanted.userData = TRUE
      BY <2>1, <2>2, HostSpecTyped, HostSpecFields
    <2>4. UNCHANGED hostMade
          /\ (UNCHANGED host
              \/ host' = [host EXCEPT ![req] = PatchHost(@, h, wanted)])
      BY <1>6 DEF Associate, Call
    <2> HIDE DEF h, wanted
    <2>5. CASE host' = [host EXCEPT ![req] = PatchHost(@, h, wanted)]
      <3>1. host[req] \in BareMetalHost
        BY <1>a
      <3>2. LET p == PatchHost(host[req], h, wanted)
            IN  /\ p.uid = host[req].uid
                /\ host[req].image # NoImage => p.image # NoImage
                /\ host[req].userData => p.userData
        BY <2>1, <2>3, <3>1, HostPatchFields
      <3> QED
        BY <1>a, <2>4, <2>5, <3>2 DEF HostKept
    <2> QED
      BY <1>c, <2>4, <2>5
  <1>7. CASE Worker
    <2>1. ASSUME NEW m \in Names, Begin(m) PROVE UNCHANGED <<host, hostMade>>
      BY <2>1 DEF Begin, clusterVars
    <2>2. ASSUME \/ CreateNodeInitConfig \/ FindHost \/ DeleteConfig
                 \/ CheckBMHDetails \/ StoreBMHCredentials \/ PatchMeta
                 \/ PatchStatus \/ Return \/ Die
          PROVE  UNCHANGED <<host, hostMade>>
      BY <2>2 DEF CreateNodeInitConfig, FindHost, DeleteConfig,
                  CheckBMHDetails, StoreBMHCredentials, PatchMeta,
                  PatchStatus, Return, Die, Restart, clusterVars
    <2> QED
      BY <1>7, <1>c, <1>4, <1>5, <1>6, <2>1, <2>2 DEF Worker
  <1>8. CASE Environment
    <2>1. ASSUME NEW m \in Names,
                 \/ CreateConfig(m) \/ EditConfig(m) \/ StripConfig(m)
                 \/ DeleteConfigByHand(m) \/ CollectConfig(m)
                 \/ AdoptCredentials(m)
          PROVE  UNCHANGED <<host, hostMade>>
      BY <2>1 DEF CreateConfig, EditConfig, StripConfig, DeleteConfigByHand,
                  CollectConfig, AdoptCredentials
    <2>2. ASSUME NEW s \in SecretNames,
                 DeleteSecretByHand(s) \/ CollectSecret(s)
          PROVE  UNCHANGED <<host, hostMade>>
      BY <2>2 DEF DeleteSecretByHand, CollectSecret
    <2> QED
      BY <1>8, <1>c, <1>1, <1>2, <1>3, <2>1, <2>2
         DEF Environment, User, GarbageCollector, BareMetalOperator
  <1>9. CASE \/ \E m \in Names : SyncConfig(m) \/ SyncHost(m)
             \/ Resync \/ Crash \/ UNCHANGED vars
    BY <1>9, <1>c DEF SyncConfig, SyncHost, Resync, Crash, Restart, vars,
                      clusterVars
  <1> QED
    BY <1>7, <1>8, <1>9 DEF Next

\* What was given to a host stays with it, and hosts that come are others.
LEMMA GivenStep ==
  ASSUME HostInv, [Next]_vars, NEW n \in Names, NEW u \in Nat, Given(n, u)
  PROVE  Given(n, u)'
  <1>1. /\ hostMade[n] \in Nat
        /\ u <= hostMade[n]
        /\ u # 0
        /\ host[n].uid = u => Configured(host[n])
    BY DEF HostInv, TypeOK, ClusterTypeOK, Given
  <1>2. NoHost.uid = 0
    BY DEF NoHost
  <1>3. CASE HostKept(n)
    BY <1>1, <1>3 DEF HostKept, Given, Configured
  <1>4. CASE HostGone(n)
    BY <1>1, <1>2, <1>4 DEF HostGone, Given
  <1>5. CASE HostMade(n)
    <2>1. u <= hostMade[n] + 1 /\ u # hostMade[n] + 1
      BY <1>1
    <2> QED
      BY <1>1, <1>5, <2>1 DEF HostMade, Given
  <1> QED
    BY <1>3, <1>4, <1>5, HostStep


\* A host that was associated is given its configuration by that step.
LEMMA AssociateStep ==
  ASSUME HostInv, [Next]_vars, Associate, Associated(hostCache[req].uid),
         NEW n, n = req, NEW u, u = hostCache[req].uid
  PROVE  Given(n, u)'
  <1> DEFINE h == hostCache[n]
             wanted == SetHostSpec(h, config)
  <1>a. /\ h \in BareMetalHost /\ config \in NodeConfig /\ n \in Names
        /\ host \in [Names -> BareMetalHost] /\ hostMade[n] \in Nat
        /\ h.uid = u /\ u \in Nat
    BY HostFields DEF HostInv, TypeOK, ClusterTypeOK
  <1>b. config.image # NoImage /\ config.userData
    BY DEF Associate, HostInv, ImagesOK, DataOK, HostPhase
  <1>c. /\ wanted \in BareMetalHost
        /\ wanted.image # NoImage /\ wanted.userData = TRUE
    BY <1>a, <1>b, HostSpecTyped, HostSpecFields
  <1>d. ~ FailWith("associate")
    BY DEF Associated, FailWith
  <1>e. /\ u # 0
        /\ UNCHANGED hostMade
        /\ \/ wanted = h /\ UNCHANGED host
           \/ host' = [host EXCEPT ![n] = PatchHost(@, h, wanted)]
    BY <1>d DEF Associate, Call
  <1>f. /\ u <= hostMade[n]
        /\ u = host[n].uid
             => /\ h.image # NoImage => host[n].image # NoImage
                /\ h.userData => host[n].userData
    BY <1>a, <1>e DEF HostInv, HostUidsOK, HostCacheOK
  <1> HIDE DEF h, wanted
  <1>1. CASE wanted = h /\ UNCHANGED host
    BY <1>1, <1>c, <1>e, <1>f DEF Given, Configured
  <1>2. CASE host' = [host EXCEPT ![n] = PatchHost(@, h, wanted)]
    <2>1. LET p == PatchHost(host[n], h, wanted)
          IN  /\ p.uid = host[n].uid
              /\ /\ h.image # NoImage => host[n].image # NoImage
                 /\ h.userData => host[n].userData
                 => Configured(p)
      BY <1>a, <1>c, HostPatchFields
    <2>2. host'[n] = PatchHost(host[n], h, wanted)
      BY <1>a, <1>2
    <2>3. host'[n].uid = host[n].uid
      BY <2>1, <2>2
    <2>4. host'[n].uid = u => Configured(host'[n])
      BY <2>1, <2>2, <2>3, <1>f
    <2> QED
      BY <1>e, <1>f, <2>4 DEF Given, Configured
  <1> QED
    BY <1>1, <1>2, <1>e

-----------------------------------------------------------------------------
(* What a step does to a NodeConfig and to the worker *)

\* It is new, or gone, or another one.
Blank(n) ==
  /\ nc'[n].owner = 0
  /\ ~ nc'[n].ready
  /\ nc'[n].uid # 0 => nc'[n].image # NoImage

Changed(n) ==
  /\ nc'[n].uid = nc[n].uid
  /\ nc[n].image # NoImage => nc'[n].image # NoImage
  /\ nc'[n].owner # nc[n].owner => n = req /\ nc'[n].owner = config.owner
  /\ nc'[n].ready /\ ~ nc[n].ready => n = req /\ config.ready

\* The worker goes on with its request.
Worked ==
  /\ req' = req
  /\ config'.image = config.image
  /\ pc' # "idle" => pc # "idle"
  /\ pc' \in HostPhase
       => \/ config'.userData
          \/ pc \in HostPhase /\ config'.userData = config.userData
  /\ \/ config'.owner = config.owner /\ config'.ready = config.ready
     \/ \E u \in Nat : config'.owner = u /\ Given(req, u)'

LEMMA ChangedFields ==
  ASSUME NEW c \in NodeConfig
  PROVE  /\ LET d == MetaPatched(c)
            IN  /\ d.uid = c.uid /\ d.image = c.image /\ d.ready = c.ready
                /\ d.owner = Merge(c.owner, before.owner, config.owner)
         /\ LET d == StatusPatched(c)
            IN  /\ d.uid = c.uid /\ d.image = c.image /\ d.owner = c.owner
                /\ d.ready = Merge(c.ready, before.ready, config.ready)
  BY DEF NodeConfig, MetaPatched, StatusPatched

\* What a step can do to the NodeConfig of a name, when none loses its spec.
LEMMA OwnerStep ==
  ASSUME "strip" \notin UserMoves, HostInv, [Next]_vars, NEW n \in Names
  PROVE  Blank(n) \/ Changed(n)
  <1>a. nc \in [Names -> NodeConfig] /\ made \in [Names -> Nat]
    BY DEF HostInv, TypeOK, ClusterTypeOK
  <1>b. NoConfig.owner = 0 /\ ~ NoConfig.ready /\ NoConfig.uid = 0
    BY DEF NoConfig
  <1>c. UNCHANGED nc => Changed(n)
    BY DEF Changed
  <1>d. nc'[n] = nc[n] => Changed(n)
    BY DEF Changed
  <1>e. nc'[n] = NoConfig => Blank(n)
    BY <1>b DEF Blank
  <1>1. ASSUME NEW m \in Names, CreateConfig(m)
        PROVE  Blank(n) \/ Changed(n)
    <2>1. PICK i \in Images : nc' = [nc EXCEPT ![m] = NewConfig(made[m] + 1, i)]
      BY <1>1 DEF CreateConfig
    <2>2. /\ NewConfig(made[m] + 1, i).owner = 0
          /\ ~ NewConfig(made[m] + 1, i).ready
          /\ NewConfig(made[m] + 1, i).image # NoImage
      BY ClusterAssumption DEF NewConfig, NoConfig, ClusterAssumption
    <2>3. nc'[n] = NewConfig(made[m] + 1, i) \/ nc'[n] = nc[n]
      BY <1>a, <2>1
    <2> QED
      BY <1>d, <2>2, <2>3 DEF Blank
  <1>2. ASSUME NEW m \in Names, EditConfig(m) PROVE Changed(n)
    <2>1. PICK i \in Images : nc' = [nc EXCEPT ![m].image = i]
      BY <1>2 DEF EditConfig
    <2>2. i # NoImage
      BY ClusterAssumption DEF ClusterAssumption
    <2>3. nc[n] \in NodeConfig
      BY <1>a
    <2>4. nc'[n] = [nc[n] EXCEPT !.image = i] \/ nc'[n] = nc[n]
      BY <1>a, <2>1
    <2>5. /\ nc'[n].uid = nc[n].uid /\ nc'[n].owner = nc[n].owner
          /\ nc'[n].ready = nc[n].ready
          /\ nc'[n].image = i \/ nc'[n].image = nc[n].image
      BY <2>3, <2>4 DEF NodeConfig
    <2> QED
      BY <2>2, <2>5 DEF Changed
  <1>3. ASSUME NEW m \in Names PROVE ~ StripConfig(m)
    BY DEF StripConfig, UserOp
  <1>4. ASSUME NEW m \in Names, DeleteConfigByHand(m) \/ CollectConfig(m)
        PROVE  Blank(n) \/ Changed(n)
    <2>1. nc'[n] = NoConfig \/ nc'[n] = nc[n]
      BY <1>4, <1>a DEF DeleteConfigByHand, CollectConfig
    <2> QED
      BY <2>1, <1>d, <1>e
  <1>5. ASSUME DeleteConfig PROVE Blank(n) \/ Changed(n)
    <2>1. nc'[n] = NoConfig \/ nc'[n] = nc[n]
      BY <1>5, <1>a DEF DeleteConfig, Call
    <2> QED
      BY <2>1, <1>d, <1>e
  <1>6. ASSUME PatchMeta PROVE Changed(n)
    <2>1. UNCHANGED nc \/ nc' = [nc EXCEPT ![req] = MetaPatched(@)]
      BY <1>6 DEF PatchMeta, Call
    <2>2. nc[n] \in NodeConfig
      BY <1>a
    <2>3. nc'[n] = nc[n] \/ (n = req /\ nc'[n] = MetaPatched(nc[n]))
      BY <1>a, <2>1
    <2> QED
      BY <1>d, <2>2, <2>3, ChangedFields DEF Changed, Merge
  <1>7. ASSUME PatchStatus PROVE Changed(n)
    <2>1. UNCHANGED nc \/ nc' = [nc EXCEPT ![req] = StatusPatched(@)]
      BY <1>7 DEF PatchStatus, Call
    <2>2. nc[n] \in NodeConfig
      BY <1>a
    <2>3. Merge(nc[n].ready, before.ready, config.ready)
            => nc[n].ready \/ config.ready
      BY <2>2, ConfigFields DEF Merge, HostInv, TypeOK
    <2>4. nc'[n] = nc[n] \/ (n = req /\ nc'[n] = StatusPatched(nc[n]))
      BY <1>a, <2>1
    <2> QED
      BY <1>d, <2>2, <2>3, <2>4, ChangedFields DEF Changed
  <1>8. CASE Worker
    <2>1. ASSUME NEW m \in Names, Begin(m) PROVE UNCHANGED nc
      BY <2>1 DEF Begin, clusterVars
    <2>2. ASSUME \/ CreateNodeInitConfig \/ FindHost \/ DeleteHost
                 \/ CheckBMHDetails \/ StoreBMHCredentials
                 \/ CreateBareMetalHost \/ Associate \/ Return \/ Die
          PROVE  UNCHANGED nc
      BY <2>2 DEF CreateNodeInitConfig, FindHost, DeleteHost,
                  CheckBMHDetails, StoreBMHCredentials, CreateBareMetalHost,
                  Associate, Return, Die, Restart, clusterVars
    <2> QED
      BY <1>8, <1>c, <1>5, <1>6, <1>7, <2>1, <2>2 DEF Worker
  <1>9. CASE Environment
    <2>1. ASSUME NEW m \in Names,
                 \/ RegisterHost(m) \/ DeleteHostByHand(m)
                 \/ Progress(m) \/ ChangeHealth(m) \/ Finalize(m)
                 \/ AdoptCredentials(m)
          PROVE  UNCHANGED nc
      BY <2>1 DEF RegisterHost, DeleteHostByHand, Progress, ChangeHealth,
                  Finalize, AdoptCredentials
    <2>2. ASSUME NEW s \in SecretNames,
                 DeleteSecretByHand(s) \/ CollectSecret(s)
          PROVE  UNCHANGED nc
      BY <2>2 DEF DeleteSecretByHand, CollectSecret
    <2> QED
      BY <1>9, <1>c, <1>1, <1>2, <1>3, <1>4, <2>1, <2>2
         DEF Environment, User, GarbageCollector, BareMetalOperator
  <1>10. CASE \/ \E m \in Names : SyncConfig(m) \/ SyncHost(m)
              \/ Resync \/ Crash \/ UNCHANGED vars
    BY <1>10, <1>c DEF SyncConfig, SyncHost, Resync, Crash, Restart, vars,
                       clusterVars
  <1> QED
    BY <1>8, <1>9, <1>10 DEF Next

\* What a step can do to the worker.
LEMMA RequestStep ==
  ASSUME HostInv, [Next]_vars
  PROVE  Ended \/ Begun \/ Worked
  <1>a. /\ req \in Names /\ config \in NodeConfig /\ pc \in Steps
        /\ hostCache \in [Names -> BareMetalHost]
    BY DEF HostInv, TypeOK
  <1>b. /\ LET c == [config EXCEPT !.userData = TRUE]
           IN  /\ c.image = config.image /\ c.owner = config.owner
               /\ c.ready = config.ready /\ c.userData
        /\ \A f : LET c == [config EXCEPT !.failure = f]
                  IN  /\ c.image = config.image /\ c.owner = config.owner
                      /\ c.ready = config.ready
                      /\ c.userData = config.userData
        /\ \A u : LET c == [config EXCEPT !.failure = "", !.owner = u,
                                          !.ready = TRUE]
                  IN  c.image = config.image /\ c.owner = u
    BY <1>a DEF NodeConfig
  <1>c. UNCHANGED <<pc, localVars>> => Worked
    BY DEF Worked, localVars
  <1>d. \A f : pc # "idle" /\ FailWith(f) => Worked
    BY <1>b DEF FailWith, Worked, HostPhase
  <1>e. pc # "idle" /\ (Fail \/ Panic) => Worked
    BY DEF Fail, Panic, Worked, HostPhase
  <1>f. \A step \in HostPhase \cup PatchPhase :
          pc \in HostPhase /\ Goto(step) => Worked
    BY DEF Goto, localVars, Worked, HostPhase, PatchPhase
  <1>g. Restart => Ended
    BY DEF Restart, Ended
  <1>1. CASE Worker
    <2>1. ASSUME NEW m \in Names, Begin(m) PROVE Begun \/ Worked
      <3>1. CASE UNCHANGED <<pc, localVars>>
        BY <3>1, <1>c
      <3>2. CASE ~ UNCHANGED <<pc, localVars>>
        BY <2>1, <3>2, <1>a DEF Begin, Begun, HostInv, TypeOK
      <3> QED
        BY <3>1, <3>2
    <2>2. ASSUME CreateNodeInitConfig PROVE Worked
      <3>1. CASE /\ config' = [config EXCEPT !.userData = TRUE]
                 /\ UNCHANGED <<req, before>>
        BY <2>2, <3>1, <1>b DEF CreateNodeInitConfig, Worked
      <3> QED
        BY <2>2, <3>1, <1>d DEF CreateNodeInitConfig, Call
    <2>3. ASSUME FindHost PROVE Worked
      <3>1. CASE config' = [config EXCEPT !.failure = "unavailable"]
                 /\ pc' = "deleteHost" /\ UNCHANGED <<req, before>>
        BY <2>3, <3>1, <1>b DEF FindHost, Worked, HostPhase
      <3>2. CASE Goto("storeCredentials") \/ Goto("associate")
        BY <2>3, <3>2, <1>f DEF FindHost, HostPhase
      <3> QED
        BY <2>3, <3>1, <3>2 DEF FindHost
    <2>4. DeleteHost \/ DeleteConfig \/ CheckBMHDetails => Worked
      BY <1>e, <1>f DEF DeleteHost, DeleteConfig, CheckBMHDetails, Call,
                        HostPhase, PatchPhase
    <2>5. StoreBMHCredentials \/ CreateBareMetalHost => Worked
      BY <1>d, <1>f DEF StoreBMHCredentials, CreateBareMetalHost, Call,
                        HostPhase
    <2>6. ASSUME Associate PROVE Worked
      <3>1. Associated(hostCache[req].uid) \/ FailWith("associate")
        BY <2>6 DEF Associate, Call
      <3>2. CASE FailWith("associate")
        BY <2>6, <3>2, <1>d DEF Associate
      <3>3. CASE Associated(hostCache[req].uid)
        <4>1. PICK u \in Nat : u = hostCache[req].uid
          BY <1>a, HostFields
        <4>2. Given(req, u)'
          <5>1. PICK n : n = req
            OBVIOUS
          <5>2. Given(n, u)'
            BY <2>6, <3>3, <4>1, <5>1, AssociateStep
          <5>3. req' = req
            BY <3>3 DEF Associated
          <5> QED
            BY <5>1, <5>2, <5>3
        <4>3. /\ req' = req /\ config'.image = config.image
              /\ config'.owner = u
              /\ pc = "associate" /\ pc' = "patchMeta"
          BY <2>6, <3>3, <4>1, <1>b DEF Associate, Associated
        <4> QED
          BY <4>2, <4>3 DEF Worked, HostPhase
      <3> QED
        BY <3>1, <3>2, <3>3
    <2>7. \A ok : pc \in {"patchMeta", "patchStatus", "deferMeta",
                          "deferStatus"} /\ PatchDone(ok) => Worked
      BY DEF PatchDone, AfterPatch, Worked, HostPhase
    <2>8. PatchMeta \/ PatchStatus => Worked
      BY <2>7 DEF PatchMeta, PatchStatus, Call
    <2>9. Return \/ Die => Ended
      BY <1>g DEF Return, Die, Ended
    <2> QED
      BY <1>1, <2>1, <2>2, <2>3, <2>4, <2>5, <2>6, <2>8, <2>9 DEF Worker
  <1>2. Crash => Ended
    BY <1>g DEF Crash
  <1>3. ASSUME \/ \E m \in Names : SyncConfig(m) \/ SyncHost(m)
               \/ Resync \/ UNCHANGED vars
               \/ UNCHANGED <<informerVars, queue, pc, localVars, faults>>
        PROVE  UNCHANGED <<pc, localVars>>
    BY <1>3 DEF SyncConfig, SyncHost, Resync, vars, localVars
  <1> QED
    BY <1>1, <1>2, <1>3, <1>c DEF Next

\* The cache of the hosts changes only to what is stored and stays.
LEMMA HostCacheStep ==
  ASSUME HostInv, [Next]_vars, NEW n \in Names
  PROVE  \/ hostCache'[n] = hostCache[n]
         \/ /\ hostCache'[n] = host[n]
            /\ host'[n] = host[n] /\ hostMade'[n] = hostMade[n]
  <1>a. hostCache \in [Names -> BareMetalHost]
    BY DEF HostInv, TypeOK
  <1>1. ASSUME NEW m \in Names, SyncHost(m)
        PROVE  \/ hostCache'[n] = hostCache[n]
               \/ /\ hostCache'[n] = host[n]
                  /\ host'[n] = host[n] /\ hostMade'[n] = hostMade[n]
    BY <1>1, <1>a DEF SyncHost, clusterVars
  <1>2. Crash \/ Die => hostCache' = host /\ UNCHANGED <<host, hostMade>>
    BY DEF Crash, Die, Restart, clusterVars
  <1>3. Worker => Die \/ UNCHANGED hostCache
    BY DEF Worker, Begin, CreateNodeInitConfig, FindHost, DeleteHost,
           DeleteConfig, CheckBMHDetails, StoreBMHCredentials,
           CreateBareMetalHost, Associate, PatchMeta, PatchStatus, Return,
           informerVars
  <1>4. ASSUME \/ \E m \in Names : SyncConfig(m)
               \/ Resync \/ UNCHANGED vars
               \/ UNCHANGED <<informerVars, queue, pc, localVars, faults>>
        PROVE  UNCHANGED hostCache
    BY <1>4 DEF SyncConfig, Resync, vars, informerVars
  <1> QED
    BY <1>1, <1>2, <1>3, <1>4 DEF Next

-----------------------------------------------------------------------------
(* The invariant *)

\* What the cache knows of hosts stays true.
LEMMA CacheKnows ==
  ASSUME HostInv, [Next]_vars
  PROVE  HostUidsOK' /\ HostCacheOK'
  <1> SUFFICES ASSUME NEW n \in Names
               PROVE  /\ host'[n].uid <= hostMade'[n]
                      /\ hostCache'[n].uid <= hostMade'[n]
                      /\ hostCache'[n].uid # 0
                         /\ hostCache'[n].uid = host'[n].uid
                         => /\ hostCache'[n].image # NoImage
                                 => host'[n].image # NoImage
                            /\ hostCache'[n].userData => host'[n].userData
    BY DEF HostUidsOK, HostCacheOK
  <1>1. /\ host[n].uid \in Nat /\ hostCache[n].uid \in Nat
        /\ hostMade[n] \in Nat
    BY HostFields DEF HostInv, TypeOK, ClusterTypeOK
  <1>2. /\ host[n].uid <= hostMade[n]
        /\ hostCache[n].uid <= hostMade[n]
        /\ hostCache[n].uid # 0 /\ hostCache[n].uid = host[n].uid
             => /\ hostCache[n].image # NoImage => host[n].image # NoImage
                /\ hostCache[n].userData => host[n].userData
    BY DEF HostInv, HostUidsOK, HostCacheOK
  <1>3. NoHost.uid = 0
    BY DEF NoHost
  <1>4. CASE /\ hostCache'[n] = host[n]
             /\ host'[n] = host[n] /\ hostMade'[n] = hostMade[n]
    BY <1>2, <1>4
  <1>5. CASE hostCache'[n] = hostCache[n]
    <2>1. CASE HostKept(n)
      BY <1>2, <1>5, <2>1 DEF HostKept
    <2>2. CASE HostGone(n)
      BY <1>1, <1>2, <1>3, <1>5, <2>2 DEF HostGone
    <2>3. CASE HostMade(n)
      <3>1. /\ hostCache[n].uid <= hostMade[n] + 1
            /\ hostCache[n].uid # hostMade[n] + 1
        BY <1>1, <1>2
      <3> QED
        BY <1>1, <1>5, <2>3, <3>1 DEF HostMade
    <2> QED
      BY <2>1, <2>2, <2>3, HostStep
  <1> QED
    BY <1>4, <1>5, HostCacheStep

\* A step that leaves NodeConfigs their specs leaves the invariant.
LEMMA HostInvStep ==
  ASSUME "strip" \notin UserMoves, HostInv, [Next]_vars
  PROVE  ImagesOK' /\ DataOK' /\ OwnersOK'
  <1>a. /\ req \in Names /\ ~ before.ready
        /\ nc \in [Names -> NodeConfig] /\ ncCache \in [Names -> NodeConfig]
        /\ config \in NodeConfig
    BY DEF HostInv, TypeOK, ClusterTypeOK, WorkerOK
  <1>b. \A n \in Names : /\ nc[n].owner \in Nat
                         /\ ncCache[n].owner \in Nat
    BY <1>a, ConfigFields
  <1>c. config.owner \in Nat
    BY <1>a, ConfigFields
  <1>d. \A n \in Names : Blank(n) \/ Changed(n)
    BY OwnerStep
  <1>e. \A n \in Names, u \in Nat : Given(n, u) => Given(n, u)'
    BY GivenStep
  <1>f. /\ NoConfig.owner = 0 /\ ~ NoConfig.ready
    BY DEF NoConfig
  <1>g. Ended \/ Begun \/ Worked
    BY RequestStep
  <1>h. \A n \in Names : ncCache'[n] = ncCache[n] \/ ncCache'[n] = nc[n]
    BY CacheStep DEF HostInv
  <1>1. ImagesOK'
    <2>1. ASSUME NEW n \in Names
          PROVE  /\ nc'[n].uid # 0 => nc'[n].image # NoImage
                 /\ ncCache'[n].uid # 0 => ncCache'[n].image # NoImage
      BY <1>d, <1>h DEF HostInv, ImagesOK, Blank, Changed
    <2>2. pc' # "idle" => config'.image # NoImage
      BY <1>g DEF HostInv, ImagesOK, Ended, Begun, Worked
    <2> QED
      BY <2>1, <2>2 DEF ImagesOK
  <1>2. DataOK'
    BY <1>g DEF HostInv, DataOK, Ended, Begun, Worked, HostPhase
  <1>3. OwnersOK'
    <2>1. ASSUME NEW n \in Names, nc'[n].owner # 0
          PROVE  Given(n, nc[n].owner)'
      <3>1. Changed(n)
        BY <1>d, <2>1 DEF Blank
      <3>2. PICK u \in Nat : u = nc'[n].owner
        BY <1>b, <1>c, <3>1 DEF Changed
      <3>3. Given(n, u)
        BY <2>1, <3>1, <3>2 DEF Changed, HostInv, OwnersOK
      <3> QED
        BY <1>e, <3>2, <3>3
    <2>2. ASSUME NEW n \in Names, ncCache'[n].owner # 0
          PROVE  Given(n, ncCache[n].owner)'
      <3>1. PICK u \in Nat : u = ncCache'[n].owner
        BY <1>b, <1>h
      <3>2. Given(n, u)
        BY <1>h, <2>2, <3>1 DEF HostInv, OwnersOK
      <3> QED
        BY <1>e, <3>1, <3>2
    <2>3. ASSUME NEW n \in Names, nc'[n].ready
          PROVE  \E u \in Nat : Given(n, u)'
      <3>1. Changed(n)
        BY <1>d, <2>3 DEF Blank
      <3>2. \E u \in Nat : Given(n, u)
        BY <1>c, <2>3, <3>1 DEF Changed, HostInv, OwnersOK
      <3> QED
        BY <1>e, <3>2
    <2>4. /\ config'.owner # 0 => Given(req, config.owner)'
          /\ config'.ready => config'.owner # 0
      <3>1. CASE Ended
        BY <1>f, <3>1 DEF Ended
      <3>2. CASE Begun
        <4>1. req' \in Names /\ config' = ncCache[req'] /\ ~ config'.ready
          BY <3>2 DEF Begun
        <4>2. PICK u \in Nat : u = config'.owner
          BY <1>b, <4>1
        <4>3. PICK m \in Names : m = req'
          BY <4>1
        <4>4. u # 0 => Given(m, u)'
          BY <1>e, <4>1, <4>2, <4>3 DEF HostInv, OwnersOK
        <4> QED
          BY <4>1, <4>2, <4>3, <4>4 DEF Given
      <3>3. CASE Worked
        <4>1. CASE config'.owner = config.owner /\ config'.ready = config.ready
          <5>1. PICK u \in Nat : u = config.owner
            BY <1>c
          <5>2. u # 0 => Given(req, u)
            BY <5>1 DEF HostInv, OwnersOK
          <5>3. PICK m \in Names : m = req
            BY <1>a
          <5>4. u # 0 => Given(m, u)'
            BY <1>e, <5>2, <5>3
          <5> QED
            BY <3>3, <4>1, <5>1, <5>3, <5>4
               DEF Worked, HostInv, OwnersOK, Given
        <4>2. CASE \E u \in Nat : config'.owner = u /\ Given(req, u)'
          BY <3>3, <4>2 DEF Worked, Given
        <4> QED
          BY <3>3, <4>1, <4>2 DEF Worked
      <3> QED
        BY <1>g, <3>1, <3>2, <3>3
    <2> QED
      BY <2>1, <2>2, <2>3, <2>4 DEF OwnersOK
  <1> QED
    BY <1>1, <1>2, <1>3

\* HostInv is an invariant.
LEMMA HostInvariant ==
  ASSUME "strip" \notin UserMoves
  PROVE  Spec => []HostInv
  <1>1. Init => HostInv
    <2> SUFFICES ASSUME Init PROVE HostInv
      OBVIOUS
    <2>1. TypeOK
      BY TypeInit
    <2>2. /\ pc = "idle" /\ before = NoConfig /\ config = NoConfig
          /\ nc = [n \in Names |-> NoConfig] /\ ncCache = nc
          /\ host = [n \in Names |-> NoHost] /\ hostCache = host
          /\ hostMade = [n \in Names |-> 0]
      BY DEF Init, ClusterInit
    <2>3. /\ NoConfig.uid = 0 /\ NoConfig.owner = 0 /\ ~ NoConfig.ready
          /\ NoHost.uid = 0
      BY DEF NoConfig, NoHost
    <2>4. \A n \in Names : /\ nc[n] = NoConfig /\ ncCache[n] = NoConfig
                           /\ host[n] = NoHost /\ hostCache[n] = NoHost
                           /\ hostMade[n] = 0
      BY <2>2
    <2>5. WorkerOK
      BY <2>2, <2>3 DEF WorkerOK
    <2>6. HostUidsOK /\ HostCacheOK
      BY <2>3, <2>4 DEF HostUidsOK, HostCacheOK
    <2>7. ImagesOK /\ DataOK /\ OwnersOK
      BY <2>2, <2>3, <2>4 DEF ImagesOK, DataOK, OwnersOK, HostPhase
    <2> QED
      BY <2>1, <2>5, <2>6, <2>7 DEF HostInv
  <1>2. HostInv /\ FenceInv' /\ [Next]_vars => HostInv'
    <2> SUFFICES ASSUME HostInv, FenceInv', [Next]_vars PROVE HostInv'
      OBVIOUS
    <2> QED
      BY CacheKnows, HostInvStep DEF HostInv, FenceInv
  <1> QED
    BY <1>1, <1>2, FenceInvariant, PTL DEF Spec

\* OwnerConfigured holds in every state, where users do not remove specs: the
\* host that a NodeConfig names as its owner was configured before, although
\* the changes are computed from a copy of the host that may be stale.
THEOREM OwnerConfiguredHolds ==
  ASSUME "strip" \notin UserMoves
  PROVE  Spec => []OwnerConfigured
  <1>1. HostInv => OwnerConfigured
    BY DEF HostInv, OwnersOK, Given, Configured, OwnerConfigured
  <1> QED
    BY <1>1, HostInvariant, PTL

\* ReadyConfigured holds in every state, under the same assumption: Ready
\* means a configured host, whichever of the two patches got lost.
THEOREM ReadyConfiguredHolds ==
  ASSUME "strip" \notin UserMoves
  PROVE  Spec => []ReadyConfigured
  <1>1. HostInv => ReadyConfigured
    <2> SUFFICES ASSUME HostInv, NEW n \in Names, nc[n].ready,
                        host[n].uid # 0, hostMade[n] <= 1
                 PROVE  Configured(host[n])
      BY DEF ReadyConfigured, Configured
    <2>1. PICK u \in Nat : Given(n, u)
      BY DEF HostInv, OwnersOK
    <2>2. /\ host[n].uid \in Nat /\ hostMade[n] \in Nat
          /\ host[n].uid <= hostMade[n]
      BY HostFields DEF HostInv, HostUidsOK, TypeOK, ClusterTypeOK
    <2>3. u = host[n].uid
      BY <2>1, <2>2 DEF Given
    <2> QED
      BY <2>1, <2>3 DEF Given
  <1> QED
    BY <1>1, HostInvariant, PTL

=============================================================================

------------------------ MODULE NodeConfigReconciler ------------------------
(***************************************************************************)
(* controllers/nodeconfig_controller.go and util/configmanager.go: one     *)
(* worker takes names from the work queue and runs Reconcile on each.      *)
(*                                                                         *)
(*  - Reads go to the informers' caches, which may lag behind the API      *)
(*    server for any time; writes go to the API server.                    *)
(*  - The worker makes one API call in a step, and anybody else may move   *)
(*    between two of its steps.  A read of a cache is part of the step     *)
(*    that uses it: reading earlier is the same as a cache that lags.      *)
(*  - A call may get lost before or after it took effect (a fault), and    *)
(*    the operator's process may crash.  MaxFaults bounds both together.   *)
(***************************************************************************)
EXTENDS Cluster

CONSTANTS MaxFaults  \* bound on lost calls and crashes

ASSUME ReconcilerAssumption == MaxFaults \in Nat

VARIABLES
  ncCache,    \* NodeConfigs as the informer's cache has them
  hostCache,  \* BareMetalHosts as the informer's cache has them
  queue,      \* names in the work queue, each at most once
  pc,         \* where the worker is
  req,        \* name of the request the worker is at
  before,     \* NodeConfig the patch helper compares with
  config,     \* NodeConfig in memory, with the worker's changes
  err,        \* how Reconcile is to end
  faults      \* how many calls were lost and how many crashes happened

informerVars == <<ncCache, hostCache>>
localVars == <<req, before, config, err>>
vars == <<clusterVars, informerVars, queue, pc, localVars, faults>>

\* Steps before the cloud-init Secret was created, with it, and the patches.
HostPhase == {"findHost", "storeCredentials", "createHost", "associate",
              "deleteHost", "deleteConfig"}
PatchPhase == {"patchMeta", "patchStatus", "deferMeta", "deferStatus",
               "return"}
Steps == {"idle", "createInit"} \cup HostPhase \cup PatchPhase

\* How Reconcile ends
Endings == {"", "error", "panic"}

Init ==
  /\ ClusterInit
  /\ ncCache = nc
  /\ hostCache = host
  /\ queue = {}
  /\ pc = "idle"
  /\ req \in Names
  /\ before = NoConfig
  /\ config = NoConfig
  /\ err = ""
  /\ faults = 0

-----------------------------------------------------------------------------
(* What a step of the worker is made of *)

Fault == faults < MaxFaults /\ faults' = faults + 1

Goto(step) == pc' = step /\ UNCHANGED localVars

\* SetError(message), then return the error: the deferred patch follows.
FailWith(message) ==
  /\ config' = [config EXCEPT !.failure = message]
  /\ err' = "error"
  /\ pc' = "deferMeta"
  /\ UNCHANGED <<req, before>>

\* Return an error which leaves no message in the status.
Fail ==
  /\ err' = "error"
  /\ pc' = "deferMeta"
  /\ UNCHANGED <<req, before, config>>

\* A nil pointer is dereferenced: the deferred patch follows here, too.
Panic ==
  /\ err' = "panic"
  /\ pc' = "deferMeta"
  /\ UNCHANGED <<req, before, config>>

\* One call of the API server: it accepts the call or refuses it, and a call
\* that gets lost looks refused, whether or not it took effect.
Call(accepted, Effect, NoEffect, Ok, Refused) ==
  \/ accepted /\ Effect /\ Ok /\ UNCHANGED faults
  \/ ~ accepted /\ NoEffect /\ Refused /\ UNCHANGED faults
  \/ Fault /\ Refused /\ NoEffect
  \/ Fault /\ Refused /\ accepted /\ Effect

-----------------------------------------------------------------------------
(* Reconcile *)

\* Mutant of Begin: an error of the read is taken for "not found".
BeginForgetting(n) ==
  /\ pc = "idle"
  /\ n \in queue
  /\ queue' = queue \ {n}
  /\ \/ /\ UNCHANGED faults
        /\ IF ncCache[n].uid = 0 \/ ncCache[n].ready
           THEN UNCHANGED <<pc, localVars>>
           ELSE /\ req' = n
                /\ before' = ncCache[n]
                /\ config' = ncCache[n]
                /\ err' = ""
                /\ pc' = "createInit"
     \/ Fault /\ UNCHANGED <<pc, localVars>>
  /\ UNCHANGED <<clusterVars, informerVars>>

\* Reconcile up to the patch helper: the request is forgotten when the
\* NodeConfig is not in the cache or Ready, and retried when the read fails.
Begin(n) ==
  /\ pc = "idle"
  /\ n \in queue
  /\ \/ /\ UNCHANGED faults
        /\ queue' = queue \ {n}
        /\ IF ncCache[n].uid = 0 \/ ncCache[n].ready
           THEN UNCHANGED <<pc, localVars>>
           ELSE /\ req' = n
                /\ before' = ncCache[n]
                /\ config' = ncCache[n]
                /\ err' = ""
                /\ pc' = "createInit"
     \/ Fault /\ UNCHANGED <<queue, pc, localVars>>
  /\ UNCHANGED <<clusterVars, informerVars>>

\* Mutant of CreateNodeInitConfig: a Secret that exists is not an error.
ReuseNodeInitConfig ==
  /\ pc = "createInit"
  /\ Call(TRUE,
          secret' = IF secret[req] = NoSecret
                    THEN [secret EXCEPT ![req] = BootstrapSecret(config.uid)]
                    ELSE secret,
          UNCHANGED secret,
          /\ config' = [config EXCEPT !.userData = TRUE]
          /\ pc' = "findHost"
          /\ UNCHANGED <<req, before, err>>,
          FailWith("cloudinit"))
  /\ UNCHANGED <<nc, host, made, hostMade, handDeleted, userOps,
                 informerVars, queue>>

\* Mutant of CreateNodeInitConfig: a Secret that exists is overwritten.
OverwriteNodeInitConfig ==
  /\ pc = "createInit"
  /\ Call(TRUE,
          secret' = [secret EXCEPT ![req] = BootstrapSecret(config.uid)],
          UNCHANGED secret,
          /\ config' = [config EXCEPT !.userData = TRUE]
          /\ pc' = "findHost"
          /\ UNCHANGED <<req, before, err>>,
          FailWith("cloudinit"))
  /\ UNCHANGED <<nc, host, made, hostMade, handDeleted, userOps,
                 informerVars, queue>>

\* The Secret is created, never updated: one that exists is an error, and
\* whoever gets past this step is the first one with this NodeConfig.
CreateNodeInitConfig ==
  /\ pc = "createInit"
  /\ Call(secret[req] = NoSecret,
          secret' = [secret EXCEPT ![req] = BootstrapSecret(config.uid)],
          UNCHANGED secret,
          /\ config' = [config EXCEPT !.userData = TRUE]
          /\ pc' = "findHost"
          /\ UNCHANGED <<req, before, err>>,
          FailWith("cloudinit"))
  /\ UNCHANGED <<nc, host, made, hostMade, handDeleted, userOps,
                 informerVars, queue>>

Available(h) ==
  /\ h.state \in {"ready", "inspecting", "registering", "match profile",
                  "available"}
  /\ h.ok

\* A read that fails is logged and counts as "not found".
FindHost ==
  /\ pc = "findHost"
  /\ LET h == hostCache[req] IN
       \/ h.uid = 0 /\ Goto("storeCredentials") /\ UNCHANGED faults
       \/ Fault /\ Goto("storeCredentials")
       \/ /\ h.uid # 0
          /\ Available(h)
          /\ Goto("associate")
          /\ UNCHANGED faults
       \/ /\ h.uid # 0
          /\ ~ Available(h)
          /\ config' = [config EXCEPT !.failure = "unavailable"]
          /\ pc' = "deleteHost"
          /\ UNCHANGED <<req, before, err, faults>>
  /\ UNCHANGED <<clusterVars, informerVars, queue>>

\* The host found unavailable goes, and the NodeConfig with it.  Both calls
\* name the object and not the incarnation.
DeleteHost ==
  /\ pc = "deleteHost"
  /\ Call(host[req].uid # 0,
          host' = [host EXCEPT ![req].deleting = TRUE],
          UNCHANGED host,
          Goto("deleteConfig"),
          Fail)
  /\ UNCHANGED <<nc, secret, made, hostMade, handDeleted, userOps,
                 informerVars, queue>>

DeleteConfig ==
  /\ pc = "deleteConfig"
  /\ Call(nc[req].uid # 0,
          nc' = [nc EXCEPT ![req] = NoConfig],
          UNCHANGED nc,
          Goto("deferMeta"),
          Fail)
  /\ UNCHANGED <<host, secret, made, hostMade, handDeleted, userOps,
                 informerVars, queue>>

\* CreateBareMetalHost looks into the details of the spec first, which is not
\* an error but a panic when there is none.
CheckBMHDetails ==
  /\ pc = "storeCredentials"
  /\ config.image = NoImage
  /\ Panic
  /\ UNCHANGED <<clusterVars, informerVars, queue, faults>>

StoreBMHCredentials ==
  /\ pc = "storeCredentials"
  /\ config.image # NoImage
  /\ Call(secret[CredentialsOf[req]] = NoSecret,
          secret' = [secret EXCEPT ![CredentialsOf[req]] = CredentialsSecret],
          UNCHANGED secret,
          Goto("createHost"),
          FailWith("create"))
  /\ UNCHANGED <<nc, host, made, hostMade, handDeleted, userOps,
                 informerVars, queue>>

\* The credentials once their owner is set.  The patch helper is made after
\* the change in memory, so that it finds nothing to patch.
SetBMHCredentialsOwner(s, uid) ==
  LET changed == [s EXCEPT !.owner = uid]
      helper == changed
  IN  [s EXCEPT !.owner = Merge(s.owner, helper.owner, changed.owner)]

\* (Beyond MaxHosts, the API server refuses to create another one.)
CreateBareMetalHost ==
  /\ pc = "createHost"
  /\ LET uid == hostMade[req] + 1 IN
       Call(host[req].uid = 0 /\ hostMade[req] < MaxHosts,
            /\ host' = [host EXCEPT ![req] = NewHost(uid, NoImage, FALSE)]
            /\ hostMade' = [hostMade EXCEPT ![req] = uid],
            UNCHANGED <<host, hostMade>>,
            /\ secret' = [secret EXCEPT ![CredentialsOf[req]] =
                                            SetBMHCredentialsOwner(@, uid)]
            /\ Goto("associate"),
            FailWith("create") /\ UNCHANGED secret)
  /\ UNCHANGED <<nc, made, handDeleted, userOps, informerVars, queue>>

\* Mutant of SetHostSpec: an image which the host has already is kept.
SetEmptyHostSpec(h, c) ==
  IF c.image = NoImage \/ ~ c.userData \/ h.image # NoImage
  THEN h
  ELSE [h EXCEPT !.image = c.image,
                 !.userData = TRUE,
                 !.online = @ \/ h.state = "ready"]

\* Mutant of SetHostSpec: the spec is written to hosts that are ready only.
SetReadyHostSpec(h, c) ==
  IF c.image = NoImage \/ ~ c.userData \/ h.state # "ready"
  THEN h
  ELSE [h EXCEPT !.image = c.image, !.userData = TRUE, !.online = TRUE]

SetHostSpec(h, c) ==
  IF c.image = NoImage \/ ~ c.userData
  THEN h
  ELSE [h EXCEPT !.image = c.image,
                 !.userData = TRUE,
                 !.online = @ \/ h.state = "ready"]

\* The stored host after the patch that turns `b` into `a`.
PatchHost(stored, b, a) ==
  [stored EXCEPT !.image = Merge(@, b.image, a.image),
                 !.userData = Merge(@, b.userData, a.userData),
                 !.online = Merge(@, b.online, a.online)]

\* The rest of Associate, then Ready.
Associated(uid) ==
  /\ config' = [config EXCEPT !.failure = "", !.owner = uid, !.ready = TRUE]
  /\ pc' = "patchMeta"
  /\ UNCHANGED <<req, before, err>>

\* A host which is not found, or not read, is an error; a host whose spec is
\* already as it should be is not patched.
Associate ==
  /\ pc = "associate"
  /\ LET h == hostCache[req]
         wanted == SetHostSpec(h, config)
     IN  \/ /\ h.uid = 0
            /\ FailWith("associate")
            /\ UNCHANGED <<host, faults>>
         \/ /\ h.uid # 0
            /\ wanted = h
            /\ Associated(h.uid)
            /\ UNCHANGED <<host, faults>>
         \/ /\ h.uid # 0
            /\ wanted # h
            /\ Call(host[req].uid # 0,
                    host' = [host EXCEPT ![req] = PatchHost(@, h, wanted)],
                    UNCHANGED host,
                    Associated(h.uid),
                    FailWith("associate"))
         \/ Fault /\ FailWith("associate") /\ UNCHANGED host
  /\ UNCHANGED <<nc, secret, made, hostMade, handDeleted, userOps,
                 informerVars, queue>>

-----------------------------------------------------------------------------
(* The patch helper sends two patches, the second one even when the first  *)
(* one fails.  Both name the object and not the incarnation.  Reconcile    *)
(* patches when it is done, and once more in the deferred function, with   *)
(* the same differences; only the former reports errors.                   *)

AfterPatch(step) ==
  CASE step = "patchMeta" -> "patchStatus"
    [] step = "patchStatus" -> "deferMeta"
    [] step = "deferMeta" -> "deferStatus"
    [] step = "deferStatus" -> "return"

PatchDone(ok) ==
  /\ pc' = AfterPatch(pc)
  /\ err' = IF ok \/ pc \notin {"patchMeta", "patchStatus"} THEN err
            ELSE "error"
  /\ UNCHANGED <<req, before, config>>

\* Mutants of MetaPatched and StatusPatched: updates instead of patches.
MetaUpdated(stored) ==
  [stored EXCEPT !.owner = config.owner, !.image = config.image]

StatusUpdated(stored) ==
  [stored EXCEPT !.ready = config.ready,
                 !.userData = config.userData,
                 !.failure = config.failure]

\* The stored NodeConfig after the patch of its metadata (and its spec,
\* which Reconcile never changes), and after the patch of its status.
MetaPatched(stored) ==
  [stored EXCEPT !.owner = Merge(@, before.owner, config.owner)]

StatusPatched(stored) ==
  [stored EXCEPT !.ready = Merge(@, before.ready, config.ready),
                 !.userData = Merge(@, before.userData, config.userData),
                 !.failure = Merge(@, before.failure, config.failure)]

SameStatus(a, b) ==
  /\ a.ready = b.ready
  /\ a.userData = b.userData
  /\ a.failure = b.failure

PatchMeta ==
  /\ pc \in {"patchMeta", "deferMeta"}
  /\ \/ /\ before.owner = config.owner
        /\ PatchDone(TRUE)
        /\ UNCHANGED <<nc, faults>>
     \/ /\ before.owner # config.owner
        /\ Call(nc[req].uid # 0,
                nc' = [nc EXCEPT ![req] = MetaPatched(@)],
                UNCHANGED nc,
                PatchDone(TRUE),
                PatchDone(FALSE))
  /\ UNCHANGED <<host, secret, made, hostMade, handDeleted, userOps,
                 informerVars, queue>>

PatchStatus ==
  /\ pc \in {"patchStatus", "deferStatus"}
  /\ \/ /\ SameStatus(before, config)
        /\ PatchDone(TRUE)
        /\ UNCHANGED <<nc, faults>>
     \/ /\ ~ SameStatus(before, config)
        /\ Call(nc[req].uid # 0,
                nc' = [nc EXCEPT ![req] = StatusPatched(@)],
                UNCHANGED nc,
                PatchDone(TRUE),
                PatchDone(FALSE))
  /\ UNCHANGED <<host, secret, made, hostMade, handDeleted, userOps,
                 informerVars, queue>>

\* A request whose Reconcile returned an error goes back to the queue.
Return ==
  /\ pc = "return"
  /\ err # "panic"
  /\ queue' = IF err = "error" THEN queue \cup {req} ELSE queue
  /\ pc' = "idle"
  /\ before' = NoConfig
  /\ config' = NoConfig
  /\ err' = ""
  /\ UNCHANGED <<clusterVars, informerVars, req, faults>>

\* The process is gone, and starts again: it lists all objects first.
Restart ==
  /\ ncCache' = nc
  /\ hostCache' = host
  /\ queue' = {n \in Names : nc[n].uid # 0}
  /\ pc' = "idle"
  /\ before' = NoConfig
  /\ config' = NoConfig
  /\ err' = ""
  /\ UNCHANGED <<clusterVars, req>>

\* A panic ends the process once the deferred patch is done.
Die ==
  /\ pc = "return"
  /\ err = "panic"
  /\ Restart
  /\ UNCHANGED faults

Worker ==
  \/ \E n \in Names : Begin(n)
  \/ CreateNodeInitConfig \/ FindHost \/ DeleteHost \/ DeleteConfig
  \/ CheckBMHDetails \/ StoreBMHCredentials \/ CreateBareMetalHost
  \/ Associate \/ PatchMeta \/ PatchStatus \/ Return \/ Die

-----------------------------------------------------------------------------
(* The informers.  The controller watches NodeConfigs, so that every event *)
(* of one puts its name into the queue; it does not watch BareMetalHosts.  *)

SyncConfig(n) ==
  /\ ncCache[n] # nc[n]
  /\ ncCache' = [ncCache EXCEPT ![n] = nc[n]]
  /\ queue' = queue \cup {n}
  /\ UNCHANGED <<clusterVars, hostCache, pc, localVars, faults>>

SyncHost(n) ==
  /\ hostCache[n] # host[n]
  /\ hostCache' = [hostCache EXCEPT ![n] = host[n]]
  /\ UNCHANGED <<clusterVars, ncCache, queue, pc, localVars, faults>>

\* The periodic resynchronisation delivers every cached NodeConfig again.
Resync ==
  /\ queue' = queue \cup {n \in Names : ncCache[n].uid # 0}
  /\ UNCHANGED <<clusterVars, informerVars, pc, localVars, faults>>

\* The operator dies in the middle of a request, for whatever reason.
Crash == pc # "idle" /\ Fault /\ Restart

Next ==
  \/ Worker
  \/ \E n \in Names : SyncConfig(n) \/ SyncHost(n)
  \/ Resync
  \/ Crash
  \/ Environment /\ UNCHANGED <<informerVars, queue, pc, localVars, faults>>

Spec == Init /\ [][Next]_vars

\* The worker never stops in the middle, the queue is first in first out,
\* and the informers deliver what happened in the end.
Fairness ==
  /\ WF_vars(Worker)
  /\ \A n \in Names : /\ SF_vars(Begin(n))
                      /\ WF_vars(SyncConfig(n))
                      /\ WF_vars(SyncHost(n))

FairSpec == Spec /\ Fairness

=============================================================================

# A formal model of the NodeConfig operator

The NodeConfig operator (NCO) turns a `NodeConfig` into a bare metal node: it
generates the cloud-init user data, stores it in a Secret, finds or creates the
`BareMetalHost` (BMH) of the same name, and writes the image and the reference
to the user data into that host; the bare metal operator (BMO) of metal3 does
the provisioning.  This directory holds TLA+ specifications of the operator,
the TLC configurations which check them on small instances, and theorems with
machine-checked proofs for instances of every size.

Paths below are relative to the repository's root (`src/` in `PROJECT.json`).

## 1. Inventory

| Component | State it keeps | Operations | Modelled |
|---|---|---|---|
| Controller, `controllers/nodeconfig_controller.go` | nothing between two calls of `Reconcile`; within one: the NodeConfig in memory, the patch helper's copy of it, whether an error is returned; outside: the work queue | `Reconcile`, its deferred patch, `SetupWithManager` | `NodeConfigReconciler` |
| `ConfigManager`, `util/configmanager.go` | the NodeConfig it shares with `Reconcile` | `CreateNodeInitConfig`, `FindHost`, `CreateBareMetalHost` (with the credentials), `Associate`, `SetError` | `NodeConfigReconciler` |
| API types, `api/v1alpha1` | spec and status of a NodeConfig | deep copies (generated), `CheckBMHDetails`, defaults of boot mode and checksum type | `Cluster`, `CloudInit`, `DeepCopies` (partly: not the defaults, which are copied into the host's spec) |
| Admission webhook, `api/v1alpha1/nodeconfig_webhook.go` | none | `ValidateCreate`; `ValidateUpdate` and `ValidateDelete` accept everything; `Default` does nothing | `AdmissionWebhook`, `Cluster` |
| cloud-init generator, `util/cloudinit` | none | `NewNode`, the templates, `Indent` | `CloudInit` |
| API server, informers, garbage collector, BMO (outside of the repository) | the stored objects, the caches | creation, merge patch and deletion of objects; finalizer and states of hosts | `Cluster`, `NodeConfigReconciler` (external) |
| Manager start-up, `main.go` | flags | wiring | not modelled: no logic; one active operator that may die and restart is assumed by `NodeConfigReconciler` |
| kubeadm types, `types/` | none | deep copies (generated), conversion, bootstrap tokens | `DeepCopies` (partly); a copy from cluster-api which no code of the operator imports |
| Manifests | | | not modelled: declarative |

How they interact.  The controller *reads* NodeConfigs and hosts from the
informers' caches and *writes* to the API server.  It never reads a Secret.
Every event of a NodeConfig puts its name into the controller's queue; events
of hosts do not.  The API server calls the webhook, which runs in the same
process, when a NodeConfig is created or updated.  The user data, the host and
the credentials are found again by name alone: the NodeConfig `x` has the host
`x`, the user data Secret `x` and the credentials `x-bmc-secret`.  The garbage
collector deletes the user data with the NodeConfig and, once the owner
reference is set, the NodeConfig with its host.  What the caches and the patch
helper hand out are deep copies.

What is hard about it:

- *Lagging caches.*  The check of `Ready` (`nodeconfig_controller.go:96`), the
  search for the host and the difference which the patch of the host consists
  of are all computed from copies of any age.
- *Retries without memory.*  `Reconcile` starts over after each error, and the
  only trace of an earlier attempt is what it created.  The user data Secret
  acts as a fence: it is created, never updated, so of all attempts for one
  NodeConfig only one gets past `CreateNodeInitConfig`.  This keeps retries away
  from the host, and also keeps them from finishing what a lost call or a crash
  interrupted.
- *Partial failure.*  Seven API calls, each of which may fail, or succeed and
  look as if it had failed; two of them are the halves of one patch, and the
  patch is sent again by the deferred function.
- *Incarnations.*  Objects are named and not identified: a NodeConfig or a host
  may be deleted and created again between any two steps.
- *Panics.*  Updates are not validated and no field of a NodeConfig is
  required: one without a spec ends the process.  Afterwards its Secret keeps
  `Reconcile` from getting to the same place again.
- *Texts.*  Contents of files get into a YAML document by indentation, other
  texts get there as they are, and Jinja reads all of it first; the checksum
  file is taken apart at blanks.
- *Shared memory.*  A patch is the difference between an object and a copy of
  it; a copy that shares memory with its original shows none.

What makes each component correct:

- controller: there is one attempt for each NodeConfig, whatever is retried;
  `Ready` means that the user data of this very NodeConfig exists and that its
  host is configured; the host of a `Ready` NodeConfig is left alone by it, and
  the NodeConfig reports no trouble with it; `Ready` is never taken back; a
  NodeConfig's spec is never changed by it; and no NodeConfig is forgotten.
- webhook: what is accepted has a BMC and a checksum file which, if `md5sum`
  wrote it, is the one of the image; and that file is accepted.
- cloud-init: what the spec says arrives on the node, or at least does not keep
  the rest from arriving.
- deep copies: nobody who changes an object changes a copy of it.

`PROJECT.json` lists the hazards line by line, with the properties which would
notice each of them going wrong, or why there is none.

## 2. Modules

| Module | Contents |
|---|---|
| `Cluster` | objects in the API server; users, garbage collector, BMO |
| `NodeConfigReconciler` | extends `Cluster`: the worker, the queue, the caches, faults; `Spec`, `FairSpec` |
| `ReconcilerProperties` | the guarantees |
| `DocumentedClaims` | what documents and comments say and the code does not do |
| `Bootstrap` | abstract specification: one attempt for each NodeConfig |
| `BootstrapRefinement` | the refinement mapping from `NodeConfigReconciler` |
| `MCReconciler` | instances for TLC |
| `ReconcilerProofs`, `PatchProofs`, `HostProofs` | theorems about the guarantees |
| `RefinementProofs` | theorem: the controller implements `Bootstrap` |
| `AdmissionWebhook` | `ValidateCreate` with its properties |
| `CloudInit` | the generator, and the reader on the node, with its properties |
| `DeepCopies` | the generated deep copies, with their property |
| `WebhookProofs`, `CloudInitProofs`, `CopiesProofs` | theorems about the properties of the last three |
| `SequenceLemmas` | lemmas: induction, recursive functions, sequences |

### Cluster and NodeConfigReconciler

State.  `nc`, `host` and `secret` are the stored objects by name.  An object
has a `uid`, which is 0 if there is none and is not used twice (`made`,
`hostMade` count).  Only fields on which the operator's behaviour depends are
kept: for a NodeConfig the image, the three fields of the status it writes and
the owner reference; for a host the provisioning state, whether the
operational status is `OK`, and the three fields of the spec that the operator
writes.  `ncCache` and `hostCache` are the informers' copies, `queue` the work
queue (a set: client-go's queue holds a key at most once).  `pc`, `req`,
`before`, `config` and `err` are the worker's: where it is, the request, the
patch helper's copy, the NodeConfig in memory and how `Reconcile` is to end
(normally, with an error, or with a panic).

| Action | Code |
|---|---|
| `Begin` | `Reconcile` from `Get` to `patch.NewHelper` (`nodeconfig_controller.go:78-118`) |
| `CreateNodeInitConfig` | `configmanager.go:177-204`, `255-281` |
| `FindHost` | `configmanager.go:113-150` |
| `CheckBMHDetails` | the panic at `configmanager.go:209` (`nodeconfig_types.go:230-240`) |
| `StoreBMHCredentials`, `CreateBareMetalHost` | `configmanager.go:206-251`, `283-322` |
| `Associate` | `configmanager.go:59-111`, `152-175`, and `Ready = true` |
| `DeleteHost`, `DeleteConfig` | `nodeconfig_controller.go:139-152` |
| `PatchMeta`, `PatchStatus` | the two patches of `patchHelper.Patch`, first at the end of `Reconcile`, then in the deferred function (`:114-118`, `:160-166`) |
| `Return` | the result; an error puts the request back into the queue |
| `SyncConfig`, `SyncHost`, `Resync` | the informers |
| `Die`, `Crash` | the process ends after a panic, or for any reason; it lists everything anew when it starts (`Restart`) |
| `EditConfig`, `StripConfig`, `DeleteConfigByHand` | users whom `ValidateUpdate` and `ValidateDelete` let do everything (`nodeconfig_webhook.go:83-97`) |

Decisions that are not obvious:

- *One API call per step.*  A cached read is part of the step that uses the
  value: since a cache may lag for any time, reading earlier adds no behaviour.
  `setBMHCredentialsOwner` is part of `CreateBareMetalHost`, because the patch
  it computes is always empty and sends nothing.
- *`Call`* stands for one call: it takes effect and is answered, is refused and
  answered, or gets lost (before or after its effect), which looks like a
  refusal to the caller.
- *The patch helper* (cluster-api v0.4) sends merge patches: a field is written
  if it differs between the helper's copy and the object in memory (`Merge`),
  first metadata and spec, then the status, even if the first patch failed.
  Patches carry neither uid nor resource version.  The deferred function sends
  the same differences once more and drops errors.
- *A host that is not there* when `Associate` looks for it is an error: the
  patch helper cannot be made from nil.
- *A failed read* in `FindHost` is logged and counts as "not found".
- *The fault in `Begin`* is an error of the read other than "not found".
- *A panic* runs the deferred patch and ends the process: controller-runtime
  v0.9 does not recover from it.  The panic is in `CheckBMHDetails`, which
  takes a NodeConfig without a spec for invalid and then dereferences it.  With
  a host that exists already, `Associate` goes on without an image.
- The BMO keeps a deleted host until its finalizer has run (`Finalize`), moves
  it along `HostSteps`, and adopts the credentials it reads.
- A user deletes NodeConfigs, hosts and Secrets at any time, replaces the image
  of a NodeConfig or takes the spec away, and registers hosts with or without an image.  `ClusterInit`
  allows for Secrets which somebody left behind.

Left out: rendering errors of `NewNode` (constant templates and total
functions), two operators at once during a change of leaders, users who edit
the spec of a host, and a NodeConfig with an image and no BMC (users take the
whole spec away, or nothing).

### Bootstrap

`phase` says how far the first NodeConfig of each name is: none, pending,
working, ready or abandoned, gone.  `Claim` is the creation of the Secret, and
`Configure` (a host gets its reference to the Secret) belongs to the attempt
that claimed the NodeConfig, from which it goes to ready, or never does.  A
second NodeConfig of a name, and a Secret deleted by hand, are the end of all
promises (`Disturb`).

The mapping (`Phase` in `BootstrapRefinement`) reads the phase off the stored
objects; only whether an unfinished attempt is still at work depends on the
worker: it is at the name, and has the data in memory which its copy of the
NodeConfig does not refer to.

### AdmissionWebhook

One request, the text of its checksum file as a sequence of tokens, whether the
server of the file is up, and what `ipmitool` returns.  `Split`, `TrimSpace` and
`URLContains` are the Go functions `osImageValidation` calls; `Checks` lists the
checks of `ValidateCreate` in their order, the first that fails decides.  The
image's name is the token `image`; `piece` is a substring of its URL and `other`
is not.  `MD5Sums` is what `md5sum` prints for a number of images.

Of files which `md5sum` did not write, the webhook promises little: it accepts
any three parts at single blanks, the last of which is in the URL.  A list with
single blanks (`d1 a`, newline, `d2 image`) passes, and so does a file of two
blanks with no name at all, since every URL contains the empty text.  Both are
files of the model, and no property excludes them.

### CloudInit

A spec, the document `NewNode` makes of it, and what cloud-init reads.  Lines of
`write_files` are modelled with their indentation, since the templates put the
contents of files into block scalars (`content: |`) by indenting them; the
reader follows the rule of YAML that the first line which is not blank sets the
indentation of a scalar, unless a blank line before it is deeper (`Leading`,
`Indentation`): then the text ends the scalar, and the document breaks.  Users,
commands and NTP are records and sequences of texts, each with the style in
which the templates write it (`Plain`, `PlainItem`, `Quoted`), and `Read` says
what comes of a text in that style: a plain `no` is false, a plain item `a: b`
is a mapping.  `Refused` are texts that make the document no YAML: `a: b` behind
a key, and wherever it is not quoted `@x`, which stands for texts that begin
with an indicator of YAML (`@`, `*`, `[`, ...).  The header has Jinja read the
document first, which replaces a template by something else or refuses the
document.  A template condition on a pointer tests for nil (`Rendered`); the
password's lock is printed as it is.

Abstracted: the optional strings of a user, which the templates treat alike,
are one (`sudo`).  `no` stands for all plain scalars that are no strings
(numbers like `0755`, dates, null).  Left out: the encoding of files, which is
written like the permissions, the text of the header, and what a text may have
in it besides: control characters, tabs and carriage returns, line breaks in
texts other than contents, quotes in permissions, `#` behind a blank (a
comment), and comments behind a block which ended too early.  The properties say
nothing of such texts.

### DeepCopies

A pointer, a slice and a map are references to a cell of memory.  `...Layout`
lists, type by type, the fields that refer to cells or are structs with such
fields; `...Copying` lists what the generated `DeepCopyInto` does to each of
them.  Both tables are kept apart, as the types and the generated code are:
they can differ when the generator is not run after a change of a type.  The
state is one object of any of the types, with all its references or with one
that is nil, the cells its copy does not share with it, and how often each cell
was written.  The cells of a type are found by going down its fields, `MaxDepth`
levels deep.  v1beta2 of the kubeadm types differs from v1beta1 in
`NodeRegistrationOptions` only.  The tables go down into the types of Kubernetes
(`External...`): list and object metadata with their owner references and
managed fields, and taints.  Left out: types without references, whose copy is
an assignment, and cycles (there are none).  A time's reference to its time zone
is shared by all copies, and nobody can write there: it counts as none.

## 3. What is checked

Runs that pass:

| Run | Property | What it says | Instance | States |
|---|---|---|---|---|
| `Reconciler.cfg` | `TypeOK` | types | all user moves, 2 of them; 1 host; 1 fault | 1.2 million |
| | `ReadySecret` | a Ready NodeConfig has the Secret generated for it | | |
| | `ReadyHandsOff` | the worker does not get to the host of a Ready NodeConfig | | |
| | `ReadyMessage` | a Ready NodeConfig carries no message about its host, at most the one about the Secret | | |
| | `ReadyStable` | no step takes Ready away | | |
| | `ImplementsBootstrap` | every behaviour is one of `Bootstrap` | | |
| `Hosts.cfg` | `OwnerConfigured` | the host named as owner was given image and user data | create, register, unregister; 2 hosts; 3 moves, or 2 and 1 fault, or 1 and 2 faults | 5.2 million |
| | `ReadyConfigured` | so was the first host of a Ready NodeConfig, even if only one half of the patch was stored | | |
| `Liveness.cfg` | `NotForgotten` | a NodeConfig gets Ready or a failure message or disappears | 2 images; create, edit and strip, 2 of them; 1 fault | 0.3 million |
| | `SpecUntouched` | only users change a spec | | |
| `Webhook.cfg` | `MD5SumAccepted` | what `md5sum` prints for the image is not refused | files of up to 5 tokens, `md5sum`'s of up to 3 images | 1.3 million |
| | `AcceptedOneImage` | what is accepted has a BMC and the URL of a checksum file; if `md5sum` wrote it, for one image, whose name is in the image's URL | | |
| `Files.cfg` | `FilesArrive` | a spec without templates and texts that YAML refuses (`Harmless`) can be read, and files that start at the margin arrive as they were | any 2 of 2 files of 2 lines, a user, 2 commands and NTP; 5 texts | 1.4 million |
| | `CommandsArrive` | commands arrive in order, templates excepted | | |
| | `UsersArrive` | so do users whose texts are words, with the password locked or not | | |
| `Copies.cfg` | `CopiesApart` | a copy shows what its original shows, and no write changes both | every type; 2 writes | 0.5 million |

`ReadySecret`, `ReadyHandsOff` and `ReadyMessage` are about names whose NodeConfig is the first
of its name and whose Secret no user deleted (`Undisturbed`).  Without this,
they do not hold: `ReadyMeansData` below is what a second incarnation does to the
first, and a user who deletes the Secret removes the fence.  `OwnerConfigured`
and `ReadyConfigured` are about instances without `strip`: a NodeConfig that has
no spec gets Ready with the host as it is.

Runs that refute a claim (`PROJECT.json`, "findings", quotes the lines):

| Run | The claim | What the code does |
|---|---|---|
| `ScenarioOne.cfg` | workflow, scenario #1: with nothing registered, everything is set up | `Associate` may read the cache before it has the host just created; the retry finds the Secret and fails for ever |
| `BothRemoved.cfg` | scenario #3: host and NodeConfig are removed | if the second deletion is lost, the retry does not get there |
| `CredentialsOwned.cfg` | `configmanager.go:243`: the host owns its credentials | the owner is set before the helper copies the object, and nothing is sent |
| `ReadyMeansData.cfg` | `nodeconfig_types.go:68`: Ready means that the data can be consumed | a NodeConfig that is re-created while its predecessor is worked on gets Ready and has no Secret |
| `ContentKept.cfg` | `nodeconfig_types.go:259`: the actual content | an indented first line loses its indentation or breaks the document |
| `FlagsKept.cfg` | `nodeconfig_types.go:280`, `:315` | false is rendered as true |

Other disagreements that reading the code showed, without a run of their own,
are: hosts without a state are treated as unavailable and deleted with their
NodeConfig (`configmanager.go:120`; the workflow, scenario #3, names hosts in
error or provisioning); a NodeConfig without a spec is logged as "Invalid BMH
input" (`configmanager.go:210`) after the check for it has panicked; a file
with `{{ }}` in it does not arrive as it is, since the header asks for Jinja
(`cloudinit.go:28`); the user data Secret is created before existing
credentials are noticed (scenario #4: nothing is done); a late retry leaves a
failure message on a NodeConfig that is Ready (`nodeconfig_controller.go:123`);
a checksum that is not a URL and an address with a port are refused by the
webhook (`docs/api.md:37`, `:29`); the name in the checksum file need only be a
substring of the image's URL (`nodeconfig_webhook.go:110`).

Bounds.  `MaxUserOps` bounds what users do in a behaviour, `MaxHosts` the hosts
created with one name, `MaxFaults` lost calls and crashes together; `UserMoves`
picks the moves of a run.  All runs of the reconciler have one name, since the
requests of the one worker touch one another only through credentials whose
name is that of another NodeConfig (the theorems are about any names).  Two
moves are enough for a NodeConfig and one interference; three for a host that
is re-created under a NodeConfig.  One fault lets each call be lost on either
side of its effect and the process die at each step, with an unhindered retry
behind it.  In `Hosts.cfg` moves and faults share a bound (`FewDisturbances`),
since three moves and faults besides are more than TLC can do; two faults lose
the first half of the last patch and end the process behind the second one, so
that a Ready NodeConfig has no owner reference.  Panics are not
faults: there is no bound on them.  `HostStates` has one state of each kind that
the code tells apart (`SomeStates`), or just one usable and one unusable state
(`FewStates`) where the path through a state does not matter.

Five tokens are the length of a line of `md5sum`, and lists of two images are
refused like any longer one.  How a file is read depends on a line and the deepest
one before it, and on the last line that is not blank, so that two lines are
enough, and two items (`MaxItems`) put any section beside any other one, and a file
beside a file.  Two writes (`MaxWrites`) are one before and one after the copy
is made, or one on each side.  `MaxDepth` is deeper than any type: one level
less or one more gives the same states, and the theorem does not depend on it.

Deadlock is checked in all runs of the reconciler.  A webhook request and the
generation of a document end, and their runs say so.

Fairness (`FairSpec`), for `NotForgotten` and the two claims about the end of a
behaviour: the worker does not stop in the middle of a request (weak fairness
of `Worker`; each call returns or is lost); no name in the queue is passed over
for ever (strong fairness of `Begin(n)`: the queue is first in, first out, and a
request that fails gets back into it after a bounded backoff, where the worker
is idle again and again); the informers deliver in the end (weak fairness of `SyncConfig` and
`SyncHost`).  Nothing is assumed of users, the BMO, the garbage collector or the
resynchronisation, and faults are bounded.

## 4. What is proved

Every property of a passing run is a theorem, but for the one that is about
liveness.

### The controller

From `ClusterAssumption` and `ReconcilerAssumption` alone, for any set of names
(also if the credentials of one have the name of another), images, host states
and host steps, and for any bounds:

| Theorem | Statement | Module |
|---|---|---|
| `TypeCorrect` | `Spec => []TypeOK` | `ReconcilerProofs` |
| `ReadySecretHolds` | `Spec => []ReadySecret` | |
| `ReadyHandsOffHolds` | `Spec => []ReadyHandsOff` | |
| `ReadyStableHolds` | `Spec => ReadyStable` | |
| `SpecUntouchedHolds` | `Spec => SpecUntouched` | `PatchProofs` |
| `ReadyMessageHolds` | `Spec => []ReadyMessage` | |
| `OwnerConfiguredHolds` | `Spec => []OwnerConfigured`, without `strip` | `HostProofs` |
| `ReadyConfiguredHolds` | `Spec => []ReadyConfigured`, without `strip` | |
| `BootstrapImplemented` | `Spec => ImplementsBootstrap` | `RefinementProofs` |

`TypeOK` is inductive.  `SpecUntouched` needs in addition only that a NodeConfig
that does not exist has no spec (`AbsentOK`), or the garbage collector could
change it.  Most others rest on `FenceInv`, which adds to `TypeOK`:

- `UidsOK`: stored and cached NodeConfigs have uids that were given out, and
  what does not exist is not Ready;
- `WorkerOK`: the patch helper's copy is not Ready, whatever the worker holds in
  memory has a uid that was given out, and it is Ready in memory in the patches
  only;
- `FenceOK`: a NodeConfig that is Ready, one that the worker is about to make
  Ready, and one whose host the worker is at, has its Secret or is gone
  (`Held`), and the last of them is not Ready yet.  As in the properties, names
  are undisturbed.

`ReadySecret` is not inductive: that the patch which sets Ready finds the Secret
in place depends on what the worker did some steps earlier, and on nobody else
being able to remove it, which for the garbage collector depends on the uid in
the owner reference being that of the stored NodeConfig.  The step lemmas
follow this argument: `ConfigStep` says how a stored NodeConfig may change in
one step, `SecretStep` how a Secret may, `HistoryStep` that counters grow,
`CacheStep` where cached copies come from, `WorkerStep` how the worker moves on;
`FenceStep` puts them together.

- `PatchProofs`.  `MessageOK` says: where a message about the host is stored,
  cached or carried by the worker, the NodeConfig has its Secret, is not Ready,
  and nobody is on the way to making it Ready (`GivenUp`).  Messages in copies
  have to be part of it, since the worker starts from a copy.
- `HostProofs`.  `HostInv` follows the configuration from the patch of the host
  to the owner reference and Ready in memory, and from there to the stored
  NodeConfig; hosts never lose it, since a patch computed from an older copy
  of the host writes nothing but image, reference and online.
- `RefinementProofs`.  `AttemptInv` adds that a Secret belongs to a NodeConfig
  that was created (`SecretsOK`), that whose status refers to the data has it
  (`DataHeld`), and that whoever looks for a host or makes a NodeConfig Ready is
  at the attempt (`AttemptOK`).  `PhaseStep` shows that a step moves the phase of
  a name as `Bootstrap` allows, `HostDataStep` that a host gets its reference
  from the attempt only, and `FocusStep` that a step changes the phase of one
  name at most, so that it is one step of `Bootstrap` or none.

### The webhook, the user data and the deep copies

| Theorem | Statement | Module |
|---|---|---|
| `AcceptedOneImageHolds` | `Spec => []AcceptedOneImage` | `WebhookProofs` |
| `MD5SumAcceptedHolds` | `Spec => []MD5SumAccepted` | |
| `FilesArriveHolds` | `Spec => []FilesArrive` | `CloudInitProofs` |
| `CommandsArriveHolds` | `Spec => []CommandsArrive` | |
| `UsersArriveHolds` | `Spec => []UsersArrive` | |
| `CopiesApartHolds` | `Spec => CopiesApart` | `CopiesProofs` |

These hold for checksum files of any length and any number of images
(`WebhookAssumption`: the bounds are numbers), for any number of files, users and commands with any number of lines
(`BoundsAssumption`), for any selection of texts, names and flags
(`TextsAssumption`, `FlagsAssumption`), where nil is neither a text nor a scalar (`UnsetAssumption`),
and for any number of writes and any depth of nesting (`CopiesAssumption`).

Their invariants say little of the state, which a request or a document goes
through in one or two steps; the work is in what the operators compute.

- *Induction over sequences.*  `Split` and `Items` read a text token by token
  and a document line by line, and are recursive functions.  The library's
  induction theorems take an operator, which the provers cannot instantiate.
  `SequenceLemmas` therefore states induction for a set (`Induction`,
  `InductionUpTo`, `SequencesInduction`), from the well-foundedness of `<`, and
  derives that a recursive function satisfies its equation (`Recursion`).  With
  that, `SplitAppend`, `ItemsAppend` and `FlattenAppend` say what one more
  element does, and proofs go on by induction on the sequence.
- `WebhookProofs`.  `IInv` says that the file is a text and that the verdict is
  the one of the first failing check (`Answered`).  `SplitLine` says that a line
  of `md5sum` behind any text adds two parts, of which the last one is the name
  and the newline; so a list of n images has 2n + 1 parts (`SplitList`, by
  induction on the list), and three parts only if n is 1.  What `TrimSpace` leaves
  of the last one is the name (`TrimNamed`), which gives `OneMatches` and
  `ListMatches`.
- `CloudInitProofs`.  `IInv` says that the document is the one of the spec
  (`Generated`), the node what was read from it (`Booted`), and a refused document
  no YAML or one with a template (`Broken`).  What remains is that reading undoes
  writing.  `ItemsOfAll` says that the lines of items put one behind the other are
  read as these items; `FileRead` that an item which `FileLines` wrote is read as
  the file, if it starts at the margin and has no template: the keys are found
  where `HeaderIs` says that they were written, and a block loses the six columns
  which `Indent` put before it.  `HarmlessBoots` says that the document of a
  harmless spec is not refused: it looks at every text of the document
  (`DocumentSafe`).
- `CopiesProofs`.  `PackagesSound` compares the tables of the types with those of
  the generated code, field by field: each reference gets a new cell, and
  `DeepCopyInto` goes down unless there are no cells below.  So what belongs to a
  struct and what is copied of it satisfy the same recursion, and are the same
  set (`AllCopied`).  `IInv` says that the copy has all cells of its own, or does
  not exist yet; then a write changes a cell of one side.  The proof fails with
  the tables of a field which the generator was not run for.

The inductive invariants were checked with TLC on the instances of section 3
before they were proved.

Only model-checked: `NotForgotten` (liveness under fairness, which is out of
the prover's reach).  The claims that runs refute are no theorems: each of them
has a counterexample.

## 5. Not modelled

- Two operators at once, when one loses its lease and does not know yet.
- `main.go` (wiring), the manifests, and the parts of the kubeadm types that are
  conversions of strings (`BootstrapTokenString`, the YAML of
  `types/v1beta1/utils.go`): no logic, or none that the operator runs.
- The fields of a NodeConfig that are copied into the host's spec as they are
  (boot mode, checksum type, addresses): no behaviour depends on them.
- A namespace of its own for each NodeConfig: nothing crosses namespaces.

## 6. Plan

In this order:

1. Overlap of two operators during a change of leaders: a second worker with
   caches of its own, as an instance of the same actions.
2. Two names of which one is the credentials' name of the other, as an instance
   for TLC (the theorems cover it).
3. Theorems about `Bootstrap` itself, which the refinement carries over to the
   controller: a name is claimed once, and the data of a host is not replaced.

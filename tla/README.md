# Device Config Manager: TLA+ models and proofs

The Device Config Manager (DCM) is a daemonset pod that partitions the AMD GPUs
of a Kubernetes node. A config map, mounted as `config.json`, holds named
partition profiles; the node label `dcm.amd.com/gpu-config-profile` selects one;
DCM reports on the label `dcm.amd.com/gpu-config-profile-state` and with events.
This directory models its run-time logic (`pkg/config_manager/configmanager.go`,
`pkg/partition/utils/utils.go`, `pkg/amdgpu/k8sclient/k8s.go` and
`cmd/deviceconfigmanager/main.go`), checks the models with TLC and proves with TLAPS
that every safety property checked by a passing run holds for all values of the
constants. All of that code is Go; the only
C in the repository is the headers of the prebuilt AMD SMI library, of which the
models take what `configmanager.go` calls.

## Inventory

| part | state | operations | interacts with |
|---|---|---|---|
| retry loop (configmanager.go 992-1104) | one-slot channel `retryCh`, `cancelFunc`, WaitGroup `wg`, one `RetryPartition` goroutine at a time | `TriggerRetryLoop`, `Worker`, `RetryPartition` | triggered by main and both watchers; calls the service handlers and `PartitionGPU`; writes the state label |
| service handlers (utils.go) | `PreStateDB` (memory only) | `StopServiceHandler`, `StartServiceHandler`, `CleanupPreState` | systemd over D-Bus |
| `PartitionGPU`, `amdSMIHelper` (configmanager.go 420-746, 843-924) | globals `partition_failed`, `partStatus`, `sockets`, `totalGPUCount` | one call per attempt | AMD SMI, the driver, state label, events |
| profile validation (281-394, 785-841) | none (pure) | `validateProfile`, `createGPUIDList`, `getSupportedMemoryPartitionType`, `DetectDuplicateKeys` | `PartitionGPU`, `amdSMIHelper` |
| KMM recovery (430-475, 1106-1136) | none | `modprobe -rv`, delete `NodeModulesConfig`, wait up to 5 minutes | KMM operator, driver |
| main and watchers (main.go, 96-190, 926-990) | informer cache, fsnotify watch | start, label change, file change | API server, `TriggerRetryLoop` |
| Kubernetes client (k8s.go), one of main's and one of the package's | a lock and a clientset each | label get/add/delete with ten tries, events, pods | API server; shared by the retry goroutine and the watchers |

What is hard here: triggers from three goroutines meet a one-slot channel that
ignores what does not fit; a goroutine is cancelled at any point between two of
its blocking calls and leaves its stopped services to the next; the config file
is read twice per attempt and may change in between; `partition_failed` outlives
the GPU and the call it speaks of; KMM loads the driver at a time of its own;
the whole node object is written back for one label, against other writers and
with answers that get lost; a crash loses `PreStateDB` and keeps the labels and
the requests under way. `PROJECT.json` lists each of
these hazards at its line, with the properties that are about it.

What makes the parts correct: goroutines never overlap, the label follows the
triggers and is resolved, services are down during an attempt and up after it
(retry loop, service handlers); no index goes out of range, a skipped GPU is
left alone, success is only reported for what was done, every call ends
(`PartitionGPU`); the selected profile is the one that was run, on the `config.json`
there is (main, watchers); a label write that answers "ok" is there, undoes
nobody else's, and is not undone by an older one (Kubernetes client).

## Modules

| module | models | run as |
|---|---|---|
| `ServiceHandlers` | the systemd handlers, one action per list entry | part of `RetryLoop` |
| `RetryLoop` | trigger channel, `Worker`, `RetryPartition`; extends `ServiceHandlers` | `MCRetryLoop` |
| `LatestJob` | abstract: what a user of the retry loop relies on | through `RetryLoopJobs` |
| `RetryLoopJobs` | the refinement mapping from `RetryLoop` to `LatestJob` | `MCRetryLoop` |
| `RetryLoopProofs` | theorems about `RetryLoop`: goroutines and label | `tlapm` |
| `ServiceProofs` | theorems about `RetryLoop`: services; extends `RetryLoopProofs` | `tlapm` |
| `JobProofs` | the last trigger is reported, `RetryLoop` implements `LatestJob`; extends `ServiceProofs` | `tlapm` |
| `ProfileValidation` | the pure functions, as definitions | part of `PartitionGPU` |
| `ProfileLoops` | the loops of the pure functions, against those definitions | itself |
| `PartitionGPU` | `PartitionGPU`, `amdSMIHelper`, KMM recovery; extends `ProfileValidation` | `MCPartitionGPU` |
| `ProfileProofs` | theorems about `ProfileValidation` | `tlapm` |
| `LoopProofs` | the loops of `ProfileLoops` compute the definitions; extends `ProfileProofs` | `tlapm` |
| `PartitionGPUProofs` | theorems about `PartitionGPU` on every node, and what "success" is worth; extends `ProfileProofs` | `tlapm` |
| `LabelStore` | abstract: a label as a register with numbered writes | through `K8sClient` |
| `K8sClient` | the Kubernetes client, its callers and the API server | `MCK8sClient` |
| `K8sClientProofs` | theorems about `K8sClient`, its refinement of `LabelStore` included | `tlapm` |
| `Dcm` | main, both watchers, crash and restart; extends `RetryLoop` | `MCDcm` |
| `RestartableJob` | abstract: `LatestJob` for a process that dies and is restarted | through `DcmJobs` |
| `DcmJobs` | the refinement mapping from `Dcm` to `RestartableJob` | `MCDcm` |
| `DcmProofs` | theorems about the whole process; extends `JobProofs` | `tlapm` |

**RetryLoop.** `run[r]` is the r-th goroutine, `run[r].pc` the next call it makes:
`begin` (label "in-progress"), `load` (services out of `config.json`), `check`
(`ctx.Done`, expiration), `stop`, `partition`, `wait` (the minute), `start`. A step
is what happens between two points where others can interfere; `stop` and
`start` take one step per service. `wg` counts as the code counts, so a negative
counter or a goroutine not waited for would show. `worker.pc` is `recv`, `wait`
(`wg.Wait()`) or `spawn`; `mu` has one user and needs no variable. The half hour is
`MaxAttempts`: each attempt is followed by a minute, so at most 30 fit, and fewer
if they take long (`MayExpire`). `PartitionGPU` is one step whose outcomes
`PartitionOutcomes` lists; `OutcomeAsPromised` of module `PartitionGPU` checks
that list. A service list is a set of units: order has no effect and a
repeated entry finds its unit handled. The unit states other than `active`
("inactive", "failed", "not-loaded", ...) are treated alike by the code and are
one state here; a stop or start job is taken to be done when the call and the
ten seconds' pause after it are over.

Two history variables say when the handlers owe nothing for a unit. `missed`: the
last attempt to stop it passed it by, because a D-Bus call failed or it moved by
itself since. `mislaid`: the state it had before is lost, because the first status
call or the start failed, somebody started it after it was recorded as down, or
the process died with it stopped.

**LatestJob.** One job at a time, begun in the order submitted, two waiting at most
(one in `Worker`'s hand, one in the channel). A job ends after a verdict, or without
one if a newer job waits or `config.json` cannot be read; only the job under way
touches the label. `RetryLoopJobs` maps the one active goroutine to the job, its
attempts to "a verdict was reported", and hides contexts, WaitGroup, services and
timers.

**PartitionGPU.** One call at a time, as `RetryLoop` shows, and several in
succession, because the globals survive. `pc` follows the code's branches; every
early return is an action of its own that says what it leaves on the label, in
`partStatus` and in `partition_failed`. `i` and `j` count from 1, `idx` and GPU ids
from 0. Sums of `numGPUsAssigned` are 64-bit in the code and cannot wrap. External:
a memory mode set for a GPU is `pending` for its hive until the driver is loaded
again; a GPU whose memory mode changed may come up in any compute mode; a failed
reload leaves the driver as it was; KMM loads the driver it manages at any time
after it was removed, or never.

`AddNodeLabel` here only records in `reported` what the call last asked for;
whether and when the write arrives is `K8sClient`'s subject.

**ProfileLoops.** No steps: every state is an input, and the invariants compare the
loops, as folds, with the definitions of `ProfileValidation`.

**K8sClient.** Every caller (main, the retry goroutine, a watcher) is in at most one
method: `init` (if the unlocked look at `clientset` found none), `Lock`, `get`,
`update`, `await`, `sleep`, under the lock from `Lock` to the return. A clientset that
is still nil panics, and main exits when it cannot read the profile. The API server
keeps a version, the state label and one label of somebody else; it handles
requests at any time in any order, refuses those read at an older version, answers
them, and the answer may be lost. `Crash` leaves node and requests. `ledger` and
`writer` are the history the mapping to `LabelStore` needs, `hits` counts the
separate disturbances of a call. `LabelStore` is a register in which an "ok" has
taken effect before its answer, and a failed or dead call may still take effect, but
not after a newer call has changed the label. Two things it must admit were found by
checking: a retried call may take effect twice, and a write that finds the
label as it wants it makes no new version and so fences off no older request.
The second means that a new process whose delete finds no state label may still see
the report of the dead one arrive. `RetryLoop` and `Dcm` take a label write for one
step that succeeds or fails (so does `NoReportFromTheDead`); `K8sClient` shows what
hides in it.

**Dcm.** Adds main's three steps, the label watcher (`sync`, `get`, `send`) and the
file watcher (`add`, `get`, `send`, `rearm`), with the read of the label and the
trigger as separate steps. The informer delivers every change after its first
list, in order, and only updates have a handler. fsnotify's watch may be lost
when the file is replaced and is set again after the next event. What fsnotify
(v1.8.0, `readEvents`) has queued for a watch that is removed is skipped unless it is
just being handed over, so a renewal may swallow a change: when a config map volume
is replaced the old file first changes its attributes and is then removed, and the
renewal after the first event races the second. Without the file at start the
watcher blocks for ever. `Crash` keeps labels, units and file.
`lost` is a history variable: how the watchers last missed the selection
("ignored", "stale", "unread", "unseen"), reset when the selected profile is
accepted. `lastRead` and `unheard` are the same for edits: what a goroutine read of
`config.json` last, and whether an edit since then went by the watcher (file not
watched, event swallowed, label not readable).

**RestartableJob.** What may be relied on of one process after another: `LatestJob`
with `ClearLabel` and `Die`. A process that dies forgets its jobs and keeps the label
it wrote; a new one takes jobs only after it has tried to clear the label, once. `up`
is false while main is at `boot`. Main, watchers and the file are hidden: they only
decide what is submitted and when.

`stoppedByDCM`, `labelRun`, `lastAccepted`, `run[r].late`, `reported`, `commanded` and
`verdict` are history variables too: no guard reads them. Definitions marked
*Mutant* are plausible bugs of the definition that follows them and are not used
by the specifications.

## Runs

| run | shows | expected |
|---|---|---|
| `RetryLoop_faults` | types; goroutines never overlap; a cancelled one makes at most one more attempt; stopped services stay recorded; the label follows trigger order; `RetryLoop` implements `LatestJob`; all failures on | pass |
| `RetryLoop_live` | accepted triggers are served, "in-progress" is resolved, the last trigger is the one reported | pass |
| `RetryLoop_services` | services down during attempts, up again afterwards; lists that change, failing D-Bus, units that move | pass |
| `PartitionGPU_live` | calls end, leave the outcomes `RetryLoop` assumes, leave skipped GPUs alone; all profiles, all failures, KMM | pass |
| `PartitionGPU_report` | "success" is true; event and label agree; indices | pass |
| `ProfileLoops_inputs` | the loops compute the definitions; rounds and usable GPUs; duplicate names | pass |
| `K8sClient_api` | others' labels survive; a conflict costs one try; no race in `init`; methods return; `K8sClient` implements `LabelStore` | pass |
| `Dcm_system` | the selected profile ran last on the current `config.json` and is the one reported, unless `lost` or `unheard`; stopped services stay recorded; no label of a dead process; `Dcm` implements `RestartableJob` | pass |
| `PartitionGPU_kmm` | KMM recovery of one GPU clears the failure of another | violation |
| `PartitionGPU_retry` | an unsupported mode is retried after an earlier failure | violation |
| `PartitionGPU_panic` | a profile that skips all GPUs panics `validateProfile` | violation |
| `Dcm_dropped` | an ignored trigger leaves "success" for a profile not selected | violation |

The violations are disagreements between the code and a comment, event text or
document; `PROJECT.json` quotes both sides. Three passing properties have known
limits. `SuccessMeansPartitioned` assumes that modes can be read (an unreadable
mode counts as changed, configmanager.go:635), no KMM (see `PartitionGPU_kmm`)
and one hive (with separate hives a mode left pending by a failed call is taken
at another GPU's reload). `NoServiceLeftStopped` and `ServicesAreRestored` speak of
the units that every `config.json` lists: a unit taken off the list while it is
stopped, or handed over when the file has become invalid for good, stays stopped
(`StoppedIsRemembered` still holds while it is listed in the readable ones). And none
of them speaks of `mislaid` units: a failed first status call, a failed start and a
crash each leave a service stopped, and the code only logs it.

**Bounds.** Three triggers are a first goroutine, one that cancels it and one that
cancels that; with two profiles a trigger can differ from the pending one. Two
attempts tell a first one, a retry and an expiry apart. Two services, one of them
dropped by an edit, show a hand-over with part of the list done; one is enough where
services are not the subject. Two GPUs show an earlier and a later one, three calls
the stale globals; two memory and two compute modes a match and a change of each.
Profiles of up to two entries, three GPUs and three skipped ids (repeated ones
included) and five names out of three reach every comparison of the loops. In
`K8sClient_api` two tries tell a first, a retry and the last apart; main's delete, a
report and the delete after a restart are three writes whose requests may all be
late; one foreign write can fall into any of them. In `Dcm_system` a relabel, two
edits or touches of the file and a crash meet in every order, and `MaxRuns` admits
every trigger they can cause (one at start, one each), so that it cuts off no
behaviour.

**Fairness.** `RetryLoop`: weak fairness of `Worker` and of each goroutine; the Go
scheduler runs what can run, `time.After` fires, D-Bus and API calls return, and
`PartitionGPU` returns (`CallReturns`). Nothing is assumed of triggers, edits or
select's choice. `PartitionGPU`: weak fairness of the call's own steps only; KMM
need never act. `K8sClient`: weak fairness of every goroutine's own method and of the
API server (a request is handled, or its connection fails), and strong fairness of
taking the lock, because Go's `sync.Mutex` hands itself to a waiter that has starved
for a millisecond. Label-related properties say where they need label writes to
succeed (`ApiMayFail = FALSE`): the code gives up after ten tries.

## Proofs

Everything below holds for every value of the constants that satisfies their named
assumptions: any sets of services, profiles, watchers and GPUs, any bounds, and all
the failures a flag may switch on. An assumption is what the code or Go's types
give (a count is a natural number, goroutines have different names, the hardware
comes up in modes it has, a config map lists profiles of the protobuf type). What a
theorem needs beyond that is a hypothesis in its statement.

Few of the properties are inductive. In each module the inductive invariant
(`IInv`, or as named) is the conjunction of the parts quoted; each was checked with TLC
as an invariant of the runs first. Then there is one lemma per action or per group of
actions that move the same way, and the theorems follow from the invariant.

**Retry loop** (`RetryLoopProofs`): `TypeCorrect`, `MutualExclusion`
(`AtMostOneRetryPartition`), `PromptCancel` (`CancelIsPrompt`) and `LabelOrder`
(`LabelsInTriggerOrder`). `WaitGroupInv`: `cancelFunc` is the newest goroutine's, only
the newest can be active, `wg` is 1 exactly if it is, `Worker` about to spawn has
`wg = 0`, and no more triggers are accepted than `MaxRuns`. `LabelInv`: only started
goroutines wrote the label. `LateInv`: a goroutine that called `PartitionGPU` after its
cancellation is past it for good, since `cancelled` stays set and the loop head looks
at it.

**Services** (`ServiceProofs`), with failing D-Bus calls, units that move by themselves
and a config map that changes:

* `ServicesDown` (`ServicesStoppedDuringPartition`). `DownInv`: the entries
  `StopServiceHandler` has passed are down, or `missed`. It rests on `IInv`: nobody
  but the one active goroutine and the outside moves a unit.
* `StoppedRemembered` (`StoppedIsRemembered`) and `ServicesRestored`
  (`NoServiceLeftStopped`). Both follow from `RestoreInvariance`: a unit DCM stopped is
  recorded as active or `mislaid`, also when a second attempt finds it inactive or active
  again; an always-listed unit is in the list of every goroutine past `load`, and in what
  is left to start until it was started; while one is down, a goroutine is active or
  `Worker` is about to start one, since only a cancelled goroutine returns without
  starting its services, and cancelled means that `Worker` waits.

They need no hypothesis about D-Bus, the units or the config map, because
`missed` and `mislaid` make the exceptions part of the statement, unit by unit;
`mislaid` is cleared again when a unit runs and can be recorded afresh.

**Triggers and LatestJob** (`JobProofs`). `TrackInv`: the profile accepted last is in the
channel, else with `Worker`, else that of the newest goroutine, and that one is not
cancelled while `Worker` has nothing in hand; so it cannot have returned without a
verdict. `AttemptInv` ties the attempts to where a goroutine is, `VerdictInv` the
label to what the newest goroutine has done.

* `LastReported` (`LastTriggerIsReported`), if label writes succeed: with a write that
  fails ten times the label keeps the report before, which the code only logs.
* `Refinement` (`ImplementsLatestJob`), with no hypothesis. Only the newest goroutine can
  be active, so the job under way is its job, and the lemmas say action by action which
  step of `LatestJob` it is: an accepted trigger submits, `Worker`'s spawn begins a job, and
  a goroutine announces, reports, refuses or ends its job, or stutters.

**Profiles** (`ProfileProofs`). `GPUIDListIsTheUsableGPUs`: `createGPUIDList` lists every
GPU that is not skipped once, in ascending order. `ValidProfilesFit`: an accepted
profile has a round of the loops for every usable GPU but one for each id that
`skippedGPUs` repeats. Both are about the definitions of `ProfileValidation`.

**Loops** (`LoopProofs`). That the code's loops compute those definitions, for profiles,
lists of skipped ids and names of any length: `LoopsAgreeAlways` (`LoopsAgree`),
`RoundsMeetUsableGPUsAlways` (`RoundsMeetUsableGPUs`) and `DuplicatesAreAlwaysFound`
(`DuplicatesAreFound`). The library's induction theorems cannot be used (their
parameter is an operator), so `Induction` is stated of a set of naturals and proved by
its least missing member. A fold is defined as a CHOOSE of a function that satisfies
an equation; `FoldExists` shows by that induction that there is one, `Unfolds` that
the fold therefore satisfies it, and each loop's invariant is then an induction over the
rounds made.

**PartitionGPU** (`PartitionGPUProofs`), on every node, KMM, foreign sockets and all
failures included, over any number of calls: `TypeCorrect`, `IndicesInRange`
(`IndexSafety`), `SkippedLeftAlone` (`SkippedNeverCommanded`) and `OutcomeKept`
(`OutcomeAsPromised`, what `RetryLoop` assumes of a call). `RoundInv`: `idx` is at most the
number of rounds `Before` the present one in the order of the two loops, so that with
`ValidProfilesFit` and a round to come it is less than the length of `gpu_ids_list`;
"at most" because a foreign socket ends a round without `idx++`. `CommandedInv`: what was
commanded is usable. `OutcomeInv` follows `partition_failed`, the label and
`FinalStatus` through the call; the flag that an earlier call left behind is why it has
to speak of the states before the loops too.

**The report** (`PartitionGPUProofs`). What the label and the event say holds under
hypotheses, and TLC finds the property violated when any of them is dropped.

* `ReportConsistent` (`ReportIsConsistent`) on a `PlainNode`: without KMM (its recovery
  clears `partition_failed` of earlier GPUs, see `PartitionGPU_kmm`), where every profile
  skips the sockets that are no AMD GPU, and no id twice (else a usable GPU is left
  without a round). `NoForeignRound`: a skipped socket never gets one.
  `StatusInv`: `idx` is the number of rounds behind, and until a failure their
  entries of the event say "Success".
* `SuccessIsTrue` (`SuccessMeansPartitioned`) on a `SteadyNode`, where also modes can be
  read and the GPUs are one hive (see *Runs*). `HiveInv`: all GPUs share mode and pending
  mode. `DoneInv`: the GPUs of the rounds behind are in the modes of their entries, and stay
  so, since an accepted profile asks for one memory mode. Rounds and GPUs correspond
  one to one (`RoundsAndGPUs`), so the numbers of the property come out as counted.

**Kubernetes client** (`K8sClientProofs`), for any number of watchers, tries, writes,
foreign writes and restarts, with no hypothesis: `TypeCorrect` (one label write at a
time), `ForeignKept` (`ForeignLabelsKept`), `GivesUp` (`GivesUpOnlyIfDisturbed`),
`InitAlone` (`NoInitRace`) and `Refinement` (`ImplementsLabelStore`). What is hard is
what is still under way. `CopyOK`: a copy of the node that is as new as the node
agrees with it on the other label, and was last changed by the write that holds the
copy or an older one; so an update that the API server accepts undoes nobody, and is
an `Apply` in order. `RequestOK` and `RequestInv`: the requests of a write belong to tries
so far, and once the write has succeeded one at the present version changes nothing,
since it would write what is there. `HitsOK` counts disturbances against tries.
`LedgerInv` shows that the numbers suffice (one Delete per process, and the Adds), so
that the bound of the history cuts off no call. For the refinement a goroutine that
begins a call invokes a write, one that returns or dies answers it, the API server
applies it, or a Delete that finds no label does, and all else stutters.

**The process** (`DcmProofs`). `Dcm` extends `RetryLoop`, and `LoopSteps` shows that
each of its steps is one of the retry loop's but for the deletion of the label, an event
that changes nothing and a crash; these preserve the retry loop's invariants as well.
So what is proved of the retry loop holds with main, watchers and crashes:
`DcmMutualExclusion` (`AtMostOneRetryPartition`), `DcmPromptCancel` (`CancelIsPrompt`),
`DcmServicesDown` (`ServicesStoppedDuringPartition`), `DcmStoppedRemembered`
(`StoppedIsRemembered`), `DcmServicesRestored` (`NoServiceLeftStopped`: what a crash leaves
stopped is `mislaid`), and `DcmLabelOrder` for as long as one process lives
(`LabelsInOrderWhileUp`). `RestartRefinement` (`ImplementsRestartableJob`): a step of the
retry loop maps as in `Refinement` (`LivingStep`), main's delete is `ClearLabel`, a crash
is `Die`, and whatever else main and the watchers do stutters (`RestartStep`).
`DcmInvariance` adds `InformerInv` (each update differs from the one before, and the
last is the label: why the watcher's filter "old differs from new" loses none),
`SelectInv` and `ApplyInv` (where a selected profile or an edit is on its way), and
`AcceptInv`; they give `DcmTypeCorrect`, `ConfigApplied` (`ConfigIsApplied`) and, if
label writes succeed, `SelectedReported` (`SelectedIsReported`) and
`NothingFromTheDead` (`NoReportFromTheDead`). A `Delete` that fails leaves the
report of the dead process, and the code goes on after logging it.

**Only model-checked.** Liveness (`TriggerIsServed`, `InProgressIsResolved`,
`ServicesAreRestored`, `CallReturns`, `CallsReturn`): the prover has no fairness and no
ENABLED. And the four properties that are violated.

## Not modelled

Event objects and texts (the event for invalid JSON carries the GPU list of the call
before it, since `partStatus` is a global; the label does not), log output, pod listing (read for a log line only), the AMD
SMI library (prebuilt; its headers only declare it), the generated protobuf code,
images, charts, tests and vendored code. Null entries in the profile list of a config
map (the protobuf types allow them) are not among the profiles. A process outside
Kubernetes blocks at once and does nothing, and one without `DS_NODE_NAME` exits.

## Plan

1. Done: all components with run-time logic, their runs, three refinements.
2. Done: proofs of every invariant, action property and refinement the passing runs
   check, of the safety properties of the retry loop again for the whole process, and
   of the third refinement, from `Dcm` to `RestartableJob`.
3. Left: the liveness properties, for a prover with fairness; and one composition of `Dcm`
   with `K8sClient`, in which a label write takes several steps. Each is checked alone,
   and what the one assumes of the other is said under *Modules*.

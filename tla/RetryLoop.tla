------------------------------ MODULE RetryLoop ------------------------------
(***************************************************************************)
(* pkg/config_manager/configmanager.go: the retry channel, Worker and      *)
(* RetryPartition.                                                         *)
(*                                                                         *)
(* Triggers reach the one-slot channel retryCh.  Worker takes a trigger,   *)
(* cancels the RetryPartition goroutine of the trigger before it, waits on *)
(* the WaitGroup until that goroutine has returned, and starts a new one.  *)
(* A goroutine stops the configured services, calls PartitionGPU, retries  *)
(* for 30 minutes while PartitionGPU asks for it, and starts the services  *)
(* again.  run[r] is the r-th goroutine; PartitionGPU is one step here,    *)
(* with the outcomes that module PartitionGPU shows it to have.            *)
(*                                                                         *)
(* A service list is a set: its entries denote distinct units, so that     *)
(* their order has no effect, and a repeated entry finds its unit already  *)
(* handled.                                                                *)
(***************************************************************************)
EXTENDS ServiceHandlers, Sequences

CONSTANTS
  Profiles,     \* the profile names a node label may select
  NoProfile,    \* the profile of a goroutine that does not exist yet
  Configs,      \* the contents config.json may have
  ApiMayFail,   \* whether a label write may fail
  MaxRuns,      \* bound: triggers accepted into retryCh
  MaxAttempts,  \* PartitionGPU calls that fit before the expiration (30)
  MaxEdits,     \* bound: changes of config.json
  MaxFlips      \* bound: units that change state by themselves

Runs == 1..MaxRuns

(***************************************************************************)
(* config.json as its two readers see it: RetryPartition takes the service *)
(* list, PartitionGPU the profiles.  Both ignore the error of reading the  *)
(* file, so that an absent one is no bytes, which is no JSON either.       *)
(***************************************************************************)
Absent == [present |-> FALSE, valid |-> FALSE, services |-> {}, profiles |-> {}]

BadJSON == [present |-> TRUE, valid |-> FALSE, services |-> {}, profiles |-> {}]

ConfigMaps ==
  [present : {TRUE}, valid : {TRUE}, services : SUBSET Services,
   profiles : SUBSET Profiles] \union {Absent, BadJSON}

ASSUME ProfilesAssumption == NoProfile \notin Profiles
ASSUME ConfigsAssumption == Configs \subseteq ConfigMaps
ASSUME ApiMayFailAssumption == ApiMayFail \in BOOLEAN
ASSUME BoundsAssumption ==
  /\ MaxRuns \in Nat
  /\ MaxAttempts \in Nat \ {0}
  /\ MaxEdits \in Nat
  /\ MaxFlips \in Nat

VARIABLES
  retryCh,      \* the buffered channel: a sequence of at most one profile
  worker,       \* where Worker is, and the profile it has received
  cancelFunc,   \* the goroutine whose context it cancels, 0 for nil
  wg,           \* the WaitGroup's counter
  run,          \* the RetryPartition goroutines
  spawned,      \* how many of them were started
  stateLabel,   \* the node label gpu-config-profile-state
  configFile,   \* config.json
  labelRun,     \* history: the goroutine that wrote stateLabel last
  lastAccepted, \* history: the profile accepted into retryCh last
  edits, flips  \* how often the bounded environment moved

workerVars == <<retryCh, worker, cancelFunc, spawned, lastAccepted>>
labelVars == <<stateLabel, labelRun>>
envVars == <<configFile, edits, flips>>
vars == <<serviceVars, workerVars, wg, run, labelVars, envVars>>

PCs == {"unborn", "begin", "load", "check", "stop", "partition", "wait",
        "start", "done"}

Goroutine(at, p) ==
  [pc |-> at, profile |-> p, services |-> {}, todo |-> {}, attempts |-> 0,
   cancelled |-> FALSE, late |-> 0]

NoRun == Goroutine("unborn", NoProfile)
NewRun(p) == Goroutine("begin", p)

StateLabels == {"none", "in-progress", "success", "failure"}

Active(r) == run[r].pc \notin {"unborn", "done"}

TypeOK ==
  /\ ServiceTypeOK
  /\ retryCh \in {<<>>} \union {<<p>> : p \in Profiles}
  /\ worker \in [pc : {"recv", "wait", "spawn"}, prof : Profiles \union {NoProfile}]
  /\ worker.pc # "recv" => worker.prof \in Profiles
  /\ cancelFunc \in {0} \union Runs
  /\ wg \in Nat
  /\ run \in [Runs -> [pc : PCs, profile : Profiles \union {NoProfile},
                       services : SUBSET Services, todo : SUBSET Services,
                       attempts : 0..MaxAttempts, cancelled : BOOLEAN,
                       late : Nat]]
  /\ spawned \in 0..MaxRuns
  /\ stateLabel \in StateLabels
  /\ configFile \in ConfigMaps
  /\ labelRun \in {0} \union Runs
  /\ lastAccepted \in Profiles \union {NoProfile}
  /\ edits \in 0..MaxEdits
  /\ flips \in 0..MaxFlips

Init ==
  /\ ServiceInit
  /\ retryCh = <<>>
  /\ worker = [pc |-> "recv", prof |-> NoProfile]
  /\ cancelFunc = 0
  /\ wg = 0
  /\ run = [r \in Runs |-> NoRun]
  /\ spawned = 0
  /\ stateLabel = "none"
  /\ configFile \in Configs
  /\ labelRun = 0
  /\ lastAccepted = NoProfile
  /\ edits = 0
  /\ flips = 0

-----------------------------------------------------------------------------
(***************************************************************************)
(* The trigger side and Worker.                                            *)
(***************************************************************************)

\* Triggers that were accepted and have no goroutine yet.
Pending == Len(retryCh) + (IF worker.pc = "recv" THEN 0 ELSE 1)

\* The non-blocking send: with a trigger pending, the new one is ignored.
TriggerRetryLoop(p) ==
  /\ \/ /\ retryCh = <<>>
        /\ spawned + Pending < MaxRuns
        /\ retryCh' = <<p>>
        /\ lastAccepted' = p
     \/ /\ retryCh # <<>>
        /\ UNCHANGED <<retryCh, lastAccepted>>
  /\ UNCHANGED <<serviceVars, worker, cancelFunc, spawned, wg, run, labelVars,
                 envVars>>

\* Mutant: Worker cancels and does not wait.
NoWait == "spawn"

\* Where Worker goes with a trigger: wait first if there was a goroutine.
AfterRecv == IF cancelFunc = 0 THEN "spawn" ELSE "wait"

\* Receive from retryCh, lock mu, cancel the goroutine before, unlock mu.
WorkerRecv ==
  /\ worker.pc = "recv"
  /\ retryCh # <<>>
  /\ retryCh' = <<>>
  /\ worker' = [pc |-> AfterRecv, prof |-> Head(retryCh)]
  /\ run' = IF cancelFunc = 0 THEN run
            ELSE [run EXCEPT ![cancelFunc].cancelled = TRUE]
  /\ UNCHANGED <<serviceVars, cancelFunc, spawned, lastAccepted, wg, labelVars,
                 envVars>>

\* Mutant: having waited, Worker goes back to the channel.
ForgetTrigger == worker' = [pc |-> "recv", prof |-> NoProfile]

KeepTrigger == worker' = [worker EXCEPT !.pc = "spawn"]

\* wg.Wait()
WorkerWait ==
  /\ worker.pc = "wait"
  /\ wg = 0
  /\ KeepTrigger
  /\ UNCHANGED <<serviceVars, retryCh, cancelFunc, spawned, lastAccepted, wg,
                 run, labelVars, envVars>>

\* Mutant: the cancel function of the new context is dropped.
DropCancel == UNCHANGED cancelFunc

StoreCancel == cancelFunc' = spawned + 1

\* A new context, wg.Add(1), go RetryPartition(ctx, prof); back to the range.
WorkerSpawn ==
  /\ worker.pc = "spawn"
  /\ spawned' = spawned + 1
  /\ StoreCancel
  /\ run' = [run EXCEPT ![spawned + 1] = NewRun(worker.prof)]
  /\ wg' = wg + 1
  /\ worker' = [pc |-> "recv", prof |-> NoProfile]
  /\ UNCHANGED <<serviceVars, retryCh, lastAccepted, labelVars, envVars>>

Worker == WorkerRecv \/ WorkerWait \/ WorkerSpawn

-----------------------------------------------------------------------------
(***************************************************************************)
(* RetryPartition(ctx, profile), run by goroutine r.                       *)
(***************************************************************************)

Goto(r, to) == run' = [run EXCEPT ![r].pc = to]

\* return, with the deferred wg.Done(); the locals are gone.
Return(r) ==
  /\ run' = [run EXCEPT ![r].pc = "done", ![r].services = {}, ![r].todo = {},
                        ![r].attempts = 0]
  /\ wg' = wg - 1

\* AddNodeLabel(nodeName, StateLabelKey, value); a failure is only logged.
AddStateLabel(r, value) ==
  \/ /\ stateLabel' = value
     /\ labelRun' = r
  \/ /\ ApiMayFail
     /\ UNCHANGED labelVars

RetryBegin(r) ==
  /\ run[r].pc = "begin"
  /\ AddStateLabel(r, "in-progress")
  /\ Goto(r, "load")
  /\ UNCHANGED <<serviceVars, workerVars, wg, envVars>>

\* Mutant: bad JSON is not reported on the label.
LogBadJSON(r) == UNCHANGED labelVars

ReportBadJSON(r) == AddStateLabel(r, "failure")

\* Read the service list out of config.json, once per goroutine.
RetryLoad(r) ==
  /\ run[r].pc = "load"
  /\ IF configFile.valid
       THEN /\ run' = [run EXCEPT ![r].pc = "check",
                                  ![r].services = configFile.services]
            /\ UNCHANGED <<wg, labelVars>>
       ELSE /\ ReportBadJSON(r)
            /\ Return(r)
  /\ UNCHANGED <<serviceVars, workerVars, envVars>>

(***************************************************************************)
(* time.Now().After(expiration): not at the first check, and at the latest *)
(* after MaxAttempts attempts, since each of them takes a minute or more.  *)
(***************************************************************************)
MayExpire(r) == run[r].attempts > 0

\* Mutant: one attempt too many.
ExpireLate(r) == run[r].attempts = MaxAttempts + 1

MustExpire(r) == run[r].attempts = MaxAttempts

\* Mutant: the loop head does not look at ctx.Done().
CtxIgnored(r) == FALSE

CtxDone(r) == run[r].cancelled

\* The loop head: cancelled, expired (start the services), or one attempt.
RetryCheck(r) ==
  /\ run[r].pc = "check"
  /\ \/ /\ CtxDone(r)
        /\ Return(r)
     \/ /\ ~CtxDone(r)
        /\ MayExpire(r)
        /\ run' = [run EXCEPT ![r].pc = "start", ![r].todo = run[r].services]
        /\ UNCHANGED wg
     \/ /\ ~CtxDone(r)
        /\ ~MustExpire(r)
        /\ run' = [run EXCEPT ![r].pc = "stop", ![r].todo = run[r].services]
        /\ UNCHANGED wg
  /\ UNCHANGED <<serviceVars, workerVars, labelVars, envVars>>

\* StopServiceHandler(serviceList)
StopServiceHandler(r) ==
  /\ run[r].pc = "stop"
  /\ \/ \E u \in run[r].todo :
          /\ StopServiceEntry(u)
          /\ run' = [run EXCEPT ![r].todo = @ \ {u}]
     \/ /\ run[r].todo = {}
        /\ Goto(r, "partition")
        /\ UNCHANGED serviceVars
  /\ UNCHANGED <<workerVars, wg, labelVars, envVars>>

(***************************************************************************)
(* What PartitionGPU(p) may come to: the state label it writes, and        *)
(* whether it returns an error, which asks for a retry.  Without a         *)
(* readable file or with p not in it, PartitionGPU gives up.               *)
(***************************************************************************)
PartitionOutcomes(p) ==
  {[label |-> "failure", err |-> FALSE]} \union
  IF configFile.valid /\ p \in configFile.profiles
    THEN {[label |-> "success", err |-> FALSE],
          [label |-> "failure", err |-> TRUE]}
    ELSE {}

\* PartitionGPU(selectedProfile), which never looks at ctx.
RetryPartitionGPU(r) ==
  /\ run[r].pc = "partition"
  /\ \E out \in PartitionOutcomes(run[r].profile) :
       /\ AddStateLabel(r, out.label)
       /\ run' = [run EXCEPT
                    ![r].pc = IF out.err THEN "wait" ELSE "start",
                    ![r].todo = run[r].services,
                    ![r].attempts = @ + 1,
                    ![r].late = IF run[r].cancelled THEN @ + 1 ELSE @]
  /\ UNCHANGED <<serviceVars, workerVars, wg, envVars>>

\* The minute between attempts; select takes either branch that is ready.
RetryWait(r) ==
  /\ run[r].pc = "wait"
  /\ \/ /\ Goto(r, "check")
        /\ UNCHANGED wg
     \/ /\ run[r].cancelled
        /\ Return(r)
  /\ UNCHANGED <<serviceVars, workerVars, labelVars, envVars>>

\* StartServiceHandler(serviceList), CleanupPreState included, and return.
StartServiceHandler(r) ==
  /\ run[r].pc = "start"
  /\ \/ \E u \in run[r].todo :
          /\ StartServiceEntry(u)
          /\ run' = [run EXCEPT ![r].todo = @ \ {u}]
          /\ UNCHANGED wg
     \/ /\ run[r].todo = {}
        /\ CleanupPreState
        /\ Return(r)
  /\ UNCHANGED <<workerVars, labelVars, envVars>>

RetryPartition(r) ==
  \/ RetryBegin(r)
  \/ RetryLoad(r)
  \/ RetryCheck(r)
  \/ StopServiceHandler(r)
  \/ RetryPartitionGPU(r)
  \/ RetryWait(r)
  \/ StartServiceHandler(r)

-----------------------------------------------------------------------------
(***************************************************************************)
(* The environment: somebody edits the config map, or a unit.              *)
(***************************************************************************)
EditConfig ==
  /\ edits < MaxEdits
  /\ edits' = edits + 1
  /\ configFile' \in Configs
  /\ UNCHANGED <<serviceVars, workerVars, wg, run, labelVars, flips>>

UnitChanges ==
  /\ flips < MaxFlips
  /\ flips' = flips + 1
  /\ \E u \in Services : UnitFlips(u)
  /\ UNCHANGED <<workerVars, wg, run, labelVars, configFile, edits>>

Quiescent ==
  /\ retryCh = <<>>
  /\ worker.pc = "recv"
  /\ \A r \in Runs : ~Active(r)

\* Everybody waits for the next trigger.
Idle == Quiescent /\ UNCHANGED vars

Next ==
  \/ \E p \in Profiles : TriggerRetryLoop(p)
  \/ Worker
  \/ \E r \in Runs : RetryPartition(r)
  \/ EditConfig
  \/ UnitChanges
  \/ Idle

Spec == Init /\ [][Next]_vars

(***************************************************************************)
(* The Go scheduler runs every goroutine that can run, and every call they *)
(* make returns (D-Bus calls, label writes, and PartitionGPU, see there).  *)
(***************************************************************************)
Fairness == WF_vars(Worker) /\ \A r \in Runs : WF_vars(RetryPartition(r))

FairSpec == Spec /\ Fairness

-----------------------------------------------------------------------------
(***************************************************************************)
(* Properties.                                                             *)
(***************************************************************************)

\* RetryPartition uses partStatus, partition_failed, totalGPUCount and
\* PreStateDB without a lock: Worker's cancel and wg.Wait() must keep two
\* goroutines from ever running it at once.
AtMostOneRetryPartition ==
  \A r, s \in Runs : Active(r) /\ Active(s) => r = s

\* The node label never goes back to the report of an older trigger once a
\* newer one has reported, although every goroutine writes it unlocked.
LabelsInTriggerOrder == [][labelRun' >= labelRun]_vars

\* Once all is quiet the last trigger that was accepted has been run, and
\* the label is its result and not "in-progress" (label writes succeeding).
LastTriggerIsReported ==
  Quiescent /\ spawned > 0 =>
    /\ run[spawned].profile = lastAccepted
    /\ labelRun = spawned
    /\ stateLabel \in {"success", "failure"}

\* A goroutine calls PartitionGPU at most once after its context was
\* cancelled: it may have passed the loop head, but the minute's wait, where
\* select may still take the timer, does not let it round again.
CancelIsPrompt == \A r \in Runs : run[r].late <= 1

\* While PartitionGPU runs, a service its goroutine was told to stop is
\* running only if a D-Bus call of this attempt failed for it, or it moved by
\* itself: no other goroutine's StartServiceHandler interferes.
ServicesStoppedDuringPartition ==
  \A r \in Runs : run[r].pc = "partition" =>
    \A u \in run[r].services : units[u] = "active" => u \in missed

\* The units that every readable config.json lists.
Listed == {u \in Services : \A c \in Configs : c.valid => u \in c.services}

\* A service DCM stopped is recorded as one to be started, across retries,
\* cancellations and goroutines that find no readable config.json, unless its
\* first status call or its start failed, or somebody else started it after
\* it was recorded as down.
StoppedIsRemembered ==
  \A u \in Listed \ mislaid : u \in stoppedByDCM => PreStateDB[u] = "active"

\* The units listed whatever becomes of config.json.
AlwaysListed == {u \in Services : \A c \in Configs : u \in c.services}

\* Once all is quiet, no service that stayed listed is down because DCM
\* stopped it, but for those whose state was lost as above.
NoServiceLeftStopped ==
  Quiescent => stoppedByDCM \intersect AlwaysListed \subseteq mislaid

\* A trigger accepted into retryCh gets a goroutine of its own: Worker
\* always comes back from wg.Wait().
TriggerIsServed ==
  \A p \in Profiles, n \in 0..MaxRuns :
    (retryCh = <<p>> /\ spawned = n) ~> (spawned > n /\ run[spawned].profile = p)

\* The label does not stay "in-progress" (label writes succeeding).
InProgressIsResolved == (stateLabel = "in-progress") ~> (stateLabel # "in-progress")

\* A service DCM stopped runs again some time, whatever attempts fail and
\* however often newer triggers cancel the goroutine that stopped it, as long
\* as it stays listed and its state was not lost.
ServicesAreRestored ==
  \A u \in AlwaysListed : (u \in stoppedByDCM) ~> (u \notin stoppedByDCM \/ u \in mislaid)

=============================================================================

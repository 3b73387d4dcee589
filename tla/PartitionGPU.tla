----------------------------- MODULE PartitionGPU -----------------------------
(***************************************************************************)
(* pkg/config_manager/configmanager.go: PartitionGPU, amdSMIHelper and the *)
(* recovery of a memory partition on a node whose driver KMM manages.      *)
(*                                                                         *)
(* RetryLoop shows that one call runs at a time; what interleaves with it  *)
(* is the KMM operator, which loads the driver again some time after DCM   *)
(* removed it.  partition_failed and partStatus are globals that outlive a *)
(* call, so the module makes calls one after the other.                    *)
(*                                                                         *)
(* The hardware is external (amdsmi.h): a new memory mode takes effect at  *)
(* the next load of the driver, for all GPUs of the hive, and a GPU whose  *)
(* memory mode changes may come up in any compute mode.                    *)
(***************************************************************************)
EXTENDS ProfileValidation

CONSTANTS
  GPUCount,         \* the sockets of the node
  ConfigProfiles,   \* the profiles the config map may hold
  MemoryModes,      \* memory modes the hardware can be in
  ComputeModes,     \* compute modes the hardware can be in
  Caps,             \* memory modes whose capability bit is set
  Available,        \* <<compute, memory>> combinations the hardware takes
  OneHive,          \* whether all GPUs are in one hive, or each in its own
  NonGPUs,          \* sockets whose processor is not an AMD GPU
  kmmDriverEnabled,
  SmiMayFail,       \* whether AMD SMI calls and modprobe may fail
  ReadsMayFail,     \* whether reading a current mode may fail
  ApiMayFail,       \* whether the call that makes KMM act may fail
  MaxCalls          \* bound: PartitionGPU calls

GPUs == 0..(GPUCount - 1)

ProfileType ==
  [Profiles : Seq([ComputePartition : STRING, MemoryPartition : STRING,
                   NumGPUsAssigned : Nat]),
   Filters : Seq(Nat)]

ASSUME GPUCountAssumption == GPUCount \in Nat
ASSUME ConfigProfilesAssumption == \A p \in ConfigProfiles : p \in ProfileType
ASSUME FlagsAssumption ==
  {OneHive, kmmDriverEnabled, SmiMayFail, ReadsMayFail, ApiMayFail} \subseteq BOOLEAN
\* The hardware comes up, and takes commands, only in modes it has.
ASSUME HardwareAssumption ==
  Caps \subseteq MemoryModes /\ \A a \in Available : a[1] \in ComputeModes
ASSUME MaxCallsAssumption == MaxCalls \in Nat

VARIABLES
  pc,               \* where the call is; "idle" between calls
  profile,          \* the selected profile
  gpu_ids_list,
  i, j, idx,        \* the loops; i and j count from 1, idx from 0
  existingMemory,
  partition_needed,
  partition_failed, \* global
  GPUStatus,        \* partStatus.GPUStatus[..].Status
  FinalStatus,      \* partStatus.FinalStatus
  err,              \* whether the last call returned an error
  reported,         \* what this call passed to AddNodeLabel last
  mem, comp,        \* hardware: the mode every GPU is in
  pending,          \* hardware: the memory mode to be taken at driver load
  driver,           \* hardware: whether amdgpu is loaded
  commanded,        \* history: GPUs this call sent a set command to
  verdict,          \* history: how the last call ended
  calls             \* calls made so far

locals == <<profile, gpu_ids_list, existingMemory, partition_needed>>
loopVars == <<i, j, idx>>
globals == <<partition_failed, GPUStatus, FinalStatus>>
result == <<err, verdict, calls>>
hardware == <<mem, comp, pending, driver>>
vars == <<pc, locals, loopVars, globals, result, reported, hardware, commanded>>

PCs == {"idle", "config", "helper", "loop", "gpu", "memory", "recover", "wait",
        "compute", "panic"}
Unset == ""
GPUStatuses == {Unset, "Success", "Failure", "Pending"}
Verdicts == {"none", "rejected", "apierror", "unsupported", "finished"}

entry == profile.Profiles[i]
gpu_id == gpu_ids_list[idx + 1]

TypeOK ==
  /\ pc \in PCs
  /\ profile \in ConfigProfiles
  /\ gpu_ids_list \in Seq(GPUs)
  /\ i \in Nat /\ j \in Nat /\ idx \in Nat
  /\ existingMemory \in MemoryModes \union {Unset}
  /\ partition_needed \in BOOLEAN
  /\ partition_failed \in BOOLEAN
  /\ GPUStatus \in Seq(GPUStatuses)
  /\ FinalStatus \in {"Failure", "Success"}
  /\ err \in BOOLEAN
  /\ reported \in {"none", "failure", "success"}
  /\ mem \in [GPUs -> MemoryModes]
  /\ comp \in [GPUs -> ComputeModes]
  /\ pending \in [GPUs -> MemoryModes]
  /\ driver \in BOOLEAN
  /\ commanded \in SUBSET GPUs
  /\ verdict \in Verdicts
  /\ calls \in 0..MaxCalls

Hive(g) == IF OneHive THEN GPUs ELSE {g}

\* An idle process, its globals zero, on a node in any state: the GPUs of a
\* hive are in one memory mode.
Init ==
  /\ pc = "idle"
  /\ profile \in ConfigProfiles
  /\ gpu_ids_list = <<>>
  /\ i = 1 /\ j = 1 /\ idx = 0
  /\ existingMemory = Unset
  /\ partition_needed = FALSE
  /\ partition_failed = FALSE
  /\ GPUStatus = <<>>
  /\ FinalStatus = "Failure"
  /\ err = FALSE
  /\ reported = "none"
  /\ mem \in [GPUs -> MemoryModes]
  /\ \A g \in GPUs : \A h \in Hive(g) : mem[h] = mem[g]
  /\ comp \in [GPUs -> ComputeModes]
  /\ pending = mem
  /\ driver = TRUE
  /\ commanded = {}
  /\ verdict = "none"
  /\ calls = 0

-----------------------------------------------------------------------------
(***************************************************************************)
(* AMD SMI and the driver.                                                 *)
(***************************************************************************)

\* getCurrentGPUMemoryPartition and getCurrentGPUComputePartition: "" on an
\* error, which a driver that is not loaded always is.
ReadMode(mode, g) ==
  (IF driver THEN {mode[g]} ELSE {Unset})
     \union (IF ReadsMayFail THEN {Unset} ELSE {})

\* amdsmi_set_gpu_memory_partition on GPU g.
SetPending(g, mode) == [h \in GPUs |-> IF h \in Hive(g) THEN mode ELSE pending[h]]

\* The driver comes up with the memory modes asked for.
LoadDriver(wanted) ==
  /\ mem' = wanted
  /\ pending' = wanted
  /\ \E any \in [GPUs -> ComputeModes] :
       comp' = [g \in GPUs |-> IF wanted[g] = mem[g] THEN comp[g] ELSE any[g]]
  /\ driver' = TRUE

-----------------------------------------------------------------------------
(***************************************************************************)
(* Reports and returns.                                                    *)
(***************************************************************************)

\* Whether the write arrives is K8sClient's matter; its error is only logged.
AddNodeLabel(value) == reported' = value

populateGPUEventStatus(status) == GPUStatus' = [GPUStatus EXCEPT ![idx + 1] = status]

\* amdSMIHelper returns: PartitionGPU's error is what partition_failed says.
Leave(why) ==
  /\ pc' = "idle"
  /\ err' = partition_failed
  /\ verdict' = why
  /\ UNCHANGED calls

\* A return that has reported the failure and not set partition_failed.
GiveUp(why) ==
  /\ AddNodeLabel("failure")
  /\ Leave(why)
  /\ UNCHANGED partition_failed

\* Mutant: continue without the loop's j++.
RepeatRound == UNCHANGED loopVars

\* continue without idx++, so that the next round meets the same processor.
SkipRound == j' = j + 1 /\ UNCHANGED <<i, idx>>

\* The next round of the inner loop.
NextRound == idx' = idx + 1 /\ j' = j + 1 /\ UNCHANGED i

-----------------------------------------------------------------------------
(***************************************************************************)
(* PartitionGPU and the head of amdSMIHelper.                              *)
(***************************************************************************)

\* RetryPartition calls PartitionGPU, for the first time or once more.
Call ==
  /\ pc = "idle"
  /\ calls < MaxCalls
  /\ calls' = calls + 1
  /\ profile' \in ConfigProfiles
  /\ reported' = "none"
  /\ GPUStatus' = <<>>
  /\ FinalStatus' = "Failure"
  /\ commanded' = {}
  /\ pc' = "config"
  /\ UNCHANGED <<gpu_ids_list, existingMemory, partition_needed, loopVars,
                 partition_failed, err, verdict, hardware>>

(***************************************************************************)
(* No file, no JSON, a duplicate profile name, no such profile, or no AMD  *)
(* SMI: the failure is reported and nil returned, partition_failed or not. *)
(***************************************************************************)
PartitionGPURejects ==
  /\ pc = "config"
  /\ AddNodeLabel("failure")
  /\ pc' = "idle"
  /\ err' = FALSE
  /\ verdict' = "rejected"
  /\ UNCHANGED <<locals, loopVars, globals, calls, hardware, commanded>>

PartitionGPUProceeds ==
  /\ pc = "config"
  /\ pc' = "helper"
  /\ UNCHANGED <<locals, loopVars, globals, result, reported, hardware, commanded>>

\* No sockets found (none, or the call failed), or an invalid profile.
HelperRejects ==
  /\ pc = "helper"
  /\ \/ GPUCount = 0 \/ SmiMayFail
     \/ validateProfile(profile, GPUCount) = "invalid"
  /\ GiveUp("rejected")
  /\ UNCHANGED <<locals, loopVars, GPUStatus, FinalStatus, hardware, commanded>>

HelperPanics ==
  /\ pc = "helper"
  /\ GPUCount # 0
  /\ validateProfile(profile, GPUCount) = "panic"
  /\ pc' = "panic"
  /\ UNCHANGED <<locals, loopVars, globals, result, reported, hardware, commanded>>

\* Mutant: the flag of the call before is kept.
KeepPartitionFailed == UNCHANGED partition_failed

ResetPartitionFailed == partition_failed' = FALSE

HelperStarts ==
  /\ pc = "helper"
  /\ GPUCount # 0
  /\ validateProfile(profile, GPUCount) = "ok"
  /\ gpu_ids_list' = createGPUIDList(profile.Filters, GPUCount)
  /\ GPUStatus' = [k \in 1..Len(gpu_ids_list') |-> Unset]
  /\ partition_needed' = FALSE
  /\ ResetPartitionFailed
  /\ i' = 1 /\ j' = 1 /\ idx' = 0
  /\ pc' = "loop"
  /\ UNCHANGED <<profile, existingMemory, FinalStatus, result, reported,
                 hardware, commanded>>

-----------------------------------------------------------------------------
(***************************************************************************)
(* The loops.                                                              *)
(***************************************************************************)
LoopRound ==
  /\ pc = "loop"
  /\ i <= Len(profile.Profiles)
  /\ IF j <= entry.NumGPUsAssigned
       THEN pc' = "gpu" /\ UNCHANGED loopVars
       ELSE i' = i + 1 /\ j' = 1 /\ UNCHANGED <<pc, idx>>
  /\ UNCHANGED <<locals, globals, result, reported, hardware, commanded>>

\* Mutant: success is reported whatever failed.
ReportsAnyway == TRUE

ReportsSuccess == ~partition_failed

LoopEnds ==
  /\ pc = "loop"
  /\ i > Len(profile.Profiles)
  /\ IF ReportsSuccess
       THEN FinalStatus' = "Success" /\ AddNodeLabel("success")
       ELSE UNCHANGED <<FinalStatus, reported>>
  /\ Leave("finished")
  /\ UNCHANGED <<locals, loopVars, partition_failed, GPUStatus, hardware, commanded>>

\* amdsmiGetProcessorHandles answers nil on an error; processor_handles[0].
GPUPanics ==
  /\ pc = "gpu"
  /\ SmiMayFail
  /\ pc' = "panic"
  /\ UNCHANGED <<locals, loopVars, globals, result, reported, hardware, commanded>>

GPUTypeError ==
  /\ pc = "gpu"
  /\ SmiMayFail
  /\ populateGPUEventStatus("Failure")
  /\ GiveUp("apierror")
  /\ UNCHANGED <<locals, loopVars, FinalStatus, hardware, commanded>>

GPUIsNone ==
  /\ pc = "gpu"
  /\ gpu_id \in NonGPUs
  /\ SkipRound
  /\ pc' = "loop"
  /\ UNCHANGED <<locals, globals, result, reported, hardware, commanded>>

\* The modes the GPU is in already match, or its partitioning begins.
GPUExamine ==
  /\ pc = "gpu"
  /\ gpu_id \notin NonGPUs
  /\ \E c \in ReadMode(comp, gpu_id), m \in ReadMode(mem, gpu_id) :
       IF c = entry.ComputePartition /\ m = entry.MemoryPartition
         THEN /\ populateGPUEventStatus("Success")
              /\ NextRound
              /\ pc' = "loop"
              /\ UNCHANGED locals
         ELSE /\ existingMemory' = m
              /\ partition_needed' = TRUE
              /\ pc' = IF m = entry.MemoryPartition THEN "compute" ELSE "memory"
              /\ UNCHANGED <<profile, gpu_ids_list, loopVars, GPUStatus>>
  /\ UNCHANGED <<partition_failed, FinalStatus, result, reported, hardware, commanded>>

-----------------------------------------------------------------------------
(***************************************************************************)
(* The memory partition.                                                   *)
(***************************************************************************)

\* The capabilities cannot be had, or do not include the requested mode.
MemoryUnsupported ==
  /\ pc = "memory"
  /\ \/ SmiMayFail \/ ~driver
     \/ entry.MemoryPartition \notin
          getSupportedMemoryPartitionType(Caps, mem[gpu_id])
  /\ populateGPUEventStatus("Failure")
  /\ GiveUp("unsupported")
  /\ UNCHANGED <<locals, loopVars, FinalStatus, hardware, commanded>>

\* Mutant: a failure is only logged.
LogFailure == UNCHANGED partition_failed

NoteFailure == partition_failed' = TRUE

\* Report the failure, or try to recover from it if KMM manages the driver.
MemoryFailed ==
  /\ NoteFailure
  /\ IF kmmDriverEnabled
       THEN /\ populateGPUEventStatus("Pending")
            /\ pc' = "recover"
            /\ UNCHANGED reported
       ELSE /\ AddNodeLabel("failure")
            /\ pc' = "compute"
            /\ UNCHANGED GPUStatus

(***************************************************************************)
(* Set the mode; reload the driver unless KMM manages it, whether the set  *)
(* succeeded or not; read the mode again.  A reload that fails, because    *)
(* the driver is in use, is only logged and leaves it loaded.              *)
(***************************************************************************)
SetMemory ==
  /\ pc = "memory"
  /\ driver
  /\ UNCHANGED <<locals, loopVars, FinalStatus, result>>
  /\ entry.MemoryPartition \in getSupportedMemoryPartitionType(Caps, mem[gpu_id])
  /\ \E set \in IF SmiMayFail THEN BOOLEAN ELSE {TRUE} :
       LET wanted == IF set THEN SetPending(gpu_id, entry.MemoryPartition)
                            ELSE pending
       IN  /\ \/ ~kmmDriverEnabled /\ LoadDriver(wanted)
              \/ /\ kmmDriverEnabled \/ SmiMayFail
                 /\ pending' = wanted
                 /\ UNCHANGED <<mem, comp, driver>>
           /\ \E m \in ReadMode(mem, gpu_id)' :
                IF ~set \/ m = existingMemory
                  THEN MemoryFailed
                  ELSE /\ pc' = "compute"
                       /\ UNCHANGED <<partition_failed, GPUStatus, reported>>
  /\ commanded' = commanded \union {gpu_id}

\* partition_failed = retryMemoryPartitionWithWait(...), and the label.
Recovered(failed) ==
  /\ partition_failed' = failed
  /\ IF failed THEN AddNodeLabel("failure") ELSE UNCHANGED reported
  /\ pc' = "compute"
  /\ UNCHANGED <<locals, loopVars, GPUStatus, FinalStatus, result, commanded>>

\* memoryPartitionHandling: modprobe -rv amdgpu, then delete the
\* NodeModulesConfig to make KMM load the driver.
Recover ==
  /\ pc = "recover"
  /\ \/ SmiMayFail /\ Recovered(TRUE) /\ UNCHANGED hardware
     \/ /\ driver' = FALSE
        /\ UNCHANGED <<mem, comp, pending>>
        /\ \/ /\ pc' = "wait"
              /\ UNCHANGED <<locals, loopVars, globals, result, reported, commanded>>
           \/ ApiMayFail /\ Recovered(TRUE)

\* The ticker finds the mode, or the five minutes are over.
RecoverWait ==
  /\ pc = "wait"
  /\ \/ entry.MemoryPartition \in ReadMode(mem, gpu_id) /\ Recovered(FALSE)
     \/ Recovered(TRUE)
  /\ UNCHANGED hardware

\* KMM loads the driver it manages again, at any time.
KMMLoadsDriver ==
  /\ ~driver
  /\ LoadDriver(pending)
  /\ UNCHANGED <<pc, locals, loopVars, globals, result, reported, commanded>>

-----------------------------------------------------------------------------
(***************************************************************************)
(* The compute partition, and the report for the GPU.                      *)
(***************************************************************************)
ReportGPU ==
  /\ populateGPUEventStatus(IF partition_failed' THEN "Failure" ELSE "Success")
  /\ NextRound
  /\ pc' = "loop"
  /\ UNCHANGED <<locals, FinalStatus, result>>

ComputeMatches ==
  /\ pc = "compute"
  /\ entry.ComputePartition \in ReadMode(comp, gpu_id)
  /\ UNCHANGED <<partition_failed, reported, hardware, commanded>>
  /\ ReportGPU

\* A read of another mode, or no answer, lets the code set the mode.
SetsCompute ==
  /\ pc = "compute"
  /\ \E c \in ReadMode(comp, gpu_id) : c # entry.ComputePartition
  /\ commanded' = commanded \union {gpu_id}

Takes(g) == driver /\ <<entry.ComputePartition, mem[g]>> \in Available

SetComputeDone ==
  /\ SetsCompute
  /\ Takes(gpu_id)
  /\ comp' = [comp EXCEPT ![gpu_id] = entry.ComputePartition]
  /\ UNCHANGED <<partition_failed, reported, mem, pending, driver>>
  /\ ReportGPU

\* AMDSMI_STATUS_SETTING_NOT_AVAILABLE
SetComputeUnsupported ==
  /\ SetsCompute
  /\ driver /\ ~Takes(gpu_id)
  /\ populateGPUEventStatus("Failure")
  /\ GiveUp("unsupported")
  /\ UNCHANGED <<locals, loopVars, FinalStatus, hardware>>

\* Any other status.
SetComputeFails ==
  /\ SetsCompute
  /\ SmiMayFail \/ ~driver
  /\ NoteFailure
  /\ AddNodeLabel("failure")
  /\ UNCHANGED hardware
  /\ ReportGPU

-----------------------------------------------------------------------------
\* After a panic the container is started again, with fresh globals.
Restart ==
  /\ pc = "panic"
  /\ pc' = "idle"
  /\ partition_failed' = FALSE
  /\ GPUStatus' = <<>>
  /\ FinalStatus' = "Failure"
  /\ err' = FALSE
  /\ verdict' = "none"
  /\ reported' = "none"
  /\ UNCHANGED <<locals, loopVars, calls, hardware, commanded>>

Idle == pc = "idle" /\ calls = MaxCalls /\ UNCHANGED vars

Step ==
  \/ PartitionGPURejects \/ PartitionGPUProceeds
  \/ HelperRejects \/ HelperPanics \/ HelperStarts
  \/ LoopRound \/ LoopEnds
  \/ GPUPanics \/ GPUTypeError \/ GPUIsNone \/ GPUExamine
  \/ MemoryUnsupported \/ SetMemory \/ Recover \/ RecoverWait
  \/ ComputeMatches \/ SetComputeDone \/ SetComputeUnsupported \/ SetComputeFails
  \/ Restart

Next == Call \/ Step \/ KMMLoadsDriver \/ Idle

Spec == Init /\ [][Next]_vars

\* The goroutine runs on: the wait for KMM ends by its timeout, whether or
\* not KMM ever loads the driver.
FairSpec == Spec /\ WF_vars(Step)

-----------------------------------------------------------------------------
(***************************************************************************)
(* Properties.                                                             *)
(***************************************************************************)

Done == pc = "idle" /\ verdict # "none"

\* gpu_ids_list[idx], profiles[i] and partStatus.GPUStatus[idx] are indexed
\* without a check in the loops: what validateProfile accepts must never
\* give them more rounds than there are usable GPUs.
IndexSafety ==
  pc \in {"gpu", "memory", "recover", "wait", "compute"} =>
    /\ i \in DOMAIN profile.Profiles
    /\ idx < Len(gpu_ids_list)
    /\ idx < Len(GPUStatus)

\* The rounds that ask for the modes of entry e.
Alike(e) ==
  {s \in Slots(profile.Profiles) :
     /\ profile.Profiles[s[1]].ComputePartition = e.ComputePartition
     /\ profile.Profiles[s[1]].MemoryPartition = e.MemoryPartition}

\* The report "success" means that, of the GPUs not skipped, exactly as many
\* as the profile assigns to them are in each of its modes.
SuccessMeansPartitioned ==
  Done /\ reported = "success" =>
    \A k \in DOMAIN profile.Profiles :
      LET e == profile.Profiles[k]
      IN  Cardinality({g \in UsableGPUs(profile.Filters, GPUCount) :
                         comp[g] = e.ComputePartition /\ mem[g] = e.MemoryPartition})
            = Cardinality(Alike(e))

\* What RetryLoop assumes of a call, whatever the calls before it came to:
\* it reports success or failure itself, and asks for a retry only with
\* failure, although partition_failed outlives the call that set it.
OutcomeAsPromised ==
  Done => [label |-> reported, err |-> err] \in
            {[label |-> "success", err |-> FALSE],
             [label |-> "failure", err |-> FALSE],
             [label |-> "failure", err |-> TRUE]}

\* The event of a successful call lists no GPU that failed, is pending or
\* was not looked at, and the label agrees with the event.
ReportIsConsistent ==
  Done =>
    /\ FinalStatus = "Success" => \A k \in DOMAIN GPUStatus : GPUStatus[k] = "Success"
    /\ FinalStatus = "Success" <=> reported = "success"

\* No set command is ever sent to a GPU in skippedGPUs.
SkippedNeverCommanded ==
  \A k \in DOMAIN profile.Filters : profile.Filters[k] \notin commanded

\* A call that ends because the mode is unsupported asks for no retry.
UnsupportedIsNotRetried == Done /\ verdict = "unsupported" => ~err

\* DCM does not panic on a profile.
NoPanic == pc # "panic"

\* Every call returns, or panics and is restarted: the retry loop is never
\* stuck in one, not even when KMM does not bring the driver back.
CallReturns == (pc # "idle") ~> (pc = "idle")

=============================================================================

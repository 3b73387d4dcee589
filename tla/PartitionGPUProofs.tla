-------------------------- MODULE PartitionGPUProofs --------------------------
(***************************************************************************)
(* Proofs about PartitionGPU, for every node, every set of profiles and    *)
(* any number of calls.                                                    *)
(***************************************************************************)
EXTENDS PartitionGPU, ProfileProofs

(***************************************************************************)
(* The inductive invariant.  idx follows the rounds the loops have behind  *)
(* them: a round on a processor that is no AMD GPU counts none.            *)
(***************************************************************************)
InRound == pc \in {"gpu", "memory", "recover", "wait", "compute"}
InLoops == pc = "loop" \/ InRound

RoundInv ==
  /\ InLoops =>
       /\ validateProfile(profile, GPUCount) = "ok"
       /\ gpu_ids_list = createGPUIDList(profile.Filters, GPUCount)
       /\ Len(GPUStatus) = Len(gpu_ids_list)
       /\ i >= 1 /\ j >= 1
       /\ idx <= Cardinality(Before(profile.Profiles, i, j))
  /\ InRound =>
       /\ i \in 1..Len(profile.Profiles)
       /\ j \in 1..entry.NumGPUsAssigned

CommandedInv == commanded \subseteq UsableGPUs(profile.Filters, GPUCount)

\* The flag and the label in the course of a call.  Between a failed memory
\* partition and the end of its recovery the failure is not reported yet.
OutcomeInv ==
  /\ pc \in {"config", "helper"} \/ InLoops =>
       reported # "success" /\ FinalStatus = "Failure"
  /\ pc \in {"loop", "gpu", "memory", "compute"} =>
       (partition_failed => reported = "failure")
  /\ Done => FinalStatus = "Success" <=> reported = "success"
  /\ OutcomeAsPromised

IInv == TypeOK /\ RoundInv /\ CommandedInv /\ OutcomeInv

-----------------------------------------------------------------------------
\* The parts of a profile of the config map.
LEMMA ProfileTyped ==
  ASSUME TypeOK
  PROVE  profile.Profiles \in Seq(EntryType) /\ profile.Filters \in Seq(Nat)
  <1> DEFINE TextEntry ==
               [ComputePartition : STRING, MemoryPartition : STRING, NumGPUsAssigned : Nat]
  <1>1. profile.Profiles \in Seq(TextEntry) /\ profile.Filters \in Seq(Nat)
    BY ConfigProfilesAssumption DEF TypeOK, ProfileType
  <1>2. TextEntry \subseteq EntryType
    BY DEF EntryType, PartitionText
  <1>3. Seq(TextEntry) \subseteq Seq(EntryType)
    <2> HIDE DEF TextEntry
    <2> QED
      BY <1>2
  <1> QED
    BY <1>1, <1>3

\* In a round, every index the code uses is in range, and the GPU the round
\* is about is one that is not skipped.
LEMMA RoundFacts ==
  ASSUME TypeOK, RoundInv, InRound
  PROVE  /\ IndexSafety
         /\ entry \in EntryType
         /\ Len(GPUStatus) = Len(gpu_ids_list)
         /\ idx + 1 \in 1..Len(gpu_ids_list)
         /\ gpu_id \in UsableGPUs(profile.Filters, GPUCount)
         /\ gpu_id \in GPUs
  <1> DEFINE ps == profile.Profiles
  <1>1. ps \in Seq(EntryType) /\ profile.Filters \in Seq(Nat)
    BY ProfileTyped
  <1>2. InLoops /\ i \in 1..Len(ps) /\ j \in 1..ps[i].NumGPUsAssigned
    BY DEF RoundInv, InLoops, entry
  <1>3. /\ validateProfile(profile, GPUCount) = "ok"
        /\ gpu_ids_list = createGPUIDList(profile.Filters, GPUCount)
        /\ Len(GPUStatus) = Len(gpu_ids_list)
        /\ idx <= Cardinality(Before(ps, i, j))
    BY <1>2 DEF RoundInv
  <1>4. Cardinality(Before(ps, i, j)) < total_devices(ps)
    BY <1>1, <1>2, BeforeTheNext
  <1>5. total_devices(ps) <= Len(gpu_ids_list)
    BY <1>1, <1>3, GPUCountAssumption, ValidProfilesFit, GPUIDListIsTheUsableGPUs
  <1>6. idx \in Nat /\ Len(gpu_ids_list) \in Nat
    BY DEF TypeOK
  <1>7. Cardinality(Before(ps, i, j)) \in Nat /\ total_devices(ps) \in Nat
    BY <1>1, BeforeFinite, SlotsFinite
  <1>8. idx + 1 \in 1..Len(gpu_ids_list)
    BY <1>3, <1>4, <1>5, <1>6, <1>7
  <1>9. DOMAIN ps = 1..Len(ps) /\ entry \in EntryType
    BY <1>1, <1>2, EntryTyped DEF entry
  <1>10. gpu_ids_list \in Seq(UsableGPUs(profile.Filters, GPUCount))
    BY <1>1, <1>3, GPUCountAssumption, GPUIDListIsTheUsableGPUs
  <1>11. gpu_id \in UsableGPUs(profile.Filters, GPUCount)
    BY <1>8, <1>10 DEF gpu_id
  <1>12. gpu_id \in GPUs
    BY <1>11 DEF UsableGPUs, GPUs
  <1> QED
    BY <1>2, <1>3, <1>6, <1>8, <1>9, <1>11, <1>12 DEF IndexSafety

\* A GPU's status in the event is written in place.
LEMMA StatusTyped ==
  ASSUME TypeOK, NEW status \in GPUStatuses, populateGPUEventStatus(status)
  PROVE  GPUStatus' \in Seq(GPUStatuses) /\ Len(GPUStatus') = Len(GPUStatus)
  <1>1. GPUStatus \in Seq(GPUStatuses) /\ idx \in Nat
    BY DEF TypeOK
  <1> DEFINE n == Len(GPUStatus)
             new == [GPUStatus EXCEPT ![idx + 1] = status]
  <1> HIDE DEF GPUStatuses
  <1>2. n \in Nat /\ GPUStatus \in [1..n -> GPUStatuses]
    BY <1>1
  <1>3. new \in [1..n -> GPUStatuses]
    BY <1>2
  <1>4. new \in Seq(GPUStatuses) /\ Len(new) = n
    BY <1>2, <1>3
  <1> QED
    BY <1>4 DEF populateGPUEventStatus

\* Loading the driver with memory modes leaves every GPU in a mode.
LEMMA LoadDriverTyped ==
  ASSUME TypeOK, NEW wanted \in [GPUs -> MemoryModes], LoadDriver(wanted)
  PROVE  /\ mem' \in [GPUs -> MemoryModes] /\ pending' \in [GPUs -> MemoryModes]
         /\ comp' \in [GPUs -> ComputeModes] /\ driver' \in BOOLEAN
  BY DEF TypeOK, LoadDriver

\* The memory modes a set command asks for.
LEMMA SetPendingTyped ==
  ASSUME TypeOK, NEW g \in GPUs, NEW mode \in MemoryModes
  PROVE  SetPending(g, mode) \in [GPUs -> MemoryModes]
  BY DEF TypeOK, SetPending

\* What reading a mode may answer.
LEMMA ReadModeTyped ==
  ASSUME NEW Modes, NEW mode \in [GPUs -> Modes], NEW g \in GPUs
  PROVE  ReadMode(mode, g) \subseteq Modes \union {Unset}
  BY DEF ReadMode

\* The hardware stays typed under every step.
LEMMA HardwareTyped ==
  ASSUME TypeOK, RoundInv, Next
  PROVE  /\ mem' \in [GPUs -> MemoryModes] /\ pending' \in [GPUs -> MemoryModes]
         /\ comp' \in [GPUs -> ComputeModes] /\ driver' \in BOOLEAN
  <1> DEFINE Goal == /\ mem' \in [GPUs -> MemoryModes] /\ pending' \in [GPUs -> MemoryModes]
                     /\ comp' \in [GPUs -> ComputeModes] /\ driver' \in BOOLEAN
  <1>0. /\ mem \in [GPUs -> MemoryModes] /\ pending \in [GPUs -> MemoryModes]
        /\ comp \in [GPUs -> ComputeModes] /\ driver \in BOOLEAN
    BY DEF TypeOK
  <1>1. ASSUME UNCHANGED hardware PROVE Goal
    BY <1>0, <1>1 DEF hardware
  <1>2. CASE SetMemory
    <2>1. InRound
      BY <1>2 DEF SetMemory, InRound
    <2>2. gpu_id \in GPUs
      BY <2>1, RoundFacts
    <2>3. entry.MemoryPartition \in MemoryModes
      BY <1>0, <1>2, <2>2, HardwareAssumption DEF SetMemory, getSupportedMemoryPartitionType
    <2>4. PICK set \in BOOLEAN :
            LET wanted == IF set THEN SetPending(gpu_id, entry.MemoryPartition) ELSE pending
            IN  LoadDriver(wanted) \/ (pending' = wanted /\ UNCHANGED <<mem, comp, driver>>)
      BY <1>2 DEF SetMemory
    <2> DEFINE wanted == IF set THEN SetPending(gpu_id, entry.MemoryPartition) ELSE pending
    <2>5. wanted \in [GPUs -> MemoryModes]
      BY <1>0, <2>2, <2>3, SetPendingTyped
    <2> HIDE DEF wanted
    <2>6. LoadDriver(wanted) \/ (pending' = wanted /\ UNCHANGED <<mem, comp, driver>>)
      BY <2>4 DEF wanted
    <2> QED
      BY <1>0, <2>5, <2>6, LoadDriverTyped
  <1>3. CASE Recover
    BY <1>0, <1>3 DEF Recover, hardware
  <1>4. CASE KMMLoadsDriver
    BY <1>0, <1>4, LoadDriverTyped DEF KMMLoadsDriver
  <1>5. CASE SetComputeDone
    <2>1. entry.ComputePartition \in ComputeModes
      BY <1>5, HardwareAssumption DEF SetComputeDone, Takes
    <2> QED
      BY <1>0, <1>5, <2>1 DEF SetComputeDone
  <1>6. CASE Call
    BY <1>1, <1>6 DEF Call
  <1>7. CASE PartitionGPURejects \/ PartitionGPUProceeds \/ HelperRejects \/ HelperPanics \/ HelperStarts
    BY <1>1, <1>7 DEF PartitionGPURejects, PartitionGPUProceeds, HelperRejects, HelperPanics, HelperStarts
  <1>8. CASE LoopRound \/ LoopEnds \/ GPUPanics \/ GPUTypeError \/ GPUIsNone \/ GPUExamine
    BY <1>1, <1>8 DEF LoopRound, LoopEnds, GPUPanics, GPUTypeError, GPUIsNone, GPUExamine
  <1>9. CASE MemoryUnsupported \/ RecoverWait \/ ComputeMatches \/ SetComputeUnsupported \/ SetComputeFails
    BY <1>1, <1>9 DEF MemoryUnsupported, RecoverWait, ComputeMatches, SetComputeUnsupported, SetComputeFails
  <1>10. CASE Restart \/ Idle
    BY <1>1, <1>10 DEF Restart, Idle, vars
  <1> QED
    BY <1>2, <1>3, <1>4, <1>5, <1>6, <1>7, <1>8, <1>9, <1>10 DEF Next, Step

\* The loops' counters stay natural numbers.
LEMMA CountersTyped ==
  ASSUME TypeOK, Next
  PROVE  i' \in Nat /\ j' \in Nat /\ idx' \in Nat
  <1> DEFINE Goal == i' \in Nat /\ j' \in Nat /\ idx' \in Nat
  <1>0. i \in Nat /\ j \in Nat /\ idx \in Nat
    BY DEF TypeOK
  <1>1. ASSUME UNCHANGED loopVars PROVE Goal
    BY <1>0, <1>1 DEF loopVars
  <1>2. ASSUME NextRound PROVE Goal
    BY <1>0, <1>2 DEF NextRound
  <1>3. CASE Call \/ PartitionGPURejects \/ PartitionGPUProceeds \/ HelperRejects \/ HelperPanics
    BY <1>1, <1>3 DEF Call, PartitionGPURejects, PartitionGPUProceeds, HelperRejects, HelperPanics
  <1>4. CASE HelperStarts
    BY <1>4 DEF HelperStarts
  <1>5. CASE LoopRound
    BY <1>0, <1>1, <1>5 DEF LoopRound
  <1>6. CASE LoopEnds \/ GPUPanics \/ GPUTypeError
    BY <1>1, <1>6 DEF LoopEnds, GPUPanics, GPUTypeError
  <1>7. CASE GPUIsNone
    BY <1>0, <1>7 DEF GPUIsNone, SkipRound
  <1>8. CASE GPUExamine
    BY <1>1, <1>2, <1>8 DEF GPUExamine
  <1>9. CASE MemoryUnsupported \/ SetMemory \/ Recover \/ RecoverWait
    BY <1>1, <1>9 DEF MemoryUnsupported, SetMemory, Recover, RecoverWait, Recovered
  <1>10. CASE ComputeMatches \/ SetComputeDone \/ SetComputeFails
    BY <1>2, <1>10 DEF ComputeMatches, SetComputeDone, SetComputeFails, ReportGPU
  <1>11. CASE SetComputeUnsupported \/ Restart \/ KMMLoadsDriver \/ Idle
    BY <1>1, <1>11 DEF SetComputeUnsupported, Restart, KMMLoadsDriver, Idle, vars
  <1> QED
    BY <1>3, <1>4, <1>5, <1>6, <1>7, <1>8, <1>9, <1>10, <1>11 DEF Next, Step

\* The profile, the list of GPUs and what was read of a GPU stay typed.
LEMMA LocalsTyped ==
  ASSUME TypeOK, RoundInv, Next
  PROVE  /\ profile' \in ConfigProfiles /\ gpu_ids_list' \in Seq(GPUs)
         /\ existingMemory' \in MemoryModes \union {Unset}
         /\ partition_needed' \in BOOLEAN
  <1> DEFINE Goal == /\ profile' \in ConfigProfiles /\ gpu_ids_list' \in Seq(GPUs)
                     /\ existingMemory' \in MemoryModes \union {Unset}
                     /\ partition_needed' \in BOOLEAN
  <1>0. /\ profile \in ConfigProfiles /\ gpu_ids_list \in Seq(GPUs)
        /\ existingMemory \in MemoryModes \union {Unset}
        /\ partition_needed \in BOOLEAN
    BY DEF TypeOK
  <1>1. ASSUME UNCHANGED locals PROVE Goal
    BY <1>0, <1>1 DEF locals
  <1>2. CASE Call
    BY <1>0, <1>2 DEF Call
  <1>3. CASE HelperStarts
    <2>1. UsableGPUs(profile.Filters, GPUCount) \subseteq GPUs
      BY DEF UsableGPUs, GPUs
    <2>2. createGPUIDList(profile.Filters, GPUCount) \in Seq(UsableGPUs(profile.Filters, GPUCount))
      BY ProfileTyped, GPUCountAssumption, GPUIDListIsTheUsableGPUs
    <2>3. createGPUIDList(profile.Filters, GPUCount) \in Seq(GPUs)
      BY <2>1, <2>2
    <2> QED
      BY <1>0, <1>3, <2>3 DEF HelperStarts
  <1>4. CASE GPUExamine
    <2>1. InRound
      BY <1>4 DEF GPUExamine, InRound
    <2>2. mem \in [GPUs -> MemoryModes] /\ gpu_id \in GPUs
      BY <2>1, RoundFacts DEF TypeOK
    <2>3. ReadMode(mem, gpu_id) \subseteq MemoryModes \union {Unset}
      BY <2>2, ReadModeTyped
    <2>4. PICK m \in ReadMode(mem, gpu_id) :
            \/ UNCHANGED locals
            \/ existingMemory' = m /\ partition_needed' = TRUE /\ UNCHANGED <<profile, gpu_ids_list>>
      BY <1>4 DEF GPUExamine
    <2> QED
      BY <1>0, <1>1, <2>3, <2>4
  <1>5. CASE PartitionGPURejects \/ PartitionGPUProceeds \/ HelperRejects \/ HelperPanics
    BY <1>1, <1>5 DEF PartitionGPURejects, PartitionGPUProceeds, HelperRejects, HelperPanics
  <1>6. CASE LoopRound \/ LoopEnds \/ GPUPanics \/ GPUTypeError \/ GPUIsNone
    BY <1>1, <1>6 DEF LoopRound, LoopEnds, GPUPanics, GPUTypeError, GPUIsNone
  <1>7. CASE MemoryUnsupported \/ SetMemory \/ Recover \/ RecoverWait
    BY <1>1, <1>7 DEF MemoryUnsupported, SetMemory, Recover, RecoverWait, Recovered
  <1>8. CASE ComputeMatches \/ SetComputeDone \/ SetComputeUnsupported \/ SetComputeFails
    BY <1>1, <1>8 DEF ComputeMatches, SetComputeDone, SetComputeUnsupported, SetComputeFails, ReportGPU
  <1>9. CASE Restart \/ KMMLoadsDriver \/ Idle
    BY <1>1, <1>9 DEF Restart, KMMLoadsDriver, Idle, vars
  <1> QED
    BY <1>2, <1>3, <1>4, <1>5, <1>6, <1>7, <1>8, <1>9 DEF Next, Step

\* The event and the flag stay typed.
LEMMA GlobalsTyped ==
  ASSUME TypeOK, Next
  PROVE  /\ partition_failed' \in BOOLEAN /\ GPUStatus' \in Seq(GPUStatuses)
         /\ FinalStatus' \in {"Failure", "Success"}
  <1> DEFINE Goal == /\ partition_failed' \in BOOLEAN /\ GPUStatus' \in Seq(GPUStatuses)
                     /\ FinalStatus' \in {"Failure", "Success"}
  <1>0. /\ partition_failed \in BOOLEAN /\ GPUStatus \in Seq(GPUStatuses)
        /\ FinalStatus \in {"Failure", "Success"}
    BY DEF TypeOK
  <1>1. ASSUME UNCHANGED globals PROVE Goal
    BY <1>0, <1>1 DEF globals
  <1>2. \A status \in GPUStatuses : populateGPUEventStatus(status) => GPUStatus' \in Seq(GPUStatuses)
    BY StatusTyped
  <1>3. {"Failure", "Success", "Pending", Unset} \subseteq GPUStatuses
    BY DEF GPUStatuses
  <1>4. <<>> \in Seq(GPUStatuses)
    OBVIOUS
  <1> HIDE DEF GPUStatuses
  <1>5. CASE Call \/ Restart
    BY <1>0, <1>4, <1>5 DEF Call, Restart
  <1>6. CASE PartitionGPURejects \/ PartitionGPUProceeds \/ HelperRejects \/ HelperPanics
    BY <1>0, <1>1, <1>6 DEF PartitionGPURejects, PartitionGPUProceeds, HelperRejects, HelperPanics, GiveUp
  <1>7. CASE HelperStarts
    <2> DEFINE n == Len(createGPUIDList(profile.Filters, GPUCount))
    <2>1. GPUStatus' = [k \in 1..n |-> Unset]
      BY <1>7 DEF HelperStarts
    <2>2. n \in Nat
      BY ProfileTyped, GPUCountAssumption, GPUIDListIsTheUsableGPUs
    <2> HIDE DEF n
    <2>3. GPUStatus' \in Seq(GPUStatuses)
      BY <1>3, <2>1, <2>2
    <2> QED
      BY <1>0, <1>7, <2>3 DEF HelperStarts, ResetPartitionFailed
  <1>8. CASE LoopRound \/ LoopEnds \/ GPUPanics \/ GPUIsNone
    BY <1>0, <1>1, <1>8 DEF LoopRound, LoopEnds, GPUPanics, GPUIsNone
  <1>9. CASE GPUTypeError \/ MemoryUnsupported \/ SetComputeUnsupported
    BY <1>0, <1>2, <1>3, <1>9 DEF GPUTypeError, MemoryUnsupported, SetComputeUnsupported, GiveUp
  <1>10. CASE GPUExamine
    BY <1>0, <1>2, <1>3, <1>10 DEF GPUExamine
  <1>11. CASE SetMemory
    <2>1. \/ MemoryFailed /\ UNCHANGED FinalStatus
          \/ UNCHANGED globals
      BY <1>11 DEF SetMemory, globals
    <2> QED
      BY <1>0, <1>1, <1>2, <1>3, <2>1 DEF MemoryFailed, NoteFailure
  <1>12. CASE Recover \/ RecoverWait
    BY <1>0, <1>1, <1>12 DEF Recover, RecoverWait, Recovered
  <1>13. CASE ComputeMatches \/ SetComputeDone \/ SetComputeFails
    BY <1>0, <1>2, <1>3, <1>13
    DEF ComputeMatches, SetComputeDone, SetComputeFails, ReportGPU, NoteFailure
  <1>14. CASE KMMLoadsDriver \/ Idle
    BY <1>1, <1>14 DEF KMMLoadsDriver, Idle, vars
  <1> QED
    BY <1>5, <1>6, <1>7, <1>8, <1>9, <1>10, <1>11, <1>12, <1>13, <1>14 DEF Next, Step

\* Where the call is, what it reported and returned, and whom it commanded
\* stay typed.
LEMMA ResultTyped ==
  ASSUME TypeOK, RoundInv, Next
  PROVE  /\ pc' \in PCs /\ err' \in BOOLEAN /\ verdict' \in Verdicts
         /\ reported' \in {"none", "failure", "success"}
         /\ calls' \in 0..MaxCalls /\ commanded' \in SUBSET GPUs
  <1> DEFINE Reports == {"none", "failure", "success"}
             Goal == /\ pc' \in PCs /\ err' \in BOOLEAN /\ verdict' \in Verdicts
                     /\ reported' \in Reports
                     /\ calls' \in 0..MaxCalls /\ commanded' \in SUBSET GPUs
  <1>0. /\ pc \in PCs /\ err \in BOOLEAN /\ verdict \in Verdicts /\ reported \in Reports
        /\ calls \in 0..MaxCalls /\ commanded \in SUBSET GPUs /\ partition_failed \in BOOLEAN
    BY DEF TypeOK
  <1>1. ASSUME UNCHANGED <<pc, result, reported, commanded>> PROVE Goal
    BY <1>0, <1>1 DEF result
  <1>2. ASSUME NEW why \in Verdicts, Leave(why), reported' \in Reports, commanded' \in SUBSET GPUs
        PROVE  Goal
    BY <1>0, <1>2 DEF Leave, PCs
  <1>3. ASSUME pc' \in PCs, UNCHANGED <<result, commanded>>, reported' \in Reports PROVE Goal
    BY <1>0, <1>3 DEF result
  <1>4. CASE Call
    BY <1>0, <1>4, MaxCallsAssumption DEF Call, PCs
  <1>5. CASE PartitionGPURejects \/ Restart
    BY <1>0, <1>5 DEF PartitionGPURejects, Restart, AddNodeLabel, PCs, Verdicts
  <1>6. CASE PartitionGPUProceeds \/ HelperPanics \/ HelperStarts \/ LoopRound \/ GPUPanics \/ GPUIsNone
    BY <1>0, <1>3, <1>6
    DEF PartitionGPUProceeds, HelperPanics, HelperStarts, LoopRound, GPUPanics, GPUIsNone, PCs
  <1>7. CASE HelperRejects \/ LoopEnds \/ GPUTypeError \/ MemoryUnsupported
    BY <1>0, <1>2, <1>7
    DEF HelperRejects, LoopEnds, GPUTypeError, MemoryUnsupported, GiveUp, AddNodeLabel, Verdicts
  <1>8. CASE GPUExamine
    BY <1>0, <1>3, <1>8 DEF GPUExamine, PCs
  <1>9. ASSUME pc \in {"memory", "compute"} PROVE gpu_id \in GPUs
    BY <1>9, RoundFacts DEF InRound
  <1>10. CASE SetMemory
    <2>1. commanded' \in SUBSET GPUs
      BY <1>0, <1>9, <1>10 DEF SetMemory
    <2>2. MemoryFailed \/ (pc' = "compute" /\ UNCHANGED reported)
      BY <1>10 DEF SetMemory
    <2>3. UNCHANGED result
      BY <1>10 DEF SetMemory
    <2> QED
      BY <1>0, <2>1, <2>2, <2>3 DEF MemoryFailed, AddNodeLabel, PCs, result
  <1>11. CASE Recover \/ RecoverWait
    BY <1>0, <1>3, <1>11 DEF Recover, RecoverWait, Recovered, AddNodeLabel, PCs, result
  <1>12. CASE ComputeMatches \/ SetComputeDone \/ SetComputeFails
    BY <1>0, <1>9, <1>12
    DEF ComputeMatches, SetComputeDone, SetComputeFails, SetsCompute, ReportGPU, AddNodeLabel, PCs, result
  <1>13. CASE SetComputeUnsupported
    BY <1>0, <1>2, <1>9, <1>13 DEF SetComputeUnsupported, SetsCompute, GiveUp, AddNodeLabel, Verdicts
  <1>14. CASE KMMLoadsDriver \/ Idle
    BY <1>1, <1>14 DEF KMMLoadsDriver, Idle, vars
  <1> QED
    BY <1>4, <1>5, <1>6, <1>7, <1>8, <1>10, <1>11, <1>12, <1>13, <1>14 DEF Next, Step

\* TypeOK holds on.
LEMMA TypeStep ==
  ASSUME TypeOK, RoundInv, Next
  PROVE  TypeOK'
  BY HardwareTyped, CountersTyped, LocalsTyped, GlobalsTyped, ResultTyped DEF TypeOK

-----------------------------------------------------------------------------
\* Steps within a round, and steps that leave the loops.
LEMMA RoundMoves ==
  ASSUME TypeOK, RoundInv,
         InLoops' => InLoops /\ UNCHANGED <<profile, gpu_ids_list, loopVars>>,
         InLoops' => Len(GPUStatus') = Len(GPUStatus),
         InRound' => InRound
  PROVE  RoundInv'
  <1>1. ASSUME InLoops'
        PROVE  /\ InLoops /\ Len(GPUStatus') = Len(GPUStatus)
               /\ profile' = profile /\ gpu_ids_list' = gpu_ids_list
               /\ i' = i /\ j' = j /\ idx' = idx
    BY <1>1 DEF loopVars
  <1>2. InRound' => InLoops'
    BY DEF InLoops
  <1>3. ASSUME InLoops' PROVE idx' <= Cardinality(Before(profile.Profiles, i, j)')
    <2>1. idx <= Cardinality(Before(profile.Profiles, i, j))
      BY <1>1, <1>3 DEF RoundInv
    <2> QED
      BY <1>1, <1>3, <2>1
  <1> QED
    BY <1>1, <1>2, <1>3 DEF RoundInv, entry

\* The end of a round: its processor was the next GPU of the list, or none.
LEMMA RoundEnds ==
  ASSUME TypeOK, RoundInv, InRound,
         pc' = "loop", i' = i, j' = j + 1, idx' \in {idx, idx + 1},
         UNCHANGED <<profile, gpu_ids_list>>, Len(GPUStatus') = Len(GPUStatus)
  PROVE  RoundInv'
  <1> DEFINE ps == profile.Profiles
  <1>1. ps \in Seq(EntryType)
    BY ProfileTyped
  <1>2. InLoops /\ i \in 1..Len(ps) /\ j \in 1..ps[i].NumGPUsAssigned
    BY DEF RoundInv, InLoops, entry
  <1>3. Cardinality(Before(ps, i, j + 1)) = Cardinality(Before(ps, i, j)) + 1
    BY <1>1, <1>2, BeforeTheNext
  <1>4. Cardinality(Before(ps, i, j)) \in Nat /\ idx \in Nat /\ j \in Nat
    BY <1>1, BeforeFinite DEF TypeOK
  <1>5. idx <= Cardinality(Before(ps, i, j)) /\ i >= 1 /\ j >= 1
    BY <1>2 DEF RoundInv
  <1>6. idx' <= Cardinality(Before(ps, i, j + 1))
    BY <1>3, <1>4, <1>5
  <1>7. idx' <= Cardinality(Before(profile.Profiles, i, j)')
    BY <1>6
  <1>8. j' >= 1
    BY <1>4, <1>5
  <1> QED
    BY <1>2, <1>5, <1>7, <1>8 DEF RoundInv, InLoops, InRound

\* The loops go from entry to entry, and into a round only where there is one.
LEMMA LoopRoundInv ==
  ASSUME TypeOK, RoundInv, LoopRound
  PROVE  RoundInv'
  <1> DEFINE ps == profile.Profiles
  <1>1. ps \in Seq(EntryType)
    BY ProfileTyped
  <1>2. /\ pc = "loop" /\ InLoops /\ ~InRound /\ i <= Len(ps)
        /\ UNCHANGED <<profile, gpu_ids_list, GPUStatus>>
    BY DEF LoopRound, InLoops, InRound, locals, globals
  <1>3. i \in Nat /\ j \in Nat /\ idx \in Nat /\ i >= 1 /\ j >= 1
    BY <1>2 DEF TypeOK, RoundInv
  <1>4. i \in 1..Len(ps) /\ ps[i].NumGPUsAssigned \in Nat
    BY <1>1, <1>2, <1>3, EntryTyped
  <1>5. CASE j <= ps[i].NumGPUsAssigned
    <2>1. pc' = "gpu" /\ UNCHANGED loopVars /\ j \in 1..ps[i].NumGPUsAssigned
      BY <1>3, <1>4, <1>5 DEF LoopRound, entry
    <2> QED
      BY <1>2, <1>4, <2>1 DEF RoundInv, InLoops, InRound, entry, loopVars
  <1>6. CASE ~(j <= ps[i].NumGPUsAssigned)
    <2>1. i' = i + 1 /\ j' = 1 /\ UNCHANGED <<pc, idx>>
      BY <1>6 DEF LoopRound, entry
    <2>2. Before(ps, i + 1, 1) = Before(ps, i, j)
      BY <1>1, <1>3, <1>4, <1>6, BeforeTheNextEntry
    <2>3. idx' <= Cardinality(Before(profile.Profiles, i, j)')
      BY <1>2, <2>1, <2>2 DEF RoundInv
    <2>4. InLoops' /\ ~InRound' /\ i' >= 1 /\ j' >= 1
      BY <1>2, <1>3, <2>1 DEF InLoops, InRound
    <2> QED
      BY <1>2, <2>3, <2>4 DEF RoundInv
  <1> QED
    BY <1>5, <1>6

\* The loops start with the list of usable GPUs and no round behind them.
LEMMA HelperStartsInv ==
  ASSUME TypeOK, HelperStarts
  PROVE  RoundInv'
  <1>1. profile.Profiles \in Seq(EntryType) /\ profile.Filters \in Seq(Nat)
    BY ProfileTyped
  <1>2. Before(profile.Profiles, 1, 1) = {} /\ Cardinality({}) = 0
    BY <1>1, BeforeTheFirst, FS_EmptySet
  <1>3. /\ pc' = "loop" /\ i' = 1 /\ j' = 1 /\ idx' = 0 /\ UNCHANGED profile
        /\ validateProfile(profile, GPUCount) = "ok"
        /\ gpu_ids_list' = createGPUIDList(profile.Filters, GPUCount)
        /\ GPUStatus' = [k \in 1..Len(gpu_ids_list') |-> Unset]
    BY DEF HelperStarts
  <1>4. idx' <= Cardinality(Before(profile.Profiles, i, j)')
    <2>1. 0 <= Cardinality(Before(profile.Profiles, 1, 1))
      BY <1>2
    <2> QED
      BY <1>3, <2>1
  <1>5. Len(gpu_ids_list') \in Nat
    BY <1>1, <1>3, GPUCountAssumption, GPUIDListIsTheUsableGPUs
  <1>6. Len(GPUStatus') = Len(gpu_ids_list')
    <2> DEFINE n == Len(gpu_ids_list')
    <2>1. n \in Nat /\ GPUStatus' = [k \in 1..n |-> Unset]
      BY <1>3, <1>5
    <2> HIDE DEF n
    <2>2. Len(GPUStatus') = n
      BY <2>1
    <2> QED
      BY <2>2 DEF n
  <1>7. ~InRound'
    BY <1>3 DEF InRound
  <1> QED
    BY <1>3, <1>4, <1>6, <1>7 DEF RoundInv

\* RoundInv holds on.
LEMMA RoundStep ==
  ASSUME TypeOK, RoundInv, Next
  PROVE  RoundInv'
  <1>1. \A status \in GPUStatuses : populateGPUEventStatus(status) => Len(GPUStatus') = Len(GPUStatus)
    BY StatusTyped
  <1>2. {"Failure", "Success", "Pending"} \subseteq GPUStatuses
    BY DEF GPUStatuses
  <1> HIDE DEF GPUStatuses
  <1>3. ASSUME pc' \in {"idle", "config", "helper", "panic"} PROVE RoundInv'
    BY <1>3 DEF RoundInv, InLoops, InRound
  <1>4. CASE Call \/ PartitionGPURejects \/ PartitionGPUProceeds \/ HelperRejects \/ HelperPanics
    BY <1>3, <1>4 DEF Call, PartitionGPURejects, PartitionGPUProceeds, HelperRejects, HelperPanics,
                      GiveUp, Leave
  <1>5. CASE HelperStarts
    BY <1>5, HelperStartsInv
  <1>6. CASE LoopRound
    BY <1>6, LoopRoundInv
  <1>7. CASE LoopEnds \/ GPUPanics \/ GPUTypeError \/ MemoryUnsupported \/ SetComputeUnsupported \/ Restart
    BY <1>3, <1>7 DEF LoopEnds, GPUPanics, GPUTypeError, MemoryUnsupported, SetComputeUnsupported,
                      Restart, GiveUp, Leave
  <1>8. CASE GPUIsNone
    <2>1. InRound
      BY <1>8 DEF GPUIsNone, InRound
    <2> QED
      BY <1>8, <2>1, RoundEnds DEF GPUIsNone, SkipRound, locals, globals
  <1>9. CASE GPUExamine
    <2>1. InRound
      BY <1>9 DEF GPUExamine, InRound
    <2>2. \/ /\ populateGPUEventStatus("Success") /\ NextRound /\ pc' = "loop"
             /\ UNCHANGED <<profile, gpu_ids_list>>
          \/ UNCHANGED <<profile, gpu_ids_list, loopVars, GPUStatus>>
      BY <1>9 DEF GPUExamine, locals
    <2>3. ASSUME UNCHANGED <<profile, gpu_ids_list, loopVars, GPUStatus>> PROVE RoundInv'
      BY <2>1, <2>3, RoundMoves DEF InLoops
    <2> QED
      BY <1>1, <1>2, <2>1, <2>2, <2>3, RoundEnds DEF NextRound
  <1>10. CASE SetMemory
    <2>1. InRound /\ InLoops
      BY <1>10 DEF SetMemory, InRound, InLoops
    <2>2. MemoryFailed \/ UNCHANGED GPUStatus
      BY <1>10 DEF SetMemory
    <2>3. Len(GPUStatus') = Len(GPUStatus)
      BY <1>1, <1>2, <2>2 DEF MemoryFailed
    <2>4. UNCHANGED <<profile, gpu_ids_list, loopVars>>
      BY <1>10 DEF SetMemory, locals
    <2> QED
      BY <2>1, <2>3, <2>4, RoundMoves
  <1>11. CASE Recover \/ RecoverWait
    <2>1. InRound /\ InLoops
      BY <1>11 DEF Recover, RecoverWait, InRound, InLoops
    <2>2. UNCHANGED <<profile, gpu_ids_list, loopVars, GPUStatus>>
      BY <1>11 DEF Recover, RecoverWait, Recovered, locals, globals
    <2> QED
      BY <2>1, <2>2, RoundMoves
  <1>12. CASE ComputeMatches \/ SetComputeDone \/ SetComputeFails
    <2>1. InRound /\ ReportGPU
      BY <1>12 DEF ComputeMatches, SetComputeDone, SetComputeFails, SetsCompute, InRound
    <2>2. Len(GPUStatus') = Len(GPUStatus)
      BY <1>1, <1>2, <2>1 DEF ReportGPU
    <2> QED
      BY <2>1, <2>2, RoundEnds DEF ReportGPU, NextRound, locals
  <1>13. CASE KMMLoadsDriver \/ Idle
    <2>1. UNCHANGED <<pc, locals, loopVars, globals>>
      BY <1>13 DEF KMMLoadsDriver, Idle, vars
    <2> QED
      BY <2>1, RoundMoves DEF locals, globals, InRound, InLoops
  <1> QED
    BY <1>4, <1>5, <1>6, <1>7, <1>8, <1>9, <1>10, <1>11, <1>12, <1>13 DEF Next, Step

\* Only GPUs that are not skipped are commanded.
LEMMA CommandedStep ==
  ASSUME TypeOK, RoundInv, CommandedInv, Next
  PROVE  CommandedInv'
  <1>1. ASSUME UNCHANGED <<profile, commanded>> PROVE CommandedInv'
    BY <1>1 DEF CommandedInv
  <1>2. CASE Call
    BY <1>2 DEF Call, CommandedInv
  <1>3. CASE SetMemory \/ SetComputeDone \/ SetComputeUnsupported \/ SetComputeFails
    <2>1. /\ InRound /\ UNCHANGED profile
          /\ commanded' = commanded \union {gpu_id}
      BY <1>3 DEF SetMemory, SetComputeDone, SetComputeUnsupported, SetComputeFails, SetsCompute,
                  InRound, locals, ReportGPU
    <2>2. gpu_id \in UsableGPUs(profile.Filters, GPUCount)
      BY <2>1, RoundFacts
    <2> QED
      BY <2>1, <2>2 DEF CommandedInv
  <1>4. CASE PartitionGPURejects \/ PartitionGPUProceeds \/ HelperRejects \/ HelperPanics \/ HelperStarts
    BY <1>1, <1>4 DEF PartitionGPURejects, PartitionGPUProceeds, HelperRejects, HelperPanics,
                      HelperStarts, locals
  <1>5. CASE LoopRound \/ LoopEnds \/ GPUPanics \/ GPUTypeError \/ GPUIsNone \/ GPUExamine
    BY <1>1, <1>5 DEF LoopRound, LoopEnds, GPUPanics, GPUTypeError, GPUIsNone, GPUExamine, locals
  <1>6. CASE MemoryUnsupported \/ Recover \/ RecoverWait \/ ComputeMatches \/ Restart
    BY <1>1, <1>6 DEF MemoryUnsupported, Recover, RecoverWait, Recovered, ComputeMatches, ReportGPU,
                      Restart, locals
  <1>7. CASE KMMLoadsDriver \/ Idle
    BY <1>1, <1>7 DEF KMMLoadsDriver, Idle, vars, locals
  <1> QED
    BY <1>2, <1>3, <1>4, <1>5, <1>6, <1>7 DEF Next, Step

\* A return after the failure was reported keeps the promise, whatever the
\* flag says.
LEMMA FailureKeepsPromise ==
  ASSUME TypeOK, pc' = "idle", reported' = "failure", err' \in BOOLEAN,
         FinalStatus' = "Failure"
  PROVE  OutcomeInv'
  BY DEF OutcomeInv, OutcomeAsPromised, Done, InLoops, InRound

\* OutcomeInv holds on.
LEMMA OutcomeStep ==
  ASSUME TypeOK, OutcomeInv, Next
  PROVE  OutcomeInv'
  <1>0. partition_failed \in BOOLEAN /\ reported \in {"none", "failure", "success"}
    BY DEF TypeOK
  <1> DEFINE Fresh == reported # "success" /\ FinalStatus = "Failure"
             Told == partition_failed => reported = "failure"
  <1>1. pc \notin {"idle", "panic"} => Fresh
    BY DEF OutcomeInv, InLoops, InRound, TypeOK, PCs
  <1>2. pc \in {"loop", "gpu", "memory", "compute"} => Told
    BY DEF OutcomeInv
  <1>3. ASSUME pc' \in PCs \ {"idle", "panic"}, Fresh',
               pc' \in {"loop", "gpu", "memory", "compute"} => Told'
        PROVE  OutcomeInv'
    BY <1>3 DEF OutcomeInv, OutcomeAsPromised, Done
  <1>4. ASSUME pc' = "panic" PROVE OutcomeInv'
    BY <1>4 DEF OutcomeInv, OutcomeAsPromised, Done, InLoops, InRound
  <1>5. CASE Call
    BY <1>5, <1>3 DEF Call, PCs
  <1>6. CASE PartitionGPURejects
    BY <1>1, <1>6, FailureKeepsPromise DEF PartitionGPURejects, AddNodeLabel, globals
  <1>7. CASE PartitionGPUProceeds
    BY <1>1, <1>3, <1>7 DEF PartitionGPUProceeds, globals, PCs
  <1>8. CASE HelperRejects \/ GPUTypeError \/ MemoryUnsupported \/ SetComputeUnsupported
    <2>1. /\ pc \notin {"idle", "panic"} /\ UNCHANGED FinalStatus
          /\ \E why \in Verdicts : GiveUp(why)
      BY <1>8 DEF HelperRejects, GPUTypeError, MemoryUnsupported, SetComputeUnsupported, SetsCompute,
                  Verdicts
    <2> QED
      BY <1>0, <1>1, <2>1, FailureKeepsPromise DEF GiveUp, Leave, AddNodeLabel
  <1>9. CASE HelperPanics \/ GPUPanics
    BY <1>4, <1>9 DEF HelperPanics, GPUPanics
  <1>10. CASE HelperStarts
    BY <1>1, <1>3, <1>10 DEF HelperStarts, ResetPartitionFailed, PCs
  <1>11. CASE LoopRound \/ GPUIsNone
    BY <1>1, <1>2, <1>3, <1>11 DEF LoopRound, GPUIsNone, globals, PCs
  <1>12. CASE LoopEnds
    <2>1. Fresh /\ Told /\ pc' = "idle" /\ err' = partition_failed
      BY <1>1, <1>2, <1>12 DEF LoopEnds, Leave
    <2>2. CASE partition_failed
      BY <1>0, <1>12, <2>1, <2>2, FailureKeepsPromise DEF LoopEnds, ReportsSuccess
    <2>3. CASE ~partition_failed
      <3>1. FinalStatus' = "Success" /\ reported' = "success" /\ err' = FALSE
        BY <1>12, <2>1, <2>3 DEF LoopEnds, ReportsSuccess, AddNodeLabel
      <3> QED
        BY <2>1, <3>1 DEF OutcomeInv, OutcomeAsPromised, Done, InLoops, InRound
    <2> QED
      BY <2>2, <2>3
  <1>13. CASE GPUExamine
    BY <1>1, <1>2, <1>3, <1>13 DEF GPUExamine, PCs
  <1>14. CASE SetMemory
    <2>1. /\ pc = "memory" /\ UNCHANGED FinalStatus
          /\ \/ MemoryFailed
             \/ pc' = "compute" /\ UNCHANGED <<partition_failed, reported>>
      BY <1>14 DEF SetMemory
    <2> QED
      BY <1>1, <1>2, <1>3, <2>1 DEF MemoryFailed, AddNodeLabel, PCs
  <1>15. CASE Recover \/ RecoverWait
    <2>1. /\ pc \in {"recover", "wait"} /\ UNCHANGED FinalStatus
          /\ \/ Recovered(TRUE) \/ Recovered(FALSE)
             \/ pc' = "wait" /\ UNCHANGED reported
      BY <1>15 DEF Recover, RecoverWait, Recovered, globals
    <2> QED
      BY <1>1, <1>3, <2>1 DEF Recovered, AddNodeLabel, PCs
  <1>16. CASE ComputeMatches \/ SetComputeDone \/ SetComputeFails
    BY <1>1, <1>2, <1>3, <1>16
    DEF ComputeMatches, SetComputeDone, SetComputeFails, SetsCompute, ReportGPU, AddNodeLabel, PCs
  <1>17. CASE Restart
    BY <1>17 DEF Restart, OutcomeInv, OutcomeAsPromised, Done, InLoops, InRound
  <1>18. CASE KMMLoadsDriver \/ Idle
    BY <1>18 DEF KMMLoadsDriver, Idle, vars, globals, result, OutcomeInv, OutcomeAsPromised, Done,
                 InLoops, InRound
  <1> QED
    BY <1>5, <1>6, <1>7, <1>8, <1>9, <1>10, <1>11, <1>12, <1>13, <1>14, <1>15, <1>16, <1>17, <1>18
    DEF Next, Step

-----------------------------------------------------------------------------
\* An idle process satisfies the invariant.
LEMMA InitIInv == Init => IInv
  <1> SUFFICES ASSUME Init PROVE IInv
    OBVIOUS
  <1>1. pc = "idle" /\ verdict = "none" /\ commanded = {}
    BY DEF Init
  <1>2. TypeOK
    <2>1. gpu_ids_list \in Seq(GPUs) /\ GPUStatus \in Seq(GPUStatuses)
      BY DEF Init
    <2>2. calls \in 0..MaxCalls
      BY MaxCallsAssumption DEF Init
    <2>3. /\ mem \in [GPUs -> MemoryModes] /\ pending \in [GPUs -> MemoryModes]
          /\ comp \in [GPUs -> ComputeModes] /\ driver \in BOOLEAN /\ commanded \in SUBSET GPUs
      BY DEF Init
    <2> QED
      BY <2>1, <2>2, <2>3 DEF Init, TypeOK, PCs, Verdicts
  <1>3. RoundInv /\ CommandedInv /\ OutcomeInv
    BY <1>1 DEF RoundInv, CommandedInv, OutcomeInv, OutcomeAsPromised, Done, InLoops, InRound
  <1> QED
    BY <1>2, <1>3 DEF IInv

\* A step of nothing preserves it.
LEMMA StutterIInv == IInv /\ UNCHANGED vars => IInv'
  <1> SUFFICES ASSUME IInv, UNCHANGED vars PROVE IInv'
    OBVIOUS
  <1> USE DEF vars, locals, loopVars, globals, result, hardware
  <1>1. TypeOK'
    BY DEF IInv, TypeOK
  <1>2. RoundInv'
    BY RoundMoves DEF IInv, InLoops, InRound
  <1>3. CommandedInv' /\ OutcomeInv'
    BY DEF IInv, CommandedInv, OutcomeInv, OutcomeAsPromised, Done, InLoops, InRound
  <1> QED
    BY <1>1, <1>2, <1>3 DEF IInv

\* The invariant holds in every state.
THEOREM Invariance == Spec => []IInv
  <1>1. IInv /\ [Next]_vars => IInv'
    BY StutterIInv, TypeStep, RoundStep, CommandedStep, OutcomeStep DEF IInv
  <1> QED
    BY InitIInv, <1>1, PTL DEF Spec

\* Every variable has its type: in particular no loop variable, no entry of
\* the event and no mode of the hardware ever leaves its range.
THEOREM TypeCorrect == Spec => []TypeOK
  <1>1. IInv => TypeOK
    BY DEF IInv
  <1> QED
    BY Invariance, <1>1, PTL

\* gpu_ids_list, profiles and partStatus.GPUStatus are never indexed out of
\* range, on any node and with any profile, repeated ids, sockets that hold
\* no GPU and failing calls included.
THEOREM IndicesInRange == Spec => []IndexSafety
  <1>1. IInv => IndexSafety
    <2>1. IInv /\ InRound => IndexSafety
      BY RoundFacts DEF IInv
    <2>2. ~InRound => IndexSafety
      BY DEF InRound, IndexSafety
    <2> QED
      BY <2>1, <2>2
  <1> QED
    BY Invariance, <1>1, PTL

\* No GPU in skippedGPUs is ever sent a set command.
THEOREM SkippedLeftAlone == Spec => []SkippedNeverCommanded
  <1>1. IInv => SkippedNeverCommanded
    BY DEF IInv, CommandedInv, UsableGPUs, SkippedNeverCommanded
  <1> QED
    BY Invariance, <1>1, PTL

\* Every call ends with one of the three outcomes RetryLoop is written for.
THEOREM OutcomeKept == Spec => []OutcomeAsPromised
  <1>1. IInv => OutcomeAsPromised
    BY DEF IInv, OutcomeInv
  <1> QED
    BY Invariance, <1>1, PTL

-----------------------------------------------------------------------------
(***************************************************************************)
(* What the report of a call is worth.  On every node the outcome is one   *)
(* of three (OutcomeKept); that "success" is true of the event and of the  *)
(* GPUs needs more, and each hypothesis below is one the report is wrong   *)
(* without.                                                                *)
(***************************************************************************)

\* DCM reloads the driver itself, every profile skips the sockets that hold
\* no GPU, and none skips a GPU twice (validateProfile would count it twice).
PlainNode ==
  /\ ~kmmDriverEnabled
  /\ \A p \in ConfigProfiles :
       Distinct(p.Filters) /\ NonGPUs \intersect UsableGPUs(p.Filters, GPUCount) = {}

\* Moreover a mode can be read when the driver is loaded, and the GPUs of the
\* node share their memory mode.
SteadyNode == PlainNode /\ ~ReadsMayFail /\ OneHive

\* Every round ends with a status: idx counts them all.
StatusInv ==
  /\ pc \notin {"recover", "wait"}
  /\ InLoops => idx = Cardinality(Before(profile.Profiles, i, j))
  /\ InLoops /\ ~partition_failed => \A k \in 1..idx : GPUStatus[k] = "Success"
  /\ ReportIsConsistent

HiveInv ==
  /\ driver
  /\ \A g, h \in GPUs : mem[g] = mem[h] /\ pending[g] = pending[h]

\* The GPU round s is about.
GPUOf(s) == gpu_ids_list[Cardinality(Before(profile.Profiles, s[1], s[2])) + 1]

InModes(g, e) == comp[g] = e.ComputePartition /\ mem[g] = e.MemoryPartition

\* Until a failure, the GPUs of the rounds that are over are in the modes of
\* their entries: no later round takes them out of it.
DoneInv ==
  /\ InLoops /\ ~partition_failed =>
       \A s \in Before(profile.Profiles, i, j) : InModes(GPUOf(s), profile.Profiles[s[1]])
  /\ pc = "memory" =>
       existingMemory = mem[gpu_id] /\ existingMemory # entry.MemoryPartition
  /\ pc = "compute" /\ ~partition_failed => mem[gpu_id] = entry.MemoryPartition

ReportInv == StatusInv /\ HiveInv /\ DoneInv /\ SuccessMeansPartitioned

-----------------------------------------------------------------------------
\* The GPU of a round is one.
LEMMA NoForeignRound ==
  ASSUME PlainNode, IInv, InRound
  PROVE  gpu_id \notin NonGPUs
  <1>1. gpu_id \in UsableGPUs(profile.Filters, GPUCount) /\ profile \in ConfigProfiles
    BY RoundFacts DEF IInv, TypeOK
  <1> QED
    BY <1>1 DEF PlainNode

\* When the loops are over, every GPU of the list had its round.
LEMMA AllRoundsOver ==
  ASSUME PlainNode, IInv, StatusInv, InLoops, i > Len(profile.Profiles)
  PROVE  /\ Before(profile.Profiles, i, j) = Slots(profile.Profiles)
         /\ idx = total_devices(profile.Profiles)
         /\ idx = Len(gpu_ids_list) /\ Len(GPUStatus) = idx
  <1>1. /\ profile.Profiles \in Seq(EntryType) /\ profile.Filters \in Seq(Nat)
        /\ i \in Nat /\ profile \in ConfigProfiles
    BY ProfileTyped DEF IInv, TypeOK
  <1>2. Before(profile.Profiles, i, j) = Slots(profile.Profiles)
    BY <1>1, BeforeTheEnd
  <1>3. idx = total_devices(profile.Profiles)
    BY <1>2 DEF StatusInv, total_devices
  <1>4. /\ validateProfile(profile, GPUCount) = "ok"
        /\ gpu_ids_list = createGPUIDList(profile.Filters, GPUCount)
        /\ Len(GPUStatus) = Len(gpu_ids_list)
    BY DEF IInv, RoundInv
  <1>5. total_devices(profile.Profiles) = Len(gpu_ids_list)
    BY <1>1, <1>4, GPUCountAssumption, ValidProfilesFit, GPUIDListIsTheUsableGPUs DEF PlainNode
  <1> QED
    BY <1>2, <1>3, <1>4, <1>5

\* A step that moves within a round changes no status without a failure.
LEMMA StatusMoves ==
  ASSUME StatusInv, InLoops, pc' \in {"loop", "gpu", "memory", "compute"},
         UNCHANGED <<profile, loopVars>>,
         partition_failed' \/ UNCHANGED <<partition_failed, GPUStatus>>
  PROVE  StatusInv'
  <1>1. pc' \notin {"idle", "recover", "wait"}
    OBVIOUS
  <1>2. idx' = idx /\ i' = i /\ j' = j /\ profile' = profile
    BY DEF loopVars
  <1>3. idx' = Cardinality(Before(profile.Profiles, i, j)')
    <2>1. idx = Cardinality(Before(profile.Profiles, i, j))
      BY DEF StatusInv
    <2> QED
      BY <1>2, <2>1
  <1>4. ~partition_failed' => \A k \in 1..idx' : GPUStatus'[k] = "Success"
    BY <1>2 DEF StatusInv
  <1>5. ReportIsConsistent'
    BY <1>1 DEF ReportIsConsistent, Done
  <1> QED
    BY <1>1, <1>3, <1>4, <1>5 DEF StatusInv

\* A round ends with the status of its GPU, "Success" unless the call failed.
LEMMA StatusRound ==
  ASSUME IInv, StatusInv, InRound, pc' = "loop", NextRound, UNCHANGED profile,
         partition_failed => partition_failed',
         partition_failed' \/ populateGPUEventStatus("Success")
  PROVE  StatusInv'
  <1>1. pc' \notin {"idle", "recover", "wait"}
    OBVIOUS
  <1>2. idx' = idx + 1 /\ i' = i /\ j' = j + 1 /\ profile' = profile
    BY DEF NextRound
  <1>3. /\ profile.Profiles \in Seq(EntryType)
        /\ i \in 1..Len(profile.Profiles) /\ j \in 1..profile.Profiles[i].NumGPUsAssigned
    BY ProfileTyped DEF IInv, RoundInv, entry
  <1>4. idx' = Cardinality(Before(profile.Profiles, i, j)')
    <2>1. idx = Cardinality(Before(profile.Profiles, i, j))
      BY DEF StatusInv, InLoops
    <2>2. Cardinality(Before(profile.Profiles, i, j + 1))
            = Cardinality(Before(profile.Profiles, i, j)) + 1
      <3> DEFINE ps == profile.Profiles
      <3>1. ps \in Seq(EntryType) /\ i \in 1..Len(ps) /\ j \in 1..ps[i].NumGPUsAssigned
        BY <1>3
      <3> HIDE DEF ps
      <3>2. Cardinality(Before(ps, i, j + 1)) = Cardinality(Before(ps, i, j)) + 1
        BY <3>1, BeforeTheNext
      <3> QED
        BY <3>2 DEF ps
    <2> QED
      BY <1>2, <2>1, <2>2
  <1>5. ~partition_failed' => \A k \in 1..idx' : GPUStatus'[k] = "Success"
    <2> SUFFICES ASSUME ~partition_failed', NEW k \in 1..(idx + 1)
                 PROVE  GPUStatus'[k] = "Success"
      BY <1>2
    <2>1. ~partition_failed /\ GPUStatus' = [GPUStatus EXCEPT ![idx + 1] = "Success"]
      BY DEF populateGPUEventStatus
    <2>2. /\ GPUStatus \in Seq(GPUStatuses) /\ idx \in Nat
          /\ idx + 1 \in 1..Len(GPUStatus)
      BY RoundFacts DEF IInv, TypeOK
    <2>3. k \in DOMAIN GPUStatus
      BY <2>2
    <2>4. k \in 1..idx => GPUStatus[k] = "Success"
      BY <2>1 DEF StatusInv, InLoops
    <2> QED
      BY <2>1, <2>2, <2>3, <2>4
  <1>6. ReportIsConsistent'
    BY <1>1 DEF ReportIsConsistent, Done
  <1> QED
    BY <1>1, <1>4, <1>5, <1>6 DEF StatusInv

\* StatusInv holds on.
LEMMA StatusStep ==
  ASSUME PlainNode, IInv, StatusInv, Next
  PROVE  StatusInv'
  <1>1. ASSUME pc' \in {"config", "helper", "panic"} PROVE StatusInv'
    BY <1>1 DEF StatusInv, ReportIsConsistent, Done, InLoops, InRound
  <1>2. ASSUME pc' = "idle", FinalStatus' = "Failure", reported' # "success" PROVE StatusInv'
    BY <1>2 DEF StatusInv, ReportIsConsistent, Done, InLoops, InRound
  <1>3. pc \notin {"idle", "panic"} => FinalStatus = "Failure"
    BY DEF IInv, OutcomeInv, InLoops, InRound, TypeOK, PCs
  <1>4. CASE Call \/ PartitionGPUProceeds \/ HelperPanics \/ GPUPanics
    BY <1>1, <1>4 DEF Call, PartitionGPUProceeds, HelperPanics, GPUPanics
  <1>5. CASE PartitionGPURejects \/ HelperRejects \/ GPUTypeError \/ MemoryUnsupported \/ SetComputeUnsupported
    BY <1>2, <1>3, <1>5
    DEF PartitionGPURejects, HelperRejects, GPUTypeError, MemoryUnsupported, SetComputeUnsupported,
        SetsCompute, GiveUp, Leave, AddNodeLabel, globals
  <1>6. CASE HelperStarts
    <2>1. /\ pc' = "loop" /\ i' = 1 /\ j' = 1 /\ idx' = 0 /\ profile' = profile
      BY <1>6 DEF HelperStarts
    <2>2. Cardinality(Before(profile.Profiles, 1, 1)) = 0
      BY ProfileTyped, BeforeTheFirst, FS_EmptySet DEF IInv
    <2>3. idx' = Cardinality(Before(profile.Profiles, i, j)')
      BY <2>1, <2>2
    <2>4. \A k \in 1..idx' : FALSE
      BY <2>1
    <2> QED
      BY <2>1, <2>3, <2>4 DEF StatusInv, ReportIsConsistent, Done, InLoops, InRound
  <1>7. CASE LoopRound
    <2> DEFINE ps == profile.Profiles
    <2>1. /\ pc = "loop" /\ i <= Len(ps)
          /\ UNCHANGED <<profile, gpu_ids_list, GPUStatus, partition_failed>>
      BY <1>7 DEF LoopRound, locals, globals
    <2>2. CASE UNCHANGED loopVars /\ pc' = "gpu"
      BY <2>1, <2>2, StatusMoves DEF InLoops
    <2>3. CASE i' = i + 1 /\ j' = 1 /\ UNCHANGED <<pc, idx>> /\ ~(j <= entry.NumGPUsAssigned)
      <3>1. ps \in Seq(EntryType) /\ i \in Nat /\ j \in Nat /\ i >= 1
        BY <2>1, ProfileTyped DEF IInv, TypeOK, RoundInv, InLoops
      <3>2. i \in 1..Len(ps) /\ ps[i].NumGPUsAssigned \in Nat
        BY <2>1, <3>1, EntryTyped
      <3>3. Before(ps, i + 1, 1) = Before(ps, i, j)
        BY <2>3, <3>1, <3>2, BeforeTheNextEntry DEF entry
      <3>4. idx = Cardinality(Before(ps, i, j))
        BY <2>1 DEF StatusInv, InLoops
      <3>5. idx' = Cardinality(Before(profile.Profiles, i, j)')
        BY <2>1, <2>3, <3>3, <3>4
      <3>6. ~partition_failed' => \A k \in 1..idx' : GPUStatus'[k] = "Success"
        BY <2>1, <2>3 DEF StatusInv, InLoops
      <3> QED
        BY <2>1, <2>3, <3>5, <3>6 DEF StatusInv, ReportIsConsistent, Done
    <2> QED
      BY <1>7, <2>2, <2>3 DEF LoopRound
  <1>8. CASE LoopEnds
    <2>1. /\ pc = "loop" /\ InLoops /\ i > Len(profile.Profiles)
          /\ UNCHANGED <<GPUStatus, loopVars>> /\ pc' = "idle"
      BY <1>8 DEF LoopEnds, Leave, InLoops
    <2>2. FinalStatus' = "Success" => ~partition_failed
      BY <1>3, <1>8 DEF LoopEnds, ReportsSuccess
    <2>3. ~partition_failed => \A k \in DOMAIN GPUStatus : GPUStatus[k] = "Success"
      <3>1. Len(GPUStatus) = idx /\ GPUStatus \in Seq(GPUStatuses)
        BY <2>1, AllRoundsOver DEF IInv, TypeOK
      <3>2. DOMAIN GPUStatus = 1..idx
        BY <3>1
      <3> QED
        BY <2>1, <3>2 DEF StatusInv
    <2>4. FinalStatus' = "Success" <=> reported' = "success"
      BY <1>3, <1>8 DEF LoopEnds, AddNodeLabel, IInv, OutcomeInv, InLoops
    <2> QED
      BY <2>1, <2>2, <2>3, <2>4 DEF StatusInv, ReportIsConsistent, Done, InLoops, InRound
  <1>9. CASE GPUIsNone
    BY <1>9, NoForeignRound DEF GPUIsNone, InRound
  <1>10. CASE GPUExamine
    <2>1. InRound /\ InLoops /\ UNCHANGED <<profile, partition_failed>>
      BY <1>10 DEF GPUExamine, InRound, InLoops, locals
    <2>2. \/ populateGPUEventStatus("Success") /\ NextRound /\ pc' = "loop"
          \/ UNCHANGED <<loopVars, GPUStatus>> /\ pc' \in {"compute", "memory"}
      BY <1>10 DEF GPUExamine
    <2> QED
      BY <2>1, <2>2, StatusMoves, StatusRound
  <1>11. CASE SetMemory
    <2>1. /\ InLoops /\ UNCHANGED <<profile, loopVars>>
          /\ \/ MemoryFailed
             \/ pc' = "compute" /\ UNCHANGED <<partition_failed, GPUStatus>>
      BY <1>11 DEF SetMemory, InLoops, InRound, locals
    <2>2. pc' = "compute" /\ (partition_failed' \/ UNCHANGED <<partition_failed, GPUStatus>>)
      BY <2>1 DEF MemoryFailed, NoteFailure, PlainNode
    <2> QED
      BY <2>1, <2>2, StatusMoves
  <1>12. CASE Recover \/ RecoverWait
    BY <1>12 DEF Recover, RecoverWait, StatusInv
  <1>13. CASE ComputeMatches \/ SetComputeDone \/ SetComputeFails
    <2>1. /\ InRound /\ ReportGPU /\ UNCHANGED profile
          /\ partition_failed => partition_failed'
      BY <1>13 DEF ComputeMatches, SetComputeDone, SetComputeFails, SetsCompute, InRound, NoteFailure,
                   ReportGPU, locals
    <2> QED
      BY <2>1, StatusRound DEF ReportGPU
  <1>14. CASE Restart
    BY <1>2, <1>14 DEF Restart
  <1>15. CASE KMMLoadsDriver \/ Idle
    <2>1. UNCHANGED <<pc, locals, loopVars, globals, result, reported>>
      BY <1>15 DEF KMMLoadsDriver, Idle, vars
    <2>2. UNCHANGED <<pc, profile, i, j, idx, partition_failed, GPUStatus, FinalStatus, verdict, reported>>
      BY <2>1 DEF locals, loopVars, globals, result
    <2> QED
      BY <2>2 DEF StatusInv, ReportIsConsistent, Done, InLoops, InRound
  <1> QED
    BY <1>4, <1>5, <1>6, <1>7, <1>8, <1>9, <1>10, <1>11, <1>12, <1>13, <1>14, <1>15 DEF Next, Step

-----------------------------------------------------------------------------
\* Every round has a GPU of its own, and every usable GPU a round.
LEMMA RoundsAndGPUs ==
  ASSUME PlainNode, IInv, InLoops
  PROVE  LET S == Slots(profile.Profiles)
             U == UsableGPUs(profile.Filters, GPUCount)
         IN  /\ \A s \in S : GPUOf(s) \in U /\ GPUOf(s) \in GPUs
             /\ \A s, t \in S : GPUOf(s) = GPUOf(t) => s = t
             /\ \A g \in U : \E s \in S : GPUOf(s) = g
  <1> DEFINE ps == profile.Profiles
             S == Slots(ps)
             U == UsableGPUs(profile.Filters, GPUCount)
             n == total_devices(ps)
             number == [s \in S |-> Cardinality(Before(ps, s[1], s[2])) + 1]
  <1>1. /\ ps \in Seq(EntryType) /\ profile.Filters \in Seq(Nat) /\ profile \in ConfigProfiles
    BY ProfileTyped DEF IInv, TypeOK
  <1>2. /\ validateProfile(profile, GPUCount) = "ok"
        /\ gpu_ids_list = createGPUIDList(profile.Filters, GPUCount)
    BY DEF IInv, RoundInv
  <1>3. n = Len(gpu_ids_list) /\ n \in Nat
    BY <1>1, <1>2, GPUCountAssumption, ValidProfilesFit, GPUIDListIsTheUsableGPUs, SlotsFinite
    DEF PlainNode
  <1>4. /\ gpu_ids_list \in Seq(U)
        /\ {gpu_ids_list[k] : k \in 1..n} = U
        /\ \A k, l \in 1..n : k < l => gpu_ids_list[k] < gpu_ids_list[l]
    BY <1>1, <1>2, <1>3, GPUCountAssumption, GPUIDListIsTheUsableGPUs
  <1>5. number \in Bijection(S, 1..n)
    BY <1>1, RoundsAreNumbered
  <1>6. \A s \in S : GPUOf(s) = gpu_ids_list[number[s]]
    BY DEF GPUOf
  <1>7. U \subseteq GPUs /\ U \subseteq Nat
    BY DEF UsableGPUs, GPUs
  <1> HIDE DEF number, S, U, n, ps
  <1>8. /\ \A s \in S : number[s] \in 1..n
        /\ \A s, t \in S : number[s] = number[t] => s = t
        /\ \A k \in 1..n : \E s \in S : number[s] = k
    BY <1>5 DEF Bijection, Injection, Surjection, IsInjective
  <1>9. \A k \in 1..n : gpu_ids_list[k] \in U /\ gpu_ids_list[k] \in Nat
    BY <1>3, <1>4, <1>7
  <1>10. \A k, l \in 1..n : gpu_ids_list[k] = gpu_ids_list[l] => k = l
    <2> SUFFICES ASSUME NEW k \in 1..n, NEW l \in 1..n, k # l
                 PROVE  gpu_ids_list[k] # gpu_ids_list[l]
      OBVIOUS
    <2>1. k < l \/ l < k
      BY <1>3
    <2> QED
      BY <1>4, <1>9, <2>1
  <1>11. \A s \in S : GPUOf(s) \in U /\ GPUOf(s) \in GPUs
    BY <1>6, <1>7, <1>8, <1>9
  <1>12. \A s, t \in S : GPUOf(s) = GPUOf(t) => s = t
    BY <1>6, <1>8, <1>10
  <1>13. \A g \in U : \E s \in S : GPUOf(s) = g
    <2> SUFFICES ASSUME NEW g \in U PROVE \E s \in S : GPUOf(s) = g
      OBVIOUS
    <2>1. PICK k \in 1..n : gpu_ids_list[k] = g
      BY <1>4
    <2> QED
      BY <1>6, <1>8, <2>1
  <1> QED
    BY <1>11, <1>12, <1>13 DEF S, U, ps

\* The round the loops are in is the one of gpu_id.
LEMMA ThisRound ==
  ASSUME IInv, StatusInv, InRound
  PROVE  /\ <<i, j>> \in Slots(profile.Profiles)
         /\ <<i, j>> \notin Before(profile.Profiles, i, j)
         /\ Before(profile.Profiles, i, j + 1) = Before(profile.Profiles, i, j) \union {<<i, j>>}
         /\ GPUOf(<<i, j>>) = gpu_id
  <1>1. /\ profile.Profiles \in Seq(EntryType)
        /\ i \in 1..Len(profile.Profiles) /\ j \in 1..profile.Profiles[i].NumGPUsAssigned
    BY ProfileTyped DEF IInv, RoundInv, entry
  <1>2. idx = Cardinality(Before(profile.Profiles, i, j))
    BY DEF StatusInv, InLoops
  <1>3. GPUOf(<<i, j>>) = gpu_id
    BY <1>2 DEF GPUOf, gpu_id
  <1> DEFINE ps == profile.Profiles
  <1>4. ps \in Seq(EntryType) /\ i \in 1..Len(ps) /\ j \in 1..ps[i].NumGPUsAssigned
    BY <1>1
  <1> HIDE DEF ps
  <1>5. /\ <<i, j>> \in Slots(ps) /\ <<i, j>> \notin Before(ps, i, j)
        /\ Before(ps, i, j + 1) = Before(ps, i, j) \union {<<i, j>>}
    BY <1>4, BeforeTheNext
  <1> QED
    BY <1>3, <1>5 DEF ps

\* All entries of a profile that was accepted ask for one memory mode.
LEMMA OneMemoryMode ==
  ASSUME IInv, InLoops
  PROVE  \A s, t \in Slots(profile.Profiles) :
           profile.Profiles[s[1]].MemoryPartition = profile.Profiles[t[1]].MemoryPartition
  <1> DEFINE ps == profile.Profiles
  <1>1. ps \in Seq(EntryType) /\ validateProfile(profile, GPUCount) = "ok"
    BY ProfileTyped DEF IInv, RoundInv
  <1>2. \A a \in DOMAIN ps : ps[a].MemoryPartition = ps[1].MemoryPartition
    BY <1>1 DEF validateProfile
  <1>3. \A s \in Slots(ps) : s[1] \in DOMAIN ps
    BY <1>1, SlotsMembers
  <1> QED
    BY <1>2, <1>3

\* A mode is read as it is.
LEMMA ModeIsRead ==
  ASSUME SteadyNode, driver, NEW mode, NEW g
  PROVE  ReadMode(mode, g) = {mode[g]}
  BY DEF SteadyNode, ReadMode

\* Setting the memory mode reaches the whole hive or none of it, and when it
\* did not fail the GPU has the mode.
LEMMA SetMemoryEffect ==
  ASSUME SteadyNode, IInv, HiveInv, DoneInv, SetMemory
  PROVE  /\ HiveInv' /\ pc' = "compute"
         /\ partition_failed => partition_failed'
         /\ ~partition_failed' => mem'[gpu_id] = entry.MemoryPartition
  <1>1. /\ mem \in [GPUs -> MemoryModes] /\ pending \in [GPUs -> MemoryModes]
        /\ partition_failed \in BOOLEAN
    BY DEF IInv, TypeOK
  <1>2. pc = "memory" /\ gpu_id \in GPUs
    BY RoundFacts DEF SetMemory, IInv, InRound
  <1>3. /\ gpu_id' = gpu_id /\ entry' = entry
    BY DEF SetMemory, locals, loopVars, gpu_id, entry
  <1>4. ~kmmDriverEnabled /\ OneHive /\ ~ReadsMayFail
    BY DEF SteadyNode, PlainNode
  <1>5. PICK set \in BOOLEAN :
          LET wanted == IF set THEN SetPending(gpu_id, entry.MemoryPartition) ELSE pending
          IN  /\ LoadDriver(wanted) \/ (pending' = wanted /\ UNCHANGED <<mem, comp, driver>>)
              /\ \E m \in ReadMode(mem, gpu_id)' :
                   IF ~set \/ m = existingMemory
                     THEN MemoryFailed
                     ELSE pc' = "compute" /\ UNCHANGED <<partition_failed, GPUStatus, reported>>
    BY DEF SetMemory
  <1> DEFINE wanted == IF set THEN SetPending(gpu_id, entry.MemoryPartition) ELSE pending
  <1>6. \A g, h \in GPUs : wanted[g] = wanted[h]
    BY <1>1, <1>4 DEF SetPending, Hive, HiveInv
  <1>7. set => wanted[gpu_id] = entry.MemoryPartition
    BY <1>2, <1>4 DEF SetPending, Hive
  <1>8. \/ mem' = wanted /\ pending' = wanted /\ driver'
        \/ pending' = wanted /\ mem' = mem /\ driver'
    BY <1>5 DEF LoadDriver, HiveInv
  <1> HIDE DEF wanted
  <1>9. HiveInv'
    BY <1>6, <1>8 DEF HiveInv
  <1>10. ReadMode(mem, gpu_id)' = {mem'[gpu_id]}
    BY <1>3, <1>4, <1>8 DEF ReadMode
  <1>11. IF ~set \/ mem'[gpu_id] = existingMemory
           THEN MemoryFailed
           ELSE pc' = "compute" /\ UNCHANGED <<partition_failed, GPUStatus, reported>>
    BY <1>5, <1>10
  <1>12. MemoryFailed => pc' = "compute" /\ partition_failed'
    BY <1>4 DEF MemoryFailed, NoteFailure
  <1>13. ~partition_failed' => set /\ mem'[gpu_id] # mem[gpu_id]
    BY <1>2, <1>11, <1>12 DEF DoneInv
  <1>14. ~partition_failed' => mem'[gpu_id] = entry.MemoryPartition
    BY <1>7, <1>8, <1>13
  <1> QED
    BY <1>9, <1>11, <1>12, <1>14

\* HiveInv holds on: without KMM the driver is never left unloaded.
LEMMA HiveStep ==
  ASSUME SteadyNode, IInv, StatusInv, HiveInv, DoneInv, Next
  PROVE  HiveInv'
  <1>1. ASSUME UNCHANGED <<mem, pending, driver>> PROVE HiveInv'
    BY <1>1 DEF HiveInv
  <1>2. CASE SetMemory
    BY <1>2, SetMemoryEffect
  <1>3. CASE Recover \/ RecoverWait \/ KMMLoadsDriver
    BY <1>3 DEF Recover, RecoverWait, KMMLoadsDriver, StatusInv, HiveInv
  <1>4. CASE Call \/ PartitionGPURejects \/ PartitionGPUProceeds \/ HelperRejects \/ HelperPanics \/ HelperStarts
    BY <1>1, <1>4 DEF Call, PartitionGPURejects, PartitionGPUProceeds, HelperRejects, HelperPanics,
                      HelperStarts, hardware
  <1>5. CASE LoopRound \/ LoopEnds \/ GPUPanics \/ GPUTypeError \/ GPUIsNone \/ GPUExamine
    BY <1>1, <1>5 DEF LoopRound, LoopEnds, GPUPanics, GPUTypeError, GPUIsNone, GPUExamine, hardware
  <1>6. CASE MemoryUnsupported \/ ComputeMatches \/ SetComputeDone \/ SetComputeUnsupported \/ SetComputeFails
    BY <1>1, <1>6 DEF MemoryUnsupported, ComputeMatches, SetComputeDone, SetComputeUnsupported,
                      SetComputeFails, hardware
  <1>7. CASE Restart \/ Idle
    BY <1>1, <1>7 DEF Restart, Idle, vars, hardware
  <1> QED
    BY <1>2, <1>3, <1>4, <1>5, <1>6, <1>7 DEF Next, Step

\* The end of a round whose GPU is in the modes of its entry, when no other
\* GPU's modes changed.
LEMMA DoneRound ==
  ASSUME PlainNode, IInv, StatusInv, DoneInv, InRound, pc' = "loop", NextRound,
         UNCHANGED <<profile, gpu_ids_list, mem>>,
         partition_failed => partition_failed',
         \A g \in GPUs : g # gpu_id => comp'[g] = comp[g],
         ~partition_failed' =>
           comp'[gpu_id] = entry.ComputePartition /\ mem[gpu_id] = entry.MemoryPartition
  PROVE  DoneInv'
  <1> DEFINE ps == profile.Profiles
             at(s) == gpu_ids_list[Cardinality(Before(ps, s[1], s[2])) + 1]
  <1>1. InLoops /\ pc' \notin {"memory", "compute"}
    BY DEF InLoops
  <1>2. i' = i /\ j' = j + 1 /\ profile' = profile /\ gpu_ids_list' = gpu_ids_list
    BY DEF NextRound
  <1>3. /\ <<i, j>> \in Slots(ps) /\ <<i, j>> \notin Before(ps, i, j)
        /\ Before(ps, i, j + 1) = Before(ps, i, j) \union {<<i, j>>}
        /\ at(<<i, j>>) = gpu_id
    BY ThisRound DEF GPUOf
  <1>4. /\ \A s \in Slots(ps) : at(s) \in GPUs
        /\ \A s, t \in Slots(ps) : at(s) = at(t) => s = t
    BY <1>1, RoundsAndGPUs DEF GPUOf
  <1>5. ASSUME ~partition_failed', NEW s \in Before(ps, i, j + 1)
        PROVE  comp'[at(s)] = ps[s[1]].ComputePartition /\ mem[at(s)] = ps[s[1]].MemoryPartition
    <2>1. CASE s = <<i, j>>
      BY <1>3, <1>5, <2>1 DEF entry
    <2>2. CASE s # <<i, j>>
      <3>1. s \in Before(ps, i, j) /\ s \in Slots(ps)
        BY <1>3, <2>2 DEF Before
      <3>2. comp[at(s)] = ps[s[1]].ComputePartition /\ mem[at(s)] = ps[s[1]].MemoryPartition
        BY <1>1, <1>5, <3>1 DEF DoneInv, InModes, GPUOf
      <3>3. at(s) # gpu_id /\ at(s) \in GPUs
        BY <1>3, <1>4, <2>2, <3>1
      <3> QED
        BY <3>2, <3>3
    <2> QED
      BY <2>1, <2>2
  <1>6. ASSUME ~partition_failed', NEW s \in Before(profile.Profiles, i, j)'
        PROVE  InModes(GPUOf(s), profile.Profiles[s[1]])'
    <2>1. s \in Before(ps, i, j + 1)
      BY <1>2, <1>6
    <2> QED
      BY <1>2, <1>5, <1>6, <2>1 DEF InModes, GPUOf
  <1> QED
    BY <1>1, <1>6 DEF DoneInv

\* A step that changes neither the rounds that are over nor the modes.
LEMMA DoneMoves ==
  ASSUME DoneInv, InLoops, UNCHANGED <<profile, gpu_ids_list, mem, comp>>,
         partition_failed => partition_failed',
         Before(profile.Profiles, i, j)' = Before(profile.Profiles, i, j),
         pc' = "memory" => existingMemory' = mem[gpu_id]' /\ existingMemory' # entry.MemoryPartition',
         pc' = "compute" /\ ~partition_failed' => mem[gpu_id]' = entry.MemoryPartition'
  PROVE  DoneInv'
  BY DEF DoneInv, InModes, GPUOf

\* DoneInv holds on.
LEMMA DoneStep ==
  ASSUME SteadyNode, IInv, StatusInv, HiveInv, DoneInv, Next
  PROVE  DoneInv'
  <1>0. PlainNode /\ driver
    BY DEF SteadyNode, HiveInv
  <1>1. ASSUME pc' \in {"idle", "config", "helper", "panic"} PROVE DoneInv'
    BY <1>1 DEF DoneInv, InLoops, InRound
  <1>2. CASE Call \/ PartitionGPURejects \/ PartitionGPUProceeds \/ HelperRejects \/ HelperPanics \/ Restart
    BY <1>1, <1>2 DEF Call, PartitionGPURejects, PartitionGPUProceeds, HelperRejects, HelperPanics,
                      Restart, GiveUp, Leave
  <1>3. CASE LoopEnds \/ GPUPanics \/ GPUTypeError \/ MemoryUnsupported \/ SetComputeUnsupported
    BY <1>1, <1>3 DEF LoopEnds, GPUPanics, GPUTypeError, MemoryUnsupported, SetComputeUnsupported,
                      GiveUp, Leave
  <1>4. CASE HelperStarts
    <2>1. pc' = "loop" /\ i' = 1 /\ j' = 1 /\ profile' = profile
      BY <1>4 DEF HelperStarts
    <2>2. Before(profile.Profiles, 1, 1) = {}
      BY ProfileTyped, BeforeTheFirst DEF IInv
    <2>3. Before(profile.Profiles, i, j)' = {}
      BY <2>1, <2>2
    <2> QED
      BY <2>1, <2>3 DEF DoneInv
  <1>5. CASE LoopRound
    <2>1. /\ pc = "loop" /\ InLoops /\ i <= Len(profile.Profiles) /\ pc' \in {"loop", "gpu"}
          /\ UNCHANGED <<profile, gpu_ids_list, mem, comp, partition_failed>>
      BY <1>5 DEF LoopRound, InLoops, locals, globals, hardware
    <2>2. Before(profile.Profiles, i, j)' = Before(profile.Profiles, i, j)
      <3>1. CASE UNCHANGED loopVars
        BY <2>1, <3>1 DEF loopVars
      <3>2. CASE i' = i + 1 /\ j' = 1 /\ ~(j <= entry.NumGPUsAssigned)
        <4>1. /\ profile.Profiles \in Seq(EntryType)
              /\ i \in Nat /\ j \in Nat /\ i >= 1
          BY <2>1, ProfileTyped DEF IInv, TypeOK, RoundInv
        <4>2. i \in 1..Len(profile.Profiles) /\ profile.Profiles[i].NumGPUsAssigned \in Nat
          BY <2>1, <4>1, EntryTyped
        <4>3. Before(profile.Profiles, i + 1, 1) = Before(profile.Profiles, i, j)
          BY <3>2, <4>1, <4>2, BeforeTheNextEntry DEF entry
        <4> QED
          BY <2>1, <3>2, <4>3
      <3> QED
        BY <1>5, <3>1, <3>2 DEF LoopRound
    <2> QED
      BY <2>1, <2>2, DoneMoves
  <1>6. CASE GPUIsNone
    BY <1>0, <1>6, NoForeignRound DEF GPUIsNone, InRound
  <1>7. CASE GPUExamine
    <2>1. InRound /\ InLoops /\ UNCHANGED <<profile, gpu_ids_list, mem, comp, partition_failed>>
      BY <1>7 DEF GPUExamine, InRound, InLoops, locals, hardware
    <2>2. /\ ReadMode(comp, gpu_id) = {comp[gpu_id]}
          /\ ReadMode(mem, gpu_id) = {mem[gpu_id]}
      BY <1>0, ModeIsRead
    <2>3. \/ /\ comp[gpu_id] = entry.ComputePartition /\ mem[gpu_id] = entry.MemoryPartition
             /\ NextRound /\ pc' = "loop"
          \/ /\ existingMemory' = mem[gpu_id] /\ UNCHANGED loopVars
             /\ pc' = IF mem[gpu_id] = entry.MemoryPartition THEN "compute" ELSE "memory"
      BY <1>7, <2>2 DEF GPUExamine
    <2>4. CASE /\ comp[gpu_id] = entry.ComputePartition /\ mem[gpu_id] = entry.MemoryPartition
               /\ NextRound /\ pc' = "loop"
      BY <1>0, <2>1, <2>4, DoneRound
    <2>5. CASE /\ existingMemory' = mem[gpu_id] /\ UNCHANGED loopVars
               /\ pc' = IF mem[gpu_id] = entry.MemoryPartition THEN "compute" ELSE "memory"
      <3>1. mem[gpu_id]' = mem[gpu_id] /\ entry.MemoryPartition' = entry.MemoryPartition
        BY <2>1, <2>5 DEF gpu_id, entry, loopVars
      <3>2. Before(profile.Profiles, i, j)' = Before(profile.Profiles, i, j)
        BY <2>1, <2>5 DEF loopVars
      <3> QED
        BY <2>1, <2>5, <3>1, <3>2, DoneMoves
    <2> QED
      BY <2>3, <2>4, <2>5
  <1>8. CASE SetMemory
    <2>1. /\ pc = "memory" /\ InRound /\ InLoops
          /\ UNCHANGED <<profile, gpu_ids_list, loopVars>>
      BY <1>8 DEF SetMemory, InRound, InLoops, locals
    <2>2. /\ pc' = "compute" /\ (partition_failed => partition_failed')
          /\ ~partition_failed' => mem'[gpu_id] = entry.MemoryPartition
      BY <1>8, SetMemoryEffect
    <2>3. ~partition_failed => Before(profile.Profiles, i, j) = {}
      <3> SUFFICES ASSUME ~partition_failed, NEW s \in Before(profile.Profiles, i, j)
                   PROVE  FALSE
        OBVIOUS
      <3>1. s \in Slots(profile.Profiles) /\ <<i, j>> \in Slots(profile.Profiles)
        BY <2>1, ThisRound DEF Before
      <3>2. mem[GPUOf(s)] = profile.Profiles[s[1]].MemoryPartition
        BY <2>1 DEF DoneInv, InModes
      <3>3. profile.Profiles[s[1]].MemoryPartition = entry.MemoryPartition
        BY <2>1, <3>1, OneMemoryMode DEF entry
      <3>4. GPUOf(s) \in GPUs /\ gpu_id \in GPUs
        BY <1>0, <2>1, <3>1, RoundsAndGPUs, RoundFacts DEF IInv
      <3>5. mem[gpu_id] = entry.MemoryPartition
        BY <3>2, <3>3, <3>4 DEF HiveInv
      <3> QED
        BY <2>1, <3>5 DEF DoneInv
    <2>4. Before(profile.Profiles, i, j)' = Before(profile.Profiles, i, j)
      BY <2>1 DEF loopVars
    <2>5. mem'[gpu_id] = mem[gpu_id]' /\ entry.MemoryPartition' = entry.MemoryPartition
      BY <2>1 DEF gpu_id, entry, loopVars
    <2> QED
      BY <2>2, <2>3, <2>4, <2>5 DEF DoneInv
  <1>9. CASE Recover \/ RecoverWait
    BY <1>9 DEF Recover, RecoverWait, StatusInv
  <1>10. CASE ComputeMatches \/ SetComputeDone \/ SetComputeFails
    <2>1. /\ pc = "compute" /\ InRound /\ ReportGPU /\ NextRound /\ pc' = "loop"
          /\ UNCHANGED <<profile, gpu_ids_list, mem>>
          /\ partition_failed => partition_failed'
      BY <1>10 DEF ComputeMatches, SetComputeDone, SetComputeFails, SetsCompute, InRound, NoteFailure,
                   ReportGPU, locals, hardware
    <2>2. ReadMode(comp, gpu_id) = {comp[gpu_id]}
      BY <1>0, ModeIsRead
    <2>3. gpu_id \in GPUs /\ comp \in [GPUs -> ComputeModes]
      BY <2>1, RoundFacts DEF IInv, TypeOK
    <2>4. /\ \A g \in GPUs : g # gpu_id => comp'[g] = comp[g]
          /\ ~partition_failed' => comp'[gpu_id] = entry.ComputePartition
      BY <1>10, <2>2, <2>3 DEF ComputeMatches, SetComputeDone, SetComputeFails, NoteFailure, hardware
    <2>5. ~partition_failed' => mem[gpu_id] = entry.MemoryPartition
      BY <2>1 DEF DoneInv
    <2> QED
      BY <1>0, <2>1, <2>4, <2>5, DoneRound
  <1>11. CASE KMMLoadsDriver
    BY <1>0, <1>11 DEF KMMLoadsDriver
  <1>12. CASE Idle
    BY <1>1, <1>12 DEF Idle, vars
  <1> QED
    BY <1>2, <1>3, <1>4, <1>5, <1>6, <1>7, <1>8, <1>9, <1>10, <1>11, <1>12 DEF Next, Step

\* When every round ended with its GPU in the modes of its entry, the rounds
\* and the GPUs in an entry's modes are equally many.
LEMMA RoundsCountGPUs ==
  ASSUME PlainNode, IInv, StatusInv, DoneInv, InLoops, i > Len(profile.Profiles),
         ~partition_failed, NEW k \in DOMAIN profile.Profiles
  PROVE  LET e == profile.Profiles[k]
         IN  Cardinality({g \in UsableGPUs(profile.Filters, GPUCount) :
                            comp[g] = e.ComputePartition /\ mem[g] = e.MemoryPartition})
               = Cardinality(Alike(e))
  <1> DEFINE ps == profile.Profiles
             e == ps[k]
             U == UsableGPUs(profile.Filters, GPUCount)
             T == {g \in U : comp[g] = e.ComputePartition /\ mem[g] = e.MemoryPartition}
             f == [s \in Alike(e) |-> GPUOf(s)]
  <1>1. ps \in Seq(EntryType)
    BY ProfileTyped DEF IInv
  <1>2. \A s \in Slots(ps) : /\ comp[GPUOf(s)] = ps[s[1]].ComputePartition
                             /\ mem[GPUOf(s)] = ps[s[1]].MemoryPartition
    <2>1. Before(ps, i, j) = Slots(ps)
      BY AllRoundsOver
    <2> QED
      BY <2>1 DEF DoneInv, InModes
  <1>3. /\ \A s \in Slots(ps) : GPUOf(s) \in U
        /\ \A s, t \in Slots(ps) : GPUOf(s) = GPUOf(t) => s = t
        /\ \A g \in U : \E s \in Slots(ps) : GPUOf(s) = g
    BY RoundsAndGPUs
  <1>4. \A s : s \in Alike(e) <=> /\ s \in Slots(ps)
                                  /\ ps[s[1]].ComputePartition = e.ComputePartition
                                  /\ ps[s[1]].MemoryPartition = e.MemoryPartition
    BY DEF Alike
  <1>5. IsFiniteSet(Alike(e))
    <2>1. Alike(e) \in SUBSET Slots(ps)
      BY DEF Alike
    <2> QED
      BY <1>1, <2>1, SlotsFinite, FS_Subset
  <1>6. \A s \in Alike(e) : GPUOf(s) \in T
    BY <1>2, <1>3, <1>4
  <1>7. \A g \in T : \E s \in Alike(e) : GPUOf(s) = g
    <2> SUFFICES ASSUME NEW g \in T PROVE \E s \in Alike(e) : GPUOf(s) = g
      OBVIOUS
    <2>1. PICK s \in Slots(ps) : GPUOf(s) = g
      BY <1>3
    <2>2. s \in Alike(e)
      BY <1>2, <1>4, <2>1
    <2> QED
      BY <2>1, <2>2
  <1>8. \A s, t \in Alike(e) : GPUOf(s) = GPUOf(t) => s = t
    BY <1>3, <1>4
  <1> HIDE DEF T, e
  <1>9. f \in Bijection(Alike(e), T)
    <2>1. f \in [Alike(e) -> T] /\ \A s \in Alike(e) : f[s] = GPUOf(s)
      BY <1>6
    <2> HIDE DEF f
    <2> QED
      BY <1>7, <1>8, <2>1 DEF Bijection, Injection, Surjection, IsInjective
  <1>10. ExistsBijection(Alike(e), T)
    BY <1>9 DEF ExistsBijection
  <1>11. Cardinality(T) = Cardinality(Alike(e))
    BY <1>5, <1>10, FS_Bijection
  <1> QED
    BY <1>11 DEF T, e

\* SuccessMeansPartitioned holds on.
LEMMA SuccessStep ==
  ASSUME SteadyNode, IInv, ReportInv, Next
  PROVE  SuccessMeansPartitioned'
  <1>0. PlainNode /\ StatusInv /\ HiveInv /\ DoneInv /\ SuccessMeansPartitioned
    BY DEF SteadyNode, ReportInv
  <1>1. ASSUME pc' # "idle" \/ reported' # "success" PROVE SuccessMeansPartitioned'
    BY <1>1 DEF SuccessMeansPartitioned, Done
  <1>2. CASE Call \/ PartitionGPURejects \/ PartitionGPUProceeds \/ HelperRejects \/ HelperPanics \/ HelperStarts
    BY <1>1, <1>2 DEF Call, PartitionGPURejects, PartitionGPUProceeds, HelperRejects, HelperPanics,
                      HelperStarts, GiveUp, AddNodeLabel
  <1>3. CASE LoopRound \/ GPUPanics \/ GPUTypeError \/ GPUIsNone \/ GPUExamine
    BY <1>1, <1>3 DEF LoopRound, GPUPanics, GPUTypeError, GPUIsNone, GPUExamine, GiveUp, AddNodeLabel
  <1>4. CASE LoopEnds
    <2>1. pc = "loop" /\ InLoops /\ i > Len(profile.Profiles)
      BY <1>4 DEF LoopEnds, InLoops
    <2>2. reported' = "success" => ~partition_failed
      BY <1>4, <2>1 DEF LoopEnds, ReportsSuccess, IInv, OutcomeInv
    <2>3. UNCHANGED <<profile, comp, mem>>
      BY <1>4 DEF LoopEnds, locals, hardware
    <2>4. ASSUME ~partition_failed, NEW k \in DOMAIN profile.Profiles
          PROVE  LET e == profile.Profiles[k]
                 IN  Cardinality({g \in UsableGPUs(profile.Filters, GPUCount) :
                            comp[g] = e.ComputePartition /\ mem[g] = e.MemoryPartition})
                       = Cardinality(Alike(e))
      BY <1>0, <2>1, <2>4, RoundsCountGPUs
    <2>5. \A e : Alike(e)' = Alike(e)
      BY <2>3 DEF Alike
    <2> QED
      BY <2>2, <2>3, <2>4, <2>5 DEF SuccessMeansPartitioned
  <1>5. CASE MemoryUnsupported \/ SetComputeUnsupported
    BY <1>1, <1>5 DEF MemoryUnsupported, SetComputeUnsupported, GiveUp, AddNodeLabel
  <1>6. CASE SetMemory
    BY <1>0, <1>1, <1>6, SetMemoryEffect
  <1>7. CASE Recover \/ RecoverWait \/ KMMLoadsDriver
    BY <1>0, <1>7 DEF Recover, RecoverWait, KMMLoadsDriver, StatusInv, HiveInv
  <1>8. CASE ComputeMatches \/ SetComputeDone \/ SetComputeFails
    BY <1>1, <1>8 DEF ComputeMatches, SetComputeDone, SetComputeFails, ReportGPU
  <1>9. CASE Restart
    BY <1>1, <1>9 DEF Restart
  <1>10. CASE Idle
    BY <1>0, <1>10 DEF Idle, vars, locals, result, hardware, SuccessMeansPartitioned, Done, Alike
  <1> QED
    BY <1>2, <1>3, <1>4, <1>5, <1>6, <1>7, <1>8, <1>9, <1>10 DEF Next, Step

-----------------------------------------------------------------------------
\* An idle process has reported nothing, and its GPUs are those of one hive.
LEMMA InitReport == Init => StatusInv /\ (OneHive => HiveInv) /\ DoneInv /\ SuccessMeansPartitioned
  <1> SUFFICES ASSUME Init
               PROVE  StatusInv /\ (OneHive => HiveInv) /\ DoneInv /\ SuccessMeansPartitioned
    OBVIOUS
  <1>1. pc = "idle" /\ verdict = "none"
    BY DEF Init
  <1>2. OneHive => HiveInv
    BY DEF Init, HiveInv, Hive
  <1> QED
    BY <1>1, <1>2
    DEF StatusInv, ReportIsConsistent, DoneInv, SuccessMeansPartitioned, Done, InLoops, InRound

\* On a node without KMM, for profiles that skip the foreign sockets and no
\* GPU twice, a successful event lists only GPUs that succeeded and agrees
\* with the label, whatever fails and however often the call is repeated.
THEOREM ReportConsistent ==
  ASSUME PlainNode
  PROVE  Spec => []ReportIsConsistent
  <1>1. Init => StatusInv
    BY InitReport
  <1>2. IInv /\ StatusInv /\ [Next]_vars => StatusInv'
    <2>1. IInv /\ StatusInv /\ UNCHANGED vars => StatusInv'
      BY DEF vars, locals, loopVars, globals, result, StatusInv, ReportIsConsistent, Done, InLoops, InRound
    <2> QED
      BY <2>1, StatusStep
  <1>3. StatusInv => ReportIsConsistent
    BY DEF StatusInv
  <1> QED
    BY Invariance, <1>1, <1>2, <1>3, PTL DEF Spec

\* If moreover modes can be read and the GPUs are one hive, the label
\* "success" is true of the GPUs: of those not skipped, exactly as many as
\* the profile assigns are in each of its modes.
THEOREM SuccessIsTrue ==
  ASSUME SteadyNode
  PROVE  Spec => []SuccessMeansPartitioned
  <1>0. PlainNode /\ OneHive
    BY DEF SteadyNode
  <1>1. Init => ReportInv
    BY <1>0, InitReport DEF ReportInv
  <1>2. IInv /\ ReportInv /\ [Next]_vars => ReportInv'
    <2>1. IInv /\ ReportInv /\ UNCHANGED vars => ReportInv'
      BY DEF vars, locals, loopVars, globals, result, hardware, ReportInv, StatusInv, HiveInv, DoneInv,
             ReportIsConsistent, SuccessMeansPartitioned, Alike, Done, InLoops, InRound, InModes, GPUOf,
             gpu_id, entry
    <2>2. IInv /\ ReportInv /\ Next => ReportInv'
      BY <1>0, StatusStep, HiveStep, DoneStep, SuccessStep DEF ReportInv
    <2> QED
      BY <2>1, <2>2
  <1>3. ReportInv => SuccessMeansPartitioned
    BY DEF ReportInv
  <1> QED
    BY Invariance, <1>1, <1>2, <1>3, PTL DEF Spec

=============================================================================

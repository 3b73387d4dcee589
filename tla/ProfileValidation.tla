-------------------------- MODULE ProfileValidation --------------------------
(***************************************************************************)
(* pkg/config_manager/configmanager.go: the pure functions PartitionGPU    *)
(* rests on.  A profile of the config map is                               *)
(*   [Profiles |-> <<[ComputePartition, MemoryPartition,                   *)
(*                    NumGPUsAssigned], ...>>, Filters |-> <<id, ...>>]    *)
(* where a profile without skippedGPUs has Filters = <<>>, as amdSMIHelper *)
(* makes it before it validates.  GPU ids are 0-based, as in the code.     *)
(***************************************************************************)
EXTENDS Naturals, Sequences, FiniteSets

ValidComputePartitions == {"SPX", "CPX", "DPX", "QPX"}
ValidMemoryPartitions == {"NPS1", "NPS2", "NPS4", "NPS8"}

\* checkInvalidPartitionType(computeType, memoryType) # nil
checkInvalidPartitionType(computeType, memoryType) ==
  \/ computeType \notin ValidComputePartitions
  \/ memoryType \notin ValidMemoryPartitions

(***************************************************************************)
(* The rounds of the loops over the entries and over numGPUsAssigned.      *)
(* Their number is what validateProfile adds up as total_devices.          *)
(***************************************************************************)
Slots(entries) ==
  UNION {{<<i, j>> : j \in 1..entries[i].NumGPUsAssigned} : i \in DOMAIN entries}

total_devices(entries) == Cardinality(Slots(entries))

\* Mutant: the skipped GPUs are forgotten.
AllGPUs(filter_ids, totalGPUCount) == 0..(totalGPUCount - 1)

\* The GPUs that are not skipped.
UsableGPUs(filter_ids, totalGPUCount) ==
  (0..(totalGPUCount - 1)) \ {filter_ids[k] : k \in DOMAIN filter_ids}

\* Mutant: the ids count from 1.
ListFromOne(filter_ids, totalGPUCount) ==
  LET ids == UsableGPUs(filter_ids, totalGPUCount)
  IN  [k \in 1..Cardinality(ids) |->
         1 + CHOOSE g \in ids : Cardinality({h \in ids : h < g}) = k - 1]

\* The usable GPUs in ascending order.
createGPUIDList(filter_ids, totalGPUCount) ==
  LET ids == UsableGPUs(filter_ids, totalGPUCount)
  IN  [k \in 1..Cardinality(ids) |->
         CHOOSE g \in ids : Cardinality({h \in ids : h < g}) = k - 1]

\* Mutant: the skipped GPUs do not count.
CountsWithoutSkipped(entries, ids, totalGPUCount) ==
  total_devices(entries) = totalGPUCount

CountsAddUp(entries, ids, totalGPUCount) ==
  total_devices(entries) + Len(ids) = totalGPUCount

\* Mutant: an id equal to the count is accepted.
IdsUpToCount(ids, totalGPUCount) == \A k \in DOMAIN ids : ids[k] <= totalGPUCount

IdsInRange(ids, totalGPUCount) == \A k \in DOMAIN ids : ids[k] + 1 <= totalGPUCount

(***************************************************************************)
(* "ok" is nil, "invalid" an error.  profiles[0] is read, for the memory   *)
(* type common to all entries, with no look at len(profiles): "panic".     *)
(***************************************************************************)
validateProfile(profile, totalGPUCount) ==
  LET entries == profile.Profiles
      ids == profile.Filters
  IN  IF \/ Len(ids) > totalGPUCount
         \/ ~IdsInRange(ids, totalGPUCount)
         \/ ~CountsAddUp(entries, ids, totalGPUCount)
        THEN "invalid"
      ELSE IF entries = <<>> THEN "panic"
      ELSE IF \E i \in DOMAIN entries :
                \/ checkInvalidPartitionType(entries[i].ComputePartition,
                                             entries[i].MemoryPartition)
                \/ entries[i].MemoryPartition # entries[1].MemoryPartition
        THEN "invalid"
      ELSE "ok"

(***************************************************************************)
(* getSupportedMemoryPartitionType, on the modes whose capability bit is   *)
(* set and on the current mode.  {} is the error it returns.               *)
(***************************************************************************)
getSupportedMemoryPartitionType(caps, mode) ==
  LET named == caps \intersect ValidMemoryPartitions
  IN  IF named # {} THEN named ELSE {mode} \intersect ValidMemoryPartitions

=============================================================================

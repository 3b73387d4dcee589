----------------------------- MODULE ProfileLoops -----------------------------
(***************************************************************************)
(* pkg/config_manager/configmanager.go: the loops of the pure functions,   *)
(* as the code runs them, against what ProfileValidation says they         *)
(* compute; and what a profile that validateProfile accepts means for the  *)
(* GPUs of the node.  The state is one input: a profile, a number of GPUs  *)
(* and the profile names of a config map in the order they are written.    *)
(***************************************************************************)
EXTENDS ProfileValidation, SequencesExt

CONSTANTS
  MaxGPUs,          \* bound: GPUs of a node, and GPUs of an entry
  MaxSkipped,       \* bound: length of skippedGPUs
  MaxEntries,       \* bound: entries of a profile
  MaxNames,         \* bound: profiles of a config map
  Names             \* names of profiles

ASSUME LoopBoundsAssumption == {MaxGPUs, MaxSkipped, MaxEntries, MaxNames} \subseteq Nat

VARIABLES profile, totalGPUCount, names
inputVars == <<profile, totalGPUCount, names>>

SeqsUpTo(S, n) == UNION {[1..k -> S] : k \in 0..n}

\* Entries of both kinds of type, good and bad, and zero counts too.
Entries == [ComputePartition : {"CPX", "NPS1"}, MemoryPartition : {"NPS1", "NPS4"},
            NumGPUsAssigned : 0..MaxGPUs]

Init ==
  \/ /\ profile \in [Profiles : SeqsUpTo(Entries, MaxEntries),
                     Filters : SeqsUpTo(0..MaxGPUs, MaxSkipped)]
     /\ totalGPUCount \in 0..MaxGPUs
     /\ names = <<>>
  \/ /\ profile = [Profiles |-> <<>>, Filters |-> <<>>]
     /\ totalGPUCount = 0
     /\ names \in SeqsUpTo(Names, MaxNames)

Spec == Init /\ [][UNCHANGED inputVars]_inputVars

-----------------------------------------------------------------------------
\* The ids of the GPUs, in the order of the outer loop.
Ids(n) == [k \in 1..n |-> k - 1]

\* Mutant: continue instead of continue outer, so that a skipped id is
\* appended once for every entry of skippedGPUs it is not equal to.
InnerContinue(filter_ids, n) ==
  FoldLeft(LAMBDA result, i :
             FoldLeft(LAMBDA r, f : IF f = i THEN r ELSE Append(r, i), result, filter_ids),
           <<>>, Ids(n))

\* createGPUIDList: continue outer leaves out an id that skippedGPUs holds.
createGPUIDListLoop(filter_ids, n) ==
  FoldLeft(LAMBDA result, i : IF Contains(filter_ids, i) THEN result ELSE Append(result, i),
           <<>>, Ids(n))

\* The sum of validateProfile.
total_devicesLoop(entries) ==
  FoldLeft(LAMBDA total, e : total + e.NumGPUsAssigned, 0, entries)

\* Mutant: only a duplicate is marked as seen.
SeenIfDuplicate(acc, key) ==
  IF key \in acc.seen
    THEN [seen |-> acc.seen \union {key}, duplicates |-> Append(acc.duplicates, key)]
    ELSE acc

\* One round of the loop of DetectDuplicateKeys.
SeenKey(acc, key) ==
  [seen |-> acc.seen \union {key},
   duplicates |-> IF key \in acc.seen THEN Append(acc.duplicates, key) ELSE acc.duplicates]

\* DetectDuplicateKeys, on the keys of "gpu-config-profiles".
DetectDuplicateKeys(keys) ==
  FoldLeft(SeenKey, [seen |-> {}, duplicates |-> <<>>], keys).duplicates

-----------------------------------------------------------------------------
(***************************************************************************)
(* Properties.                                                             *)
(***************************************************************************)

\* The loops compute what ProfileValidation, and so PartitionGPU, takes them
\* to: the usable GPUs in ascending order, and the rounds of amdSMIHelper.
LoopsAgree ==
  /\ createGPUIDListLoop(profile.Filters, totalGPUCount)
       = createGPUIDList(profile.Filters, totalGPUCount)
  /\ total_devicesLoop(profile.Profiles) = total_devices(profile.Profiles)

\* In an accepted profile every usable GPU has a round of the loops of its
\* own, but for one GPU for each id that skippedGPUs repeats; there are never
\* more rounds than GPUs.
RoundsMeetUsableGPUs ==
  validateProfile(profile, totalGPUCount) = "ok" =>
    total_devicesLoop(profile.Profiles)
      + (Len(profile.Filters) - Cardinality(ToSet(profile.Filters)))
      = Len(createGPUIDListLoop(profile.Filters, totalGPUCount))

\* DetectDuplicateKeys names exactly the profiles that are written more than
\* once, each as often as it is written again.
DuplicatesAreFound ==
  \A n \in Names :
    LET written == Cardinality({k \in DOMAIN names : names[k] = n})
        again == Cardinality({k \in DOMAIN DetectDuplicateKeys(names) :
                                DetectDuplicateKeys(names)[k] = n})
    IN  again = IF written > 1 THEN written - 1 ELSE 0

=============================================================================

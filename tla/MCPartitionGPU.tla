---------------------------- MODULE MCPartitionGPU ----------------------------
(***************************************************************************)
(* Instances of PartitionGPU for TLC.                                      *)
(***************************************************************************)
EXTENDS PartitionGPU

Entry(c, m, n) == [ComputePartition |-> c, MemoryPartition |-> m, NumGPUsAssigned |-> n]
Profile(entries, skipped) == [Profiles |-> entries, Filters |-> skipped]

\* Profiles for a node with two GPUs.
Uniform  == Profile(<<Entry("CPX", "NPS4", 2)>>, <<>>)
Mixed    == Profile(<<Entry("SPX", "NPS1", 1), Entry("CPX", "NPS1", 1)>>, <<>>)
Skipping == Profile(<<Entry("CPX", "NPS4", 1)>>, <<0>>)
NoCombo  == Profile(<<Entry("SPX", "NPS1", 1), Entry("QPX", "NPS1", 1)>>, <<>>)
NoMemory == Profile(<<Entry("CPX", "NPS2", 2)>>, <<>>)
Invalid  == Profile(<<Entry("CPX", "NPS1", 1), Entry("CPX", "NPS4", 1)>>, <<>>)
TooMany  == Profile(<<Entry("CPX", "NPS4", 2)>>, <<1>>)
AllSkipped == Profile(<<>>, <<0, 1>>)

AllProfiles == {Uniform, Mixed, Skipping, NoCombo, NoMemory, Invalid, TooMany,
                AllSkipped}
SomeProfiles == {Uniform, Mixed, Skipping, NoCombo, TooMany}
UnsupportedProfile == {NoCombo}
AllSkippedProfile == {AllSkipped}

UniformProfile == {Uniform}

OneMode == {"NPS1"}
TwoModes == {"NPS1", "NPS4"}
Combos == {<<"SPX", "NPS1">>, <<"CPX", "NPS1">>, <<"CPX", "NPS4">>}

=============================================================================

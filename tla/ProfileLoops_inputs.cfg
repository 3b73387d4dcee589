SPECIFICATION Spec
CONSTANTS
  MaxGPUs = 3
  MaxSkipped = 3
  MaxEntries = 2
  MaxNames = 5
  Names = {"default", "cpx", "spx"}
INVARIANT LoopsAgree
INVARIANT RoundsMeetUsableGPUs
INVARIANT DuplicatesAreFound

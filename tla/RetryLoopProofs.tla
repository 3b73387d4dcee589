--------------------------- MODULE RetryLoopProofs ---------------------------
(***************************************************************************)
(* Proofs about RetryLoop, for every set of services and profiles, any     *)
(* number of triggers, attempts, config map edits and unit changes.        *)
(***************************************************************************)
EXTENDS RetryLoop, TLAPS

(***************************************************************************)
(* The inductive invariant.  That two goroutines never run at once is not  *)
(* inductive: it needs the WaitGroup's counter to be the number of active  *)
(* goroutines, cancelFunc to be that of the newest one, and Worker about   *)
(* to start a goroutine only after the counter was zero.                   *)
(***************************************************************************)
WaitGroupInv ==
  /\ cancelFunc = spawned
  /\ \A r \in Runs : Active(r) => r = spawned
  /\ wg = IF \E r \in Runs : Active(r) THEN 1 ELSE 0
  /\ worker.pc = "spawn" => wg = 0
  /\ spawned + Pending <= MaxRuns

\* Only goroutines that were started have written the label.
LabelInv == labelRun <= spawned

\* A goroutine that called PartitionGPU after its cancellation is on its way
\* out, and one about to call it has an attempt left.
RunOK(g) ==
  /\ \/ g.late = 0
     \/ g.late = 1 /\ g.cancelled /\ g.pc \in {"wait", "check", "start", "done"}
  /\ g.pc \in {"stop", "partition"} => g.attempts < MaxAttempts

LateInv == \A r \in Runs : RunOK(run[r])

IInv == TypeOK /\ WaitGroupInv /\ LabelInv /\ LateInv

RunType ==
  [pc : PCs, profile : Profiles \union {NoProfile}, services : SUBSET Services,
   todo : SUBSET Services, attempts : 0..MaxAttempts, cancelled : BOOLEAN,
   late : Nat]

-----------------------------------------------------------------------------
\* The state main starts the goroutines in satisfies the invariant.
LEMMA InitIInv == Init => IInv
  <1> SUFFICES ASSUME Init PROVE IInv
    OBVIOUS
  <1> USE DEF Init
  <1>1. NoRun \in RunType
    BY BoundsAssumption DEF NoRun, Goroutine, PCs, RunType
  <1>2. TypeOK
    BY <1>1, BoundsAssumption, ConfigsAssumption
    DEF TypeOK, ServiceTypeOK, ServiceInit, EmptyDB, PreStates, Unrecorded, StateLabels, RunType
  <1>3. \A r \in Runs : run[r] = NoRun
    OBVIOUS
  <1>4. WaitGroupInv /\ LabelInv /\ LateInv
    BY <1>3, BoundsAssumption DEF WaitGroupInv, LabelInv, LateInv, RunOK, Active, Pending, NoRun, Goroutine
  <1> QED
    BY <1>2, <1>4 DEF IInv

\* What the entries of the service lists do to the service state is typed.
LEMMA ServiceEntriesTyped ==
  ASSUME ServiceTypeOK, NEW u \in Services,
         StopServiceEntry(u) \/ StartServiceEntry(u) \/ CleanupPreState \/ UnitFlips(u)
  PROVE  ServiceTypeOK'
  <1> USE DEF ServiceTypeOK, UnitStates, PreStates
  <1>1. CASE StopServiceEntry(u)
    <2>1. PICK seen \in CheckUnitStatus(u) :
            /\ PreStateDB' = RecordPreState(u, seen)
            /\ mislaid' \in {mislaid, mislaid \union {u}}
            /\ \/ StopService(u)
               \/ missed' \in {missed \union {u}, missed \ {u}} /\ UNCHANGED <<units, stoppedByDCM>>
      BY <1>1 DEF StopServiceEntry
    <2>2. seen \in PreStates
      BY DEF CheckUnitStatus
    <2> QED
      BY <2>1, <2>2 DEF RecordPreState, StopService
  <1>2. CASE StartServiceEntry(u)
    BY <1>2 DEF StartServiceEntry, StartService
  <1>3. CASE CleanupPreState
    BY <1>3 DEF CleanupPreState, EmptyDB
  <1>4. CASE UnitFlips(u)
    BY <1>4 DEF UnitFlips
  <1> QED
    BY <1>1, <1>2, <1>3, <1>4

\* A step of goroutine r that leaves Worker alone, keeps r active and writes
\* the label at most as r.
LEMMA RunMoves ==
  ASSUME IInv, NEW r \in Runs, Active(r),
         NEW new \in RunType, run' = [run EXCEPT ![r] = new],
         new.pc \notin {"unborn", "done"},
         UNCHANGED <<workerVars, wg>>,
         labelRun' \in {labelRun, r},
         RunOK(new)
  PROVE  WaitGroupInv' /\ LabelInv' /\ LateInv' /\ run' \in [Runs -> RunType]
  <1> USE DEF IInv
  <1>1. run \in [Runs -> RunType] /\ spawned \in Nat /\ labelRun \in Nat
    BY BoundsAssumption DEF TypeOK, RunType, Runs
  <1>2. \A s \in Runs : run'[s] = IF s = r THEN new ELSE run[s]
    BY <1>1
  <1>3. \A s \in Runs : Active(s)' <=> Active(s)
    BY <1>2 DEF Active
  <1>4. WaitGroupInv'
    BY <1>3 DEF WaitGroupInv, workerVars, Pending
  <1>5. LabelInv'
    BY <1>1, BoundsAssumption DEF LabelInv, WaitGroupInv, workerVars, Runs
  <1>6. LateInv'
    BY <1>2 DEF LateInv
  <1> QED
    BY <1>1, <1>4, <1>5, <1>6

\* The return of goroutine r.
LEMMA RunReturns ==
  ASSUME IInv, NEW r \in Runs, Active(r), Return(r),
         UNCHANGED workerVars, labelRun' \in {labelRun, r},
         run[r].pc # "partition"
  PROVE  WaitGroupInv' /\ LabelInv' /\ LateInv' /\ run' \in [Runs -> RunType] /\ wg' \in Nat
  <1> USE DEF IInv
  <1> DEFINE new == [run[r] EXCEPT !.pc = "done", !.services = {}, !.todo = {}, !.attempts = 0]
  <1>1. run \in [Runs -> RunType] /\ spawned \in Nat /\ labelRun \in Nat
    BY BoundsAssumption DEF TypeOK, RunType, Runs
  <1>2. new \in RunType /\ new.pc = "done" /\ new.late = run[r].late
          /\ new.cancelled = run[r].cancelled
    <2>1. run[r] \in RunType /\ 0 \in 0..MaxAttempts
      BY <1>1, BoundsAssumption
    <2>2. new \in RunType
      BY <2>1 DEF RunType, PCs
    <2>3. new.pc = "done" /\ new.late = run[r].late
      BY <2>1 DEF RunType
    <2>4. new.cancelled = run[r].cancelled
      BY <2>1 DEF RunType
    <2> QED
      BY <2>2, <2>3, <2>4
  <1>3. run' = [run EXCEPT ![r] = new]
    BY DEF Return
  <1> HIDE DEF new
  <1>4. \A s \in Runs : run'[s] = IF s = r THEN new ELSE run[s]
    BY <1>1, <1>3
  <1>5. \A s \in Runs : ~Active(s)'
    BY <1>2, <1>4 DEF Active, WaitGroupInv
  <1>6. wg = 1 /\ wg' = 0
    BY DEF WaitGroupInv, Return
  <1>7. WaitGroupInv'
    BY <1>5, <1>6 DEF WaitGroupInv, workerVars, Pending
  <1>8. LabelInv'
    BY <1>1, BoundsAssumption DEF LabelInv, WaitGroupInv, workerVars, Runs
  <1>9. LateInv'
    BY <1>2, <1>4 DEF LateInv, RunOK
  <1> QED
    BY <1>1, <1>2, <1>3, <1>6, <1>7, <1>8, <1>9

\* TypeOK', from the parts a goroutine's step changes.
LEMMA RunStepTyped ==
  ASSUME TypeOK, ServiceTypeOK', UNCHANGED <<workerVars, envVars>>,
         run' \in [Runs -> RunType], wg' \in Nat, stateLabel' \in StateLabels,
         labelRun' \in {0} \union Runs
  PROVE  TypeOK'
  BY DEF TypeOK, RunType, workerVars, envVars

\* Every step of goroutine r preserves the invariant.
LEMMA RetryPartitionIInv ==
  ASSUME IInv, NEW r \in Runs, RetryPartition(r)
  PROVE  IInv'
  <1> USE DEF IInv
  <1>1. /\ run \in [Runs -> RunType]
        /\ run[r] \in RunType
        /\ wg \in Nat
        /\ ServiceTypeOK
        /\ stateLabel \in StateLabels
        /\ labelRun \in {0} \union Runs
    BY DEF TypeOK, RunType
  <1>2. 0 \in 0..MaxAttempts /\ MaxAttempts \in Nat
    BY BoundsAssumption
  <1>3. \A value \in StateLabels : AddStateLabel(r, value) =>
          labelRun' \in {labelRun, r} /\ stateLabel' \in StateLabels
    BY <1>1 DEF AddStateLabel, labelVars
  <1>4. CASE RetryBegin(r)
    <2> DEFINE new == [run[r] EXCEPT !.pc = "load"]
    <2>1. new \in RunType /\ new.pc = "load" /\ new.late = run[r].late
      BY <1>1 DEF RunType, PCs
    <2>2. run[r].pc = "begin" /\ RunOK(new)
      BY <1>4, <2>1 DEF RetryBegin, LateInv, RunOK
    <2>3. run' = [run EXCEPT ![r] = new]
      BY <1>4 DEF RetryBegin, Goto
    <2>4. labelRun' \in {labelRun, r} /\ stateLabel' \in StateLabels
      BY <1>3, <1>4 DEF RetryBegin, StateLabels
    <2>5. UNCHANGED <<serviceVars, workerVars, wg, envVars>>
      BY <1>4 DEF RetryBegin
    <2> HIDE DEF new
    <2>6. WaitGroupInv' /\ LabelInv' /\ LateInv' /\ run' \in [Runs -> RunType]
      BY <2>1, <2>2, <2>3, <2>4, <2>5, RunMoves DEF Active
    <2>7. TypeOK'
      BY <1>1, <2>4, <2>5, <2>6, RunStepTyped DEF ServiceTypeOK, serviceVars
    <2> QED
      BY <2>6, <2>7
  <1>5. CASE RetryLoad(r)
    <2> DEFINE new == [run[r] EXCEPT !.pc = "check", !.services = configFile.services]
    <2>1. UNCHANGED <<serviceVars, workerVars, envVars>> /\ run[r].pc = "load"
      BY <1>5 DEF RetryLoad
    <2>2. configFile.services \in SUBSET Services
      <3>1. configFile \in ConfigMaps
        BY DEF TypeOK
      <3>2. QED
        <4>1. CASE configFile = Absent
          BY <4>1 DEF Absent
        <4>2. CASE configFile = BadJSON
          BY <4>2 DEF BadJSON
        <4>3. CASE configFile \in [present : {TRUE}, valid : {TRUE},
                        services : SUBSET Services, profiles : SUBSET Profiles]
          BY <4>3
        <4> QED
          BY <3>1, <4>1, <4>2, <4>3 DEF ConfigMaps
    <2>3. new \in RunType /\ new.pc = "check" /\ new.late = run[r].late
      BY <1>1, <2>2 DEF RunType, PCs
    <2>4. RunOK(new)
      BY <2>1, <2>3 DEF LateInv, RunOK
    <2>5. CASE configFile.valid
      <3>1. run' = [run EXCEPT ![r] = new] /\ UNCHANGED <<wg, labelVars>>
        BY <1>5, <2>5 DEF RetryLoad
      <3> HIDE DEF new
      <3>2. WaitGroupInv' /\ LabelInv' /\ LateInv' /\ run' \in [Runs -> RunType]
        BY <2>1, <2>3, <2>4, <3>1, RunMoves DEF Active, labelVars
      <3>3. TypeOK'
        BY <1>1, <2>1, <3>1, <3>2, RunStepTyped DEF ServiceTypeOK, serviceVars, labelVars
      <3> QED
        BY <3>2, <3>3
    <2>6. CASE ~configFile.valid
      <3>1. Return(r) /\ labelRun' \in {labelRun, r} /\ stateLabel' \in StateLabels
        BY <1>3, <1>5, <2>6 DEF RetryLoad, ReportBadJSON, StateLabels
      <3>2. /\ WaitGroupInv' /\ LabelInv' /\ LateInv'
            /\ run' \in [Runs -> RunType] /\ wg' \in Nat
        BY <2>1, <3>1, RunReturns DEF Active
      <3>3. TypeOK'
        BY <1>1, <2>1, <3>1, <3>2, RunStepTyped DEF ServiceTypeOK, serviceVars
      <3> QED
        BY <3>2, <3>3
    <2> QED
      BY <2>5, <2>6
  <1>6. CASE RetryCheck(r)
    <2>1. UNCHANGED <<serviceVars, workerVars, labelVars, envVars>> /\ run[r].pc = "check"
      BY <1>6 DEF RetryCheck
    <2>2. CASE CtxDone(r) /\ Return(r)
      <3>1. /\ WaitGroupInv' /\ LabelInv' /\ LateInv'
            /\ run' \in [Runs -> RunType] /\ wg' \in Nat
        BY <2>1, <2>2, RunReturns DEF Active, labelVars
      <3>2. TypeOK'
        BY <1>1, <2>1, <3>1, RunStepTyped DEF ServiceTypeOK, serviceVars, labelVars
      <3> QED
        BY <3>1, <3>2
    <2>3. ASSUME ~CtxDone(r), UNCHANGED wg, NEW to \in {"start", "stop"},
                 to = "stop" => ~MustExpire(r),
                 run' = [run EXCEPT ![r].pc = to, ![r].todo = run[r].services]
          PROVE  IInv'
      <3> DEFINE new == [run[r] EXCEPT !.pc = to, !.todo = run[r].services]
      <3>1. new \in RunType /\ new.pc = to /\ new.late = run[r].late
        BY <1>1 DEF RunType, PCs
      <3>2. RunOK(new)
        <4>1. run[r].late = 0
          BY <2>1, <2>3 DEF LateInv, RunOK, CtxDone
        <4>2. to = "stop" => new.attempts < MaxAttempts
          BY <1>1, <1>2, <2>3 DEF RunType, MustExpire
        <4> QED
          BY <3>1, <4>1, <4>2 DEF RunOK
      <3>3. run' = [run EXCEPT ![r] = new]
        BY <2>3
      <3> HIDE DEF new
      <3>4. WaitGroupInv' /\ LabelInv' /\ LateInv' /\ run' \in [Runs -> RunType]
        BY <2>1, <2>3, <3>1, <3>2, <3>3, RunMoves DEF Active, labelVars
      <3>5. TypeOK'
        BY <1>1, <2>1, <2>3, <3>4, RunStepTyped DEF ServiceTypeOK, serviceVars, labelVars
      <3> QED
        BY <3>4, <3>5
    <2> QED
      BY <1>6, <2>2, <2>3 DEF RetryCheck
  <1>7. CASE StopServiceHandler(r)
    <2>1. UNCHANGED <<workerVars, wg, labelVars, envVars>> /\ run[r].pc = "stop"
      BY <1>7 DEF StopServiceHandler
    <2>2. run[r].late = 0 /\ run[r].attempts < MaxAttempts
      BY <2>1 DEF LateInv, RunOK
    <2>3. ASSUME NEW u \in run[r].todo, StopServiceEntry(u),
                 run' = [run EXCEPT ![r].todo = @ \ {u}]
          PROVE  IInv'
      <3> DEFINE new == [run[r] EXCEPT !.todo = @ \ {u}]
      <3>1. new \in RunType /\ new.pc = run[r].pc /\ new.late = run[r].late
              /\ new.attempts = run[r].attempts /\ u \in Services
        BY <1>1 DEF RunType
      <3>2. run' = [run EXCEPT ![r] = new]
        BY <2>3
      <3> HIDE DEF new
      <3>3. WaitGroupInv' /\ LabelInv' /\ LateInv' /\ run' \in [Runs -> RunType]
        BY <2>1, <2>2, <3>1, <3>2, RunMoves DEF Active, RunOK, labelVars
      <3>4. ServiceTypeOK'
        BY <1>1, <2>3, <3>1, ServiceEntriesTyped
      <3>5. TypeOK'
        BY <1>1, <2>1, <3>3, <3>4, RunStepTyped DEF labelVars
      <3> QED
        BY <3>3, <3>5
    <2>4. CASE Goto(r, "partition") /\ UNCHANGED serviceVars
      <3> DEFINE new == [run[r] EXCEPT !.pc = "partition"]
      <3>1. new \in RunType /\ new.pc = "partition" /\ new.late = run[r].late
              /\ new.attempts = run[r].attempts
        BY <1>1 DEF RunType, PCs
      <3>2. run' = [run EXCEPT ![r] = new]
        BY <2>4 DEF Goto
      <3> HIDE DEF new
      <3>3. WaitGroupInv' /\ LabelInv' /\ LateInv' /\ run' \in [Runs -> RunType]
        BY <2>1, <2>2, <3>1, <3>2, RunMoves DEF Active, RunOK, labelVars
      <3>4. TypeOK'
        BY <1>1, <2>1, <2>4, <3>3, RunStepTyped DEF ServiceTypeOK, serviceVars, labelVars
      <3> QED
        BY <3>3, <3>4
    <2> QED
      BY <1>7, <2>3, <2>4 DEF StopServiceHandler
  <1>8. CASE RetryPartitionGPU(r)
    <2>1. UNCHANGED <<serviceVars, workerVars, wg, envVars>> /\ run[r].pc = "partition"
      BY <1>8 DEF RetryPartitionGPU
    <2>2. PICK out \in PartitionOutcomes(run[r].profile) :
            /\ AddStateLabel(r, out.label)
            /\ run' = [run EXCEPT
                         ![r].pc = IF out.err THEN "wait" ELSE "start",
                         ![r].todo = run[r].services,
                         ![r].attempts = @ + 1,
                         ![r].late = IF run[r].cancelled THEN @ + 1 ELSE @]
      BY <1>8 DEF RetryPartitionGPU
    <2>3. labelRun' \in {labelRun, r} /\ stateLabel' \in StateLabels
      BY <1>3, <2>2 DEF PartitionOutcomes, StateLabels
    <2> DEFINE to == IF out.err THEN "wait" ELSE "start"
               late == IF run[r].cancelled THEN run[r].late + 1 ELSE run[r].late
               new == [run[r] EXCEPT !.pc = to, !.todo = run[r].services,
                                     !.attempts = run[r].attempts + 1, !.late = late]
    <2>4. run' = [run EXCEPT ![r] = new]
      BY <2>2
    <2>5. run[r].late = 0 /\ run[r].attempts + 1 \in 0..MaxAttempts
      BY <1>1, <1>2, <2>1 DEF LateInv, RunOK, RunType
    <2>6. late = 0 \/ (late = 1 /\ run[r].cancelled)
      BY <2>5
    <2>7. to \in {"wait", "start"}
      OBVIOUS
    <2> HIDE DEF to, late
    <2>8. /\ new \in RunType /\ new.pc = to /\ new.late = late
          /\ new.attempts = run[r].attempts + 1
      <3>1. to \in PCs
        BY <2>7 DEF PCs
      <3>2. late \in Nat
        BY <2>6
      <3> DEFINE n == run[r].attempts + 1
      <3> HIDE DEF n
      <3>3. n \in 0..MaxAttempts
        BY <2>5 DEF n
      <3>4. new = [run[r] EXCEPT !.pc = to, !.todo = run[r].services,
                                 !.attempts = n, !.late = late]
        BY DEF n
      <3>5. new \in RunType
        BY <1>1, <3>1, <3>2, <3>3, <3>4 DEF RunType
      <3> QED
        BY <1>1, <3>5 DEF RunType
    <2>9. new.cancelled = run[r].cancelled
      BY <1>1 DEF RunType
    <2> HIDE DEF new
    <2>10. RunOK(new)
      BY <2>6, <2>7, <2>8, <2>9 DEF RunOK
    <2>11. WaitGroupInv' /\ LabelInv' /\ LateInv' /\ run' \in [Runs -> RunType]
      BY <2>1, <2>3, <2>4, <2>7, <2>8, <2>10, RunMoves DEF Active
    <2>12. TypeOK'
      BY <1>1, <2>1, <2>3, <2>11, RunStepTyped DEF ServiceTypeOK, serviceVars
    <2> QED
      BY <2>11, <2>12
  <1>9. CASE RetryWait(r)
    <2>1. UNCHANGED <<serviceVars, workerVars, labelVars, envVars>> /\ run[r].pc = "wait"
      BY <1>9 DEF RetryWait
    <2>2. CASE Return(r)
      <3>1. /\ WaitGroupInv' /\ LabelInv' /\ LateInv'
            /\ run' \in [Runs -> RunType] /\ wg' \in Nat
        BY <2>1, <2>2, RunReturns DEF Active, labelVars
      <3>2. TypeOK'
        BY <1>1, <2>1, <3>1, RunStepTyped DEF ServiceTypeOK, serviceVars, labelVars
      <3> QED
        BY <3>1, <3>2
    <2>3. CASE Goto(r, "check") /\ UNCHANGED wg
      <3> DEFINE new == [run[r] EXCEPT !.pc = "check"]
      <3>1. new \in RunType /\ new.pc = "check" /\ new.late = run[r].late
        BY <1>1 DEF RunType, PCs
      <3>2. new.cancelled = run[r].cancelled
        BY <1>1 DEF RunType
      <3>3. run' = [run EXCEPT ![r] = new]
        BY <2>3 DEF Goto
      <3> HIDE DEF new
      <3>4. RunOK(new)
        BY <2>1, <3>1, <3>2 DEF LateInv, RunOK
      <3>5. WaitGroupInv' /\ LabelInv' /\ LateInv' /\ run' \in [Runs -> RunType]
        BY <2>1, <2>3, <3>1, <3>3, <3>4, RunMoves DEF Active, labelVars
      <3>6. TypeOK'
        BY <1>1, <2>1, <2>3, <3>5, RunStepTyped DEF ServiceTypeOK, serviceVars, labelVars
      <3> QED
        BY <3>5, <3>6
    <2> QED
      BY <1>9, <2>2, <2>3 DEF RetryWait
  <1>10. CASE StartServiceHandler(r)
    <2>1. UNCHANGED <<workerVars, labelVars, envVars>> /\ run[r].pc = "start"
      BY <1>10 DEF StartServiceHandler
    <2>2. ASSUME NEW u \in run[r].todo, StartServiceEntry(u), UNCHANGED wg,
                 run' = [run EXCEPT ![r].todo = @ \ {u}]
          PROVE  IInv'
      <3> DEFINE new == [run[r] EXCEPT !.todo = @ \ {u}]
      <3>1. new \in RunType /\ new.pc = run[r].pc /\ new.late = run[r].late /\ u \in Services
        BY <1>1 DEF RunType
      <3>2. new.cancelled = run[r].cancelled
        BY <1>1 DEF RunType
      <3>3. run' = [run EXCEPT ![r] = new]
        BY <2>2
      <3> HIDE DEF new
      <3>4. RunOK(new)
        BY <2>1, <3>1, <3>2 DEF LateInv, RunOK
      <3>5. WaitGroupInv' /\ LabelInv' /\ LateInv' /\ run' \in [Runs -> RunType]
        BY <2>1, <2>2, <3>1, <3>3, <3>4, RunMoves DEF Active, labelVars
      <3>6. ServiceTypeOK'
        BY <1>1, <2>2, <3>1, ServiceEntriesTyped
      <3>7. TypeOK'
        BY <1>1, <2>1, <2>2, <3>5, <3>6, RunStepTyped DEF labelVars
      <3> QED
        BY <3>5, <3>7
    <2>3. CASE CleanupPreState /\ Return(r)
      <3>1. /\ WaitGroupInv' /\ LabelInv' /\ LateInv'
            /\ run' \in [Runs -> RunType] /\ wg' \in Nat
        BY <2>1, <2>3, RunReturns DEF Active, labelVars
      <3>2. ServiceTypeOK'
        BY <1>1, <2>3 DEF CleanupPreState, EmptyDB, ServiceTypeOK, PreStates
      <3>3. TypeOK'
        BY <1>1, <2>1, <3>1, <3>2, RunStepTyped DEF labelVars
      <3> QED
        BY <3>1, <3>3
    <2> QED
      BY <1>10, <2>2, <2>3 DEF StartServiceHandler
  <1> QED
    BY <1>4, <1>5, <1>6, <1>7, <1>8, <1>9, <1>10 DEF RetryPartition

\* Every step of Worker preserves the invariant.
LEMMA WorkerIInv ==
  ASSUME IInv, Worker
  PROVE  IInv'
  <1> USE DEF IInv
  <1>1. /\ run \in [Runs -> RunType]
        /\ spawned \in Nat /\ wg \in Nat /\ MaxRuns \in Nat /\ labelRun \in Nat
        /\ retryCh \in {<<>>} \union {<<p>> : p \in Profiles}
    BY BoundsAssumption DEF TypeOK, RunType, Runs
  <1>2. CASE WorkerRecv
    <2>1. PICK p \in Profiles : retryCh = <<p>>
      BY <1>1, <1>2 DEF WorkerRecv
    <2>2. /\ worker.pc = "recv"
          /\ retryCh' = <<>>
          /\ worker' = [pc |-> AfterRecv, prof |-> p]
          /\ run' = IF cancelFunc = 0 THEN run
                    ELSE [run EXCEPT ![cancelFunc].cancelled = TRUE]
          /\ UNCHANGED <<serviceVars, cancelFunc, spawned, lastAccepted, wg,
                         labelVars, envVars>>
      BY <1>2, <2>1 DEF WorkerRecv
    <2>3. cancelFunc = 0 \/ cancelFunc \in Runs
      BY DEF TypeOK
    <2>4. run' \in [Runs -> RunType]
      BY <1>1, <2>2, <2>3 DEF RunType
    <2>5. \A r \in Runs : /\ run'[r].pc = run[r].pc
                          /\ run'[r].late = run[r].late
                          /\ run'[r].attempts = run[r].attempts
      BY <1>1, <2>2, <2>3 DEF RunType
    <2>6. \A r \in Runs : run[r].cancelled => run'[r].cancelled
      BY <1>1, <2>2, <2>3 DEF RunType
    <2>7. TypeOK'
      BY <2>2, <2>4 DEF TypeOK, RunType, ServiceTypeOK, serviceVars, labelVars,
                        envVars, AfterRecv
    <2>8. Pending' = Pending
      BY <2>1, <2>2 DEF Pending, AfterRecv
    <2>9. \A r \in Runs : Active(r)' <=> Active(r)
      BY <2>5 DEF Active
    <2>10. AfterRecv = "spawn" => wg = 0
      BY BoundsAssumption DEF AfterRecv, WaitGroupInv, Runs
    <2>11. WaitGroupInv'
      BY <2>2, <2>8, <2>9, <2>10 DEF WaitGroupInv
    <2>12. LabelInv' /\ LateInv'
      BY <2>2, <2>5, <2>6 DEF LabelInv, LateInv, RunOK, labelVars
    <2> QED
      BY <2>7, <2>11, <2>12
  <1>3. CASE WorkerWait
    <2>1. /\ worker.pc = "wait" /\ wg = 0
          /\ worker' = [worker EXCEPT !.pc = "spawn"]
          /\ UNCHANGED <<serviceVars, retryCh, cancelFunc, spawned, lastAccepted,
                         wg, run, labelVars, envVars>>
      BY <1>3 DEF WorkerWait, KeepTrigger
    <2>2. TypeOK'
      BY <2>1 DEF TypeOK, ServiceTypeOK, serviceVars, labelVars, envVars
    <2>3. worker'.pc = "spawn"
      BY <2>1 DEF TypeOK
    <2>4. WaitGroupInv'
      BY <2>1, <2>3 DEF WaitGroupInv, Pending, Active
    <2>5. LabelInv' /\ LateInv'
      BY <2>1 DEF LabelInv, LateInv, labelVars
    <2> QED
      BY <2>2, <2>4, <2>5
  <1>4. CASE WorkerSpawn
    <2>1. /\ worker.pc = "spawn"
          /\ spawned' = spawned + 1 /\ cancelFunc' = spawned + 1
          /\ run' = [run EXCEPT ![spawned + 1] = NewRun(worker.prof)]
          /\ wg' = wg + 1
          /\ worker' = [pc |-> "recv", prof |-> NoProfile]
          /\ UNCHANGED <<serviceVars, retryCh, lastAccepted, labelVars, envVars>>
      BY <1>4 DEF WorkerSpawn, StoreCancel
    <2>2. Len(retryCh) \in Nat
      BY <1>1
    <2>3. spawned + 1 \in Runs /\ spawned + 1 + Len(retryCh) <= MaxRuns
      BY <1>1, <2>1, <2>2 DEF WaitGroupInv, Pending, Runs
    <2>4. worker.prof \in Profiles
      BY <2>1 DEF TypeOK
    <2>5. /\ NewRun(worker.prof) \in RunType
          /\ NewRun(worker.prof).pc = "begin"
          /\ NewRun(worker.prof).late = 0
      <3>1. "begin" \in PCs /\ 0 \in 0..MaxAttempts
        BY BoundsAssumption DEF PCs
      <3> QED
        BY <2>4, <3>1 DEF NewRun, Goroutine, RunType
    <2>6. \A r \in Runs : run'[r] = IF r = spawned + 1 THEN NewRun(worker.prof)
                                                        ELSE run[r]
      BY <1>1, <2>1
    <2>7. run' \in [Runs -> RunType]
      BY <1>1, <2>1, <2>5
    <2>8. wg = 0 /\ \A r \in Runs : ~Active(r)
      BY <2>1 DEF WaitGroupInv
    <2>9. \A r \in Runs : Active(r)' <=> r = spawned + 1
      BY <2>5, <2>6, <2>8 DEF Active
    <2>10. TypeOK'
      <3>1. /\ spawned' \in 0..MaxRuns /\ cancelFunc' \in {0} \union Runs
            /\ wg' \in Nat
        BY <1>1, <2>1, <2>3 DEF Runs
      <3> QED
        BY <2>1, <2>7, <3>1 DEF TypeOK, RunType, ServiceTypeOK, serviceVars,
                                labelVars, envVars
    <2>11. WaitGroupInv'
      <3>1. worker'.pc = "recv" /\ Pending' = Len(retryCh)
        BY <2>1, <2>2 DEF Pending
      <3>2. wg' = 1 /\ \E r \in Runs : Active(r)'
        BY <2>1, <2>3, <2>8, <2>9
      <3> QED
        BY <2>1, <2>3, <2>9, <3>1, <3>2 DEF WaitGroupInv
    <2>12. LabelInv' /\ LateInv'
      BY <1>1, <2>1, <2>5, <2>6 DEF LabelInv, LateInv, RunOK, labelVars
    <2> QED
      BY <2>10, <2>11, <2>12
  <1> QED
    BY <1>2, <1>3, <1>4 DEF Worker

\* A trigger, accepted or ignored, preserves the invariant.
LEMMA TriggerIInv ==
  ASSUME IInv, NEW p \in Profiles, TriggerRetryLoop(p)
  PROVE  IInv'
  <1> USE DEF IInv
  <1>1. UNCHANGED <<serviceVars, worker, cancelFunc, spawned, wg, run, labelVars, envVars>>
    BY DEF TriggerRetryLoop
  <1>2. \/ retryCh = <<>> /\ retryCh' = <<p>> /\ lastAccepted' = p
            /\ spawned + Pending < MaxRuns
        \/ UNCHANGED <<retryCh, lastAccepted>>
    BY DEF TriggerRetryLoop
  <1>3. TypeOK'
    BY <1>1, <1>2 DEF TypeOK, ServiceTypeOK, serviceVars, labelVars, envVars
  <1>4. spawned + Pending' <= MaxRuns
    <2>1. spawned \in Nat /\ MaxRuns \in Nat
      BY BoundsAssumption DEF TypeOK
    <2>2. CASE retryCh = <<>> /\ retryCh' = <<p>> /\ spawned + Pending < MaxRuns
      BY <1>1, <2>1, <2>2 DEF Pending
    <2>3. CASE UNCHANGED retryCh
      BY <1>1, <2>3 DEF Pending, WaitGroupInv
    <2> QED
      BY <1>2, <2>2, <2>3
  <1>5. WaitGroupInv'
    BY <1>1, <1>4 DEF WaitGroupInv, Active
  <1>6. LabelInv' /\ LateInv'
    BY <1>1 DEF LabelInv, LateInv, labelVars
  <1> QED
    BY <1>3, <1>5, <1>6

\* The environment's steps preserve the invariant.
LEMMA EnvironmentIInv ==
  ASSUME IInv, EditConfig \/ UnitChanges \/ UNCHANGED vars
  PROVE  IInv'
  <1> USE DEF IInv
  <1>1. UNCHANGED <<workerVars, wg, run, labelVars>>
    BY DEF EditConfig, UnitChanges, vars
  <1>2. ServiceTypeOK'
    <2>1. CASE UnitChanges
      <3>1. PICK u \in Services : UnitFlips(u)
        BY <2>1 DEF UnitChanges
      <3> QED
        BY <3>1, ServiceEntriesTyped DEF TypeOK
    <2>2. CASE UNCHANGED serviceVars
      BY <2>2 DEF TypeOK, ServiceTypeOK, serviceVars
    <2> QED
      BY <2>1, <2>2 DEF EditConfig, vars
  <1>3. configFile' \in ConfigMaps /\ edits' \in 0..MaxEdits /\ flips' \in 0..MaxFlips
    BY ConfigsAssumption, BoundsAssumption
    DEF TypeOK, EditConfig, UnitChanges, vars, envVars
  <1>4. TypeOK'
    BY <1>1, <1>2, <1>3 DEF TypeOK, workerVars, labelVars
  <1>5. WaitGroupInv' /\ LabelInv' /\ LateInv'
    BY <1>1 DEF WaitGroupInv, LabelInv, LateInv, Active, Pending, workerVars, labelVars
  <1> QED
    BY <1>4, <1>5

\* Every step of Worker, of a goroutine, of a trigger and of the environment
\* preserves the invariant.
LEMMA NextIInv == IInv /\ [Next]_vars => IInv'
  BY RetryPartitionIInv, WorkerIInv, TriggerIInv, EnvironmentIInv DEF Next, Idle

\* The steps that write the label write it for the newest goroutine.
LEMMA NextLabel == IInv /\ [Next]_vars => labelRun' >= labelRun
  <1> SUFFICES ASSUME IInv, [Next]_vars PROVE labelRun' >= labelRun
    OBVIOUS
  <1>1. labelRun \in Nat /\ spawned \in Nat /\ labelRun <= spawned
    BY BoundsAssumption DEF IInv, TypeOK, LabelInv, Runs
  <1>2. ASSUME NEW r \in Runs, RetryPartition(r)
        PROVE  labelRun' \in {labelRun, spawned}
    <2>1. labelRun' = labelRun \/ (labelRun' = r /\ run[r].pc \in {"begin", "load", "partition"})
      BY <1>2 DEF RetryPartition, RetryBegin, RetryLoad, RetryCheck,
           StopServiceHandler, RetryPartitionGPU, RetryWait, StartServiceHandler,
           AddStateLabel, ReportBadJSON, labelVars
    <2> QED
      BY <2>1 DEF IInv, WaitGroupInv, Active
  <1>3. CASE UNCHANGED labelRun
    BY <1>1, <1>3
  <1> QED
    BY <1>1, <1>2, <1>3 DEF Next, TriggerRetryLoop, Worker, WorkerRecv, WorkerWait,
         WorkerSpawn, EditConfig, UnitChanges, Idle, vars, labelVars

-----------------------------------------------------------------------------
\* The inductive invariant holds in every reachable state.
THEOREM Invariance == Spec => []IInv
  BY InitIInv, NextIInv, PTL DEF Spec

\* The types of the retry loop's state, the bound on attempts included.
THEOREM TypeCorrect == Spec => []TypeOK
  BY Invariance, PTL DEF IInv

\* At most one RetryPartition goroutine runs at a time, so that its globals
\* need no lock: whatever D-Bus, the Kubernetes API, the config map and the
\* triggers do.
THEOREM MutualExclusion == Spec => []AtMostOneRetryPartition
  <1>1. IInv => AtMostOneRetryPartition
    BY DEF IInv, WaitGroupInv, AtMostOneRetryPartition
  <1> QED
    BY <1>1, Invariance, PTL

\* A cancelled goroutine calls PartitionGPU at most once more.
THEOREM PromptCancel == Spec => []CancelIsPrompt
  <1>1. IInv => CancelIsPrompt
    BY DEF IInv, LateInv, RunOK, CancelIsPrompt
  <1> QED
    BY <1>1, Invariance, PTL

\* The label never goes back to the report of an older trigger.
THEOREM LabelOrder == Spec => LabelsInTriggerOrder
  BY Invariance, NextLabel, PTL DEF Spec, LabelsInTriggerOrder

=============================================================================

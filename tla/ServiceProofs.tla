---------------------------- MODULE ServiceProofs ----------------------------
(***************************************************************************)
(* Proofs about the services in RetryLoop: they are down during every      *)
(* attempt, what DCM stopped is remembered, and none is left down when all *)
(* is quiet, but for the units that a failed D-Bus call or somebody else's *)
(* hand accounts for (missed, mislaid).                                    *)
(***************************************************************************)
EXTENDS RetryLoopProofs

\* The entries of the list that StopServiceHandler has passed are down or
\* missed, and stay so until PartitionGPU has returned.
DownInv ==
  \A r \in Runs :
    /\ run[r].pc = "stop" => \A u \in run[r].services :
                               u \in run[r].todo \/ units[u] # "active" \/ u \in missed
    /\ run[r].pc = "partition" => \A u \in run[r].services :
                                    units[u] # "active" \/ u \in missed

(***************************************************************************)
(* What PreStateDB remembers.  A listed unit that DCM stopped is recorded  *)
(* as active, although it may be stopped in several attempts, since a unit *)
(* that runs is unrecorded or recorded so; it is in the list of every      *)
(* goroutine; and StartServiceHandler has it before it, not behind it.     *)
(***************************************************************************)
Down == (stoppedByDCM \intersect Listed) \ mislaid

RecordInv ==
  /\ \A u \in Down : PreStateDB[u] = "active"
  /\ \A u \in Services \ mislaid :
       units[u] = "active" => PreStateDB[u] \in {Unrecorded, "active"}

Loaded(g) == g.pc \in {"check", "stop", "partition", "wait", "start"}

ListInv ==
  /\ configFile \in Configs
  /\ \A r \in Runs : Loaded(run[r]) => Listed \subseteq run[r].services
  /\ \A r \in Runs : run[r].pc = "start" => Down \subseteq run[r].todo

\* A cancelled goroutine leaves the services to the one Worker is about to
\* start.
HandOverInv ==
  /\ Down \intersect AlwaysListed # {} => worker.pc # "recv" \/ \E r \in Runs : Active(r)
  /\ \A r \in Runs : Active(r) /\ run[r].cancelled => worker.pc = "wait"

RestoreInv == RecordInv /\ ListInv /\ HandOverInv

-----------------------------------------------------------------------------
\* A goroutine's step is the step of the one active goroutine, and leaves
\* Worker, the config map and the other goroutines alone.
LEMMA OneSteps ==
  ASSUME IInv, NEW r \in Runs, RetryPartition(r)
  PROVE  /\ Active(r)
         /\ run \in [Runs -> RunType] /\ run[r] \in RunType
         /\ UNCHANGED <<workerVars, envVars>>
         /\ \A s \in Runs : s # r => ~Active(s) /\ run'[s] = run[s]
  <1>1. run \in [Runs -> RunType]
    BY DEF IInv, TypeOK, RunType
  <1>2. Active(r) /\ UNCHANGED <<workerVars, envVars>>
    BY DEF RetryPartition, RetryBegin, RetryLoad, RetryCheck, StopServiceHandler,
           RetryPartitionGPU, RetryWait, StartServiceHandler, Active
  <1>3. \A s \in Runs : s # r => ~Active(s)
    BY <1>2 DEF IInv, WaitGroupInv
  <1>4. \A s \in Runs : s # r => run'[s] = run[s]
    BY <1>1 DEF RetryPartition, RetryBegin, RetryLoad, RetryCheck, StopServiceHandler,
           RetryPartitionGPU, RetryWait, StartServiceHandler, Goto, Return
  <1> QED
    BY <1>1, <1>2, <1>3, <1>4

\* What a step of StopServiceHandler over entry u does: the unit is down or
\* missed, its first state is recorded, and it alone is touched.
LEMMA StopEntry ==
  ASSUME ServiceTypeOK, NEW u \in Services, StopServiceEntry(u)
  PROVE  /\ units'[u] # "active" \/ u \in missed'
         /\ units'[u] = "active" => units[u] = "active"
         /\ \A w \in Services : w # u =>
              /\ units'[w] = units[w] /\ PreStateDB'[w] = PreStateDB[w]
              /\ w \in missed' <=> w \in missed
              /\ w \in mislaid' <=> w \in mislaid
              /\ w \in stoppedByDCM' <=> w \in stoppedByDCM
         /\ u \in mislaid => u \in mislaid'
         /\ PreStateDB'[u] = "active" \/ PreStateDB'[u] = PreStateDB[u]
              \/ u \in mislaid' \/ (units[u] # "active" /\ PreStateDB[u] = Unrecorded)
         /\ PreStateDB[u] = "active" => PreStateDB'[u] = "active"
         /\ u \in stoppedByDCM' => u \in stoppedByDCM \/
              (units[u] = "active" /\ PreStateDB'[u] # Unrecorded)
  <1>1. PICK seen \in {units[u], NoAnswer} :
          /\ PreStateDB' = RecordPreState(u, seen)
          /\ mislaid' = IF PreStateDB[u] = Unrecorded /\ seen = NoAnswer
                          THEN mislaid \union {u} ELSE mislaid
          /\ IF seen = "active"
               THEN StopService(u)
               ELSE /\ missed' = IF seen = NoAnswer THEN missed \union {u} ELSE missed \ {u}
                    /\ UNCHANGED <<units, stoppedByDCM>>
    BY DEF StopServiceEntry, CheckUnitStatus
  <1>2. /\ units \in [Services -> UnitStates] /\ PreStateDB \in [Services -> PreStates]
        /\ seen # Unrecorded /\ NoAnswer # "active" /\ Unrecorded # "active"
    BY DEF ServiceTypeOK, UnitStates, NoAnswer, Unrecorded
  <1>3. \A w \in Services : PreStateDB'[w] = IF w = u /\ PreStateDB[u] = Unrecorded
                                             THEN seen ELSE PreStateDB[w]
    BY <1>1, <1>2 DEF RecordPreState
  <1>4. CASE seen = "active"
    <2>1. units[u] = "active" /\ mislaid' = mislaid
      BY <1>1, <1>2, <1>4
    <2>2. \/ /\ units' = [units EXCEPT ![u] = "inactive"]
             /\ stoppedByDCM' = stoppedByDCM \union {u} /\ missed' = missed \ {u}
          \/ missed' = missed \union {u} /\ UNCHANGED <<units, stoppedByDCM>>
      BY <1>1, <1>4 DEF StopService
    <2> QED
      BY <1>2, <1>3, <1>4, <2>1, <2>2
  <1>5. CASE seen # "active"
    <2>1. UNCHANGED <<units, stoppedByDCM>>
      BY <1>1, <1>5
    <2>2. CASE seen = NoAnswer
      BY <1>1, <1>2, <1>3, <1>5, <2>1, <2>2
    <2>3. CASE seen # NoAnswer
      BY <1>1, <1>2, <1>3, <1>5, <2>1, <2>3
    <2> QED
      BY <2>2, <2>3
  <1> QED
    BY <1>4, <1>5

-----------------------------------------------------------------------------
\* The steps of goroutine r keep the services down while they must be.
LEMMA RetryPartitionDown ==
  ASSUME IInv, DownInv, NEW r \in Runs, RetryPartition(r)
  PROVE  DownInv'
  <1> DEFINE Off(u) == units'[u] # "active" \/ u \in missed'
             AllOff(g) == /\ g.pc = "stop" => \A u \in g.services : u \in g.todo \/ Off(u)
                          /\ g.pc = "partition" => \A u \in g.services : Off(u)
  <1>1. /\ run \in [Runs -> RunType] /\ run[r] \in RunType
        /\ \A s \in Runs : s # r => run'[s] = run[s] /\ run[s].pc \in {"unborn", "done"}
    BY OneSteps DEF Active
  <1>2. SUFFICES AllOff(run'[r])
    BY <1>1 DEF DownInv
  <1>3. CASE run'[r].pc \notin {"stop", "partition"}
    BY <1>3
  <1>4. CASE RetryCheck(r) /\ run'[r].pc \in {"stop", "partition"}
    <2>1. run'[r].pc = "stop" /\ run'[r].todo = run[r].services
            /\ run'[r].services = run[r].services
      BY <1>1, <1>4 DEF RetryCheck, Return, RunType
    <2> QED
      BY <2>1
  <1>5. CASE StopServiceHandler(r)
    <2>1. run[r].pc = "stop"
      BY <1>5 DEF StopServiceHandler
    <2>2. ASSUME NEW u \in run[r].todo, StopServiceEntry(u),
                 run' = [run EXCEPT ![r].todo = @ \ {u}]
          PROVE  AllOff(run'[r])
      <3>1. /\ run'[r].pc = "stop" /\ run'[r].services = run[r].services
            /\ run'[r].todo = run[r].todo \ {u} /\ u \in Services
            /\ run[r].services \subseteq Services
        BY <1>1, <2>1, <2>2 DEF RunType
      <3>2. ServiceTypeOK
        BY DEF IInv, TypeOK
      <3>3. Off(u) /\ \A w \in Services : w # u =>
              units'[w] = units[w] /\ (w \in missed' <=> w \in missed)
        BY <2>2, <3>1, <3>2, StopEntry
      <3>4. \A w \in run[r].services : w \in run[r].todo \/ units[w] # "active" \/ w \in missed
        BY <2>1 DEF DownInv
      <3> QED
        BY <3>1, <3>3, <3>4
    <2>3. CASE run[r].todo = {} /\ Goto(r, "partition") /\ UNCHANGED serviceVars
      <3>1. run'[r].pc = "partition" /\ run'[r].services = run[r].services
        BY <1>1, <2>3 DEF Goto, RunType
      <3> QED
        BY <2>1, <2>3, <3>1 DEF DownInv, serviceVars
    <2> QED
      BY <1>5, <2>2, <2>3 DEF StopServiceHandler
  <1>6. CASE RetryBegin(r) \/ RetryWait(r)
    BY <1>1, <1>3, <1>6 DEF RetryBegin, RetryWait, Goto, Return, RunType
  <1>7. CASE RetryLoad(r)
    BY <1>1, <1>3, <1>7 DEF RetryLoad, Return, RunType
  <1>8. CASE RetryPartitionGPU(r)
    <2>1. run'[r].pc \in {"wait", "start"}
      BY <1>1, <1>8 DEF RetryPartitionGPU, RunType
    <2> QED
      BY <1>3, <2>1
  <1>9. CASE StartServiceHandler(r)
    <2>1. run'[r].pc \in {"start", "done"}
      BY <1>1, <1>9 DEF StartServiceHandler, Return, RunType
    <2> QED
      BY <1>3, <2>1
  <1> QED
    BY <1>3, <1>4, <1>5, <1>6, <1>7, <1>8, <1>9 DEF RetryPartition

\* Triggers and Worker move no unit, and no goroutine but to its beginning.
LEMMA WorkerSteps ==
  ASSUME IInv, (\E p \in Profiles : TriggerRetryLoop(p)) \/ Worker \/ EditConfig \/ Idle
  PROVE  /\ UNCHANGED serviceVars
         /\ run \in [Runs -> RunType]
         /\ \A s \in Runs : /\ run'[s].pc \in {run[s].pc, "begin"}
                            /\ run'[s].services = run[s].services \/ run'[s].pc = "begin"
                            /\ run'[s].todo = run[s].todo \/ run'[s].pc = "begin"
  <1>1. run \in [Runs -> RunType] /\ cancelFunc \in {0} \union Runs
    BY DEF IInv, TypeOK, RunType
  <1>2. CASE (\E p \in Profiles : TriggerRetryLoop(p)) \/ EditConfig \/ Idle \/ WorkerWait
    BY <1>1, <1>2 DEF TriggerRetryLoop, EditConfig, Idle, WorkerWait, vars
  <1>3. CASE WorkerRecv
    BY <1>1, <1>3 DEF WorkerRecv, RunType
  <1>4. CASE WorkerSpawn
    <2>1. run' = [run EXCEPT ![spawned + 1] = NewRun(worker.prof)] /\ UNCHANGED serviceVars
      BY <1>4 DEF WorkerSpawn
    <2>2. \A s \in Runs : run'[s] = run[s] \/ run'[s] = NewRun(worker.prof)
      BY <1>1, <2>1
    <2>3. NewRun(worker.prof).pc = "begin"
      BY DEF NewRun, Goroutine
    <2> QED
      BY <1>1, <2>1, <2>2, <2>3
  <1> QED
    BY <1>2, <1>3, <1>4 DEF Worker

\* Every step keeps the services down while they must be.
LEMMA NextDown ==
  ASSUME IInv, DownInv, [Next]_vars
  PROVE  DownInv'
  <1>1. CASE \E r \in Runs : RetryPartition(r)
    BY <1>1, RetryPartitionDown
  <1>2. CASE (\E p \in Profiles : TriggerRetryLoop(p)) \/ Worker \/ EditConfig \/ Idle
    BY <1>2, WorkerSteps DEF DownInv, serviceVars
  <1>3. CASE UnitChanges
    <2>1. PICK u \in Services : UnitFlips(u)
      BY <1>3 DEF UnitChanges
    <2>2. UNCHANGED run /\ missed' = missed \union {u} /\
            \A w \in Services : w # u => units'[w] = units[w]
      BY <1>3, <2>1 DEF UnitChanges, UnitFlips, IInv, TypeOK, ServiceTypeOK
    <2>3. \A r \in Runs : run[r].services \subseteq Services
      BY DEF IInv, TypeOK
    <2> QED
      BY <2>2, <2>3 DEF DownInv
  <1>4. CASE UNCHANGED vars
    BY <1>4 DEF DownInv, vars, serviceVars
  <1> QED
    BY <1>1, <1>2, <1>3, <1>4 DEF Next

\* Nothing has been stopped before the first goroutine.
LEMMA InitDown == Init => DownInv
  <1> SUFFICES ASSUME Init PROVE DownInv
    OBVIOUS
  <1>1. \A r \in Runs : run[r].pc = "unborn"
    BY DEF Init, NoRun, Goroutine
  <1> QED
    BY <1>1 DEF DownInv

\* While PartitionGPU runs, a service its goroutine was told to stop is down,
\* or a D-Bus call of this attempt failed for it, or somebody else moved it:
\* for any triggers, cancellations, config map edits and D-Bus failures.
THEOREM ServicesDown == Spec => []ServicesStoppedDuringPartition
  <1>1. IInv /\ DownInv /\ [Next]_vars => DownInv'
    BY NextDown
  <1>2. DownInv => ServicesStoppedDuringPartition
    BY DEF DownInv, ServicesStoppedDuringPartition
  <1> QED
    BY <1>1, <1>2, InitDown, Invariance, PTL DEF Spec

-----------------------------------------------------------------------------
\* What a step of StartServiceHandler over entry u does: a unit recorded
\* active runs again, or its state is lost.
LEMMA StartEntry ==
  ASSUME ServiceTypeOK, NEW u \in Services, StartServiceEntry(u)
  PROVE  /\ UNCHANGED PreStateDB
         /\ \A w \in Services : w # u =>
              /\ units'[w] = units[w]
              /\ w \in mislaid' <=> w \in mislaid
              /\ w \in stoppedByDCM' <=> w \in stoppedByDCM
         /\ PreStateDB[u] = "active" => u \notin stoppedByDCM' \/ u \in mislaid'
         /\ PreStateDB[u] # "active" =>
              /\ units'[u] = units[u]
              /\ u \in mislaid' <=> u \in mislaid
              /\ u \in stoppedByDCM' <=> u \in stoppedByDCM
  <1>1. CASE PreStateDB[u] = "active"
    <2>1. UNCHANGED PreStateDB /\ StartService(u)
      BY <1>1 DEF StartServiceEntry
    <2>2. \/ /\ units' = [units EXCEPT ![u] = "active"]
             /\ stoppedByDCM' = stoppedByDCM \ {u} /\ mislaid' = mislaid \ {u}
          \/ mislaid' = mislaid \union {u} /\ UNCHANGED <<units, stoppedByDCM>>
      BY <2>1 DEF StartService
    <2> QED
      BY <1>1, <2>1, <2>2 DEF ServiceTypeOK
  <1>2. CASE PreStateDB[u] # "active"
    BY <1>2 DEF StartServiceEntry
  <1> QED
    BY <1>1, <1>2

\* A unit that is listed whatever the file says is listed when it is
\* readable, and if there is such a unit every file is.
LEMMA AlwaysListedFacts ==
  /\ Listed \subseteq Services
  /\ AlwaysListed \subseteq Listed
  /\ AlwaysListed # {} => \A c \in Configs : c.valid
  <1>1. ASSUME NEW c \in Configs
        PROVE  c.valid \/ c.services = {}
    <2>1. CASE c = Absent \/ c = BadJSON
      BY <2>1 DEF Absent, BadJSON
    <2>2. CASE c # Absent /\ c # BadJSON
      <3>1. c \in [present : {TRUE}, valid : {TRUE}, services : SUBSET Services,
                   profiles : SUBSET Profiles]
        BY <2>2, ConfigsAssumption DEF ConfigMaps
      <3>2. c.valid = TRUE
        BY <3>1
      <3> QED
        BY <3>2
    <2> QED
      BY <2>1, <2>2
  <1> QED
    BY <1>1 DEF AlwaysListed, Listed

\* A step of goroutine r that leaves the units alone: it returns only when it
\* is cancelled or has no list, and starts the services of the whole list.
LEMMA QuietStep ==
  ASSUME IInv, RestoreInv, NEW r \in Runs, RetryPartition(r),
         UNCHANGED serviceVars,
         Loaded(run'[r]) => Listed \subseteq run'[r].services,
         run'[r].pc = "start" => Listed \subseteq run'[r].todo,
         run'[r].cancelled = run[r].cancelled,
         ~Active(r)' => run[r].cancelled \/ ~configFile.valid
  PROVE  RestoreInv'
  <1>1. /\ Active(r)
        /\ UNCHANGED <<worker, configFile, units, PreStateDB, stoppedByDCM, mislaid>>
        /\ \A s \in Runs : s # r => ~Active(s) /\ run'[s] = run[s]
    BY OneSteps DEF workerVars, envVars, serviceVars
  <1>2. Down' = Down
    BY <1>1 DEF Down
  <1>3. RecordInv'
    BY <1>1, <1>2 DEF RestoreInv, RecordInv
  <1>4. ListInv'
    <2>1. Down \subseteq Listed
      BY DEF Down
    <2> QED
      BY <1>1, <1>2, <2>1 DEF RestoreInv, ListInv
  <1>5. HandOverInv'
    <2>1. Down \intersect AlwaysListed # {} => configFile.valid
      BY AlwaysListedFacts DEF RestoreInv, ListInv
    <2>2. ~Active(r)' => worker'.pc = "wait" \/ ~configFile.valid
      BY <1>1 DEF RestoreInv, HandOverInv
    <2>3. \A s \in Runs : Active(s)' /\ run'[s].cancelled => worker'.pc = "wait"
      BY <1>1 DEF RestoreInv, HandOverInv, Active
    <2> QED
      BY <1>2, <2>1, <2>2, <2>3 DEF HandOverInv
  <1> QED
    BY <1>3, <1>4, <1>5 DEF RestoreInv

\* A step of goroutine r that handles one entry of its list and goes on.
LEMMA EntryStep ==
  ASSUME IInv, RestoreInv, NEW r \in Runs, RetryPartition(r),
         NEW u \in run[r].todo, run' = [run EXCEPT ![r].todo = @ \ {u}]
  PROVE  /\ ServiceTypeOK /\ u \in Services
         /\ Active(r)' /\ run'[r].pc = run[r].pc /\ run'[r].todo = run[r].todo \ {u}
         /\ (RecordInv' /\ (run[r].pc = "start" => Down' \subseteq run'[r].todo)
              => RestoreInv')
  <1>1. /\ run[r] \in RunType /\ run \in [Runs -> RunType] /\ Active(r)
        /\ UNCHANGED <<worker, configFile>>
        /\ \A s \in Runs : s # r => ~Active(s) /\ run'[s] = run[s]
    BY OneSteps DEF workerVars, envVars
  <1>2. /\ run'[r].pc = run[r].pc /\ run'[r].services = run[r].services
        /\ run'[r].todo = run[r].todo \ {u}
        /\ run'[r].cancelled = run[r].cancelled /\ u \in Services
    BY <1>1 DEF RunType
  <1>3. ServiceTypeOK
    BY DEF IInv, TypeOK
  <1>4. Active(r)'
    BY <1>1, <1>2 DEF Active
  <1>5. \A s \in Runs : run'[s].pc = "start" => s = r
    BY <1>1 DEF Active
  <1>6. ASSUME run[r].pc = "start" => Down' \subseteq run'[r].todo
        PROVE  ListInv'
    BY <1>1, <1>2, <1>5, <1>6 DEF RestoreInv, ListInv, Loaded
  <1>7. HandOverInv'
    <2>1. \A s \in Runs : Active(s)' /\ run'[s].cancelled => worker'.pc = "wait"
      BY <1>1, <1>2 DEF RestoreInv, HandOverInv, Active
    <2> QED
      BY <1>4, <2>1 DEF HandOverInv
  <1> QED
    BY <1>2, <1>3, <1>4, <1>6, <1>7 DEF RestoreInv

\* The stop of entry u keeps the hand-over in order: it is recorded first.
LEMMA StopStep ==
  ASSUME IInv, RestoreInv, NEW r \in Runs, RetryPartition(r),
         run[r].pc = "stop", NEW u \in run[r].todo,
         StopServiceEntry(u), run' = [run EXCEPT ![r].todo = @ \ {u}]
  PROVE  RestoreInv'
  <1>1. ServiceTypeOK /\ u \in Services /\ (RecordInv' => RestoreInv')
    BY EntryStep
  <1>2. \A w \in Services : w # u =>
          /\ units'[w] = units[w] /\ PreStateDB'[w] = PreStateDB[w]
          /\ w \in mislaid' <=> w \in mislaid
          /\ w \in stoppedByDCM' <=> w \in stoppedByDCM
    BY <1>1, StopEntry
  <1>3. u \in Down' => PreStateDB'[u] = "active"
    <2>1. SUFFICES ASSUME u \in Down' PROVE PreStateDB'[u] = "active"
      OBVIOUS
    <2>2. u \in stoppedByDCM' /\ u \in Listed /\ u \notin mislaid' /\ u \notin mislaid
      BY <1>1, <2>1, StopEntry DEF Down
    <2>3. CASE u \in stoppedByDCM
      BY <1>1, <2>2, <2>3, StopEntry DEF RestoreInv, RecordInv, Down
    <2>4. CASE u \notin stoppedByDCM
      <3>1. units[u] = "active" /\ PreStateDB'[u] # Unrecorded
        BY <1>1, <2>2, <2>4, StopEntry
      <3>2. PreStateDB[u] \in {Unrecorded, "active"}
        BY <1>1, <2>2, <3>1 DEF RestoreInv, RecordInv
      <3> QED
        BY <1>1, <2>2, <3>1, <3>2, StopEntry
    <2> QED
      BY <2>3, <2>4
  <1>4. \A w \in Down' : PreStateDB'[w] = "active"
    <2>1. \A w \in Down' : w \in Services /\ (w # u => w \in Down)
      BY <1>2, AlwaysListedFacts DEF Down
    <2> QED
      BY <1>2, <1>3, <2>1 DEF RestoreInv, RecordInv
  <1>5. u \notin mislaid' /\ units'[u] = "active" => PreStateDB'[u] \in {Unrecorded, "active"}
    <2>1. SUFFICES ASSUME u \notin mislaid', units'[u] = "active"
                   PROVE  PreStateDB'[u] \in {Unrecorded, "active"}
      OBVIOUS
    <2>2. u \notin mislaid /\ units[u] = "active"
      BY <1>1, <2>1, StopEntry
    <2>3. PreStateDB[u] \in {Unrecorded, "active"}
      BY <1>1, <2>2 DEF RestoreInv, RecordInv
    <2> QED
      BY <1>1, <2>1, <2>2, <2>3, StopEntry
  <1>6. \A w \in Services \ mislaid' :
          units'[w] = "active" => PreStateDB'[w] \in {Unrecorded, "active"}
    BY <1>2, <1>5 DEF RestoreInv, RecordInv
  <1> QED
    BY <1>1, <1>4, <1>6 DEF RecordInv

\* The start of entry u: it was recorded active if DCM stopped it, so that it
\* is not down any more, or its state is lost.
LEMMA StartStep ==
  ASSUME IInv, RestoreInv, NEW r \in Runs, RetryPartition(r),
         run[r].pc = "start", NEW u \in run[r].todo,
         StartServiceEntry(u), run' = [run EXCEPT ![r].todo = @ \ {u}]
  PROVE  RestoreInv'
  <1>1. /\ ServiceTypeOK /\ u \in Services /\ run'[r].todo = run[r].todo \ {u}
        /\ (RecordInv' /\ Down' \subseteq run'[r].todo => RestoreInv')
    BY EntryStep
  <1>2. /\ UNCHANGED PreStateDB
        /\ \A w \in Services : w # u =>
             /\ units'[w] = units[w]
             /\ w \in mislaid' <=> w \in mislaid
             /\ w \in stoppedByDCM' <=> w \in stoppedByDCM
    BY <1>1, StartEntry
  <1>3. u \notin Down'
    <2>1. SUFFICES ASSUME u \in Down' PROVE FALSE
      OBVIOUS
    <2>2. u \in stoppedByDCM' /\ u \notin mislaid' /\ u \in Listed
      BY <2>1 DEF Down
    <2>3. PreStateDB[u] # "active"
      BY <1>1, <2>2, StartEntry
    <2>4. u \in Down
      BY <1>1, <2>2, <2>3, StartEntry DEF Down
    <2> QED
      BY <2>3, <2>4 DEF RestoreInv, RecordInv
  <1>4. Down' \subseteq Down \ {u}
    BY <1>2, <1>3, AlwaysListedFacts DEF Down
  <1>5. Down' \subseteq run'[r].todo
    BY <1>1, <1>4 DEF RestoreInv, ListInv
  <1>6. u \notin mislaid' /\ units'[u] = "active" => PreStateDB[u] \in {Unrecorded, "active"}
    BY <1>1, StartEntry DEF RestoreInv, RecordInv
  <1>7. \A w \in Services \ mislaid' :
          units'[w] = "active" => PreStateDB'[w] \in {Unrecorded, "active"}
    BY <1>2, <1>6 DEF RestoreInv, RecordInv
  <1>8. \A w \in Down' : PreStateDB'[w] = "active"
    BY <1>2, <1>4 DEF RestoreInv, RecordInv
  <1> QED
    BY <1>1, <1>5, <1>7, <1>8 DEF RecordInv

\* The end of the list: nothing DCM stopped is down, and PreStateDB is empty.
LEMMA StartEnds ==
  ASSUME IInv, RestoreInv, NEW r \in Runs, RetryPartition(r),
         run[r].pc = "start", run[r].todo = {}, CleanupPreState, Return(r)
  PROVE  RestoreInv'
  <1>1. /\ run[r] \in RunType /\ run \in [Runs -> RunType]
        /\ UNCHANGED <<worker, configFile>>
        /\ \A s \in Runs : s # r => ~Active(s) /\ run'[s] = run[s]
    BY OneSteps DEF workerVars, envVars
  <1>2. run'[r].pc = "done"
    BY <1>1 DEF Return, RunType
  <1>3. Down' = {}
    <2>1. Down = {}
      BY DEF RestoreInv, ListInv
    <2> QED
      BY <2>1 DEF Down, CleanupPreState
  <1>4. RecordInv'
    BY <1>3 DEF RecordInv, CleanupPreState, EmptyDB
  <1>5. ListInv'
    BY <1>1, <1>2, <1>3 DEF RestoreInv, ListInv, Loaded
  <1>6. HandOverInv'
    <2>1. \A s \in Runs : ~Active(s)'
      BY <1>1, <1>2 DEF Active
    <2> QED
      BY <1>3, <2>1 DEF HandOverInv
  <1> QED
    BY <1>4, <1>5, <1>6 DEF RestoreInv

\* Every step of a goroutine keeps the hand-over in order.
LEMMA RetryPartitionRestore ==
  ASSUME IInv, RestoreInv, NEW r \in Runs, RetryPartition(r)
  PROVE  RestoreInv'
  <1>1. run[r] \in RunType /\ run \in [Runs -> RunType]
    BY OneSteps
  <1>2. Loaded(run[r]) => Listed \subseteq run[r].services
    BY DEF RestoreInv, ListInv
  <1>3. CASE RetryBegin(r)
    <2>1. run'[r].pc = "load" /\ run'[r].cancelled = run[r].cancelled /\ UNCHANGED serviceVars
      BY <1>1, <1>3 DEF RetryBegin, Goto, RunType
    <2> QED
      BY <2>1, QuietStep DEF Loaded, Active
  <1>4. CASE RetryLoad(r)
    <2>1. run'[r].cancelled = run[r].cancelled /\ UNCHANGED serviceVars
      BY <1>1, <1>4 DEF RetryLoad, Return, RunType
    <2>2. CASE configFile.valid
      <3>1. run'[r].pc = "check" /\ run'[r].services = configFile.services
        BY <1>1, <1>4, <2>2 DEF RetryLoad, RunType
      <3>2. Listed \subseteq configFile.services
        BY <2>2 DEF RestoreInv, ListInv, Listed
      <3> QED
        BY <2>1, <2>2, <3>1, <3>2, QuietStep DEF Loaded, Active
    <2>3. CASE ~configFile.valid
      <3>1. run'[r].pc = "done"
        BY <1>1, <1>4, <2>3 DEF RetryLoad, Return, RunType
      <3> QED
        BY <2>1, <2>3, <3>1, QuietStep DEF Loaded, Active
    <2> QED
      BY <2>2, <2>3
  <1>5. CASE RetryCheck(r)
    <2>1. UNCHANGED serviceVars /\ run[r].pc = "check"
      BY <1>5 DEF RetryCheck
    <2>2. CASE CtxDone(r) /\ Return(r)
      <3>1. run'[r].pc = "done" /\ run'[r].cancelled = run[r].cancelled
        BY <1>1, <2>2 DEF Return, RunType
      <3> QED
        BY <2>1, <2>2, <3>1, QuietStep DEF CtxDone, Loaded, Active
    <2>3. ASSUME NEW to \in {"start", "stop"},
                 run' = [run EXCEPT ![r].pc = to, ![r].todo = run[r].services]
          PROVE  RestoreInv'
      <3>1. /\ run'[r].pc = to /\ run'[r].todo = run[r].services
            /\ run'[r].services = run[r].services /\ run'[r].cancelled = run[r].cancelled
        BY <1>1, <2>3 DEF RunType
      <3> QED
        BY <1>2, <2>1, <3>1, QuietStep DEF Loaded, Active
    <2> QED
      BY <1>5, <2>2, <2>3 DEF RetryCheck
  <1>6. CASE StopServiceHandler(r)
    <2>1. run[r].pc = "stop"
      BY <1>6 DEF StopServiceHandler
    <2>2. ASSUME NEW u \in run[r].todo, StopServiceEntry(u),
                 run' = [run EXCEPT ![r].todo = @ \ {u}]
          PROVE  RestoreInv'
      BY <2>1, <2>2, StopStep
    <2>3. CASE Goto(r, "partition") /\ UNCHANGED serviceVars
      <3>1. /\ run'[r].pc = "partition"
            /\ run'[r].services = run[r].services /\ run'[r].cancelled = run[r].cancelled
        BY <1>1, <2>3 DEF Goto, RunType
      <3> QED
        BY <1>2, <2>1, <2>3, <3>1, QuietStep DEF Loaded, Active
    <2> QED
      BY <1>6, <2>2, <2>3 DEF StopServiceHandler
  <1>7. CASE RetryPartitionGPU(r)
    <2>1. /\ run[r].pc = "partition" /\ UNCHANGED serviceVars
          /\ run'[r].pc \in {"wait", "start"} /\ run'[r].todo = run[r].services
          /\ run'[r].services = run[r].services /\ run'[r].cancelled = run[r].cancelled
      BY <1>1, <1>7 DEF RetryPartitionGPU, RunType
    <2> QED
      BY <1>2, <2>1, QuietStep DEF Loaded, Active
  <1>8. CASE RetryWait(r)
    <2>1. UNCHANGED serviceVars /\ run[r].pc = "wait"
      BY <1>8 DEF RetryWait
    <2>2. CASE Goto(r, "check")
      <3>1. /\ run'[r].pc = "check"
            /\ run'[r].services = run[r].services /\ run'[r].cancelled = run[r].cancelled
        BY <1>1, <2>2 DEF Goto, RunType
      <3> QED
        BY <1>2, <2>1, <3>1, QuietStep DEF Loaded, Active
    <2>3. CASE run[r].cancelled /\ Return(r)
      <3>1. run'[r].pc = "done" /\ run'[r].cancelled = run[r].cancelled
        BY <1>1, <2>3 DEF Return, RunType
      <3> QED
        BY <2>1, <2>3, <3>1, QuietStep DEF Loaded, Active
    <2> QED
      BY <1>8, <2>2, <2>3 DEF RetryWait
  <1>9. CASE StartServiceHandler(r)
    BY <1>9, StartStep, StartEnds DEF StartServiceHandler
  <1> QED
    BY <1>3, <1>4, <1>5, <1>6, <1>7, <1>8, <1>9 DEF RetryPartition

-----------------------------------------------------------------------------
\* A trigger, or Worker, keeps the hand-over in order: Worker cancels the
\* goroutine it then waits for, and does not forget the trigger it holds.
LEMMA WorkerRestore ==
  ASSUME IInv, RestoreInv, (\E p \in Profiles : TriggerRetryLoop(p)) \/ Worker
  PROVE  RestoreInv'
  <1>1. /\ UNCHANGED serviceVars
        /\ run \in [Runs -> RunType]
        /\ \A s \in Runs : /\ run'[s].pc \in {run[s].pc, "begin"}
                           /\ run'[s].services = run[s].services \/ run'[s].pc = "begin"
                           /\ run'[s].todo = run[s].todo \/ run'[s].pc = "begin"
    BY WorkerSteps
  <1>2. UNCHANGED <<units, PreStateDB, stoppedByDCM, mislaid, configFile>>
    BY <1>1 DEF serviceVars, TriggerRetryLoop, Worker, WorkerRecv, WorkerWait, WorkerSpawn, envVars
  <1>3. Down' = Down
    BY <1>2 DEF Down
  <1>4. RecordInv'
    BY <1>2, <1>3 DEF RestoreInv, RecordInv
  <1>5. ListInv'
    BY <1>1, <1>2, <1>3 DEF RestoreInv, ListInv, Loaded
  <1>6. CASE \E p \in Profiles : TriggerRetryLoop(p)
    <2>1. UNCHANGED <<worker, run>>
      BY <1>6 DEF TriggerRetryLoop
    <2> QED
      BY <1>3, <1>4, <1>5, <2>1 DEF RestoreInv, HandOverInv, Active
  <1>7. CASE WorkerRecv
    <2>1. worker'.pc # "recv" /\ (cancelFunc # 0 => worker'.pc = "wait")
      BY <1>7 DEF WorkerRecv, AfterRecv
    <2>2. \A s \in Runs : Active(s)' => cancelFunc # 0
      BY <1>7 DEF IInv, WaitGroupInv, Active, WorkerRecv, Runs
    <2> QED
      BY <1>3, <1>4, <1>5, <2>1, <2>2 DEF RestoreInv, HandOverInv, Active
  <1>8. CASE WorkerWait
    <2>1. worker'.pc = "spawn" /\ UNCHANGED run
      BY <1>8 DEF WorkerWait, KeepTrigger, IInv, TypeOK
    <2>2. \A s \in Runs : ~Active(s)
      BY <1>8 DEF WorkerWait, IInv, WaitGroupInv
    <2> QED
      BY <1>3, <1>4, <1>5, <2>1, <2>2 DEF RestoreInv, HandOverInv, Active
  <1>9. CASE WorkerSpawn
    <2>1. PICK n \in Runs : run' = [run EXCEPT ![n] = NewRun(worker.prof)]
      <3>1. spawned + 1 \in Runs
        BY <1>9, BoundsAssumption DEF WorkerSpawn, IInv, TypeOK, WaitGroupInv, Pending, Runs
      <3> QED
        BY <1>9, <3>1 DEF WorkerSpawn
    <2>2. \A s \in Runs : ~Active(s)
      BY <1>9 DEF WorkerSpawn, IInv, WaitGroupInv
    <2>3. NewRun(worker.prof).pc = "begin" /\ ~NewRun(worker.prof).cancelled
      BY DEF NewRun, Goroutine
    <2>4. \A s \in Runs : run'[s] = IF s = n THEN NewRun(worker.prof) ELSE run[s]
      BY <1>1, <2>1
    <2>5. Active(n)' /\ \A s \in Runs : Active(s)' => ~run'[s].cancelled
      BY <2>2, <2>3, <2>4 DEF Active
    <2> QED
      BY <1>3, <1>4, <1>5, <2>5 DEF RestoreInv, HandOverInv, Active
  <1> QED
    BY <1>6, <1>7, <1>8, <1>9 DEF Worker

\* Somebody else's hand keeps the hand-over in order: an edit cannot unlist a
\* listed unit, and a unit that moves by itself is not down because of DCM.
LEMMA EnvRestore ==
  ASSUME IInv, RestoreInv, EditConfig \/ UnitChanges
  PROVE  RestoreInv'
  <1>1. UNCHANGED <<worker, run>>
    BY DEF EditConfig, UnitChanges, workerVars
  <1>2. ASSUME RecordInv', Down' \subseteq Down, configFile' \in Configs
        PROVE  RestoreInv'
    BY <1>1, <1>2 DEF RestoreInv, ListInv, HandOverInv, Active
  <1>3. CASE EditConfig
    <2>1. UNCHANGED <<units, PreStateDB, stoppedByDCM, mislaid>> /\ configFile' \in Configs
      BY <1>3 DEF EditConfig, serviceVars
    <2>2. Down' = Down
      BY <2>1 DEF Down
    <2> QED
      BY <1>2, <2>1, <2>2 DEF RestoreInv, RecordInv
  <1>4. CASE UnitChanges
    <2>1. PICK u \in Services : UnitFlips(u)
      BY <1>4 DEF UnitChanges
    <2>2. configFile' \in Configs
      BY <1>4 DEF UnitChanges, RestoreInv, ListInv
    <2>3. /\ UNCHANGED PreStateDB /\ stoppedByDCM' = stoppedByDCM \ {u}
          /\ \A w \in Services : w # u => units'[w] = units[w]
          /\ \A w \in Services : w # u => (w \in mislaid' <=> w \in mislaid)
      BY <2>1 DEF UnitFlips, IInv, TypeOK, ServiceTypeOK
    <2>4. u \notin mislaid' /\ units'[u] = "active" => PreStateDB[u] \in {Unrecorded, "active"}
      BY <2>1 DEF UnitFlips, IInv, TypeOK, ServiceTypeOK
    <2>5. Down' \subseteq Down
      BY <2>3, AlwaysListedFacts DEF Down
    <2>6. RecordInv'
      BY <2>3, <2>4, <2>5 DEF RestoreInv, RecordInv
    <2> QED
      BY <1>2, <2>2, <2>5, <2>6
  <1> QED
    BY <1>3, <1>4

\* Every step keeps the hand-over in order.
LEMMA NextRestore ==
  ASSUME IInv, RestoreInv, [Next]_vars
  PROVE  RestoreInv'
  <1>1. CASE UNCHANGED vars
    <2>1. UNCHANGED <<units, PreStateDB, stoppedByDCM, mislaid, configFile, run, worker>>
      BY <1>1 DEF vars, serviceVars, workerVars, envVars
    <2>2. Down' = Down
      BY <2>1 DEF Down
    <2> QED
      BY <2>1, <2>2 DEF RestoreInv, RecordInv, ListInv, HandOverInv, Active
  <1> QED
    BY <1>1, RetryPartitionRestore, WorkerRestore, EnvRestore DEF Next, Idle

\* The first process has stopped nothing.
LEMMA InitRestore == Init => RestoreInv
  <1> SUFFICES ASSUME Init PROVE RestoreInv
    OBVIOUS
  <1>1. \A r \in Runs : run[r].pc = "unborn"
    BY DEF Init, NoRun, Goroutine
  <1>2. /\ stoppedByDCM = {} /\ configFile \in Configs
        /\ \A u \in Services : PreStateDB[u] = Unrecorded
    BY DEF Init, ServiceInit, EmptyDB
  <1> QED
    BY <1>1, <1>2 DEF RestoreInv, RecordInv, ListInv, HandOverInv, Active, Loaded, Down

\* The hand-over is in order in every reachable state.
THEOREM RestoreInvariance == Spec => []RestoreInv
  <1>1. IInv /\ RestoreInv /\ [Next]_vars => RestoreInv'
    BY NextRestore
  <1> QED
    BY <1>1, InitRestore, Invariance, PTL DEF Spec

\* A service DCM stopped is recorded as one to be started, whatever D-Bus
\* calls fail, attempts are cancelled or files are edited: the exceptions are
\* the units named in mislaid.
THEOREM StoppedRemembered == Spec => []StoppedIsRemembered
  <1>1. RestoreInv => StoppedIsRemembered
    BY DEF RestoreInv, RecordInv, Down, StoppedIsRemembered
  <1> QED
    BY <1>1, RestoreInvariance, PTL

\* When all is quiet no service that stayed listed is down because DCM
\* stopped it: cancelled goroutines return without starting their services,
\* but the goroutine that follows them does, whatever PartitionGPU, the label
\* writes and the D-Bus calls come to, the units in mislaid apart.
THEOREM ServicesRestored == Spec => []NoServiceLeftStopped
  <1>1. RestoreInv => NoServiceLeftStopped
    BY AlwaysListedFacts DEF RestoreInv, HandOverInv, NoServiceLeftStopped, Quiescent, Down
  <1> QED
    BY <1>1, RestoreInvariance, PTL

=============================================================================

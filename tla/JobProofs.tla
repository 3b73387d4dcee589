------------------------------ MODULE JobProofs ------------------------------
(***************************************************************************)
(* Proofs about what becomes of a trigger: that the last one accepted is   *)
(* the one the label reports, and that RetryLoop implements LatestJob.     *)
(***************************************************************************)
EXTENDS RetryLoopJobs, ServiceProofs

(***************************************************************************)
(* The profile accepted last is on its way: in the channel, else with      *)
(* Worker, else that of the newest goroutine, which nobody cancelled yet.  *)
(***************************************************************************)
TrackInv ==
  /\ retryCh # <<>> => Head(retryCh) = lastAccepted
  /\ retryCh = <<>> /\ worker.pc # "recv" => worker.prof = lastAccepted
  /\ retryCh = <<>> /\ worker.pc = "recv" /\ spawned > 0 => run[spawned].profile = lastAccepted
  /\ worker.pc = "recv" /\ spawned > 0 => ~run[spawned].cancelled

\* A goroutine works for a profile, and has called PartitionGPU when it waits
\* or starts the services, not before it loads their list.
AttemptInv ==
  \A r \in Runs :
    /\ Active(r) => run[r].profile \in Profiles
    /\ run[r].pc \in {"begin", "load"} => run[r].attempts = 0
    /\ run[r].pc \in {"wait", "start"} => run[r].attempts > 0

\* A goroutine that came so far has a verdict on the label, if writes succeed.
HasVerdict(g) ==
  \/ g.pc \in {"wait", "start"}
  \/ g.pc = "check" /\ g.attempts > 0
  \/ g.pc = "done" /\ ~g.cancelled

VerdictInv ==
  spawned > 0 =>
    /\ run[spawned].pc # "unborn"
    /\ run[spawned].pc # "begin" => labelRun = spawned
    /\ HasVerdict(run[spawned]) => stateLabel \in {"success", "failure"}

-----------------------------------------------------------------------------
\* The record of goroutine r after each of its steps.
LEMMA RunAfter ==
  ASSUME IInv, NEW r \in Runs, RetryPartition(r)
  PROVE  /\ run'[r].profile = run[r].profile
         /\ run'[r].cancelled = run[r].cancelled
         /\ \/ /\ run[r].pc = "begin" /\ run'[r].pc = "load"
               /\ run'[r].attempts = run[r].attempts
               /\ AddStateLabel(r, "in-progress") /\ UNCHANGED wg
            \/ /\ run[r].pc = "load" /\ run'[r].pc = "check"
               /\ run'[r].attempts = run[r].attempts /\ UNCHANGED labelVars
            \/ /\ run[r].pc = "load" /\ run'[r].pc = "done"
               /\ run'[r].attempts = 0 /\ AddStateLabel(r, "failure")
            \/ /\ run[r].pc = "check" /\ run'[r].pc = "start" /\ run[r].attempts > 0
               /\ run'[r].attempts = run[r].attempts /\ UNCHANGED labelVars
            \/ /\ run[r].pc \in {"check", "stop"} /\ run'[r].pc \in {"stop", "partition"}
               /\ run'[r].attempts = run[r].attempts /\ UNCHANGED labelVars
            \/ /\ run[r].pc = "partition" /\ run'[r].pc \in {"wait", "start"}
               /\ run'[r].attempts = run[r].attempts + 1
               /\ \E v \in {"success", "failure"} : AddStateLabel(r, v)
            \/ /\ run[r].pc = "wait" /\ run'[r].pc = "check"
               /\ run'[r].attempts = run[r].attempts /\ UNCHANGED labelVars
            \/ /\ run[r].pc \in {"check", "wait"} /\ run[r].cancelled /\ run'[r].pc = "done"
               /\ run'[r].attempts = 0 /\ UNCHANGED labelVars
            \/ /\ run[r].pc = "start" /\ run'[r].pc = "start"
               /\ run'[r].attempts = run[r].attempts /\ UNCHANGED labelVars
            \/ /\ run[r].pc = "start" /\ run'[r].pc = "done"
               /\ run'[r].attempts = 0 /\ UNCHANGED labelVars
  <1>1. run \in [Runs -> RunType] /\ run[r] \in RunType
    BY OneSteps
  <1>2. ASSUME Return(r)
        PROVE  /\ run'[r].pc = "done" /\ run'[r].attempts = 0
               /\ run'[r].profile = run[r].profile /\ run'[r].cancelled = run[r].cancelled
    BY <1>1, <1>2 DEF Return, RunType
  <1>3. ASSUME NEW to, Goto(r, to)
        PROVE  /\ run'[r].pc = to /\ run'[r].attempts = run[r].attempts
               /\ run'[r].profile = run[r].profile /\ run'[r].cancelled = run[r].cancelled
    BY <1>1, <1>3 DEF Goto, RunType
  <1>4. CASE RetryBegin(r)
    BY <1>3, <1>4 DEF RetryBegin
  <1>5. CASE RetryLoad(r)
    <2>1. CASE configFile.valid
      BY <1>1, <1>5, <2>1 DEF RetryLoad, RunType
    <2>2. CASE ~configFile.valid
      BY <1>2, <1>5, <2>2 DEF RetryLoad, ReportBadJSON
    <2> QED
      BY <2>1, <2>2
  <1>6. CASE RetryCheck(r)
    <2>1. CASE CtxDone(r) /\ Return(r)
      BY <1>2, <1>6, <2>1 DEF RetryCheck, CtxDone
    <2>2. CASE MayExpire(r) /\ run' = [run EXCEPT ![r].pc = "start", ![r].todo = run[r].services]
      BY <1>1, <1>6, <2>2 DEF RetryCheck, MayExpire, RunType
    <2>3. CASE run' = [run EXCEPT ![r].pc = "stop", ![r].todo = run[r].services]
      BY <1>1, <1>6, <2>3 DEF RetryCheck, RunType
    <2> QED
      BY <1>6, <2>1, <2>2, <2>3 DEF RetryCheck
  <1>7. CASE StopServiceHandler(r)
    <2>1. CASE \E u \in run[r].todo : run' = [run EXCEPT ![r].todo = @ \ {u}]
      BY <1>1, <1>7, <2>1 DEF StopServiceHandler, RunType
    <2>2. CASE Goto(r, "partition")
      BY <1>3, <1>7, <2>2 DEF StopServiceHandler
    <2> QED
      BY <1>7, <2>1, <2>2 DEF StopServiceHandler
  <1>8. CASE RetryPartitionGPU(r)
    <2>1. PICK out \in PartitionOutcomes(run[r].profile) :
            /\ AddStateLabel(r, out.label)
            /\ run' = [run EXCEPT
                         ![r].pc = IF out.err THEN "wait" ELSE "start",
                         ![r].todo = run[r].services,
                         ![r].attempts = @ + 1,
                         ![r].late = IF run[r].cancelled THEN @ + 1 ELSE @]
      BY <1>8 DEF RetryPartitionGPU
    <2>2. out.label \in {"success", "failure"}
      BY DEF PartitionOutcomes
    <2>3. /\ run'[r].pc \in {"wait", "start"} /\ run'[r].attempts = run[r].attempts + 1
          /\ run'[r].profile = run[r].profile /\ run'[r].cancelled = run[r].cancelled
      BY <1>1, <2>1 DEF RunType
    <2> QED
      BY <1>8, <2>1, <2>2, <2>3 DEF RetryPartitionGPU
  <1>9. CASE RetryWait(r)
    BY <1>2, <1>3, <1>9 DEF RetryWait
  <1>10. CASE StartServiceHandler(r)
    <2>1. CASE \E u \in run[r].todo : run' = [run EXCEPT ![r].todo = @ \ {u}]
      BY <1>1, <1>10, <2>1 DEF StartServiceHandler, RunType
    <2>2. CASE Return(r)
      BY <1>2, <1>10, <2>2 DEF StartServiceHandler
    <2> QED
      BY <1>10, <2>1, <2>2 DEF StartServiceHandler
  <1> QED
    BY <1>4, <1>5, <1>6, <1>7, <1>8, <1>9, <1>10 DEF RetryPartition

\* Worker's three steps, with what they leave alone.
LEMMA WorkerAfter ==
  ASSUME IInv, Worker
  PROVE  /\ UNCHANGED <<labelVars, lastAccepted>>
         /\ \/ /\ worker.pc = "recv" /\ worker'.pc # "recv" /\ UNCHANGED spawned
               /\ \E p \in Profiles : retryCh = <<p>> /\ retryCh' = <<>> /\ worker'.prof = p
               /\ \A r \in Runs : /\ run'[r].pc = run[r].pc /\ run'[r].profile = run[r].profile
                                  /\ run'[r].attempts = run[r].attempts
                                  /\ run[r].cancelled => run'[r].cancelled
            \/ /\ worker.pc = "wait" /\ worker'.pc = "spawn" /\ worker'.prof = worker.prof
               /\ UNCHANGED <<retryCh, run, spawned>>
            \/ /\ worker.pc = "spawn" /\ worker'.pc = "recv" /\ worker.prof \in Profiles
               /\ UNCHANGED retryCh /\ spawned' = spawned + 1 /\ spawned + 1 \in Runs
               /\ \A r \in Runs : ~Active(r)
               /\ \A r \in Runs : run'[r] = IF r = spawned + 1 THEN NewRun(worker.prof) ELSE run[r]
  <1>1. /\ run \in [Runs -> RunType] /\ spawned \in Nat /\ MaxRuns \in Nat
        /\ retryCh \in {<<>>} \union {<<p>> : p \in Profiles}
        /\ worker \in [pc : {"recv", "wait", "spawn"}, prof : Profiles \union {NoProfile}]
        /\ cancelFunc \in {0} \union Runs
    BY BoundsAssumption DEF IInv, TypeOK, RunType
  <1>2. CASE WorkerRecv
    <2>1. PICK p \in Profiles : retryCh = <<p>>
      BY <1>1, <1>2 DEF WorkerRecv
    <2>2. worker'.pc # "recv" /\ worker'.prof = p
      BY <1>2, <2>1 DEF WorkerRecv, AfterRecv
    <2>3. \A r \in Runs : /\ run'[r].pc = run[r].pc /\ run'[r].profile = run[r].profile
                          /\ run'[r].attempts = run[r].attempts
                          /\ run[r].cancelled => run'[r].cancelled
      BY <1>1, <1>2 DEF WorkerRecv, RunType
    <2> QED
      BY <1>2, <2>1, <2>2, <2>3 DEF WorkerRecv, labelVars
  <1>3. CASE WorkerWait
    BY <1>1, <1>3 DEF WorkerWait, KeepTrigger, labelVars
  <1>4. CASE WorkerSpawn
    <2>1. spawned + 1 \in Runs
      BY <1>1, <1>4 DEF WorkerSpawn, IInv, WaitGroupInv, Pending, Runs
    <2>2. worker.prof \in Profiles
      BY <1>4 DEF WorkerSpawn, IInv, TypeOK
    <2>3. \A r \in Runs : ~Active(r)
      BY <1>4 DEF WorkerSpawn, IInv, WaitGroupInv
    <2>4. \A r \in Runs : run'[r] = IF r = spawned + 1 THEN NewRun(worker.prof) ELSE run[r]
      BY <1>1, <1>4 DEF WorkerSpawn
    <2> QED
      BY <1>4, <2>1, <2>2, <2>3, <2>4 DEF WorkerSpawn, labelVars
  <1> QED
    BY <1>2, <1>3, <1>4 DEF Worker

\* The steps that concern neither Worker nor a goroutine.
LEMMA OthersAfter ==
  ASSUME EditConfig \/ UnitChanges \/ UNCHANGED vars
  PROVE  UNCHANGED <<retryCh, worker, spawned, lastAccepted, run, stateLabel, labelRun>>
  BY DEF EditConfig, UnitChanges, vars, workerVars, labelVars

\* The goroutine whose step it is is the newest.
LEMMA NewestSteps ==
  ASSUME IInv, NEW r \in Runs, RetryPartition(r)
  PROVE  r = spawned /\ spawned > 0 /\ spawned' = spawned
  BY OneSteps DEF IInv, WaitGroupInv, workerVars, Runs

\* TrackInv holds on.
LEMMA TrackStep ==
  ASSUME IInv, TrackInv, [Next]_vars
  PROVE  TrackInv'
  <1>1. ASSUME NEW p \in Profiles, TriggerRetryLoop(p) PROVE TrackInv'
    BY <1>1 DEF TriggerRetryLoop, TrackInv
  <1>2. CASE Worker
    <2>1. NewRun(worker.prof).profile = worker.prof /\ NewRun(worker.prof).cancelled = FALSE
      BY DEF NewRun, Goroutine
    <2>2. lastAccepted' = lastAccepted
      BY <1>2, WorkerAfter
    <2>3. CASE worker.pc = "recv"
      <3>1. /\ worker'.pc # "recv" /\ UNCHANGED spawned
            /\ \E p \in Profiles : retryCh = <<p>> /\ retryCh' = <<>> /\ worker'.prof = p
        BY <1>2, <2>3, WorkerAfter
      <3>2. worker'.prof = lastAccepted
        BY <3>1 DEF TrackInv
      <3> QED
        BY <2>2, <3>1, <3>2 DEF TrackInv
    <2>4. CASE worker.pc = "wait"
      BY <1>2, <2>2, <2>4, WorkerAfter DEF TrackInv
    <2>5. CASE worker.pc = "spawn"
      <3>1. /\ worker'.pc = "recv" /\ UNCHANGED retryCh
            /\ spawned' = spawned + 1 /\ spawned' \in Runs
            /\ run'[spawned'] = NewRun(worker.prof)
        BY <1>2, <2>5, WorkerAfter
      <3> QED
        BY <2>1, <2>2, <2>5, <3>1 DEF TrackInv
    <2> QED
      BY <1>2, <2>3, <2>4, <2>5, WorkerAfter
  <1>3. ASSUME NEW r \in Runs, RetryPartition(r) PROVE TrackInv'
    <2>1. UNCHANGED <<retryCh, worker, spawned, lastAccepted>> /\ r = spawned
      BY <1>3, OneSteps, NewestSteps DEF workerVars
    <2>2. run'[r].profile = run[r].profile /\ run'[r].cancelled = run[r].cancelled
      BY <1>3, RunAfter
    <2> QED
      BY <2>1, <2>2 DEF TrackInv
  <1>4. CASE EditConfig \/ UnitChanges \/ UNCHANGED vars
    BY <1>4, OthersAfter DEF TrackInv
  <1> QED
    BY <1>1, <1>2, <1>3, <1>4 DEF Next, Idle

\* AttemptInv holds on.
LEMMA AttemptStep ==
  ASSUME IInv, AttemptInv, [Next]_vars
  PROVE  AttemptInv'
  <1>1. ASSUME NEW p \in Profiles, TriggerRetryLoop(p) PROVE AttemptInv'
    BY <1>1 DEF TriggerRetryLoop, AttemptInv, Active
  <1>2. CASE Worker
    <2>1. ASSUME NEW p \in Profiles
          PROVE  /\ NewRun(p).profile = p /\ NewRun(p).attempts = 0
                 /\ NewRun(p).pc = "begin"
      BY DEF NewRun, Goroutine
    <2> QED
      BY <1>2, <2>1, WorkerAfter DEF AttemptInv, Active
  <1>3. ASSUME NEW r \in Runs, RetryPartition(r) PROVE AttemptInv'
    <2>1. Active(r) /\ run[r] \in RunType /\ \A s \in Runs : s # r => run'[s] = run[s]
      BY <1>3, OneSteps
    <2>2. run[r].attempts \in Nat /\ run[r].profile \in Profiles
      BY <2>1, BoundsAssumption DEF AttemptInv, RunType
    <2> QED
      BY <1>3, <2>1, <2>2, RunAfter DEF AttemptInv, Active
  <1>4. CASE EditConfig \/ UnitChanges \/ UNCHANGED vars
    BY <1>4, OthersAfter DEF AttemptInv, Active
  <1> QED
    BY <1>1, <1>2, <1>3, <1>4 DEF Next, Idle

\* VerdictInv holds on, if label writes succeed.
LEMMA VerdictStep ==
  ASSUME ~ApiMayFail, IInv, TrackInv, AttemptInv, VerdictInv, [Next]_vars
  PROVE  VerdictInv'
  <1>1. ASSUME NEW p \in Profiles, TriggerRetryLoop(p) PROVE VerdictInv'
    BY <1>1 DEF TriggerRetryLoop, VerdictInv, labelVars
  <1>2. CASE Worker
    <2>1. spawned \in 0..MaxRuns /\ MaxRuns \in Nat
      BY BoundsAssumption DEF IInv, TypeOK
    <2>2. ASSUME NEW p PROVE NewRun(p).pc = "begin"
      BY DEF NewRun, Goroutine
    <2>3. spawned > 0 => spawned \in Runs
      BY <2>1 DEF Runs
    <2> QED
      BY <1>2, <2>1, <2>2, <2>3, WorkerAfter DEF VerdictInv, HasVerdict, labelVars
  <1>3. ASSUME NEW r \in Runs, RetryPartition(r) PROVE VerdictInv'
    <2>1. r = spawned /\ spawned' = spawned /\ spawned > 0 /\ Active(r)
      BY <1>3, NewestSteps, OneSteps
    <2>2. \A v : AddStateLabel(r, v) => stateLabel' = v /\ labelRun' = r
      BY DEF AddStateLabel
    <2>3. /\ run[r].pc # "begin" => labelRun = r
          /\ HasVerdict(run[r]) => stateLabel \in {"success", "failure"}
          /\ run[r].pc \in {"begin", "load"} => run[r].attempts = 0
      BY <2>1 DEF VerdictInv, AttemptInv
    <2>4. run'[r].pc # "unborn" /\ run'[r].pc # "begin" /\ labelRun' = r
      BY <1>3, <2>2, <2>3, RunAfter DEF labelVars
    <2>5. HasVerdict(run'[r]) => stateLabel' \in {"success", "failure"}
      BY <1>3, <2>2, <2>3, RunAfter DEF HasVerdict, labelVars
    <2> QED
      BY <2>1, <2>4, <2>5 DEF VerdictInv
  <1>4. CASE EditConfig \/ UnitChanges \/ UNCHANGED vars
    BY <1>4, OthersAfter DEF VerdictInv
  <1> QED
    BY <1>1, <1>2, <1>3, <1>4 DEF Next, Idle

\* The state main starts in.
LEMMA InitTrack == Init => TrackInv /\ AttemptInv /\ VerdictInv
  BY DEF Init, TrackInv, AttemptInv, VerdictInv, Active, NoRun, Goroutine

\* However triggers, cancellations and returns interleave, the profile
\* accepted last stays on its way to the newest goroutine.
THEOREM TrackInvariance == Spec => [](TrackInv /\ AttemptInv)
  BY InitTrack, TrackStep, AttemptStep, Invariance, PTL DEF Spec

\* When all is quiet, the last accepted trigger has been run and the label is
\* its verdict, if label writes succeed.
THEOREM LastReported ==
  ASSUME ~ApiMayFail
  PROVE  Spec => []LastTriggerIsReported
  <1>1. IInv /\ TrackInv /\ VerdictInv => LastTriggerIsReported
    <2> SUFFICES ASSUME IInv, TrackInv, VerdictInv, Quiescent, spawned > 0
                 PROVE  /\ run[spawned].profile = lastAccepted /\ labelRun = spawned
                        /\ stateLabel \in {"success", "failure"}
      BY DEF LastTriggerIsReported
    <2>1. spawned \in Runs
      BY BoundsAssumption DEF IInv, TypeOK, Runs
    <2>2. run[spawned].pc = "done"
      BY <2>1 DEF Quiescent, Active, VerdictInv
    <2> QED
      BY <2>2 DEF Quiescent, TrackInv, VerdictInv, HasVerdict
  <1>2. IInv /\ TrackInv /\ AttemptInv /\ VerdictInv /\ [Next]_vars => VerdictInv'
    BY VerdictStep
  <1>3. Init => VerdictInv
    BY InitTrack
  <1> QED
    BY <1>1, <1>2, <1>3, TrackInvariance, Invariance, PTL DEF Spec

-----------------------------------------------------------------------------
(***************************************************************************)
(* The refinement of LatestJob.  Job and Reported are what RetryLoopJobs   *)
(* substitutes for job and reported.                                       *)
(***************************************************************************)
Job == IF Current = {} THEN NoProfile ELSE run[CHOOSE r \in Current : TRUE].profile
Reported == \E r \in Current : run[r].attempts > 0

\* LatestJob under the refinement mapping, in terms of Job and Reported.
LEMMA Mapping ==
  /\ Jobs!JobInit <=> Waiting = <<>> /\ Job = NoProfile /\ Reported = FALSE /\ stateLabel = "none"
  /\ UNCHANGED Jobs!jobVars <=> UNCHANGED <<Waiting, Job, Reported, stateLabel>>
  /\ \A p : Jobs!Submit(p) <=> /\ Len(Waiting) < 2 /\ Waiting' = Append(Waiting, p)
                              /\ UNCHANGED <<Job, Reported, stateLabel>>
  /\ Jobs!Begin <=> /\ Job = NoProfile /\ Waiting # <<>>
                    /\ Job' = Head(Waiting) /\ Waiting' = Tail(Waiting)
                    /\ UNCHANGED <<Reported, stateLabel>>
  /\ Jobs!Announce <=> /\ Job # NoProfile /\ ~Reported /\ stateLabel' = "in-progress"
                       /\ UNCHANGED <<Waiting, Job, Reported>>
  /\ \A v : Jobs!Report(v) <=> /\ Job # NoProfile /\ Reported' = TRUE
                              /\ stateLabel' \in {stateLabel, v}
                              /\ UNCHANGED <<Waiting, Job>>
  /\ Jobs!End <=> /\ Job # NoProfile /\ (Reported \/ Waiting # <<>>)
                  /\ Job' = NoProfile /\ Reported' = FALSE
                  /\ UNCHANGED <<Waiting, stateLabel>>
  /\ Jobs!Refuse <=> /\ Job # NoProfile /\ Job' = NoProfile /\ Reported' = FALSE
                     /\ stateLabel' \in {stateLabel, "failure"}
                     /\ UNCHANGED Waiting
  BY DEF Jobs!JobInit, Jobs!jobVars, Jobs!Submit, Jobs!Begin, Jobs!Announce, Jobs!Report,
         Jobs!End, Jobs!Refuse, Job, Reported

\* What Job and Reported are, before and after a step.
LEMMA JobOfOne ==
  ASSUME NEW r \in Runs
  PROVE  /\ (\A s \in Runs : Active(s) <=> s = r) =>
              Job = run[r].profile /\ (Reported <=> run[r].attempts > 0)
         /\ (\A s \in Runs : Active(s)' <=> s = r) =>
              Job' = run'[r].profile /\ (Reported' <=> run'[r].attempts > 0)
  <1>1. ASSUME \A s \in Runs : Active(s) <=> s = r
        PROVE  Job = run[r].profile /\ (Reported <=> run[r].attempts > 0)
    <2>1. Current = {r}
      BY <1>1 DEF Current
    <2> QED
      BY <2>1 DEF Job, Reported
  <1>2. ASSUME \A s \in Runs : Active(s)' <=> s = r
        PROVE  Job' = run'[r].profile /\ (Reported' <=> run'[r].attempts > 0)
    <2>1. Current' = {r}
      BY <1>2 DEF Current
    <2> QED
      BY <2>1 DEF Job, Reported
  <1> QED
    BY <1>1, <1>2

\* Without a goroutine there is no job.
LEMMA JobOfNone ==
  /\ (\A s \in Runs : ~Active(s)) => Job = NoProfile /\ Reported = FALSE
  /\ (\A s \in Runs : ~Active(s)') => Job' = NoProfile /\ Reported' = FALSE
  <1>1. (\A s \in Runs : ~Active(s)) => Current = {}
    BY DEF Current
  <1>2. (\A s \in Runs : ~Active(s)') => Current' = {}
    BY DEF Current
  <1> QED
    BY <1>1, <1>2 DEF Job, Reported

\* A trigger submits a job, or is ignored.
LEMMA TriggerSubmits ==
  ASSUME IInv, NEW p \in Profiles, TriggerRetryLoop(p)
  PROVE  [Jobs!JobNext]_(Jobs!jobVars)
  <1>1. UNCHANGED <<worker, run, stateLabel>>
    BY DEF TriggerRetryLoop, labelVars
  <1>2. UNCHANGED <<Job, Reported>>
    BY <1>1 DEF Job, Reported, Current, Active
  <1>3. CASE retryCh = <<>> /\ retryCh' = <<p>>
    <2>1. Waiting = (IF worker.pc = "recv" THEN <<>> ELSE <<worker.prof>>)
      BY <1>3 DEF Waiting
    <2>2. Waiting' = Append(Waiting, p) /\ Len(Waiting) < 2
      BY <1>1, <1>3, <2>1 DEF Waiting
    <2>3. Jobs!Submit(p)
      BY <1>1, <1>2, <2>2, Mapping
    <2> QED
      BY <2>3 DEF Jobs!JobNext
  <1>4. CASE UNCHANGED retryCh
    <2>1. UNCHANGED Waiting
      BY <1>1, <1>4 DEF Waiting
    <2> QED
      BY <1>1, <1>2, <2>1, Mapping
  <1> QED
    BY <1>3, <1>4 DEF TriggerRetryLoop

\* What is held before a queue is its head, and the queue its tail.
LEMMA HeldFirst ==
  ASSUME NEW S, NEW a \in S, NEW q \in Seq(S)
  PROVE  <<a>> \o q # <<>> /\ Head(<<a>> \o q) = a /\ Tail(<<a>> \o q) = q
  <1>1. <<a>> \o q # <<>> /\ Head(<<a>> \o q) = a
    OBVIOUS
  <1>2. Tail(<<a>> \o q) = q
    OBVIOUS
  <1> QED
    BY <1>1, <1>2

\* The channel's contents are a sequence of profiles.
LEMMA ChannelIsQueue == TypeOK => retryCh \in Seq(Profiles)
  <1> SUFFICES ASSUME TypeOK PROVE retryCh \in Seq(Profiles)
    OBVIOUS
  <1>1. CASE retryCh = <<>>
    BY <1>1
  <1>2. ASSUME NEW p \in Profiles, retryCh = <<p>> PROVE retryCh \in Seq(Profiles)
    BY <1>2
  <1> QED
    BY <1>1, <1>2 DEF TypeOK

\* Worker begins a job when it starts a goroutine, and not before.
LEMMA WorkerBegins ==
  ASSUME IInv, Worker
  PROVE  [Jobs!JobNext]_(Jobs!jobVars)
  <1>1. /\ worker \in [pc : {"recv", "wait", "spawn"}, prof : Profiles \union {NoProfile}]
        /\ retryCh \in {<<>>} \union {<<p>> : p \in Profiles}
    BY DEF IInv, TypeOK
  <1>2. CASE worker.pc = "spawn"
    <2>1. /\ worker'.pc = "recv" /\ retryCh' = retryCh /\ spawned + 1 \in Runs
          /\ stateLabel' = stateLabel /\ \A r \in Runs : ~Active(r)
          /\ \A r \in Runs : run'[r] = IF r = spawned + 1 THEN NewRun(worker.prof) ELSE run[r]
      BY <1>2, WorkerAfter DEF labelVars
    <2>2. /\ NewRun(worker.prof).pc = "begin" /\ NewRun(worker.prof).attempts = 0
          /\ NewRun(worker.prof).profile = worker.prof
      BY DEF NewRun, Goroutine
    <2>3. \A s \in Runs : Active(s)' <=> s = spawned + 1
      BY <2>1, <2>2 DEF Active
    <2>4. Job' = worker.prof /\ Reported' = FALSE
      <3>1. Job' = run'[spawned + 1].profile /\ (Reported' <=> run'[spawned + 1].attempts > 0)
        BY <2>1, <2>3, JobOfOne
      <3>2. Reported' \in BOOLEAN
        BY DEF Reported
      <3> QED
        BY <2>1, <2>2, <3>1, <3>2
    <2>5. Job = NoProfile /\ Reported = FALSE
      BY <2>1, JobOfNone
    <2>6. Waiting = <<worker.prof>> \o retryCh /\ Waiting' = <<>> \o retryCh
      BY <1>2, <2>1 DEF Waiting
    <2>7. Waiting # <<>> /\ Head(Waiting) = worker.prof /\ Waiting' = Tail(Waiting)
      <3>1. worker.prof \in Profiles /\ retryCh \in Seq(Profiles)
        BY <1>2, WorkerAfter, ChannelIsQueue DEF IInv
      <3>2. Waiting' = retryCh
        BY <2>6, <3>1
      <3> QED
        BY <2>6, <3>1, <3>2, HeldFirst
    <2>8. Jobs!Begin
      BY <2>1, <2>4, <2>5, <2>7, Mapping
    <2> QED
      BY <2>8 DEF Jobs!JobNext
  <1>3. CASE worker.pc # "spawn"
    <2>1. /\ stateLabel' = stateLabel
          /\ \A r \in Runs : /\ run'[r].pc = run[r].pc /\ run'[r].profile = run[r].profile
                             /\ run'[r].attempts = run[r].attempts
      BY <1>3, WorkerAfter DEF labelVars
    <2>2. Current' = Current
      BY <2>1 DEF Current, Active
    <2>3. UNCHANGED <<Job, Reported>>
      <3>1. Current \subseteq Runs
        BY DEF Current
      <3>2. Current # {} => (CHOOSE r \in Current : TRUE) \in Runs
        BY <3>1
      <3> QED
        BY <2>1, <2>2, <3>1, <3>2 DEF Job, Reported
    <2>4. UNCHANGED Waiting
      <3>1. CASE worker.pc = "recv"
        <4>1. PICK p \in Profiles : retryCh = <<p>> /\ retryCh' = <<>> /\ worker'.prof = p
          BY <3>1, WorkerAfter
        <4>2. worker'.pc # "recv"
          BY <3>1, WorkerAfter
        <4>3. Waiting = <<p>> /\ Waiting' = <<p>>
          BY <3>1, <4>1, <4>2 DEF Waiting
        <4> QED
          BY <4>3
      <3>2. CASE worker.pc = "wait"
        BY <3>2, WorkerAfter DEF Waiting
      <3> QED
        BY <1>1, <1>3, <3>1, <3>2
    <2> QED
      BY <2>1, <2>3, <2>4, Mapping
  <1> QED
    BY <1>2, <1>3

\* A goroutine announces, reports, refuses or ends its job, or does what
\* LatestJob does not see.
LEMMA GoroutineReports ==
  ASSUME IInv, TrackInv, AttemptInv, NEW r \in Runs, RetryPartition(r)
  PROVE  [Jobs!JobNext]_(Jobs!jobVars)
  <1>1. /\ Active(r) /\ run[r] \in RunType /\ UNCHANGED <<worker, retryCh>>
        /\ \A s \in Runs : s # r => ~Active(s) /\ run'[s] = run[s]
    BY OneSteps DEF workerVars
  <1>2. UNCHANGED Waiting
    BY <1>1 DEF Waiting
  <1>3. run[r].profile \in Profiles /\ run[r].attempts \in Nat
    BY <1>1, BoundsAssumption DEF AttemptInv, RunType
  <1>4. Job = run[r].profile /\ Job # NoProfile /\ (Reported <=> run[r].attempts > 0)
    <2>1. \A s \in Runs : Active(s) <=> s = r
      BY <1>1
    <2> QED
      BY <1>3, <2>1, JobOfOne, ProfilesAssumption
  <1>5. run'[r].profile = run[r].profile
    BY RunAfter
  <1>6. ASSUME run'[r].pc \notin {"unborn", "done"}
        PROVE  Job' = Job /\ (Reported' <=> run'[r].attempts > 0)
    <2>1. \A s \in Runs : Active(s)' <=> s = r
      BY <1>1, <1>6 DEF Active
    <2> QED
      BY <1>4, <1>5, <2>1, JobOfOne
  <1>7. ASSUME run'[r].pc = "done"
        PROVE  Job' = NoProfile /\ Reported' = FALSE
    <2>1. \A s \in Runs : ~Active(s)'
      BY <1>1, <1>7 DEF Active
    <2> QED
      BY <2>1, JobOfNone
  <1>8. Reported \in BOOLEAN /\ Reported' \in BOOLEAN
    BY DEF Reported
  <1>9. \A v : AddStateLabel(r, v) => stateLabel' \in {stateLabel, v}
    BY DEF AddStateLabel, labelVars
  <1>10. ASSUME run'[r].pc \notin {"unborn", "done"}, run'[r].attempts = run[r].attempts,
                stateLabel' = stateLabel
         PROVE  UNCHANGED Jobs!jobVars
    BY <1>2, <1>4, <1>6, <1>8, <1>10, Mapping
  <1>11. CASE run[r].pc = "begin"
    <2>1. /\ run'[r].pc = "load" /\ run'[r].attempts = run[r].attempts
          /\ stateLabel' \in {stateLabel, "in-progress"}
      BY <1>9, <1>11, RunAfter
    <2>2. run[r].attempts = 0
      BY <1>11 DEF AttemptInv
    <2>3. CASE stateLabel' = "in-progress"
      <3>1. Jobs!Announce
        BY <1>2, <1>4, <1>6, <1>8, <2>1, <2>2, <2>3, Mapping
      <3> QED
        BY <3>1 DEF Jobs!JobNext
    <2>4. CASE stateLabel' = stateLabel
      BY <1>10, <2>1, <2>4
    <2> QED
      BY <2>1, <2>3, <2>4
  <1>12. CASE run[r].pc = "load" /\ run'[r].pc = "done"
    <2>1. stateLabel' \in {stateLabel, "failure"}
      BY <1>9, <1>12, RunAfter
    <2>2. Jobs!Refuse
      BY <1>2, <1>4, <1>7, <1>12, <2>1, Mapping
    <2> QED
      BY <2>2 DEF Jobs!JobNext
  <1>13. CASE run[r].pc = "partition"
    <2>1. PICK v \in {"success", "failure"} : AddStateLabel(r, v)
      BY <1>13, RunAfter
    <2>2. run'[r].pc \in {"wait", "start"} /\ run'[r].attempts = run[r].attempts + 1
      BY <1>13, RunAfter
    <2>3. Reported' = TRUE /\ Job' = Job
      BY <1>3, <1>6, <1>8, <2>2
    <2>4. Jobs!Report(v)
      BY <1>2, <1>4, <1>9, <2>1, <2>3, Mapping
    <2> QED
      BY <2>1, <2>4 DEF Jobs!JobNext, Jobs!Verdicts
  <1>14. CASE run[r].pc # "load" /\ run'[r].pc = "done"
    <2>1. stateLabel' = stateLabel /\ (run[r].pc = "start" \/ run[r].cancelled)
      BY <1>14, RunAfter DEF labelVars
    <2>2. Reported \/ Waiting # <<>>
      <3>1. CASE run[r].pc = "start"
        BY <1>4, <3>1 DEF AttemptInv
      <3>2. CASE run[r].cancelled
        <4>1. worker.pc # "recv"
          BY <3>2, NewestSteps DEF TrackInv
        <4>2. worker.prof \in Profiles /\ retryCh \in Seq(Profiles)
          BY <4>1, ChannelIsQueue DEF IInv, TypeOK
        <4> QED
          BY <4>1, <4>2, HeldFirst DEF Waiting
      <3> QED
        BY <2>1, <3>1, <3>2
    <2>3. Jobs!End
      BY <1>2, <1>4, <1>7, <1>14, <2>1, <2>2, Mapping
    <2> QED
      BY <2>3 DEF Jobs!JobNext
  <1>15. CASE run[r].pc \notin {"begin", "partition"} /\ run'[r].pc # "done"
    <2>1. /\ run'[r].pc \notin {"unborn", "done"} /\ run'[r].attempts = run[r].attempts
          /\ stateLabel' = stateLabel
      BY <1>15, RunAfter DEF labelVars
    <2> QED
      BY <1>10, <2>1
  <1> QED
    BY <1>11, <1>12, <1>13, <1>14, <1>15

\* Before the first trigger there is no job.
LEMMA InitJobs == Init => Jobs!JobInit
  <1> SUFFICES ASSUME Init PROVE Jobs!JobInit
    OBVIOUS
  <1>1. \A r \in Runs : ~Active(r)
    BY DEF Init, Active, NoRun, Goroutine
  <1>2. Waiting = <<>>
    BY DEF Init, Waiting
  <1> QED
    BY <1>1, <1>2, JobOfNone, Mapping DEF Init

\* Each step of the retry loop is one of LatestJob's, or changes nothing that
\* LatestJob sees.
LEMMA NextJobs ==
  ASSUME IInv, TrackInv, AttemptInv, [Next]_vars
  PROVE  [Jobs!JobNext]_(Jobs!jobVars)
  <1>1. CASE EditConfig \/ UnitChanges \/ UNCHANGED vars
    <2>1. UNCHANGED <<retryCh, worker, run, stateLabel>>
      BY <1>1, OthersAfter
    <2>2. UNCHANGED <<Waiting, Current>>
      BY <2>1 DEF Waiting, Current, Active
    <2>3. UNCHANGED <<Job, Reported>>
      BY <2>1, <2>2 DEF Job, Reported
    <2> QED
      BY <2>1, <2>2, <2>3, Mapping
  <1> QED
    BY <1>1, TriggerSubmits, WorkerBegins, GoroutineReports DEF Next, Idle

\* The retry loop implements LatestJob: a newer trigger, a failing label write
\* and every order of the goroutines' steps included.
THEOREM Refinement == Spec => ImplementsLatestJob
  <1>1. IInv /\ TrackInv /\ AttemptInv /\ [Next]_vars => [Jobs!JobNext]_(Jobs!jobVars)
    BY NextJobs
  <1> QED
    BY <1>1, InitJobs, Invariance, TrackInvariance, PTL
    DEF Spec, ImplementsLatestJob, Jobs!JobSpec

=============================================================================

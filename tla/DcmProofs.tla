------------------------------ MODULE DcmProofs ------------------------------
(***************************************************************************)
(* Proofs about the process: its types, what becomes of the selected       *)
(* profile and of the edits of config.json, that no report of a process    *)
(* outlives it, that the services are still down during an attempt and     *)
(* remembered, and that it implements RestartableJob, whatever main, the   *)
(* two watchers, the retry loop and crashes do.                            *)
(***************************************************************************)
EXTENDS DcmJobs, JobProofs

(***************************************************************************)
(* The inductive invariant: that of the retry loop (IInv, TrackInv,        *)
(* DownInv, AttemptInv, VerdictInv, RestoreInv), and the following.        *)
(***************************************************************************)

\* A watcher triggers with a profile, and nothing runs before main starts it.
WatcherInv ==
  /\ lw.pc = "send" => lw.prof \in Profiles
  /\ fw.pc = "send" => fw.prof \in Profiles
  /\ main # "up" => /\ lw.pc = "off" /\ fw.pc = "off"
                    /\ retryCh = <<>> /\ worker.pc = "recv" /\ spawned = 0
  /\ main = "up" => lw.pc # "off"
  /\ lw.pc \in {"off", "sync"} => updates = <<>>

\* What the informer knew i updates from now.
Heard(i) == IF i = 0 THEN informerCache ELSE updates[i]

\* Each update differs from the one before it, and the last is the label.
InformerInv ==
  lw.pc \notin {"off", "sync"} =>
    /\ Heard(Len(updates)) = profileLabel
    /\ \A i \in 1..Len(updates) : Heard(i) # Heard(i - 1)

\* A profile that was selected and not missed was accepted last, or the label
\* watcher has yet to look, or to hear of it, or to trigger.
SelectInv ==
  main = "up" /\ profileLabel # NoProfile /\ lost = "no" =>
    \/ lastAccepted = profileLabel
    \/ lw.pc \in {"sync", "get"}
    \/ updates # <<>>
    \/ lw.pc = "send" /\ lw.prof = profileLabel

\* An accepted trigger is in the channel, with Worker, or has been spawned.
AcceptInv ==
  lastAccepted # NoProfile => retryCh # <<>> \/ worker.pc # "recv" \/ spawned > 0

\* An edit of config.json that did not go unheard has been read, or its event
\* or its trigger is on the way, or a goroutine is about to read the file.
ApplyInv ==
  spawned > 0 /\ ~unheard =>
    \/ lastRead = configFile
    \/ fileEvent = "change" \/ fw.pc \in {"get", "send"}
    \/ retryCh # <<>> \/ worker.pc # "recv"
    \/ run[spawned].pc \in {"begin", "load"}

\* Main has deleted the label, and a goroutine signs what it writes.
DeadInv == main # "boot" /\ labelRun = 0 => stateLabel = "none"

DcmInv ==
  /\ DcmTypeOK /\ IInv /\ TrackInv /\ AttemptInv /\ DownInv /\ RestoreInv
  /\ WatcherInv /\ InformerInv /\ SelectInv /\ AcceptInv /\ ApplyInv

\* With label writes that succeed.
LabelsInv == VerdictInv /\ DeadInv

-----------------------------------------------------------------------------
\* Every step is one of the retry loop, or leaves it alone, but for the three
\* that touch its state from outside.
LEMMA LoopSteps ==
  ASSUME DcmTypeOK, WatcherInv, [DcmNext]_dcmVars
  PROVE  [Next]_vars \/ MainDeletesLabel \/ TouchFile \/ Crash
  <1>1. selectedProfile = NoProfile \/ selectedProfile \in Profiles
    BY DEF DcmTypeOK, Labels
  <1>2. CASE MainStarts
    BY <1>1, <1>2 DEF MainStarts, Next
  <1>3. CASE NodeLabelWatcher \/ FileWatcher
    <2>1. lw.pc = "send" => lw.prof \in Profiles
      BY DEF WatcherInv
    <2>2. fw.pc = "send" => fw.prof \in Profiles
      BY DEF WatcherInv
    <2> QED
      BY <1>3, <2>1, <2>2 DEF NodeLabelWatcher, InformerSyncs, LabelUpdate, LabelRead,
         LabelTrigger, FileWatcher, FileWatchAdd, FileEvent, FileRead, FileTrigger,
         FileRearm, WatcherTriggers, Next
  <1> QED
    BY <1>2, <1>3 DEF DcmNext, MainReadsProfile, RetryLoopStep, ChangeLabel, EditFile,
       DcmIdle, dcmVars, Next

\* The deletion of the state label touches no goroutine.
LEMMA DeleteLoop ==
  ASSUME IInv, TrackInv, AttemptInv, DownInv, RestoreInv, MainDeletesLabel
  PROVE  IInv' /\ TrackInv' /\ AttemptInv' /\ DownInv' /\ RestoreInv'
  <1>1. UNCHANGED <<serviceVars, workerVars, wg, run, envVars>>
    BY DEF MainDeletesLabel
  <1>2. stateLabel' \in {stateLabel, "none"} /\ labelRun' \in {labelRun, 0}
    BY DEF MainDeletesLabel, DeleteStateLabel, labelVars
  <1>3. TypeOK'
    BY <1>1, <1>2 DEF IInv, TypeOK, ServiceTypeOK, serviceVars, workerVars, envVars, StateLabels
  <1>4. WaitGroupInv' /\ LateInv'
    BY <1>1 DEF IInv, WaitGroupInv, LateInv, Active, Pending, workerVars
  <1>5. LabelInv'
    BY <1>1, <1>2, BoundsAssumption DEF IInv, TypeOK, LabelInv, workerVars
  <1>6. TrackInv' /\ AttemptInv' /\ DownInv'
    BY <1>1 DEF TrackInv, AttemptInv, DownInv, Active, serviceVars, workerVars
  <1>7. RestoreInv'
    BY <1>1 DEF RestoreInv, RecordInv, ListInv, HandOverInv, Down, Active, serviceVars,
         workerVars, envVars
  <1> QED
    BY <1>3, <1>4, <1>5, <1>6, <1>7 DEF IInv

\* An event of the file that changes nothing touches no goroutine.
LEMMA TouchLoop ==
  ASSUME IInv, TrackInv, AttemptInv, DownInv, RestoreInv, TouchFile
  PROVE  IInv' /\ TrackInv' /\ AttemptInv' /\ DownInv' /\ RestoreInv'
  <1>1. UNCHANGED <<serviceVars, workerVars, wg, run, labelVars, configFile, flips>>
    BY DEF TouchFile
  <1>2. edits' \in 0..MaxEdits
    BY BoundsAssumption DEF TouchFile, IInv, TypeOK
  <1>3. TypeOK'
    BY <1>1, <1>2 DEF IInv, TypeOK, ServiceTypeOK, serviceVars, workerVars, labelVars
  <1>4. WaitGroupInv' /\ LateInv' /\ LabelInv'
    BY <1>1 DEF IInv, WaitGroupInv, LateInv, LabelInv, Active, Pending, workerVars, labelVars
  <1>5. TrackInv' /\ AttemptInv' /\ DownInv'
    BY <1>1 DEF TrackInv, AttemptInv, DownInv, Active, serviceVars, workerVars
  <1>6. RestoreInv'
    BY <1>1 DEF RestoreInv, RecordInv, ListInv, HandOverInv, Down, Active, serviceVars,
         workerVars
  <1> QED
    BY <1>3, <1>4, <1>5, <1>6 DEF IInv

\* A crash leaves the retry loop as main starts it, the label apart; what DCM
\* had stopped is mislaid.
LEMMA CrashLoop ==
  ASSUME IInv, RestoreInv, Crash
  PROVE  IInv' /\ TrackInv' /\ AttemptInv' /\ DownInv' /\ RestoreInv'
  <1>1. /\ PreStateDB' = EmptyDB /\ retryCh' = <<>> /\ cancelFunc' = 0 /\ wg' = 0
        /\ worker' = [pc |-> "recv", prof |-> NoProfile]
        /\ run' = [r \in Runs |-> NoRun] /\ spawned' = 0 /\ labelRun' = 0
        /\ lastAccepted' = NoProfile /\ mislaid' = mislaid \union stoppedByDCM
        /\ UNCHANGED <<units, stoppedByDCM, missed, stateLabel, envVars>>
    BY DEF Crash
  <1>2. NoRun \in RunType /\ NoRun.pc = "unborn" /\ NoRun.late = 0
    BY BoundsAssumption DEF NoRun, Goroutine, PCs, RunType
  <1>3. \A r \in Runs : run'[r] = NoRun
    BY <1>1
  <1>4. ServiceTypeOK'
    BY <1>1 DEF IInv, TypeOK, ServiceTypeOK, EmptyDB, PreStates
  <1>5. run' \in [Runs -> RunType]
    BY <1>1, <1>2
  <1>6. TypeOK'
    BY <1>1, <1>4, <1>5, BoundsAssumption DEF IInv, TypeOK, RunType, envVars
  <1>7. WaitGroupInv' /\ LabelInv' /\ LateInv'
    BY <1>1, <1>2, <1>3, BoundsAssumption
    DEF WaitGroupInv, LabelInv, LateInv, RunOK, Active, Pending
  <1>8. TrackInv' /\ AttemptInv' /\ DownInv'
    BY <1>1, <1>2, <1>3 DEF TrackInv, AttemptInv, DownInv, Active
  <1>9. RestoreInv'
    <2>1. Down' = {}
      BY <1>1 DEF Down
    <2>2. \A u \in Services : PreStateDB'[u] = Unrecorded
      BY <1>1 DEF EmptyDB
    <2> QED
      BY <1>1, <1>2, <1>3, <2>1, <2>2
      DEF RestoreInv, RecordInv, ListInv, HandOverInv, Active, Loaded, envVars
  <1> QED
    BY <1>6, <1>7, <1>8, <1>9 DEF IInv

\* Every step keeps what the retry loop relies on.
LEMMA LoopKept ==
  ASSUME DcmInv, [DcmNext]_dcmVars
  PROVE  IInv' /\ TrackInv' /\ AttemptInv' /\ DownInv' /\ RestoreInv'
  <1>1. CASE [Next]_vars
    BY <1>1, NextIInv, TrackStep, AttemptStep, NextDown, NextRestore DEF DcmInv
  <1> QED
    BY <1>1, LoopSteps, DeleteLoop, TouchLoop, CrashLoop DEF DcmInv

-----------------------------------------------------------------------------
\* The retry loop takes steps only once main is up.
LEMMA LoopIsUp ==
  ASSUME DcmInv, RetryLoopStep
  PROVE  main = "up"
  <1> SUFFICES ASSUME main # "up" PROVE FALSE
    OBVIOUS
  <1>1. retryCh = <<>> /\ worker.pc = "recv" /\ spawned = 0
    BY DEF DcmInv, WatcherInv
  <1>2. ~Worker
    BY <1>1 DEF Worker, WorkerRecv, WorkerWait, WorkerSpawn
  <1>3. ASSUME NEW r \in Runs PROVE ~RetryPartition(r)
    BY <1>1, NewestSteps DEF DcmInv
  <1> QED
    BY <1>2, <1>3 DEF RetryLoopStep

\* The watchers' steps, of which two trigger.
LEMMA WatcherSteps ==
  ASSUME DcmInv, NodeLabelWatcher \/ FileWatcher
  PROVE  /\ main = "up" /\ UNCHANGED mainVars
         /\ \/ UNCHANGED vars
            \/ LabelTrigger /\ lw.prof \in Profiles
            \/ FileTrigger /\ fw.prof \in Profiles
  <1>1. main = "up"
    BY DEF DcmInv, WatcherInv, NodeLabelWatcher, InformerSyncs, LabelUpdate, LabelRead,
         LabelTrigger, FileWatcher, FileWatchAdd, FileEvent, FileRead, FileTrigger, FileRearm
  <1>2. UNCHANGED mainVars
    BY DEF NodeLabelWatcher, InformerSyncs, LabelUpdate, LabelRead, LabelTrigger,
         FileWatcher, FileWatchAdd, FileEvent, FileRead, FileTrigger, FileRearm
  <1>3. \/ UNCHANGED vars
        \/ LabelTrigger /\ lw.prof \in Profiles
        \/ FileTrigger /\ fw.prof \in Profiles
    <2>1. (lw.pc = "send" => lw.prof \in Profiles) /\ (fw.pc = "send" => fw.prof \in Profiles)
      BY DEF DcmInv, WatcherInv
    <2> QED
      BY <2>1 DEF NodeLabelWatcher, InformerSyncs, LabelUpdate, LabelRead, LabelTrigger,
         FileWatcher, FileWatchAdd, FileEvent, FileRead, FileTrigger, FileRearm
  <1> QED
    BY <1>1, <1>2, <1>3

\* The types, and that nothing runs before main starts it.
LEMMA TypesKept ==
  ASSUME DcmInv, [DcmNext]_dcmVars
  PROVE  DcmTypeOK' /\ WatcherInv'
  <1> USE DEF Labels
  <1>1. TypeOK' /\ TypeOK /\ DcmTypeOK /\ WatcherInv
    BY LoopKept DEF DcmInv, IInv
  <1>2. configFile \in ConfigMaps
    BY <1>1 DEF TypeOK
  <1>4. CASE MainDeletesLabel \/ MainReadsProfile
    BY <1>1, <1>4 DEF MainDeletesLabel, MainReadsProfile, DcmTypeOK, WatcherInv, vars,
         watcherVars, fileHistory, workerVars
  <1>5. CASE MainStarts
    BY <1>1, <1>5 DEF MainStarts, DcmTypeOK, WatcherInv, fileHistory, At, Watcher
  <1>6. CASE RetryLoopStep
    <2>1. main = "up"
      BY <1>6, LoopIsUp
    <2> QED
      BY <1>1, <1>2, <1>6, <2>1 DEF RetryLoopStep, DcmTypeOK, WatcherInv, mainVars, watcherVars
  <1>7. CASE NodeLabelWatcher
    <2>1. main = "up" /\ UNCHANGED mainVars
      BY <1>7, WatcherSteps
    <2>2. lw' \in Watcher({"off", "sync", "idle", "get", "send"})
          /\ lw'.pc \notin {"off", "sync"} /\ (lw'.pc = "send" => lw'.prof \in Profiles)
      <3>1. CASE LabelRead
        <4>1. PICK p \in Labels : lw' = [pc |-> IF p = NoProfile THEN "idle" ELSE "send", prof |-> p]
          BY <3>1 DEF LabelRead
        <4> QED
          BY <4>1 DEF Watcher
      <3>2. CASE InformerSyncs \/ LabelUpdate \/ LabelTrigger
        BY <3>2 DEF InformerSyncs, LabelUpdate, LabelTrigger, At, Watcher
      <3> QED
        BY <1>7, <3>1, <3>2 DEF NodeLabelWatcher
    <2>3. informerCache' \in Labels /\ updates' \in Seq(Labels)
      BY <1>1, <1>7 DEF NodeLabelWatcher, InformerSyncs, LabelUpdate, LabelRead,
           LabelTrigger, DcmTypeOK
    <2>4. lost' \in {"no", "ignored", "stale", "unread", "unseen"}
      BY <1>1, <1>7 DEF NodeLabelWatcher, InformerSyncs, LabelUpdate, LabelRead,
           LabelTrigger, WatcherReads, WatcherTriggers, DcmTypeOK
    <2>5. UNCHANGED <<fw, watching, fileEvent, fileHistory>>
      BY <1>7 DEF NodeLabelWatcher, InformerSyncs, LabelUpdate, LabelRead, LabelTrigger
    <2> QED
      BY <1>1, <2>1, <2>2, <2>3, <2>4, <2>5 DEF DcmTypeOK, WatcherInv, mainVars, fileHistory
  <1>8. CASE FileWatcher
    <2>1. main = "up" /\ UNCHANGED mainVars
      BY <1>8, WatcherSteps
    <2>2. fw' \in Watcher({"off", "add", "blocked", "idle", "get", "send", "rearm"})
          /\ (fw'.pc = "send" => fw'.prof \in Profiles)
      <3>1. CASE FileRead
        <4>1. PICK p \in Labels : fw' = [pc |-> IF p = NoProfile THEN "rearm" ELSE "send", prof |-> p]
          BY <3>1 DEF FileRead
        <4> QED
          BY <4>1 DEF Watcher
      <3>2. CASE FileWatchAdd \/ FileEvent \/ FileTrigger \/ FileRearm
        BY <3>2 DEF FileWatchAdd, FileEvent, FileTrigger, FileRearm, At, Watcher
      <3> QED
        BY <1>8, <3>1, <3>2 DEF FileWatcher
    <2>3. /\ fileEvent' \in {"none", "change", "attrib"} /\ watching' \in BOOLEAN
          /\ unheard' \in BOOLEAN /\ lastRead' = lastRead
      <3>1. configFile.present \in BOOLEAN
        <4>1. Absent.present = FALSE /\ BadJSON.present = TRUE
          BY DEF Absent, BadJSON
        <4>2. CASE ~(configFile = Absent \/ configFile = BadJSON)
          <5>1. configFile \in [present : {TRUE}, valid : {TRUE}, services : SUBSET Services,
                               profiles : SUBSET Profiles]
            BY <1>2, <4>2 DEF ConfigMaps
          <5>2. configFile.present = TRUE
            BY <5>1
          <5> QED
            BY <5>2
        <4> QED
          BY <4>1, <4>2
      <3> QED
        BY <1>1, <1>8, <3>1 DEF FileWatcher, FileWatchAdd, FileEvent, FileRead, FileTrigger,
           FileRearm, DcmTypeOK, fileHistory
    <2>4. lost' \in {"no", "ignored", "stale", "unread", "unseen"}
      BY <1>1, <1>8 DEF FileWatcher, FileWatchAdd, FileEvent, FileRead, FileTrigger,
           FileRearm, WatcherReads, WatcherTriggers, DcmTypeOK
    <2>5. UNCHANGED <<lw, informerCache, updates>>
      BY <1>8 DEF FileWatcher, FileWatchAdd, FileEvent, FileRead, FileTrigger, FileRearm
    <2> QED
      BY <1>1, <2>1, <2>2, <2>3, <2>4, <2>5 DEF DcmTypeOK, WatcherInv, mainVars
  <1>9. CASE ChangeLabel
    <2>1. relabels' \in 0..MaxRelabels /\ profileLabel' \in Labels /\ updates' \in Seq(Labels)
      BY <1>1, <1>9, DcmBoundsAssumption DEF ChangeLabel, DcmTypeOK
    <2> QED
      BY <1>1, <1>9, <2>1 DEF ChangeLabel, DcmTypeOK, WatcherInv, vars, workerVars, fileHistory
  <1>10. CASE EditFile
    BY <1>1, <1>10 DEF EditFile, EditConfig, DcmTypeOK, WatcherInv, mainVars, workerVars
  <1>11. CASE TouchFile
    BY <1>1, <1>11 DEF TouchFile, DcmTypeOK, WatcherInv, mainVars, workerVars, fileHistory
  <1>12. CASE Crash
    <2>1. crashes' \in 0..MaxCrashes
      BY <1>1, <1>12, DcmBoundsAssumption DEF Crash, DcmTypeOK
    <2>2. /\ lw' \in Watcher({"off", "sync", "idle", "get", "send"})
          /\ fw' \in Watcher({"off", "add", "blocked", "idle", "get", "send", "rearm"})
          /\ updates' \in Seq(Labels)
      BY <1>12 DEF Crash, At, Watcher
    <2>3. WatcherInv'
      BY <1>12 DEF Crash, At, WatcherInv
    <2> QED
      BY <1>1, <1>12, <2>1, <2>2, <2>3 DEF Crash, DcmTypeOK
  <1>13. CASE DcmIdle \/ UNCHANGED dcmVars
    BY <1>1, <1>13 DEF DcmIdle, dcmVars, DcmTypeOK, WatcherInv, vars, mainVars, watcherVars,
         workerVars, fileHistory
  <1> QED
    BY <1>4, <1>5, <1>6, <1>7, <1>8, <1>9, <1>10, <1>11, <1>12, <1>13 DEF DcmNext

\* The informer goes on hearing every change once.
LEMMA InformerKept ==
  ASSUME DcmInv, [DcmNext]_dcmVars
  PROVE  InformerInv'
  <1>1. DcmTypeOK /\ InformerInv /\ WatcherInv
    BY DEF DcmInv
  <1>2. updates \in Seq(Labels) /\ Len(updates) \in Nat
    BY <1>1 DEF DcmTypeOK
  <1>3. CASE UNCHANGED <<lw, informerCache, updates, profileLabel>>
    BY <1>1, <1>3 DEF InformerInv, Heard
  <1>4. CASE MainStarts \/ Crash
    BY <1>4 DEF MainStarts, Crash, At, InformerInv
  <1>5. CASE InformerSyncs
    <2>1. informerCache' = profileLabel /\ UNCHANGED <<updates, profileLabel>> /\ lw.pc = "sync"
      BY <1>5 DEF InformerSyncs, mainVars
    <2>2. updates = <<>>
      BY <1>1, <2>1 DEF WatcherInv
    <2> QED
      BY <2>1, <2>2 DEF InformerInv, Heard
  <1>6. CASE LabelUpdate
    <2>1. /\ lw.pc = "idle" /\ updates # <<>> /\ UNCHANGED profileLabel
          /\ updates' = Tail(updates) /\ informerCache' = Head(updates)
      BY <1>6 DEF LabelUpdate, mainVars
    <2>2. /\ Len(updates') = Len(updates) - 1 /\ Len(updates) > 0
          /\ \A i \in 1..Len(updates') : updates'[i] = updates[i + 1]
          /\ informerCache' = updates[1]
      BY <1>2, <2>1
    <2>3. \A i \in 0..Len(updates') : Heard(i)' = Heard(i + 1)
      BY <1>2, <2>2 DEF Heard
    <2> QED
      BY <1>1, <1>2, <2>1, <2>2, <2>3 DEF InformerInv
  <1>7. CASE LabelRead \/ LabelTrigger
    <2>1. lw.pc \notin {"off", "sync"} /\ UNCHANGED <<informerCache, updates, profileLabel>>
      BY <1>7 DEF LabelRead, LabelTrigger, mainVars
    <2> QED
      BY <1>1, <2>1 DEF InformerInv, Heard
  <1>8. CASE ChangeLabel
    <2>1. /\ profileLabel' # profileLabel /\ UNCHANGED <<lw, informerCache>>
          /\ profileLabel' \in Labels
      BY <1>8 DEF ChangeLabel
    <2>2. CASE lw.pc \in {"off", "sync"}
      BY <2>1, <2>2 DEF InformerInv
    <2>3. CASE lw.pc \notin {"off", "sync"}
      <3>1. updates' = Append(updates, profileLabel')
        BY <1>8, <2>3 DEF ChangeLabel
      <3>2. PICK n \in Nat : n = Len(updates)
        BY <1>2
      <3>3. /\ Len(updates') = n + 1 /\ updates'[n + 1] = profileLabel'
            /\ \A i \in 1..n : updates'[i] = updates[i]
        BY <1>2, <2>1, <3>1, <3>2
      <3>4. Heard(n + 1)' = profileLabel' /\ \A i \in 0..n : Heard(i)' = Heard(i)
        BY <2>1, <3>2, <3>3 DEF Heard
      <3> QED
        BY <1>1, <1>2, <2>1, <2>3, <3>2, <3>3, <3>4 DEF InformerInv
    <2> QED
      BY <2>2, <2>3
  <1>9. CASE FileWatcher \/ RetryLoopStep \/ MainDeletesLabel \/ MainReadsProfile \/ EditFile
             \/ TouchFile \/ DcmIdle \/ UNCHANGED dcmVars
    <2>1. UNCHANGED <<lw, informerCache, updates, profileLabel>>
      BY <1>9 DEF FileWatcher, FileWatchAdd, FileEvent, FileRead, FileTrigger, FileRearm,
         RetryLoopStep, MainDeletesLabel, MainReadsProfile, EditFile, TouchFile, DcmIdle,
         dcmVars, mainVars, watcherVars
    <2> QED
      BY <1>3, <2>1
  <1> QED
    BY <1>4, <1>5, <1>6, <1>7, <1>8, <1>9 DEF DcmNext, NodeLabelWatcher

\* A sequence with an empty tail has one element.
LEMMA LastOne ==
  ASSUME NEW S, NEW s \in Seq(S), s # <<>>, Tail(s) = <<>>
  PROVE  Len(s) = 1
  <1>1. Tail(s) \in Seq(S) /\ Len(Tail(s)) = Len(s) - 1 /\ Len(s) \in Nat
    OBVIOUS
  <1>2. \A seq \in Seq(S) : seq = <<>> => Len(seq) = 0
    OBVIOUS
  <1>3. Len(Tail(s)) = 0
    BY <1>1, <1>2
  <1> QED
    BY <1>1, <1>3

\* A trigger is accepted, or ignored as one is pending.
LEMMA TriggerIs ==
  ASSUME IInv, TrackInv, NEW p \in Profiles, TriggerRetryLoop(p)
  PROVE  /\ retryCh' # <<>>
         /\ \/ retryCh = <<>> /\ lastAccepted' = p
            \/ retryCh # <<>> /\ lastAccepted' = lastAccepted
         /\ retryCh = <<p>> => lastAccepted = p
         /\ UNCHANGED <<worker, spawned, run, labelVars, configFile>>
  BY DEF TriggerRetryLoop, TrackInv, envVars

\* The selected profile is not lost sight of, unless it is missed.
LEMMA SelectKept ==
  ASSUME DcmInv, [DcmNext]_dcmVars
  PROVE  SelectInv' /\ AcceptInv'
  <1> USE DEF SelectInv, AcceptInv
  <1>1. IInv /\ TrackInv /\ SelectInv /\ AcceptInv /\ InformerInv /\ DcmTypeOK
    BY DEF DcmInv
  <1>2. ASSUME NEW p \in Profiles, WatcherTriggers(p), UNCHANGED <<mainVars, updates>>,
               \/ lw' = lw
               \/ lw.pc = "send" /\ lw.prof = p /\ lw'.pc = "idle"
        PROVE  SelectInv' /\ AcceptInv'
    <2>1. TriggerRetryLoop(p) /\ UNCHANGED <<main, profileLabel>>
      BY <1>2 DEF WatcherTriggers, mainVars
    <2>2. /\ retryCh' # <<>>
          /\ \/ retryCh = <<>> /\ lastAccepted' = p
             \/ retryCh # <<>> /\ lastAccepted' = lastAccepted
          /\ retryCh = <<p>> => lastAccepted = p
      BY <1>1, <2>1, TriggerIs
    <2>3. lost' = IF retryCh = <<>> THEN IF p = profileLabel THEN "no" ELSE "stale"
                  ELSE IF p # profileLabel THEN lost
                  ELSE IF retryCh = <<p>> THEN "no" ELSE "ignored"
      BY <1>2 DEF WatcherTriggers
    <2>4. CASE p = profileLabel
      BY <2>1, <2>2, <2>3, <2>4
    <2>5. CASE p # profileLabel
      BY <1>1, <1>2, <2>1, <2>2, <2>3, <2>5
    <2> QED
      BY <2>4, <2>5
  <1>3. CASE MainStarts
    <2>1. lw'.pc = "sync"
      BY <1>3 DEF MainStarts, At
    <2>2. AcceptInv'
      <3>1. selectedProfile = NoProfile \/ selectedProfile \in Profiles
        BY <1>1 DEF DcmTypeOK, Labels
      <3> QED
        BY <1>1, <1>3, <3>1, TriggerIs DEF MainStarts, vars, workerVars
    <2> QED
      BY <2>1, <2>2
  <1>4. CASE MainDeletesLabel \/ MainReadsProfile
    BY <1>1, <1>4 DEF MainDeletesLabel, MainReadsProfile, vars, workerVars
  <1>5. CASE RetryLoopStep
    <2>1. UNCHANGED <<mainVars, watcherVars, lost>>
      BY <1>5 DEF RetryLoopStep
    <2>2. CASE Worker
      <3>1. spawned \in Nat
        BY <1>1, BoundsAssumption DEF IInv, TypeOK
      <3> QED
        BY <1>1, <2>1, <2>2, <3>1, WorkerAfter DEF mainVars, watcherVars
    <2>3. ASSUME NEW r \in Runs, RetryPartition(r)
          PROVE  SelectInv' /\ AcceptInv'
      BY <1>1, <2>1, <2>3, OneSteps DEF mainVars, watcherVars, workerVars
    <2> QED
      BY <1>5, <2>2, <2>3 DEF RetryLoopStep
  <1>6. CASE InformerSyncs
    BY <1>1, <1>6 DEF InformerSyncs, vars, workerVars, mainVars
  <1>7. CASE LabelUpdate
    <2>1. /\ updates # <<>> /\ updates' = Tail(updates) /\ UNCHANGED <<vars, mainVars, lost>>
          /\ lw.pc = "idle"
          /\ lw'.pc = IF LabelChanged(informerCache, Head(updates)) THEN "get" ELSE "idle"
      BY <1>7 DEF LabelUpdate, At
    <2>2. CASE updates' # <<>>
      BY <1>1, <2>1, <2>2 DEF vars, workerVars, mainVars
    <2>3. CASE updates' = <<>> /\ profileLabel # NoProfile
      <3>1. Len(updates) = 1
        BY <1>1, <2>1, <2>3, LastOne DEF DcmTypeOK
      <3>2. Head(updates) = profileLabel /\ informerCache # Head(updates)
        BY <1>1, <2>1, <3>1 DEF InformerInv, Heard, DcmTypeOK
      <3> QED
        BY <1>1, <2>1, <2>3, <3>2 DEF LabelChanged, vars, workerVars
    <2>4. CASE profileLabel = NoProfile
      BY <1>1, <2>1, <2>4 DEF vars, workerVars, mainVars
    <2> QED
      BY <2>2, <2>3, <2>4
  <1>8. CASE LabelRead
    <2>1. PICK p \in Labels :
            /\ WatcherReads(p)
            /\ lw' = [pc |-> IF p = NoProfile THEN "idle" ELSE "send", prof |-> p]
      BY <1>8 DEF LabelRead
    <2>2. p \in {profileLabel, NoProfile} /\ (p = NoProfile /\ profileLabel # NoProfile => lost' = "unread")
      BY <2>1 DEF WatcherReads, GetPartitionProfile
    <2>3. UNCHANGED <<vars, mainVars, updates>>
      BY <1>8 DEF LabelRead
    <2> QED
      BY <1>1, <2>1, <2>2, <2>3 DEF vars, workerVars, mainVars
  <1>9. CASE LabelTrigger
    <2>1. lw.pc = "send" /\ lw.prof \in Profiles
      BY <1>9 DEF LabelTrigger, DcmInv, WatcherInv
    <2>2. WatcherTriggers(lw.prof) /\ UNCHANGED <<mainVars, updates>> /\ lw'.pc = "idle"
      BY <1>9 DEF LabelTrigger, At
    <2> QED
      BY <1>2, <2>1, <2>2
  <1>10. CASE FileTrigger
    <2>1. fw.prof \in Profiles
      BY <1>10 DEF FileTrigger, DcmInv, WatcherInv
    <2> QED
      BY <1>2, <1>10, <2>1 DEF FileTrigger
  <1>11. CASE FileRead
    <2>1. PICK p \in Labels : WatcherReads(p)
      BY <1>11 DEF FileRead
    <2>2. UNCHANGED <<vars, mainVars, lw, updates>> /\ lost' \in {lost, "unread"}
      BY <1>11, <2>1 DEF FileRead, WatcherReads
    <2> QED
      BY <1>1, <2>2 DEF vars, workerVars, mainVars
  <1>12. CASE FileWatchAdd \/ FileEvent \/ FileRearm
    BY <1>1, <1>12 DEF FileWatchAdd, FileEvent, FileRearm, vars, workerVars, mainVars
  <1>13. CASE ChangeLabel
    <2>1. UNCHANGED <<vars, main, lw, lost>>
      BY <1>13 DEF ChangeLabel
    <2>2. main = "up" => lw.pc = "sync" \/ updates' # <<>>
      <3>1. main = "up" => lw.pc # "off"
        BY DEF DcmInv, WatcherInv
      <3>2. updates \in Seq(Labels)
        BY <1>1 DEF DcmTypeOK
      <3> QED
        BY <1>13, <3>1, <3>2 DEF ChangeLabel
    <2> QED
      BY <1>1, <2>1, <2>2 DEF vars, workerVars
  <1>14. CASE EditFile \/ TouchFile
    BY <1>1, <1>14 DEF EditFile, EditConfig, TouchFile, workerVars, mainVars
  <1>15. CASE Crash
    BY <1>15 DEF Crash
  <1>16. CASE DcmIdle \/ UNCHANGED dcmVars
    BY <1>1, <1>16 DEF DcmIdle, dcmVars, vars, workerVars, mainVars, watcherVars
  <1> QED
    BY <1>3, <1>4, <1>5, <1>6, <1>7, <1>8, <1>9, <1>10, <1>11, <1>12, <1>13, <1>14, <1>15, <1>16
    DEF DcmNext, NodeLabelWatcher, FileWatcher

\* No edit of config.json is lost sight of, unless it goes unheard.
LEMMA ApplyKept ==
  ASSUME DcmInv, [DcmNext]_dcmVars
  PROVE  ApplyInv'
  <1> USE DEF ApplyInv
  <1>1. IInv /\ TrackInv /\ ApplyInv /\ DcmTypeOK /\ WatcherInv
    BY DEF DcmInv
  <1>2. spawned \in Nat /\ (spawned > 0 => spawned \in Runs)
    BY <1>1, BoundsAssumption DEF IInv, TypeOK, Runs
  <1>3. ASSUME NEW p \in Profiles, TriggerRetryLoop(p)
        PROVE  retryCh' # <<>>
    BY <1>1, <1>3, TriggerIs
  <1>4. CASE MainStarts
    <2>1. spawned = 0
      BY <1>1, <1>4 DEF MainStarts, WatcherInv
    <2>2. UNCHANGED spawned
      BY <1>4 DEF MainStarts, TriggerRetryLoop, vars, workerVars
    <2> QED
      BY <2>1, <2>2
  <1>5. CASE MainDeletesLabel \/ MainReadsProfile \/ InformerSyncs \/ LabelUpdate \/ LabelRead
             \/ ChangeLabel \/ TouchFile \/ DcmIdle \/ UNCHANGED dcmVars
    <2>1. /\ UNCHANGED <<retryCh, worker, spawned, run, configFile, fw, fileHistory>>
          /\ fileEvent = "change" => fileEvent' = "change"
      BY <1>5 DEF MainDeletesLabel, MainReadsProfile, InformerSyncs, LabelUpdate, LabelRead,
         ChangeLabel, TouchFile, DcmIdle, dcmVars,
         vars, workerVars, envVars, watcherVars
    <2> QED
      BY <1>1, <2>1 DEF fileHistory
  <1>6. CASE LabelTrigger \/ FileTrigger
    <2>1. retryCh' # <<>>
      BY <1>1, <1>3, <1>6 DEF LabelTrigger, FileTrigger, WatcherTriggers, WatcherInv
    <2> QED
      BY <2>1
  <1>7. CASE FileWatchAdd \/ FileEvent
    <2>1. /\ UNCHANGED <<retryCh, worker, spawned, run, configFile, fileHistory>>
          /\ fileEvent = "change" => fileEvent' = "change" \/ fw'.pc = "get"
          /\ fw.pc \notin {"get", "send"}
      BY <1>7 DEF FileWatchAdd, FileEvent, At, vars, workerVars, envVars
    <2> QED
      BY <1>1, <2>1 DEF fileHistory
  <1>8. CASE FileRead
    <2>1. PICK p \in Labels :
            /\ fw' = [pc |-> IF p = NoProfile THEN "rearm" ELSE "send", prof |-> p]
            /\ unheard' = (unheard \/ p = NoProfile)
      BY <1>8 DEF FileRead
    <2> QED
      BY <2>1
  <1>9. CASE FileRearm
    <2>1. /\ UNCHANGED <<retryCh, worker, spawned, run, configFile, lastRead>>
          /\ fileEvent' \in {fileEvent, "none"} /\ fw.pc = "rearm"
          /\ unheard' = (unheard \/ (fileEvent = "change" /\ fileEvent' = "none"))
      BY <1>9 DEF FileRearm, vars, workerVars, envVars
    <2> QED
      BY <1>1, <2>1
  <1>10. CASE EditFile
    BY <1>10 DEF EditFile
  <1>11. CASE Crash
    BY <1>11 DEF Crash
  <1>12. CASE RetryLoopStep
    <2>1. /\ UNCHANGED <<configFile, fw, fileEvent>>
          /\ lastRead' = IF Reads THEN configFile ELSE lastRead
          /\ unheard' = (unheard /\ ~Reads)
      <3>1. UNCHANGED envVars
        BY <1>1, <1>12, OneSteps DEF RetryLoopStep, Worker, WorkerRecv, WorkerWait, WorkerSpawn
      <3> QED
        BY <1>12, <3>1 DEF RetryLoopStep, watcherVars, envVars
    <2>2. CASE Reads
      BY <2>1, <2>2
    <2>3. CASE Worker /\ ~Reads
      <3>1. CASE worker'.pc # "recv"
        BY <3>1
      <3>2. CASE worker'.pc = "recv"
        <4>1. /\ spawned' = spawned + 1 /\ spawned + 1 \in Runs
              /\ run'[spawned + 1] = NewRun(worker.prof)
          BY <1>1, <2>3, <3>2, WorkerAfter
        <4>2. run'[spawned'].pc = "begin"
          BY <4>1 DEF NewRun, Goroutine
        <4> QED
          BY <4>2
      <3> QED
        BY <3>1, <3>2
    <2>4. ASSUME NEW r \in Runs, RetryPartition(r), ~Reads
          PROVE  ApplyInv'
      <3>1. r = spawned /\ UNCHANGED <<retryCh, worker, spawned>>
        BY <1>1, <2>4, NewestSteps, OneSteps DEF workerVars
      <3>2. run[r].pc \in {"begin", "load"} => run'[r].pc \in {"begin", "load"}
        BY <1>1, <2>4, RunAfter DEF Reads
      <3> QED
        BY <1>1, <2>1, <2>4, <3>1, <3>2
    <2> QED
      BY <1>12, <2>2, <2>3, <2>4 DEF RetryLoopStep
  <1> QED
    BY <1>4, <1>5, <1>6, <1>7, <1>8, <1>9, <1>10, <1>11, <1>12
    DEF DcmNext, NodeLabelWatcher, FileWatcher

\* With label writes that succeed, the label says what the newest goroutine
\* made of its profile, and nothing until one writes it.
LEMMA LabelsKept ==
  ASSUME ~ApiMayFail, DcmInv, LabelsInv, [DcmNext]_dcmVars
  PROVE  LabelsInv'
  <1>1. /\ IInv /\ TrackInv /\ AttemptInv /\ WatcherInv /\ DcmTypeOK
        /\ VerdictInv /\ DeadInv
    BY DEF DcmInv, LabelsInv
  <1>2. VerdictInv'
    <2>1. CASE MainDeletesLabel \/ Crash
      <3>1. spawned' = 0
        BY <1>1, <2>1 DEF MainDeletesLabel, Crash, WatcherInv, workerVars
      <3> QED
        BY <3>1 DEF VerdictInv
    <2>2. CASE TouchFile
      BY <1>1, <2>2 DEF TouchFile, VerdictInv, workerVars, labelVars
    <2> QED
      BY <1>1, <2>1, <2>2, LoopSteps, VerdictStep
  <1>3. DeadInv'
    <2>1. CASE MainDeletesLabel
      BY <2>1 DEF MainDeletesLabel, DeleteStateLabel, DeadInv
    <2>2. CASE Crash
      BY <2>2 DEF Crash, DeadInv
    <2>3. CASE RetryLoopStep
      <3>1. UNCHANGED main
        BY <2>3 DEF RetryLoopStep, mainVars
      <3>2. ASSUME NEW r \in Runs, RetryPartition(r)
            PROVE  UNCHANGED labelVars \/ labelRun' # 0
        <4>1. \A v : AddStateLabel(r, v) => labelRun' = r
          BY DEF AddStateLabel
        <4>2. r # 0
          BY DEF Runs
        <4> QED
          BY <1>1, <3>2, <4>1, <4>2, RunAfter
      <3>3. Worker => UNCHANGED labelVars
        BY <1>1, WorkerAfter
      <3> QED
        BY <1>1, <2>3, <3>1, <3>2, <3>3 DEF RetryLoopStep, DeadInv, labelVars
    <2>4. CASE UNCHANGED labelVars /\ (main' # "boot" => main # "boot")
      BY <1>1, <2>4 DEF DeadInv, labelVars
    <2>5. CASE MainReadsProfile \/ MainStarts \/ ChangeLabel \/ EditFile \/ TouchFile \/ DcmIdle
               \/ UNCHANGED dcmVars
      <3>1. UNCHANGED labelVars /\ (main' # "boot" => main # "boot")
        BY <2>5 DEF MainReadsProfile, MainStarts, TriggerRetryLoop, ChangeLabel, EditFile,
           EditConfig, TouchFile, DcmIdle, dcmVars, vars, mainVars, labelVars
      <3> QED
        BY <2>4, <3>1
    <2>6. CASE NodeLabelWatcher \/ FileWatcher
      <3>1. UNCHANGED main
        BY <2>6, WatcherSteps DEF DcmInv, mainVars
      <3>2. UNCHANGED labelVars
        BY <2>6, WatcherSteps DEF LabelTrigger, FileTrigger, WatcherTriggers,
           TriggerRetryLoop, vars, labelVars
      <3> QED
        BY <2>4, <3>1, <3>2
    <2> QED
      BY <2>1, <2>2, <2>3, <2>5, <2>6 DEF DcmNext
  <1> QED
    BY <1>2, <1>3 DEF LabelsInv

\* The first process starts with nothing written and nothing stopped.
LEMMA DcmStarts == DcmInit => DcmInv /\ LabelsInv
  <1> SUFFICES ASSUME DcmInit PROVE DcmInv /\ LabelsInv
    OBVIOUS
  <1>1. Init
    BY DEF DcmInit
  <1>2. IInv /\ TrackInv /\ AttemptInv /\ VerdictInv /\ DownInv /\ RestoreInv
    BY <1>1, InitIInv, InitTrack, InitDown, InitRestore
  <1>3. /\ main = "boot" /\ lw = At("off") /\ fw = At("off") /\ updates = <<>>
        /\ retryCh = <<>> /\ worker.pc = "recv" /\ spawned = 0 /\ lastAccepted = NoProfile
    BY <1>1 DEF DcmInit, Init
  <1>4. lw.pc = "off" /\ fw.pc = "off"
    BY <1>3 DEF At
  <1>5. DcmTypeOK
    <2>1. TypeOK /\ configFile \in ConfigMaps
      BY <1>2 DEF IInv, TypeOK
    <2>2. /\ lw \in Watcher({"off", "sync", "idle", "get", "send"})
          /\ fw \in Watcher({"off", "add", "blocked", "idle", "get", "send", "rearm"})
      BY <1>3 DEF At, Watcher, Labels
    <2>3. {selectedProfile, profileLabel, informerCache} \subseteq Labels /\ updates \in Seq(Labels)
      BY DEF DcmInit, Labels
    <2>4. relabels \in 0..MaxRelabels /\ crashes \in 0..MaxCrashes
      BY DcmBoundsAssumption DEF DcmInit
    <2>5. /\ main = "boot" /\ fileEvent = "none" /\ watching = FALSE /\ lost = "no"
          /\ lastRead = configFile /\ unheard = FALSE
      BY DEF DcmInit
    <2> QED
      BY <2>1, <2>2, <2>3, <2>4, <2>5 DEF DcmTypeOK
  <1>6. WatcherInv /\ InformerInv /\ SelectInv /\ AcceptInv /\ ApplyInv /\ DeadInv
    BY <1>3, <1>4 DEF WatcherInv, InformerInv, SelectInv, AcceptInv, ApplyInv, DeadInv
  <1> QED
    BY <1>2, <1>5, <1>6 DEF DcmInv, LabelsInv

-----------------------------------------------------------------------------
\* The inductive invariant holds in every reachable state.
THEOREM DcmInvariance == DcmSpec => []DcmInv
  <1>1. DcmInv /\ [DcmNext]_dcmVars => DcmInv'
    BY LoopKept, TypesKept, InformerKept, SelectKept, ApplyKept DEF DcmInv
  <1> QED
    BY <1>1, DcmStarts, PTL DEF DcmSpec

\* The types of main, the watchers and the retry loop, across crashes.
THEOREM DcmTypeCorrect == DcmSpec => []DcmTypeOK
  BY DcmInvariance, PTL DEF DcmInv

\* A service that DCM stopped is remembered, although main starts triggers of
\* its own and a crash empties PreStateDB: what it had stopped is mislaid.
THEOREM DcmStoppedRemembered == DcmSpec => []StoppedIsRemembered
  <1>1. DcmInv => StoppedIsRemembered
    BY DEF DcmInv, RestoreInv, RecordInv, Down, StoppedIsRemembered
  <1> QED
    BY <1>1, DcmInvariance, PTL

\* When all is quiet no service that stayed listed is down because DCM stopped
\* it, those apart that a crash, a failed call or somebody else accounts for.
THEOREM DcmServicesRestored == DcmSpec => []NoServiceLeftStopped
  <1>1. DcmInv => NoServiceLeftStopped
    BY AlwaysListedFacts
    DEF DcmInv, RestoreInv, HandOverInv, NoServiceLeftStopped, Quiescent, Down
  <1> QED
    BY <1>1, DcmInvariance, PTL

\* The services are down while PartitionGPU runs, for every process.
THEOREM DcmServicesDown == DcmSpec => []ServicesStoppedDuringPartition
  <1>1. DcmInv => ServicesStoppedDuringPartition
    BY DEF DcmInv, DownInv, ServicesStoppedDuringPartition
  <1> QED
    BY <1>1, DcmInvariance, PTL

\* A relabel or an edit of config.json cancels the attempts on the profile
\* before it, after one more call of PartitionGPU at most.
THEOREM DcmPromptCancel == DcmSpec => []CancelIsPrompt
  <1>1. DcmInv => CancelIsPrompt
    BY DEF DcmInv, IInv, LateInv, RunOK, CancelIsPrompt
  <1> QED
    BY <1>1, DcmInvariance, PTL

\* Once main is up, the label only ever goes on to a newer goroutine's report,
\* until a crash.
LabelsInOrderWhileUp == [][main' = "up" => labelRun' >= labelRun]_<<main, labelRun>>

\* The retry loop's order of reports, in every process.
THEOREM DcmLabelOrder == DcmSpec => LabelsInOrderWhileUp
  <1>1. ASSUME DcmInv, [DcmNext]_dcmVars, main' = "up"
        PROVE  labelRun' >= labelRun
    <2>1. CASE [Next]_vars
      BY <1>1, <2>1, NextLabel DEF DcmInv
    <2>2. CASE TouchFile
      <3>1. labelRun' = labelRun /\ labelRun \in Nat
        BY <1>1, <2>2, BoundsAssumption DEF TouchFile, labelVars, DcmInv, IInv, TypeOK, Runs
      <3> QED
        BY <3>1
    <2>3. CASE MainDeletesLabel \/ Crash
      BY <1>1, <2>3 DEF MainDeletesLabel, Crash
    <2> QED
      BY <1>1, <2>1, <2>2, <2>3, LoopSteps DEF DcmInv
  <1>2. DcmInv /\ [DcmNext]_dcmVars => [main' = "up" => labelRun' >= labelRun]_<<main, labelRun>>
    BY <1>1
  <1> QED
    BY <1>2, DcmInvariance, PTL DEF DcmSpec, LabelsInOrderWhileUp

\* One RetryPartition goroutine at a time in every process.
THEOREM DcmMutualExclusion == DcmSpec => []AtMostOneRetryPartition
  <1>1. DcmInv => AtMostOneRetryPartition
    BY DEF DcmInv, IInv, WaitGroupInv, AtMostOneRetryPartition
  <1> QED
    BY <1>1, DcmInvariance, PTL

\* When all is quiet the last goroutine has read what config.json holds, for
\* every order of edits, file events, renewed watches, triggers and attempts,
\* unless an edit went unheard.
THEOREM ConfigApplied == DcmSpec => []ConfigIsApplied
  <1>1. DcmInv => ConfigIsApplied
    <2> SUFFICES ASSUME DcmInv, Settled, spawned > 0, ~unheard PROVE lastRead = configFile
      BY DEF ConfigIsApplied
    <2>1. spawned \in Runs
      BY BoundsAssumption DEF DcmInv, IInv, TypeOK, Runs
    <2>2. ~Active(spawned) /\ retryCh = <<>> /\ worker.pc = "recv"
      BY <2>1 DEF Settled, Quiescent
    <2> QED
      BY <2>2 DEF DcmInv, ApplyInv, Settled, Active
  <1> QED
    BY <1>1, DcmInvariance, PTL

\* The label of an earlier process is gone before this one writes its own, if
\* label writes succeed.
THEOREM NothingFromTheDead ==
  ASSUME ~ApiMayFail
  PROVE  DcmSpec => []NoReportFromTheDead
  <1>1. LabelsInv => NoReportFromTheDead
    BY DEF LabelsInv, DeadInv, NoReportFromTheDead
  <1>2. DcmInv /\ LabelsInv /\ [DcmNext]_dcmVars => LabelsInv'
    BY LabelsKept
  <1> QED
    BY <1>1, <1>2, DcmStarts, DcmInvariance, PTL DEF DcmSpec

\* When all is quiet the selected profile has run last and the state label is
\* its result, for every order of label changes, informer deliveries, file
\* events and triggers, unless the selection was missed and if label writes
\* succeed.
THEOREM SelectedReported ==
  ASSUME ~ApiMayFail
  PROVE  DcmSpec => []SelectedIsReported
  <1>1. DcmInv /\ LabelsInv => SelectedIsReported
    <2> SUFFICES ASSUME DcmInv, LabelsInv, Settled, profileLabel # NoProfile, lost = "no"
                 PROVE  /\ SelectedRanLast /\ labelRun = spawned
                        /\ stateLabel \in {"success", "failure"}
      BY DEF SelectedIsReported
    <2>1. main = "up" /\ lw.pc = "idle" /\ updates = <<>> /\ Quiescent
      BY DEF Settled
    <2>2. lastAccepted = profileLabel
      BY <2>1 DEF DcmInv, SelectInv
    <2>3. spawned > 0
      BY <2>1, <2>2 DEF DcmInv, AcceptInv, Quiescent
    <2>4. spawned \in Runs
      BY <2>3, BoundsAssumption DEF DcmInv, IInv, TypeOK, Runs
    <2>5. run[spawned].pc = "done"
      BY <2>1, <2>3, <2>4 DEF Quiescent, Active, LabelsInv, VerdictInv
    <2>6. run[spawned].profile = lastAccepted /\ ~run[spawned].cancelled
      BY <2>1, <2>3 DEF Quiescent, DcmInv, TrackInv
    <2> QED
      BY <2>2, <2>3, <2>5, <2>6 DEF LabelsInv, VerdictInv, HasVerdict, SelectedRanLast
  <1>2. DcmInv /\ LabelsInv /\ [DcmNext]_dcmVars => LabelsInv'
    BY LabelsKept
  <1> QED
    BY <1>1, <1>2, DcmStarts, DcmInvariance, PTL DEF DcmSpec

-----------------------------------------------------------------------------
(***************************************************************************)
(* The refinement of RestartableJob.                                       *)
(***************************************************************************)

\* RestartableJob under the refinement mapping, in terms of LatestJob's.
LEMMA RestartMapping ==
  /\ Restarts!RestartInit <=> Jobs!JobInit /\ main = "boot"
  /\ UNCHANGED Restarts!restartVars <=> /\ UNCHANGED Jobs!jobVars
                                        /\ (main # "boot")' = (main # "boot")
  /\ Restarts!ClearLabel <=> /\ main = "boot" /\ main' # "boot"
                             /\ stateLabel' \in {stateLabel, "none"}
                             /\ UNCHANGED <<Waiting, Job, Reported>>
  /\ Restarts!Die <=> /\ main # "boot" /\ main' = "boot"
                      /\ Waiting' = <<>> /\ Job' = NoProfile /\ Reported' = FALSE
                      /\ UNCHANGED stateLabel
  /\ Restarts!JobNext <=> Jobs!JobNext
  BY DEF Restarts!RestartInit, Restarts!restartVars, Restarts!jobVars, Restarts!JobInit,
         Restarts!ClearLabel, Restarts!Die, Restarts!JobNext, Restarts!Submit, Restarts!Begin,
         Restarts!Announce, Restarts!Report, Restarts!End, Restarts!Refuse, Restarts!Verdicts,
         Jobs!JobInit, Jobs!jobVars, Jobs!JobNext, Jobs!Submit, Jobs!Begin, Jobs!Announce,
         Jobs!Report, Jobs!End, Jobs!Refuse, Jobs!Verdicts, Job, Reported

\* A step after main has deleted the label is one of LatestJob's.
LEMMA LivingStep ==
  ASSUME DcmInv, [Next]_vars, (main # "boot")' = (main # "boot"),
         UNCHANGED vars \/ main # "boot"
  PROVE  [Restarts!RestartNext]_(Restarts!restartVars)
  <1>1. CASE UNCHANGED vars
    <2>1. UNCHANGED <<retryCh, worker, run, stateLabel>>
      BY <1>1 DEF vars, workerVars, labelVars
    <2>2. UNCHANGED <<Waiting, Job, Reported>>
      BY <2>1 DEF Waiting, Job, Reported, Current, Active
    <2> QED
      BY <2>1, <2>2, Mapping, RestartMapping
  <1>2. CASE main # "boot"
    <2>1. [Jobs!JobNext]_(Jobs!jobVars)
      BY NextJobs DEF DcmInv
    <2>2. CASE UNCHANGED Jobs!jobVars
      BY <2>2, RestartMapping
    <2>3. CASE Jobs!JobNext
      BY <1>2, <2>3, RestartMapping DEF Restarts!RestartNext
    <2> QED
      BY <2>1, <2>2, <2>3
  <1> QED
    BY <1>1, <1>2

\* Every step of the process is one of RestartableJob's, or changes nothing
\* that it sees.
LEMMA RestartStep ==
  ASSUME DcmInv, [DcmNext]_dcmVars
  PROVE  [Restarts!RestartNext]_(Restarts!restartVars)
  <1>1. CASE MainDeletesLabel
    <2>1. /\ main = "boot" /\ main' # "boot" /\ UNCHANGED <<retryCh, worker, run>>
          /\ stateLabel' \in {stateLabel, "none"}
      BY <1>1 DEF MainDeletesLabel, DeleteStateLabel, workerVars, labelVars
    <2>2. UNCHANGED <<Waiting, Job, Reported>>
      BY <2>1 DEF Waiting, Job, Reported, Current, Active
    <2>3. Restarts!ClearLabel
      BY <2>1, <2>2, RestartMapping
    <2> QED
      BY <2>3 DEF Restarts!RestartNext
  <1>2. CASE Crash
    <2>1. /\ main # "boot" /\ main' = "boot" /\ UNCHANGED stateLabel
          /\ retryCh' = <<>> /\ worker'.pc = "recv" /\ run' = [r \in Runs |-> NoRun]
      BY <1>2 DEF Crash
    <2>2. \A r \in Runs : ~Active(r)'
      BY <2>1 DEF Active, NoRun, Goroutine
    <2>3. Waiting' = <<>>
      BY <2>1 DEF Waiting
    <2>4. Restarts!Die
      BY <2>1, <2>2, <2>3, JobOfNone, RestartMapping
    <2> QED
      BY <2>4 DEF Restarts!RestartNext
  <1>3. CASE TouchFile \/ EditFile \/ MainReadsProfile
    <2>1. /\ UNCHANGED <<retryCh, worker, run, stateLabel>> /\ (main # "boot")' = (main # "boot")
      BY <1>3 DEF TouchFile, EditFile, EditConfig, MainReadsProfile, vars, workerVars, labelVars, mainVars
    <2>2. UNCHANGED <<Waiting, Job, Reported>>
      BY <2>1 DEF Waiting, Job, Reported, Current, Active
    <2> QED
      BY <2>1, <2>2, Mapping, RestartMapping
  <1>4. CASE [Next]_vars /\ ~(MainDeletesLabel \/ MainReadsProfile \/ EditFile \/ TouchFile \/ Crash)
    <2>1. /\ (main # "boot")' = (main # "boot")
          /\ UNCHANGED vars \/ main # "boot"
      <3>1. CASE MainStarts
        BY <3>1 DEF MainStarts
      <3>2. CASE RetryLoopStep
        BY <3>2, LoopIsUp DEF RetryLoopStep, mainVars
      <3>3. CASE NodeLabelWatcher \/ FileWatcher
        BY <3>3, WatcherSteps DEF mainVars
      <3>4. CASE ChangeLabel \/ DcmIdle \/ UNCHANGED dcmVars
        BY <3>4 DEF ChangeLabel, DcmIdle, dcmVars, mainVars
      <3> QED
        BY <1>4, <3>1, <3>2, <3>3, <3>4 DEF DcmNext
    <2> QED
      BY <1>4, <2>1, LivingStep
  <1> QED
    BY <1>1, <1>2, <1>3, <1>4, LoopSteps DEF DcmInv

\* The process implements RestartableJob, for every order of label changes,
\* file events, triggers, attempts and crashes, failing label writes included.
THEOREM RestartRefinement == DcmSpec => ImplementsRestartableJob
  <1>1. DcmInit => Restarts!RestartInit
    BY InitJobs, RestartMapping DEF DcmInit
  <1>2. DcmInv /\ [DcmNext]_dcmVars => [Restarts!RestartNext]_(Restarts!restartVars)
    BY RestartStep
  <1> QED
    BY <1>1, <1>2, DcmInvariance, PTL
    DEF DcmSpec, ImplementsRestartableJob, Restarts!RestartSpec

=============================================================================

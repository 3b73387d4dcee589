--------------------------------- MODULE Dcm ---------------------------------
(***************************************************************************)
(* The process: cmd/deviceconfigmanager/main.go and the two watchers of    *)
(* configmanager.go, composed with the retry loop they trigger.  The node  *)
(* label gpu-config-profile selects the profile; the label watcher hears   *)
(* of its changes from an informer, the file watcher of changes of         *)
(* config.json from fsnotify, and both read the label from the API server  *)
(* before they trigger.                                                    *)
(*                                                                         *)
(* External: the informer delivers the changes made after its first list,  *)
(* in order; fsnotify reports a change of a file that is watched, loses    *)
(* the watch when the file is replaced (as a config map volume does), and  *)
(* forgets what it has queued for a watch that is removed.                 *)
(***************************************************************************)
EXTENDS RetryLoop

CONSTANTS
  GetMayFail,       \* whether reading the node label may fail
  MaxRelabels,      \* bound: changes of the node label
  MaxCrashes        \* bound: crashes of the process

ASSUME GetMayFailAssumption == GetMayFail \in BOOLEAN
ASSUME DcmBoundsAssumption == MaxRelabels \in Nat /\ MaxCrashes \in Nat

VARIABLES
  main,             \* where main is
  selectedProfile,  \* main's selectedProfile
  profileLabel,     \* the node label gpu-config-profile, NoProfile if unset
  lw,               \* the label watcher, and the profile it has read
  informerCache,    \* the label as the informer knows it
  updates,          \* label changes the informer has to deliver
  fw,               \* the file watcher, and the profile it has read
  watching,         \* whether fsnotify watches config.json
  fileEvent,        \* the event fsnotify has to deliver
  lost,             \* history: how the selected profile was last missed
  lastRead,         \* history: config.json as a goroutine read it last
  unheard,          \* history: whether a change of it since went unheard
  relabels, crashes \* how often the bounded environment moved

watcherVars == <<lw, informerCache, updates, fw, watching, fileEvent>>
fileHistory == <<lastRead, unheard>>
mainVars == <<main, selectedProfile, profileLabel, relabels, crashes>>
dcmVars == <<vars, mainVars, watcherVars, lost, fileHistory>>

Labels == Profiles \union {NoProfile}
Watcher(pcs) == [pc : pcs, prof : Labels]
At(pc) == [pc |-> pc, prof |-> NoProfile]

DcmTypeOK ==
  /\ TypeOK
  /\ main \in {"boot", "read", "start", "up"}
  /\ {selectedProfile, profileLabel, informerCache} \subseteq Labels
  /\ lw \in Watcher({"off", "sync", "idle", "get", "send"})
  /\ fw \in Watcher({"off", "add", "blocked", "idle", "get", "send", "rearm"})
  /\ updates \in Seq(Labels)
  /\ fileEvent \in {"none", "change", "attrib"}
  /\ watching \in BOOLEAN
  /\ lost \in {"no", "ignored", "stale", "unread", "unseen"}
  /\ lastRead \in ConfigMaps
  /\ unheard \in BOOLEAN
  /\ relabels \in 0..MaxRelabels
  /\ crashes \in 0..MaxCrashes

DcmInit ==
  /\ Init
  /\ main = "boot"
  /\ selectedProfile = NoProfile
  /\ profileLabel \in Labels
  /\ lw = At("off")
  /\ informerCache = NoProfile
  /\ updates = <<>>
  /\ fw = At("off")
  /\ watching = FALSE
  /\ fileEvent = "none"
  /\ lost = "no"
  /\ lastRead = configFile
  /\ unheard = FALSE
  /\ relabels = 0
  /\ crashes = 0

-----------------------------------------------------------------------------
(***************************************************************************)
(* main                                                                    *)
(***************************************************************************)

\* Mutant: the state label of the last process is left alone.
KeepStateLabel == UNCHANGED labelVars

\* DeleteNodeLabel(nodeName, StateLabelKey); an error is only logged.
DeleteStateLabel ==
  \/ stateLabel' = "none" /\ labelRun' = 0
  \/ ApiMayFail /\ UNCHANGED labelVars

MainDeletesLabel ==
  /\ main = "boot"
  /\ DeleteStateLabel
  /\ main' = "read"
  /\ UNCHANGED <<serviceVars, workerVars, wg, run, envVars, selectedProfile,
                 profileLabel, relabels, crashes, watcherVars, lost, fileHistory>>

\* On an error main returns, and the container starts over as it was.
MainReadsProfile ==
  /\ main = "read"
  /\ selectedProfile' = profileLabel
  /\ main' = "start"
  /\ UNCHANGED <<vars, profileLabel, relabels, crashes, watcherVars, lost, fileHistory>>

\* go Worker(), the initial trigger, and the two watchers.
MainStarts ==
  /\ main = "start"
  /\ IF selectedProfile = NoProfile THEN UNCHANGED vars
                                    ELSE TriggerRetryLoop(selectedProfile)
  /\ main' = "up"
  /\ lw' = At("sync")
  /\ fw' = At("add")
  /\ UNCHANGED <<selectedProfile, profileLabel, relabels, crashes,
                 informerCache, updates, watching, fileEvent, lost, fileHistory>>

-----------------------------------------------------------------------------
(***************************************************************************)
(* What both watchers do.                                                  *)
(***************************************************************************)

\* What GetPartitionProfile() may answer; "" on an error.
GetPartitionProfile == {profileLabel} \union (IF GetMayFail THEN {NoProfile} ELSE {})

\* Mutant: a trigger takes the place of the pending one.
WatcherReplaces(p) ==
  /\ retryCh # <<>> \/ spawned + Pending < MaxRuns
  /\ retryCh' = <<p>>
  /\ lastAccepted' = p
  /\ lost' = IF p = profileLabel THEN "no" ELSE "stale"
  /\ UNCHANGED <<serviceVars, worker, cancelFunc, spawned, wg, run, labelVars, envVars>>

(***************************************************************************)
(* TriggerRetryLoop from a watcher.  The selected profile is missed if its *)
(* trigger is ignored with another profile pending, or if a trigger with a *)
(* profile that is no longer selected is accepted.                         *)
(***************************************************************************)
WatcherTriggers(p) ==
  /\ TriggerRetryLoop(p)
  /\ lost' = IF retryCh = <<>> THEN IF p = profileLabel THEN "no" ELSE "stale"
             ELSE IF p # profileLabel THEN lost
             ELSE IF retryCh = <<p>> THEN "no" ELSE "ignored"

\* A watcher that was not told the profile does not trigger.
WatcherReads(p) ==
  /\ p \in GetPartitionProfile
  /\ lost' = IF p = NoProfile /\ profileLabel # NoProfile THEN "unread" ELSE lost

-----------------------------------------------------------------------------
(***************************************************************************)
(* NodeLabelWatcher: only UpdateFunc is handled, so that what the first    *)
(* list shows is compared with nothing.                                    *)
(***************************************************************************)
InformerSyncs ==
  /\ lw.pc = "sync"
  /\ informerCache' = profileLabel
  /\ lw' = At("idle")
  /\ lost' = IF profileLabel # lastAccepted THEN "unseen" ELSE lost
  /\ UNCHANGED <<vars, mainVars, updates, fw, watching, fileEvent, fileHistory>>

\* Mutant: a label that was not set before does not count as a change.
ChangedIfPresent(old, new) == new # NoProfile /\ old # NoProfile /\ old # new

\* The condition of printAndApplyLabelChanges.
LabelChanged(old, new) == new # NoProfile /\ old # new

LabelUpdate ==
  /\ lw.pc = "idle"
  /\ updates # <<>>
  /\ updates' = Tail(updates)
  /\ informerCache' = Head(updates)
  /\ lw' = At(IF LabelChanged(informerCache, Head(updates)) THEN "get" ELSE "idle")
  /\ UNCHANGED <<vars, mainVars, fw, watching, fileEvent, lost, fileHistory>>

LabelRead ==
  /\ lw.pc = "get"
  /\ \E p \in Labels :
       /\ WatcherReads(p)
       /\ lw' = [pc |-> IF p = NoProfile THEN "idle" ELSE "send", prof |-> p]
  /\ UNCHANGED <<vars, mainVars, informerCache, updates, fw, watching, fileEvent, fileHistory>>

LabelTrigger ==
  /\ lw.pc = "send"
  /\ WatcherTriggers(lw.prof)
  /\ lw' = At("idle")
  /\ UNCHANGED <<mainVars, informerCache, updates, fw, watching, fileEvent, fileHistory>>

NodeLabelWatcher == InformerSyncs \/ LabelUpdate \/ LabelRead \/ LabelTrigger

-----------------------------------------------------------------------------
(***************************************************************************)
(* StartFileWatcher.  Without the file it blocks for ever; after every     *)
(* event it removes the watch and adds it again, without a look at errors. *)
(***************************************************************************)
FileWatchAdd ==
  /\ fw.pc = "add"
  /\ watching' = configFile.present
  /\ fw' = At(IF configFile.present THEN "idle" ELSE "blocked")
  /\ UNCHANGED <<vars, mainVars, lw, informerCache, updates, fileEvent, lost, fileHistory>>

FileEvent ==
  /\ fw.pc = "idle"
  /\ fileEvent # "none"
  /\ fileEvent' = "none"
  /\ fw' = At(IF fileEvent = "change" THEN "get" ELSE "rearm")
  /\ UNCHANGED <<vars, mainVars, lw, informerCache, updates, watching, lost, fileHistory>>

FileRead ==
  /\ fw.pc = "get"
  /\ \E p \in Labels :
       /\ WatcherReads(p)
       /\ fw' = [pc |-> IF p = NoProfile THEN "rearm" ELSE "send", prof |-> p]
       /\ unheard' = (unheard \/ p = NoProfile)
  /\ UNCHANGED lastRead
  /\ UNCHANGED <<vars, mainVars, lw, informerCache, updates, watching, fileEvent>>

FileTrigger ==
  /\ fw.pc = "send"
  /\ WatcherTriggers(fw.prof)
  /\ fw' = At("rearm")
  /\ UNCHANGED <<mainVars, lw, informerCache, updates, watching, fileEvent, fileHistory>>

(***************************************************************************)
(* watcher.Remove and watcher.Add.  An event of the old watch which        *)
(* fsnotify is handing over survives; one it has only queued is skipped,   *)
(* since its watch is gone.                                                *)
(***************************************************************************)
FileRearm ==
  /\ fw.pc = "rearm"
  /\ watching' = configFile.present
  /\ fileEvent' \in {fileEvent, "none"}
  /\ unheard' = (unheard \/ (fileEvent = "change" /\ fileEvent' = "none"))
  /\ fw' = At("idle")
  /\ UNCHANGED <<vars, mainVars, lw, informerCache, updates, lost, lastRead>>

FileWatcher == FileWatchAdd \/ FileEvent \/ FileRead \/ FileTrigger \/ FileRearm

-----------------------------------------------------------------------------
(***************************************************************************)
(* The environment.                                                        *)
(***************************************************************************)
ChangeLabel ==
  /\ relabels < MaxRelabels
  /\ relabels' = relabels + 1
  /\ profileLabel' \in Labels \ {profileLabel}
  /\ updates' = IF lw.pc \in {"off", "sync"} THEN updates
                ELSE Append(updates, profileLabel')
  /\ UNCHANGED <<vars, main, selectedProfile, crashes, lw, informerCache, fw,
                 watching, fileEvent, lost, fileHistory>>

EditFile ==
  /\ EditConfig
  /\ fileEvent' = IF watching THEN "change" ELSE fileEvent
  /\ watching' \in IF watching /\ configFile'.present THEN BOOLEAN ELSE {FALSE}
  /\ unheard' = (unheard \/ ~watching)
  /\ UNCHANGED <<mainVars, lw, informerCache, updates, fw, lost, lastRead>>

\* An event that is no change of the contents.
TouchFile ==
  /\ watching
  /\ fileEvent = "none"
  /\ edits < MaxEdits
  /\ edits' = edits + 1
  /\ fileEvent' = "attrib"
  /\ UNCHANGED <<serviceVars, workerVars, wg, run, labelVars, configFile, flips,
                 mainVars, lw, informerCache, updates, fw, watching, lost, fileHistory>>

\* The process dies, by a panic or from outside, and the container is started
\* again: what is left is the node's labels, the file and the units.
Crash ==
  /\ main # "boot"
  /\ crashes < MaxCrashes
  /\ crashes' = crashes + 1
  /\ main' = "boot"
  /\ selectedProfile' = NoProfile
  /\ PreStateDB' = EmptyDB
  /\ retryCh' = <<>>
  /\ worker' = [pc |-> "recv", prof |-> NoProfile]
  /\ cancelFunc' = 0
  /\ wg' = 0
  /\ run' = [r \in Runs |-> NoRun]
  /\ spawned' = 0
  /\ labelRun' = 0
  /\ lastAccepted' = NoProfile
  /\ lw' = At("off")
  /\ informerCache' = NoProfile
  /\ updates' = <<>>
  /\ fw' = At("off")
  /\ watching' = FALSE
  /\ fileEvent' = "none"
  /\ lost' = "no"
  /\ unheard' = FALSE
  /\ mislaid' = mislaid \union stoppedByDCM
  /\ UNCHANGED <<lastRead, units, stoppedByDCM, missed, stateLabel, envVars, profileLabel, relabels>>

Settled ==
  /\ main = "up"
  /\ Quiescent
  /\ lw.pc = "idle" /\ updates = <<>>
  /\ fw.pc \in {"idle", "blocked"} /\ fileEvent = "none"

DcmIdle == Settled /\ UNCHANGED dcmVars

\* The steps at which a goroutine reads config.json.
Reads == \E r \in Runs : run[r].pc \in {"load", "partition"} /\ run'[r].pc # run[r].pc

RetryLoopStep ==
  /\ Worker \/ \E r \in Runs : RetryPartition(r)
  /\ lastRead' = IF Reads THEN configFile ELSE lastRead
  /\ unheard' = (unheard /\ ~Reads)
  /\ UNCHANGED <<mainVars, watcherVars, lost>>

DcmNext ==
  \/ MainDeletesLabel \/ MainReadsProfile \/ MainStarts
  \/ RetryLoopStep
  \/ NodeLabelWatcher
  \/ FileWatcher
  \/ ChangeLabel \/ EditFile \/ TouchFile
  \/ Crash
  \/ DcmIdle

DcmSpec == DcmInit /\ [][DcmNext]_dcmVars

-----------------------------------------------------------------------------
(***************************************************************************)
(* Properties.                                                             *)
(***************************************************************************)

\* The profile the node label selects is the one that ran last.
SelectedRanLast == spawned > 0 /\ run[spawned].profile = profileLabel

\* When all is quiet, the profile that the node label selects is the one
\* that ran last, and the state label is its result in this process, unless
\* the selection was missed: its trigger ignored with another profile
\* pending, overtaken by the file watcher's older one, not readable, or made
\* before the informer's first list (label writes succeeding).
SelectedIsReported ==
  Settled /\ profileLabel # NoProfile /\ lost = "no" =>
    /\ SelectedRanLast
    /\ labelRun = spawned
    /\ stateLabel \in {"success", "failure"}

\* When all is quiet and a profile is selected, what the last goroutine read
\* is what config.json holds, although edits come while an attempt is under
\* way and their triggers may find the channel full; unless an edit came while
\* the file was not watched (before the watch was added, after the file was
\* replaced or when it was absent), its event was skipped as the watch was
\* renewed, or the label could not be read after it.
ConfigIsApplied ==
  Settled /\ profileLabel # NoProfile /\ spawned > 0 /\ ~unheard =>
    lastRead = configFile

\* Once the process is up, the state label is not the report of the process
\* before it: main has deleted that (label writes succeeding).
NoReportFromTheDead == main = "up" /\ labelRun = 0 => stateLabel = "none"

\* When all is quiet, "success" is the report on the profile that the node
\* label selects, if the informer saw all its changes.
SuccessIsForSelected ==
  Settled /\ profileLabel # NoProfile /\ lost # "unseen" /\ stateLabel = "success"
    => SelectedRanLast

=============================================================================

------------------------------ MODULE LatestJob ------------------------------
(***************************************************************************)
(* What the watchers and a user who watches the state label may rely on of *)
(* the retry loop, without its goroutines, contexts, services and timers:  *)
(* one job at a time, jobs begun in the order they were submitted, each    *)
(* given up only for a newer one or after a verdict on it was reported,    *)
(* and a label that only the job under way touches.                        *)
(***************************************************************************)
EXTENDS Naturals, Sequences

CONSTANTS
  Profiles,
  NoJob

VARIABLES
  queue,        \* jobs submitted and not begun: one held, one in the channel
  job,          \* the job under way, NoJob if there is none
  reported,     \* whether a verdict on it has been reported
  label         \* the state label

jobVars == <<queue, job, reported, label>>

Verdicts == {"success", "failure"}

JobInit ==
  /\ queue = <<>>
  /\ job = NoJob
  /\ reported = FALSE
  /\ label = "none"

Submit(p) ==
  /\ Len(queue) < 2
  /\ queue' = Append(queue, p)
  /\ UNCHANGED <<job, reported, label>>

Begin ==
  /\ job = NoJob
  /\ queue # <<>>
  /\ job' = Head(queue)
  /\ queue' = Tail(queue)
  /\ UNCHANGED <<reported, label>>

\* "in-progress", before any verdict on the job.
Announce ==
  /\ job # NoJob
  /\ ~reported
  /\ label' = "in-progress"
  /\ UNCHANGED <<queue, job, reported>>

\* A verdict; its write may fail.
Report(v) ==
  /\ job # NoJob
  /\ reported' = TRUE
  /\ label' \in {label, v}
  /\ UNCHANGED <<queue, job>>

\* The end, after a verdict or for the sake of a newer job.
End ==
  /\ job # NoJob
  /\ reported \/ queue # <<>>
  /\ job' = NoJob
  /\ reported' = FALSE
  /\ UNCHANGED <<queue, label>>

\* No config.json that can be read: a failure, and the end.
Refuse ==
  /\ job # NoJob
  /\ job' = NoJob
  /\ reported' = FALSE
  /\ label' \in {label, "failure"}
  /\ UNCHANGED queue

JobNext ==
  \/ \E p \in Profiles : Submit(p)
  \/ Begin \/ Announce \/ End \/ Refuse
  \/ \E v \in Verdicts : Report(v)

JobSpec == JobInit /\ [][JobNext]_jobVars

=============================================================================

---------------------------- MODULE RestartableJob ----------------------------
(***************************************************************************)
(* What they may rely on of the process, which dies and is started again:  *)
(* a runner of jobs as LatestJob is one, that forgets its jobs when it     *)
(* dies and leaves the label as it was, and that takes jobs only after it  *)
(* has tried to clear the label.                                           *)
(***************************************************************************)
EXTENDS LatestJob

VARIABLE up       \* whether the process has tried to clear the label

restartVars == <<jobVars, up>>

RestartInit == JobInit /\ up = FALSE

\* The label is cleared, unless the write fails.
ClearLabel ==
  /\ ~up
  /\ up' = TRUE
  /\ label' \in {label, "none"}
  /\ UNCHANGED <<queue, job, reported>>

Die ==
  /\ up
  /\ up' = FALSE
  /\ queue' = <<>>
  /\ job' = NoJob
  /\ reported' = FALSE
  /\ UNCHANGED label

RestartNext ==
  \/ ClearLabel
  \/ Die
  \/ up /\ JobNext /\ UNCHANGED up

RestartSpec == RestartInit /\ [][RestartNext]_restartVars

=============================================================================

------------------------------- MODULE DcmJobs -------------------------------
(***************************************************************************)
(* Dcm implements RestartableJob.                                          *)
(***************************************************************************)
EXTENDS Dcm, RetryLoopJobs

Restarts == INSTANCE RestartableJob WITH
              NoJob <- NoProfile,
              queue <- Waiting,
              job <- IF Current = {} THEN NoProfile ELSE run[CHOOSE r \in Current : TRUE].profile,
              reported <- \E r \in Current : run[r].attempts > 0,
              label <- stateLabel,
              up <- main # "boot"

\* With main, the two watchers and the environment around it, and across
\* crashes, the retry loop is still the runner of one job at a time that drops
\* no accepted trigger while the process lives; main deletes the state label
\* before anything is triggered, and nobody but the goroutine under way writes
\* it afterwards.
ImplementsRestartableJob == Restarts!RestartSpec

=============================================================================

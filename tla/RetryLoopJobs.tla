---------------------------- MODULE RetryLoopJobs ----------------------------
(***************************************************************************)
(* RetryLoop implements LatestJob.                                         *)
(***************************************************************************)
EXTENDS RetryLoop

\* The trigger that Worker holds is older than the one in the channel.
Waiting == (IF worker.pc = "recv" THEN <<>> ELSE <<worker.prof>>) \o retryCh

\* The goroutine under way, of which there is at most one.
Current == {r \in Runs : Active(r)}

Jobs == INSTANCE LatestJob WITH
          NoJob <- NoProfile,
          queue <- Waiting,
          job <- IF Current = {} THEN NoProfile ELSE run[CHOOSE r \in Current : TRUE].profile,
          reported <- \E r \in Current : run[r].attempts > 0,
          label <- stateLabel

\* Cancellation, retries, expiry and failing calls included, the retry loop
\* is a runner of one job at a time that drops no trigger it has accepted and
\* gives up a job without a verdict only for a newer one, or if config.json
\* cannot be read.
ImplementsLatestJob == Jobs!JobSpec

=============================================================================

-------------------------- MODULE MCAnalysisControl --------------------------
(* Instances of AnalysisControl for TLC. *)
EXTENDS AnalysisControl, TLC

CONSTANTS w1, w2, d1, d2, r1, r2

\* Where no job can be stale, recoverStaleJobs changes no job: nothing is lost
\* if a chain of awaits that is in it is the next to move.
InRecovery == {th \in Thread : thread[th].pc \in {"requeue", "exhaust"}}

RecoveryAtOnce == InRecovery # {} => \E th \in InRecovery : thread'[th] # thread[th]
=============================================================================

--------------------------- MODULE MCRunLifecycle ---------------------------
(* RunLifecycle for TLC.                                                   *)
EXTENDS RunLifecycle

-----------------------------------------------------------------------------
(* What run.rs and gc.rs say in comments, and TLC shows is not so.          *)

\* run.rs: once the directory exists "a failure must not leave something that
\* has neither a status nor a lock".
FailedStartLeavesTrace ==
    (pc = "returned" /\ files # {} /\ faults <= 1)
        => (lock # 0 \/ status # "none")

\* gc.rs, collect_one: a status beside a lock is that of a run "killed between
\* the two writes".  The lock goes first in every ending, so a kill alone never
\* leaves both, and where both are there the process may have returned.
LockBesideStatusIsAKill ==
    (status # "none" /\ lock # 0) => pc = "gone"
=============================================================================

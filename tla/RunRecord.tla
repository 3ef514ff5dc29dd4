------------------------------ MODULE RunRecord ------------------------------
(***************************************************************************)
(* What a run directory promises to whoever looks at it from outside:      *)
(* `gc`, `verify`, `sync`, the index.  The directory is new, then held by  *)
(* a lock, then released, and then settled once and for good.  A run is    *)
(* settled as finished only after its lock is gone; a failure may settle   *)
(* beside a lock, which `gc` removes later.                                *)
(***************************************************************************)
VARIABLE record

Records == {"new", "open", "released", "finished", "failed"}

Init == record = "new"

\* The lock appears: the run is in progress.
Open == record = "new" /\ record' = "open"

\* The lock goes before anything is concluded.
Release == record = "open" /\ record' = "released"

\* The run concludes itself; only a released run can be finished.
Finish == record = "released" /\ record' = "finished"

\* A start that failed, a failed run, or a reaped one.
Fail == record \in {"new", "open", "released"} /\ record' = "failed"

Next == Open \/ Release \/ Finish \/ Fail

Spec == Init /\ [][Next]_record
==============================================================================

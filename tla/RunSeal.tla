------------------------------- MODULE RunSeal -------------------------------
(***************************************************************************)
(* How a run is sealed: finish() hashes artifacts/ and logs/ into          *)
(* manifest.csv while stages may still be writing logs/progress.log.  The  *)
(* run's `open` flag tells a stage to stop; the stage reads the flag, then *)
(* writes.  Stages live on the run's own thread or on threads of their own.*)
(* The lock, status.json and the link are RunLifecycle's.                  *)
(*                                                                         *)
(* A file is the number of times it was written, 0 while it does not exist;*)
(* it only grows, so two contents differ when their numbers do.            *)
(***************************************************************************)
EXTENDS Naturals

CONSTANTS
    Stages,       \* the stages the program opens
    Artifacts,    \* files it writes under artifacts/
    Log,          \* logs/progress.log
    SameThread,   \* stages are ticked by the thread that finishes the run
    MaxWrites,    \* bound: writes of one file
    MaxFaults     \* bound: I/O errors

ASSUME SealAssumption ==
    /\ Log \notin Artifacts
    /\ SameThread \in BOOLEAN
    /\ MaxWrites \in Nat /\ MaxFaults \in Nat

Paths == Artifacts \cup {Log}

VARIABLES
    pc,         \* where the owner is
    open,       \* the flag: "open" or "sealed"
    disk,       \* writes of each file
    todo,       \* walked files not yet hashed
    rows,       \* what was hashed, 0 for a file without a row
    manifest,   \* manifest.csv: "absent", "begun" (created, no row yet), "whole"
    status,     \* status.json: "none", "finished" or "failed"
    at,         \* each stage: "none", "idle", "writing", "closing", "closed"
    mirror,     \* each stage's half of the log: "file" or "none"
    faults

vars == <<pc, open, disk, todo, rows, manifest, status, at, mirror, faults>>
stageVars == <<at, mirror>>

TypeOK ==
    /\ pc \in {"working", "flush", "walk", "digest", "create", "write", "record",
               "fail", "drop", "returned", "dead"}
    /\ open \in {"open", "sealed"}
    /\ disk \in [Paths -> 0..MaxWrites] /\ rows \in [Paths -> 0..MaxWrites]
    /\ todo \in SUBSET Paths
    /\ manifest \in {"absent", "begun", "whole"}
    /\ status \in {"none", "finished", "failed"}
    /\ at \in [Stages -> {"none", "idle", "writing", "closing", "closed"}]
    /\ mirror \in [Stages -> {"file", "none"}]
    /\ faults \in 0..MaxFaults

Init ==
    /\ pc = "working" /\ open = "open"
    /\ disk = [p \in Paths |-> 0] /\ rows = [p \in Paths |-> 0]
    /\ todo = {} /\ manifest = "absent" /\ status = "none"
    /\ at = [s \in Stages |-> "none"] /\ mirror = [s \in Stages |-> "none"]
    /\ faults = 0

\* A stage between reading the flag and the end of its write.
Busy(s) == at[s] \in {"writing", "closing"}

\* One thread is inside a stage or inside finish(), never in both.
OwnerRuns == SameThread => \A s \in Stages : ~Busy(s)
StageRuns == pc # "dead" /\ (SameThread => pc \in {"working", "returned"})

Goto(from, to) == pc = from /\ OwnerRuns /\ pc' = to
-----------------------------------------------------------------------------
(* The program at work.                                                    *)

SaveArtifact(p) ==
    /\ Goto("working", "working")
    /\ disk[p] < MaxWrites
    /\ disk' = [disk EXCEPT ![p] = @ + 1]
    /\ UNCHANGED <<open, todo, rows, manifest, status, stageVars, faults>>

\* Run::stage: open_log creates the mirror and the opening line follows; the
\* run is borrowed, so it is not being finished.  A log that cannot be opened
\* costs the mirror.
OpenStage(s) ==
    /\ Goto("working", "working")
    /\ at[s] = "none"
    /\ at' = [at EXCEPT ![s] = "idle"]
    /\ \/ /\ disk[Log] + 2 <= MaxWrites
          /\ mirror' = [mirror EXCEPT ![s] = "file"]
          /\ disk' = [disk EXCEPT ![Log] = IF @ = 0 THEN 2 ELSE @ + 1]
       \/ UNCHANGED <<mirror, disk>>
    /\ UNCHANGED <<open, todo, rows, manifest, status, faults>>

\* Stage::line, up to the write: a sealed run costs the stage its mirror.
Line(s, during, after) ==
    /\ StageRuns
    /\ at[s] = "idle"
    /\ IF mirror[s] = "file" /\ open = "open"
       THEN at' = [at EXCEPT ![s] = during] /\ UNCHANGED mirror
       ELSE at' = [at EXCEPT ![s] = after] /\ mirror' = [mirror EXCEPT ![s] = "none"]
    /\ UNCHANGED <<pc, open, disk, todo, rows, manifest, status, faults>>

TickStage(s) == Line(s, "writing", "idle")
CloseStage(s) == Line(s, "closing", "closed")

\* Stage::line, the write.
Append(s) ==
    /\ Busy(s) /\ pc # "dead"
    /\ at' = [at EXCEPT ![s] = IF @ = "writing" THEN "idle" ELSE "closed"]
    /\ \/ disk[Log] < MaxWrites /\ disk' = [disk EXCEPT ![Log] = @ + 1]
       \/ UNCHANGED disk
    /\ UNCHANGED <<pc, open, todo, rows, manifest, status, mirror, faults>>
-----------------------------------------------------------------------------
(* finish_inner.                                                           *)

CallFinish ==
    /\ Goto("working", "flush")
    /\ UNCHANGED <<open, disk, todo, rows, manifest, status, stageVars, faults>>

MutCloseAfterManifest ==
    /\ Goto("flush", "walk")
    /\ UNCHANGED <<open, disk, todo, rows, manifest, status, stageVars, faults>>

\* flush_writers and close_to_progress; the two meta files follow, outside
\* the hashed trees.
FlushAndClose ==
    /\ Goto("flush", "walk")
    /\ open' = "sealed"
    /\ UNCHANGED <<disk, todo, rows, manifest, status, stageVars, faults>>

\* write_manifest: the two trees are walked,
Walk ==
    /\ Goto("walk", "digest")
    /\ todo' = {p \in Paths : disk[p] > 0}
    /\ UNCHANGED <<open, disk, rows, manifest, status, stageVars, faults>>

\* every file found is hashed,
Digest(p) ==
    /\ Goto("digest", "digest") /\ p \in todo
    /\ todo' = todo \ {p}
    /\ rows' = [rows EXCEPT ![p] = disk[p]]
    /\ UNCHANGED <<open, disk, manifest, status, stageVars, faults>>

Digested ==
    /\ Goto("digest", "create") /\ todo = {}
    /\ UNCHANGED <<open, disk, todo, rows, manifest, status, stageVars, faults>>

\* csv::Writer::from_path creates the file,
CreateManifest ==
    /\ Goto("create", "write")
    /\ manifest' = "begun"
    /\ UNCHANGED <<open, disk, todo, rows, status, stageVars, faults>>

\* and its buffer reaches the file when it is flushed.
WriteManifest ==
    /\ Goto("write", "record")
    /\ manifest' = "whole"
    /\ UNCHANGED <<open, disk, todo, rows, status, stageVars, faults>>

\* The lock is gone; the shallow checks decide what status.json says.
Record ==
    /\ Goto("record", "returned")
    /\ status' \in {"finished", "failed"}
    /\ UNCHANGED <<open, disk, todo, rows, manifest, stageVars, faults>>

\* An error inside finish_inner is returned with `?`, and the run is dropped.
FinishFails ==
    /\ pc \in {"flush", "walk", "digest", "create", "write", "record"}
    /\ OwnerRuns /\ faults < MaxFaults
    /\ pc' = "drop" /\ faults' = faults + 1
    /\ UNCHANGED <<open, disk, todo, rows, manifest, status, stageVars>>

MutFailLeavesOpen ==
    /\ Goto("working", "fail")
    /\ UNCHANGED <<open, disk, todo, rows, manifest, status, stageVars, faults>>

\* Run::fail closes the run to its stages first, and writes no manifest.
CallFail ==
    /\ Goto("working", "fail")
    /\ open' = "sealed"
    /\ UNCHANGED <<disk, todo, rows, manifest, status, stageVars, faults>>

FailRecords ==
    /\ Goto("fail", "returned")
    /\ status' = "failed"
    /\ UNCHANGED <<open, disk, todo, rows, manifest, stageVars, faults>>

CallDrop ==
    /\ Goto("working", "drop")
    /\ UNCHANGED <<open, disk, todo, rows, manifest, status, stageVars, faults>>

\* Drop for Run: close, then status.json, whose error is ignored.
DropRecords ==
    /\ Goto("drop", "returned")
    /\ open' = "sealed"
    /\ \/ status' = "failed" /\ UNCHANGED faults
       \/ faults < MaxFaults /\ faults' = faults + 1 /\ UNCHANGED status
    /\ UNCHANGED <<disk, todo, rows, manifest, stageVars>>

Kill ==
    /\ pc \notin {"returned", "dead"}
    /\ pc' = "dead"
    /\ UNCHANGED <<open, disk, todo, rows, manifest, status, stageVars, faults>>

\* `runvault gc` records a killed run as failed.
GcRecords ==
    /\ pc = "dead" /\ status = "none"
    /\ status' = "failed"
    /\ UNCHANGED <<pc, open, disk, todo, rows, manifest, stageVars, faults>>

StageStep(s) == OpenStage(s) \/ TickStage(s) \/ CloseStage(s) \/ Append(s)

Next ==
    \/ \E p \in Artifacts : SaveArtifact(p)
    \/ \E s \in Stages : StageStep(s)
    \/ CallFinish \/ FlushAndClose \/ Walk \/ (\E p \in Paths : Digest(p)) \/ Digested
    \/ CreateManifest \/ WriteManifest \/ Record \/ FinishFails
    \/ CallFail \/ FailRecords \/ CallDrop \/ DropRecords \/ Kill \/ GcRecords

Spec == Init /\ [][Next]_vars
-----------------------------------------------------------------------------
(* Properties.                                                             *)

\* check_manifest_contents of verify.rs: every row is met, and no file is
\* without one, except in a failed run that has no manifest.
ManifestAgrees ==
    IF manifest = "whole" THEN \A p \in Paths : disk[p] = rows[p]
    ELSE IF manifest = "absent" /\ status = "failed" THEN TRUE
    ELSE \A p \in Paths : disk[p] = 0

\* Once its manifest is whole a run verifies, and goes on verifying: no stage,
\* whatever the order it is closed in, adds a line the manifest disagrees with.
SealedRunVerifies == manifest = "whole" \/ status = "finished" => ManifestAgrees

\* Nothing is written under artifacts/ or logs/ of a run whose outcome is
\* recorded, however it ended.
RecordedRunIsStill == [][status # "none" => disk' = disk]_vars

\* A failed run passes the manifest check: a file beside a manifest that does
\* not name it appeared after the run ended (verify.rs, the comment on
\* check_manifest_contents), and none does.
FailedRunVerifies == status = "failed" => ManifestAgrees
=============================================================================

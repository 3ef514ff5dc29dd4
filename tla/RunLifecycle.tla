---------------------------- MODULE RunLifecycle ----------------------------
(***************************************************************************)
(* One run directory, from `Run::start` to its `status.json`, shared by    *)
(* three kinds of actor: the thread that owns the `Run`, the heartbeat     *)
(* thread that rewrites `.runvault.lock`, and any number of `runvault gc`  *)
(* processes, on the same machine or on another one.  Every read and every *)
(* write of the directory is a step of its own; the owning process can be  *)
(* killed between any two, and an I/O step can fail.                       *)
(* Operators named Mut... are slips of the kind the properties below must   *)
(* notice; no specification uses them.                                     *)
(*                                                                         *)
(* Time is the age of the heartbeat in the lock, counted in ticks up to    *)
(* StaleAfter + 1; a lock record is the number of the write that made it.  *)
(***************************************************************************)
EXTENDS Naturals

CONSTANTS
    Collectors,     \* `runvault gc` processes
    Sighted,        \* those on the run's machine that can look its pid up
    DryRunners,     \* those started with --dry-run
    BeatsOnTime,    \* no owned lock ever looks older than STALE_AFTER
    StaleAfter,     \* STALE_AFTER, in ticks
    MaxBeats,       \* bound: how often the lock is written
    MaxFaults,      \* bound: I/O failures of the run
    MaxGcFaults     \* bound: I/O failures and kills of the collectors

ASSUME ConstantsAssumption ==
    /\ Sighted \subseteq Collectors
    /\ DryRunners \subseteq Collectors
    /\ BeatsOnTime \in BOOLEAN
    /\ StaleAfter \in Nat
    /\ MaxBeats \in Nat \ {0}
    /\ MaxFaults \in Nat
    /\ MaxGcFaults \in Nat

VARIABLES
    pc,         \* where the owning thread is
    path,       \* what the owner is doing: starting, or how it is ending
    heart,      \* the heartbeat thread: "beating" or "still"
    files,      \* what exists of the directory besides lock and status
    lock,       \* .runvault.lock: 0 when absent, else the write that made it
    beats,      \* lock writes so far
    age,        \* ticks since the heartbeat in the lock
    status,     \* status.json: "none", "finished", or the kind of failure
    faults,     \* I/O failures of the run so far
    gpc,        \* where each collector is
    seen,       \* the lock record each collector read first
    gcfaults    \* I/O failures and kills of collectors so far

runVars == <<pc, path, heart, faults>>
diskVars == <<files, lock, beats, age, status>>
gcVars == <<gpc, seen, gcfaults>>
vars == <<runVars, diskVars, gcVars>>

Points == {"call", "locks", "config", "run", "lock", "spawn", "abort",
           "declare", "open", "flush", "meta", "manifest", "stop", "unlock",
           "verify", "status", "link", "returned", "gone"}
Paths == {"start", "aborted", "finish", "refused", "fail", "drop", "unwind"}
Kinds == {"none", "finished", "start", "verify", "declared", "dropped", "killed"}
FileNames == {"dir", "config", "run", "manifest"}
GcPoints == {"idle", "repair", "read", "judge", "reread", "remove", "write",
             "recheck", "retract"}

TypeOK ==
    /\ pc \in Points /\ path \in Paths
    /\ heart \in {"beating", "still"}
    /\ files \in SUBSET FileNames
    /\ beats \in 0..MaxBeats /\ lock \in 0..beats
    /\ age \in 0..(StaleAfter + 1)
    /\ status \in Kinds
    /\ faults \in 0..MaxFaults /\ gcfaults \in 0..MaxGcFaults
    /\ gpc \in [Collectors -> GcPoints]
    /\ seen \in [Collectors -> 0..MaxBeats]

Init ==
    /\ pc = "call" /\ path = "start" /\ heart = "still"
    /\ files = {} /\ lock = 0 /\ beats = 0 /\ age = 0 /\ status = "none"
    /\ faults = 0 /\ gcfaults = 0
    /\ gpc = [c \in Collectors |-> "idle"]
    /\ seen = [c \in Collectors |-> 0]

\* The process is alive and between `start` and the end of the run.
Owned == pc \notin {"call", "returned", "gone"}

\* paths::is_run_dir: what gc::collect visits.
IsRunDir == "run" \in files \/ status # "none" \/ lock # 0

-----------------------------------------------------------------------------
(* Building blocks of the owner's steps.                                   *)

At(p) == pc = p

Goto(p) == pc' = p /\ UNCHANGED <<path, faults>>

Enter(way, p) == path' = way /\ pc' = p /\ UNCHANGED faults

\* An I/O step that fails sends the owner down another path.
FaultTo(way, p) ==
    /\ faults < MaxFaults
    /\ faults' = faults + 1
    /\ path' = way
    /\ pc' = p

WriteLock ==
    /\ beats < MaxBeats
    /\ beats' = beats + 1
    /\ lock' = beats + 1
    /\ age' = 0

RemoveLock == lock' = 0 /\ UNCHANGED <<beats, age>>

LockUnchanged == UNCHANGED <<lock, beats, age>>
-----------------------------------------------------------------------------
(* Run::start.                                                             *)

\* Everything before the directory exists either works or returns an error.
RefuseStart ==
    /\ At("call") /\ Goto("returned")
    /\ UNCHANGED <<heart, diskVars, gcVars>>

CreateRunDir ==
    /\ At("call") /\ Goto("locks")
    /\ files' = {"dir"}
    /\ LockUnchanged /\ UNCHANGED <<heart, status, gcVars>>

\* A copy that fails returns at once: nothing is recorded.
MaterializeLocks ==
    /\ At("locks")
    /\ Goto("config") \/ FaultTo("start", "returned")
    /\ UNCHANGED <<heart, diskVars, gcVars>>

WriteConfig ==
    /\ At("config")
    /\ \/ Goto("run") /\ files' = files \cup {"config"}
       \/ FaultTo("aborted", "abort") /\ UNCHANGED files
    /\ LockUnchanged /\ UNCHANGED <<heart, status, gcVars>>

WriteRunJson ==
    /\ At("run")
    /\ \/ Goto("lock") /\ files' = files \cup {"run"}
       \/ FaultTo("aborted", "abort") /\ UNCHANGED files
    /\ LockUnchanged /\ UNCHANGED <<heart, status, gcVars>>

\* Heartbeat::start, first half: the lock is written ...
HeartbeatStart ==
    /\ At("lock")
    /\ \/ Goto("spawn") /\ WriteLock
       \/ FaultTo("aborted", "abort") /\ LockUnchanged
    /\ UNCHANGED <<heart, files, status, gcVars>>

\* ... second half: the thread is spawned.
SpawnHeartbeat ==
    /\ At("spawn")
    /\ \/ Goto("declare") /\ heart' = "beating"
       \/ FaultTo("aborted", "abort") /\ UNCHANGED heart
    /\ UNCHANGED <<diskVars, gcVars>>

\* record_failed_start, first half; both halves ignore their errors.
AbortRemoveLock ==
    /\ At("abort")
    /\ \/ Goto("status") /\ RemoveLock
       \/ FaultTo("aborted", "status") /\ LockUnchanged
    /\ UNCHANGED <<heart, files, status, gcVars>>

\* A malformed runvault.toml drops the heartbeat and returns; the lock stays.
LoadDeclaration ==
    /\ At("declare")
    /\ \/ Goto("open") /\ UNCHANGED heart
       \/ Goto("returned") /\ heart' = "still"
    /\ UNCHANGED <<diskVars, gcVars>>
-----------------------------------------------------------------------------
(* Run::finish, Run::fail and Drop.                                        *)

CallFinish ==
    /\ At("open") /\ Enter("finish", "flush")
    /\ UNCHANGED <<heart, diskVars, gcVars>>

CallFail ==
    /\ At("open") /\ Enter("fail", "stop")
    /\ UNCHANGED <<heart, diskVars, gcVars>>

CallDrop ==
    /\ At("open") /\ Enter("drop", "stop")
    /\ UNCHANGED <<heart, diskVars, gcVars>>

\* flush_writers, then the two *.meta.json files.
FlushAndDescribe ==
    /\ pc \in {"flush", "meta"}
    /\ \/ Goto(IF pc = "flush" THEN "meta" ELSE "manifest")
       \/ FaultTo("unwind", "stop")
    /\ UNCHANGED <<heart, diskVars, gcVars>>

WriteManifest ==
    /\ At("manifest")
    /\ \/ Goto("stop") /\ files' = files \cup {"manifest"}
       \/ /\ FaultTo("unwind", "stop")
          /\ UNCHANGED files \/ files' = files \cup {"manifest"}
    /\ LockUnchanged /\ UNCHANGED <<heart, status, gcVars>>

MutStopWithoutJoin ==
    /\ At("stop") /\ Goto("unlock")
    /\ UNCHANGED <<heart, diskVars, gcVars>>

\* Heartbeat::stop: the flag is set under the mutex the beat holds while it
\* writes, and the thread is joined, so no write is in flight afterwards.
StopHeartbeat ==
    /\ At("stop") /\ Goto("unlock")
    /\ heart' = "still"
    /\ UNCHANGED <<diskVars, gcVars>>

MutSwallowUnlockError ==
    /\ At("unlock")
    /\ \/ Goto(IF path = "finish" THEN "verify" ELSE "status") /\ RemoveLock
       \/ /\ FaultTo(path, IF path = "finish" THEN "verify" ELSE "status")
          /\ LockUnchanged
    /\ UNCHANGED <<heart, files, status, gcVars>>

\* lockfile::remove in release_lock.  Drop ignores its error; in finish and
\* fail it unwinds into Drop, which tries again.
ReleaseLock ==
    /\ At("unlock")
    /\ \/ Goto(IF path = "finish" THEN "verify" ELSE "status") /\ RemoveLock
       \/ /\ IF path \in {"drop", "unwind"}
             THEN FaultTo(path, "status")
             ELSE FaultTo("unwind", "stop")
          /\ LockUnchanged
    /\ UNCHANGED <<heart, files, status, gcVars>>

\* What verify::shallow needs of the modelled files; its other checks may
\* fail for reasons of their own.
ShallowPasses ==
    "run" \in files /\ "config" \in files /\ ~(status # "none" /\ lock # 0)

VerifyShallow ==
    /\ At("verify")
    /\ \/ ShallowPasses /\ Goto("status")
       \/ Enter("refused", "status")
    /\ UNCHANGED <<heart, diskVars, gcVars>>

\* The status each way of ending writes.
Verdict ==
    IF path = "aborted" THEN "start"
    ELSE IF path = "finish" THEN "finished"
    ELSE IF path = "refused" THEN "verify"
    ELSE IF path = "fail" THEN "declared"
    ELSE "dropped"

MutStatusErrorIsFinal ==
    /\ At("status")
    /\ \/ /\ status' = Verdict
          /\ Goto(IF path = "finish" THEN "link" ELSE "returned")
       \/ FaultTo(path, "returned") /\ UNCHANGED status
    /\ LockUnchanged /\ UNCHANGED <<heart, files, gcVars>>

\* write_status, and the second half of record_failed_start.  An error in
\* finish or fail unwinds into Drop; in Drop and in start it is ignored.
WriteStatus ==
    /\ At("status")
    /\ \/ /\ status' = Verdict
          /\ Goto(IF path = "finish" THEN "link" ELSE "returned")
       \/ /\ UNCHANGED status
          /\ IF path \in {"drop", "unwind", "aborted"}
             THEN FaultTo(path, "returned")
             ELSE FaultTo("unwind", "stop")
    /\ LockUnchanged /\ UNCHANGED <<heart, files, gcVars>>

MutLinkErrorDrops ==
    /\ At("link")
    /\ Goto("returned") \/ FaultTo("unwind", "stop")
    /\ UNCHANGED <<heart, diskVars, gcVars>>

\* update_latest_finished: its error is returned, but the run is finished and
\* Drop does nothing.
UpdateLink ==
    /\ At("link")
    /\ Goto("returned") \/ FaultTo("finish", "returned")
    /\ UNCHANGED <<heart, diskVars, gcVars>>

\* SIGKILL, a power cut, or the ordinary end of the process.
ProcessEnds ==
    /\ pc # "gone" /\ Goto("gone")
    /\ heart' = "still"
    /\ UNCHANGED <<diskVars, gcVars>>

Owner ==
    \/ RefuseStart \/ CreateRunDir \/ MaterializeLocks \/ WriteConfig
    \/ WriteRunJson \/ HeartbeatStart \/ SpawnHeartbeat \/ AbortRemoveLock
    \/ LoadDeclaration \/ CallFinish \/ CallFail \/ CallDrop
    \/ FlushAndDescribe \/ WriteManifest \/ StopHeartbeat \/ ReleaseLock
    \/ VerifyShallow \/ WriteStatus \/ UpdateLink \/ ProcessEnds
-----------------------------------------------------------------------------
(* The heartbeat thread and the clock.                                     *)

\* One turn of the heartbeat loop: the lock is rewritten whether or not it is
\* still there, and a failed write is only remembered.
Beat ==
    /\ heart = "beating"
    /\ \/ WriteLock /\ UNCHANGED faults
       \/ faults < MaxFaults /\ faults' = faults + 1 /\ LockUnchanged
    /\ UNCHANGED <<pc, path, heart, files, status, gcVars>>

Tick ==
    /\ lock # 0 /\ age <= StaleAfter
    /\ (BeatsOnTime /\ Owned) => age < StaleAfter
    /\ age' = age + 1
    /\ UNCHANGED <<runVars, files, lock, beats, status, gcVars>>
-----------------------------------------------------------------------------
(* gc::collect_one.                                                        *)

Step(c, from, to) == gpc[c] = from /\ gpc' = [gpc EXCEPT ![c] = to]

GcFault(c) ==
    /\ gcfaults < MaxGcFaults
    /\ gcfaults' = gcfaults + 1
    /\ gpc' = [gpc EXCEPT ![c] = "idle"]

MutVisitIgnoresStatus(c) ==
    /\ IsRunDir
    /\ Step(c, "idle", "read")
    /\ UNCHANGED <<runVars, diskVars, seen, gcfaults>>

GcVisit(c) ==
    /\ IsRunDir
    /\ Step(c, "idle", IF status = "none" THEN "read" ELSE "repair")
    /\ UNCHANGED <<runVars, diskVars, seen, gcfaults>>

MutRepairOnlyLooks(c) ==
    /\ Step(c, "repair", "idle")
    /\ LockUnchanged /\ UNCHANGED <<runVars, files, status, seen, gcfaults>>

\* A lock beside a status is removed; --dry-run only looks.
GcRepair(c) ==
    /\ gpc[c] = "repair"
    /\ \/ /\ Step(c, "repair", "idle") /\ UNCHANGED gcfaults
          /\ IF c \in DryRunners THEN LockUnchanged ELSE RemoveLock
       \/ GcFault(c) /\ LockUnchanged
    /\ UNCHANGED <<runVars, files, status, seen>>

GcRead(c) ==
    /\ Step(c, "read", IF lock = 0 THEN "idle" ELSE "judge")
    /\ seen' = [seen EXCEPT ![c] = lock]
    /\ UNCHANGED <<runVars, diskVars, gcfaults>>

\* LockRecord::liveness.  The pid decides where it can be looked up; elsewhere
\* only the age of the record that was read counts.  A record that has been
\* replaced meanwhile may be of any age.
LooksStale(c) ==
    /\ ~(c \in Sighted /\ pc # "gone")
    /\ seen[c] # lock \/ age > StaleAfter

LooksRunning(c) ==
    \/ c \in Sighted /\ pc # "gone"
    \/ seen[c] # lock \/ age <= StaleAfter

GcJudge(c) ==
    /\ \/ LooksRunning(c) /\ Step(c, "judge", "idle")
       \/ /\ LooksStale(c)
          /\ Step(c, "judge", IF c \in DryRunners THEN "idle" ELSE "reread")
    /\ UNCHANGED <<runVars, diskVars, seen, gcfaults>>

MutNoReread(c) ==
    /\ Step(c, "reread", "remove")
    /\ UNCHANGED <<runVars, diskVars, seen, gcfaults>>

\* Judging and acting are separate reads of the same file.
GcReread(c) ==
    /\ Step(c, "reread", IF lock = seen[c] THEN "remove" ELSE "idle")
    /\ UNCHANGED <<runVars, diskVars, seen, gcfaults>>

GcRemove(c) ==
    /\ gpc[c] = "remove"
    /\ \/ Step(c, "remove", "write") /\ RemoveLock /\ UNCHANGED gcfaults
       \/ GcFault(c) /\ LockUnchanged
    /\ UNCHANGED <<runVars, files, status, seen>>

\* write_failed.
GcWrite(c) ==
    /\ gpc[c] = "write"
    /\ \/ Step(c, "write", "recheck") /\ status' = "killed" /\ UNCHANGED gcfaults
       \/ GcFault(c) /\ UNCHANGED status
    /\ LockUnchanged /\ UNCHANGED <<runVars, files, seen>>

\* The lock coming back means the process was never dead ...
GcRecheck(c) ==
    /\ Step(c, "recheck", IF lock # 0 THEN "retract" ELSE "idle")
    /\ UNCHANGED <<runVars, diskVars, seen, gcfaults>>

\* ... and the verdict is taken back: whatever status.json is there goes.
GcRetract(c) ==
    /\ Step(c, "retract", "idle")
    /\ status' = "none"
    /\ LockUnchanged /\ UNCHANGED <<runVars, files, seen, gcfaults>>

\* The collector itself is killed; the next one starts over.
GcKilled(c) ==
    /\ gpc[c] # "idle" /\ GcFault(c)
    /\ UNCHANGED <<runVars, diskVars, seen>>

Collector(c) ==
    \/ GcVisit(c) \/ GcRepair(c) \/ GcRead(c) \/ GcJudge(c) \/ GcReread(c)
    \/ GcRemove(c) \/ GcWrite(c) \/ GcRecheck(c) \/ GcRetract(c)

Next == Owner \/ Beat \/ Tick \/ \E c \in Collectors : Collector(c) \/ GcKilled(c)

Spec == Init /\ [][Next]_vars

\* Time passes, and somebody keeps running `runvault gc` to its end.  Nothing
\* is assumed of the owner: a run may take as long as it likes.
FairSpec ==
    Spec /\ WF_vars(Tick) /\ \A c \in Collectors : WF_vars(Collector(c))
-----------------------------------------------------------------------------
(* Properties.                                                             *)

\* The condition under which a collector cannot mistake a live run for a dead
\* one: it sees the run's process, or every owned lock is refreshed in time.
JudgesSoundly == BeatsOnTime \/ Sighted = Collectors

\* gc acts on dead runs only.  Once a collector has gone past its second
\* read of the lock (gc.rs, the comment on judging and acting), the process
\* that owned the run has returned or is gone and will never write again.
GcReapsOnlyTheDead ==
    \A c \in Collectors :
        gpc[c] \in {"remove", "write", "recheck", "retract"} => ~Owned

\* No completed run is found with its lock (run.rs, release_lock before
\* write_status).  Whoever kills the owner or a collector, and between whatever
\* two writes, a status beside a lock is never that of a finish, of a fail, of a
\* refused finish or of gc; it is one that Drop or a failed start wrote, because
\* only these go on after the removal of the lock has failed.
NoLockBesideStatus ==
    (status # "none" /\ lock # 0) => (status \in {"start", "dropped"} /\ faults > 0)

\* A lock announces a run whose run.json and config.json are complete, so the
\* verdict gc writes names the run it is about; a finished run is sealed by a
\* manifest.
RecordsAreWhole ==
    /\ lock # 0 \/ status = "killed" => "config" \in files /\ "run" \in files
    /\ status = "finished" =>
         "config" \in files /\ "run" \in files /\ "manifest" \in files

\* However finish, fail or a start that got as far as its files ends, a
\* single I/O failure on the way never leaves the run without a status: finish
\* and fail unwind into Drop, and record_failed_start covers the start.  (A
\* plain drop has nothing to fall back on.)
OneFaultIsRecorded ==
    (pc = "returned" /\ path \notin {"start", "drop"} /\ faults <= 1)
        => status # "none"

\* status.json is written once.  Neither the owner nor a collector changes or
\* removes a verdict; at most, where an ignored failure left the lock beside
\* it, gc names another kind of failure.
SettledIsFinal ==
    [][status # "none" =>
         \/ status' = status
         \/ faults > 0 /\ status # "finished" /\ status' = "killed"]_vars

\* Seen from outside, the directory goes through the stages of RunRecord.
Record ==
    IF status = "finished" THEN "finished"
    ELSE IF status # "none" THEN "failed"
    ELSE IF lock # 0 THEN "open"
    ELSE IF beats = 0 THEN "new"
    ELSE "released"

Abstract == INSTANCE RunRecord WITH record <- Record

ImplementsRunRecord == Abstract!Spec

\* Even where a live run can be mistaken for a dead one, a verdict that stands
\* when its owner is done and no collector is half-way through stays as it is:
\* a collector that starts later only removes locks (gc.rs, the first branch).
QuietVerdictStands ==
    \A k \in Kinds \ {"none"} :
        [](/\ status = k /\ ~Owned /\ \A c \in Collectors : gpc[c] = "idle"
           => [](status = k))

\* A run whose process died with its lock in place ends as a recorded
\* outcome, and the lock goes (gc.rs: left alone it stays "running" forever) --
\* unless a collector is itself interrupted on the way.
KilledRunIsRecorded ==
    (pc = "gone" /\ lock # 0) ~> (gcfaults > 0 \/ [](status # "none" /\ lock = 0))
=============================================================================

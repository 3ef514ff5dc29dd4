-------------------------- MODULE RunLifecycleProofs --------------------------
(***************************************************************************)
(* Proofs about RunLifecycle, for every number of collectors and every     *)
(* bound.  Type correctness needs no assumption; the rest assumes          *)
(* JudgesSoundly: a run suspended past STALE_AFTER is lost to a remote gc. *)
(* The end of this module is about LatestFinished.                         *)
(***************************************************************************)
EXTENDS RunLifecycle, LatestFinished, TLAPS

-----------------------------------------------------------------------------
(* The inductive invariant, in named parts.                                *)

\* The owner will never take another step that touches the directory.
Over == pc \in {"returned", "gone"}

\* A collector past its first read holds a record that was really written, and
\* once it has read the lock twice and found the same stale record, the owner
\* is done.  Between the two reads it may hold a record that was replaced.
JudgementInv ==
    \A c \in Collectors :
        /\ seen[c] <= beats
        /\ gpc[c] \in {"judge", "reread", "remove", "write", "recheck"} => seen[c] # 0
        /\ gpc[c] = "reread" => Over \/ seen[c] # lock
        /\ gpc[c] \in {"remove", "write", "recheck"} => Over
        /\ gpc[c] \in {"write", "recheck"} => lock = 0
        /\ gpc[c] # "retract"
        /\ gpc[c] = "repair" => status # "none"
        /\ gpc[c] \in {"remove", "write"} =>
             status \in {"none", "killed"} \/ (faults > 0 /\ status # "finished")

\* Where the owner is fixes which files, which lock and which status exist.
OwnerInv ==
    /\ pc \in {"call", "locks", "config", "run", "lock"} => beats = 0
    /\ pc = "run" => "config" \in files
    /\ pc = "lock" \/ beats > 0 => "config" \in files /\ "run" \in files
    /\ heart = "beating" => pc \in {"declare", "open", "flush", "meta", "manifest", "stop"}
    /\ pc = "spawn" \/ heart = "beating" => lock # 0
    /\ pc \in {"verify", "link"} => lock = 0
    /\ pc = "status" => lock = 0 \/ (faults > 0 /\ path \notin {"finish", "refused", "fail"})
    /\ pc \in {"declare", "open", "flush", "meta", "manifest", "stop", "unlock",
               "verify", "link"} => beats > 0
    /\ path \notin {"start", "aborted"} => beats > 0
    /\ path \in {"aborted", "unwind"} => faults > 0
    /\ status # "none" => pc \in {"link", "returned", "gone"}
    /\ pc = "link" => status = "finished"

\* How far the owner is on the way it took.
PathInv ==
    /\ pc \in {"call", "locks", "config", "run", "lock", "spawn", "declare", "open"}
         => path = "start"
    /\ pc = "abort" => path = "aborted"
    /\ pc \in {"flush", "meta", "manifest", "verify", "link"} => path = "finish"
    /\ pc \in {"stop", "unlock"} => path \in {"finish", "fail", "drop", "unwind"}
    /\ pc = "status" => path # "start"
    /\ path = "finish" /\ pc \in {"stop", "unlock", "verify", "status", "link"}
         => "manifest" \in files
    /\ status = "killed" => beats > 0

\* An owned lock is fresh when the heartbeat is on time.
FreshInv == (BeatsOnTime /\ Owned /\ lock # 0) => age <= StaleAfter

Inv ==
    /\ TypeOK
    /\ JudgementInv
    /\ OwnerInv
    /\ PathInv
    /\ FreshInv
    /\ NoLockBesideStatus
    /\ RecordsAreWhole
    /\ OneFaultIsRecorded

-----------------------------------------------------------------------------
(* Type correctness.                                                       *)

LEMMA FilesGrow ==
  /\ \A f \in SUBSET FileNames : f \cup {"config"} \in SUBSET FileNames
  /\ \A f \in SUBSET FileNames : f \cup {"run"} \in SUBSET FileNames
  /\ \A f \in SUBSET FileNames : f \cup {"manifest"} \in SUBSET FileNames
  /\ {"dir"} \in SUBSET FileNames /\ {} \in SUBSET FileNames
BY DEF FileNames

LEMMA TypeInit == Init => TypeOK
BY ConstantsAssumption, FilesGrow DEF Init, TypeOK, Points, Paths, Kinds, GcPoints

LEMMA TypeStep == TypeOK /\ [Next]_vars => TypeOK'
<1> SUFFICES ASSUME TypeOK, [Next]_vars PROVE TypeOK'
  OBVIOUS
<1> USE ConstantsAssumption, FilesGrow
    DEF TypeOK, Points, Paths, Kinds, GcPoints, vars, runVars, diskVars, gcVars
<1>1. CASE Owner
  <2>1. CASE RefuseStart
    BY <2>1 DEF RefuseStart, At, Goto
  <2>2. CASE CreateRunDir
    BY <2>2 DEF CreateRunDir, At, Goto, LockUnchanged
  <2>3. CASE MaterializeLocks
    BY <2>3 DEF MaterializeLocks, At, Goto, FaultTo
  <2>4. CASE WriteConfig
    BY <2>4 DEF WriteConfig, At, Goto, FaultTo, LockUnchanged
  <2>5. CASE WriteRunJson
    BY <2>5 DEF WriteRunJson, At, Goto, FaultTo, LockUnchanged
  <2>6. CASE HeartbeatStart
    BY <2>6 DEF HeartbeatStart, At, Goto, FaultTo, WriteLock, LockUnchanged
  <2>7. CASE SpawnHeartbeat
    BY <2>7 DEF SpawnHeartbeat, At, Goto, FaultTo
  <2>8. CASE AbortRemoveLock
    BY <2>8 DEF AbortRemoveLock, At, Goto, FaultTo, RemoveLock, LockUnchanged
  <2>9. CASE LoadDeclaration
    BY <2>9 DEF LoadDeclaration, At, Goto
  <2>10. CASE CallFinish
    BY <2>10 DEF CallFinish, At, Enter
  <2>11. CASE CallFail
    BY <2>11 DEF CallFail, At, Enter
  <2>12. CASE CallDrop
    BY <2>12 DEF CallDrop, At, Enter
  <2>13. CASE FlushAndDescribe
    BY <2>13 DEF FlushAndDescribe, Goto, FaultTo
  <2>14. CASE WriteManifest
    BY <2>14 DEF WriteManifest, At, Goto, FaultTo, LockUnchanged
  <2>15. CASE StopHeartbeat
    BY <2>15 DEF StopHeartbeat, At, Goto
  <2>16. CASE ReleaseLock
    BY <2>16 DEF ReleaseLock, At, Goto, FaultTo, RemoveLock, LockUnchanged
  <2>17. CASE VerifyShallow
    BY <2>17 DEF VerifyShallow, At, Goto, Enter
  <2>18. CASE WriteStatus
    BY <2>18 DEF WriteStatus, At, Goto, FaultTo, LockUnchanged, Verdict
  <2>19. CASE UpdateLink
    BY <2>19 DEF UpdateLink, At, Goto, FaultTo
  <2>20. CASE ProcessEnds
    BY <2>20 DEF ProcessEnds, Goto
  <2> QED
    BY <1>1, <2>1, <2>2, <2>3, <2>4, <2>5, <2>6, <2>7, <2>8, <2>9, <2>10, <2>11, <2>12, <2>13, <2>14, <2>15, <2>16, <2>17, <2>18, <2>19, <2>20 DEF Owner
<1>2. CASE Beat
  BY <1>2 DEF Beat, WriteLock, LockUnchanged
<1>3. CASE Tick
  BY <1>3 DEF Tick
<1>4. ASSUME NEW c \in Collectors, Collector(c) \/ GcKilled(c) PROVE TypeOK'
  <2>1. CASE GcVisit(c)
    BY <2>1 DEF GcVisit, Step
  <2>2. CASE GcRepair(c)
    BY <2>2 DEF GcRepair, RemoveLock, LockUnchanged, Step, GcFault
  <2>3. CASE GcRead(c)
    BY <2>3 DEF GcRead, Step
  <2>4. CASE GcJudge(c)
    BY <2>4 DEF GcJudge, Step
  <2>5. CASE GcReread(c)
    BY <2>5 DEF GcReread, Step
  <2>6. CASE GcRemove(c)
    BY <2>6 DEF GcRemove, RemoveLock, LockUnchanged, Step, GcFault
  <2>7. CASE GcWrite(c)
    BY <2>7 DEF GcWrite, LockUnchanged, Step, GcFault
  <2>8. CASE GcRecheck(c)
    BY <2>8 DEF GcRecheck, Step
  <2>9. CASE GcRetract(c)
    BY <2>9 DEF GcRetract, LockUnchanged, Step
  <2>10. CASE GcKilled(c)
    BY <2>10 DEF GcKilled, GcFault
  <2> QED
    BY <1>4, <2>1, <2>2, <2>3, <2>4, <2>5, <2>6, <2>7, <2>8, <2>9, <2>10 DEF Collector
<1>5. CASE UNCHANGED vars
  BY <1>5
<1> QED
  BY <1>1, <1>2, <1>3, <1>4, <1>5 DEF Next

\* Every reachable state is well typed: the files, the record numbers, the age
\* and the program points of run.rs, lockfile.rs and gc.rs stay in their sets.
THEOREM TypeCorrect == Spec => []TypeOK
BY TypeInit, TypeStep, PTL DEF Spec

-----------------------------------------------------------------------------
(* The inductive step.                                                     *)

LEMMA InvInit == Init => Inv
BY TypeInit, ConstantsAssumption
   DEF Init, Inv, JudgementInv, OwnerInv, PathInv, FreshInv, Owned, Over,
       NoLockBesideStatus, RecordsAreWhole, OneFaultIsRecorded

\* The owner's steps.  No collector is past its second read while the owner
\* still moves, so each of them only has to keep the owner's own book-keeping.
LEMMA InvOwner == Inv /\ Owner => Inv'
<1> SUFFICES ASSUME Inv, Owner PROVE Inv'
  OBVIOUS
<1>t. TypeOK'
  BY TypeStep DEF Inv, Next
<1> USE <1>t, ConstantsAssumption
    DEF Inv, TypeOK, JudgementInv, OwnerInv, PathInv, FreshInv, Owned, Over,
        NoLockBesideStatus, RecordsAreWhole, OneFaultIsRecorded,
        runVars, diskVars, gcVars
<1>1. CASE RefuseStart
  BY <1>1 DEF RefuseStart, At, Goto
<1>2. CASE CreateRunDir
  BY <1>2 DEF CreateRunDir, At, Goto, LockUnchanged
<1>3. CASE MaterializeLocks
  BY <1>3 DEF MaterializeLocks, At, Goto, FaultTo
<1>4. CASE WriteConfig
  BY <1>4 DEF WriteConfig, At, Goto, FaultTo, LockUnchanged
<1>5. CASE WriteRunJson
  BY <1>5 DEF WriteRunJson, At, Goto, FaultTo, LockUnchanged
<1>6. CASE HeartbeatStart
  BY <1>6 DEF HeartbeatStart, At, Goto, FaultTo, WriteLock, LockUnchanged
<1>7. CASE SpawnHeartbeat
  BY <1>7 DEF SpawnHeartbeat, At, Goto, FaultTo
<1>8. CASE AbortRemoveLock
  BY <1>8 DEF AbortRemoveLock, At, Goto, FaultTo, RemoveLock, LockUnchanged
<1>9. CASE LoadDeclaration
  BY <1>9 DEF LoadDeclaration, At, Goto
<1>10. CASE CallFinish
  BY <1>10 DEF CallFinish, At, Enter
<1>11. CASE CallFail
  BY <1>11 DEF CallFail, At, Enter
<1>12. CASE CallDrop
  BY <1>12 DEF CallDrop, At, Enter
<1>13. CASE FlushAndDescribe
  BY <1>13 DEF FlushAndDescribe, Goto, FaultTo
<1>14. CASE WriteManifest
  BY <1>14 DEF WriteManifest, At, Goto, FaultTo, LockUnchanged
<1>15. CASE StopHeartbeat
  BY <1>15 DEF StopHeartbeat, At, Goto
<1>16. CASE ReleaseLock
  BY <1>16 DEF ReleaseLock, At, Goto, FaultTo, RemoveLock, LockUnchanged
<1>17. CASE VerifyShallow
  BY <1>17 DEF VerifyShallow, At, Goto, Enter, ShallowPasses
<1>18. CASE WriteStatus
  BY <1>18 DEF WriteStatus, At, Goto, FaultTo, LockUnchanged, Verdict
<1>19. CASE UpdateLink
  BY <1>19 DEF UpdateLink, At, Goto, FaultTo
<1>20. CASE ProcessEnds
  BY <1>20 DEF ProcessEnds, Goto
<1> QED
  BY <1>1, <1>2, <1>3, <1>4, <1>5, <1>6, <1>7, <1>8, <1>9, <1>10, <1>11, <1>12, <1>13, <1>14, <1>15, <1>16, <1>17, <1>18, <1>19, <1>20 DEF Owner

\* A beat replaces the record a collector may be holding; a tick ages it.
LEMMA InvBeatTick == Inv /\ (Beat \/ Tick) => Inv'
<1> SUFFICES ASSUME Inv, Beat \/ Tick PROVE Inv'
  OBVIOUS
<1>t. TypeOK'
  BY TypeStep DEF Inv, Next
<1> USE <1>t, ConstantsAssumption
    DEF Inv, TypeOK, JudgementInv, OwnerInv, PathInv, FreshInv, Owned, Over,
        NoLockBesideStatus, RecordsAreWhole, OneFaultIsRecorded,
        runVars, diskVars, gcVars
<1>1. CASE Beat
  BY <1>1 DEF Beat, WriteLock, LockUnchanged
<1>2. CASE Tick
  BY <1>2 DEF Tick
<1> QED
  BY <1>1, <1>2

\* The collectors' steps.  This is where sound judgement is needed: GcJudge
\* may only move on a record that is stale because its owner is done, or that
\* has been replaced, and GcReread then tells the two apart.
LEMMA InvCollector ==
  ASSUME JudgesSoundly, Inv, NEW c \in Collectors, Collector(c) \/ GcKilled(c)
  PROVE  Inv'
<1>t. TypeOK'
  BY TypeStep DEF Inv, Next
<1> USE <1>t, ConstantsAssumption
    DEF Inv, TypeOK, JudgementInv, OwnerInv, PathInv, FreshInv, Owned, Over,
        NoLockBesideStatus, RecordsAreWhole, OneFaultIsRecorded,
        runVars, diskVars, gcVars
<1>1. CASE GcVisit(c)
  BY <1>1 DEF GcVisit, Step, IsRunDir
<1>2. CASE GcRepair(c)
  BY <1>2 DEF GcRepair, RemoveLock, LockUnchanged, Step, GcFault
<1>3. CASE GcRead(c)
  BY <1>3 DEF GcRead, Step
<1>4. CASE GcJudge(c)
  BY <1>4 DEF GcJudge, Step, LooksStale, LooksRunning, JudgesSoundly
<1>5. CASE GcReread(c)
  BY <1>5 DEF GcReread, Step
<1>6. CASE GcRemove(c)
  BY <1>6 DEF GcRemove, RemoveLock, LockUnchanged, Step, GcFault
<1>7. CASE GcWrite(c)
  BY <1>7 DEF GcWrite, LockUnchanged, Step, GcFault
<1>8. CASE GcRecheck(c)
  BY <1>8 DEF GcRecheck, Step
<1>9. CASE GcRetract(c)
  BY <1>9 DEF GcRetract, LockUnchanged, Step
<1>10. CASE GcKilled(c)
  BY <1>10 DEF GcKilled, GcFault
<1> QED
  BY <1>1, <1>2, <1>3, <1>4, <1>5, <1>6, <1>7, <1>8, <1>9, <1>10 DEF Collector

LEMMA InvStep == JudgesSoundly /\ Inv /\ [Next]_vars => Inv'
<1> SUFFICES ASSUME JudgesSoundly, Inv, [Next]_vars PROVE Inv'
  OBVIOUS
<1>1. CASE UNCHANGED vars
  BY <1>1 DEF vars, runVars, diskVars, gcVars, Inv, TypeOK, JudgementInv, OwnerInv,
       PathInv, FreshInv, Owned, Over, NoLockBesideStatus, RecordsAreWhole,
       OneFaultIsRecorded
<1> QED
  BY <1>1, InvOwner, InvBeatTick, InvCollector DEF Next

-----------------------------------------------------------------------------
(* The theorems.                                                           *)

LEMMA Invariance == JudgesSoundly /\ Spec => []Inv
<1> SUFFICES ASSUME JudgesSoundly PROVE Spec => []Inv
  OBVIOUS
<1>1. Inv /\ [Next]_vars => Inv'
  BY InvStep
<1> QED
  BY InvInit, <1>1, PTL DEF Spec

\* With sound judgement a collector past its second read of the lock is dealing
\* with a run whose owner is done (gc.rs, collect_one).
THEOREM OnlyTheDead == JudgesSoundly /\ Spec => []GcReapsOnlyTheDead
<1>1. Inv => GcReapsOnlyTheDead
  BY DEF Inv, JudgementInv, GcReapsOnlyTheDead, Over, Owned
<1> QED
  BY Invariance, <1>1, PTL

\* One I/O failure never costs a run its status: finish and fail unwind into
\* Drop, and a start that failed is recorded (run.rs, record_failed_start).
THEOREM OneFault == JudgesSoundly /\ Spec => []OneFaultIsRecorded
<1>1. Inv => OneFaultIsRecorded
  BY DEF Inv
<1> QED
  BY Invariance, <1>1, PTL

\* With sound judgement a lock beside a status takes an error that Drop or a failed
\* start ignored (run.rs), and the records beside a lock or a verdict are whole.
THEOREM Safety == JudgesSoundly /\ Spec => [](NoLockBesideStatus /\ RecordsAreWhole)
<1>1. Inv => NoLockBesideStatus /\ RecordsAreWhole
  BY DEF Inv
<1> QED
  BY Invariance, <1>1, PTL

\* A verdict, once written by the owner or by gc, is never changed or removed.
THEOREM Finality == JudgesSoundly /\ Spec => SettledIsFinal
<1>1. Inv /\ [Next]_vars =>
        [status # "none" =>
           \/ status' = status
           \/ faults > 0 /\ status # "finished" /\ status' = "killed"]_vars
  <2> SUFFICES ASSUME Inv, Next, status # "none", status' # status
               PROVE  faults > 0 /\ status # "finished" /\ status' = "killed"
    OBVIOUS
  <2>1. ASSUME NEW c \in Collectors, GcWrite(c)
        PROVE  faults > 0 /\ status # "finished" /\ status' = "killed"
    BY <2>1 DEF GcWrite, Inv, JudgementInv, GcFault
  <2>2. ASSUME NEW c \in Collectors, GcRetract(c) PROVE FALSE
    BY <2>2 DEF GcRetract, Step, Inv, JudgementInv
  <2>3. ~WriteStatus
    BY DEF WriteStatus, At, Inv, OwnerInv
  <2> QED
    BY <2>1, <2>2, <2>3
       DEF Next, Owner, Beat, Tick, Collector, GcKilled, GcVisit, GcRepair, GcRead,
           GcJudge, GcReread, GcRemove, GcRecheck, RefuseStart, CreateRunDir,
           MaterializeLocks, WriteConfig, WriteRunJson, HeartbeatStart,
           SpawnHeartbeat, AbortRemoveLock, LoadDeclaration, CallFinish, CallFail,
           CallDrop, FlushAndDescribe, WriteManifest, StopHeartbeat, ReleaseLock,
           VerifyShallow, UpdateLink, ProcessEnds, diskVars
<1> QED
  BY Invariance, <1>1, PTL DEF SettledIsFinal, Spec

\* Every step of the code is a step of RunRecord or leaves it unchanged.
LEMMA RecordStep == Inv /\ Inv' /\ [Next]_vars => [Abstract!Next]_Record
<1> SUFFICES ASSUME Inv, Inv', [Next]_vars PROVE [Abstract!Next]_Record
  OBVIOUS
<1> USE DEF Record, Abstract!Next, Abstract!Open, Abstract!Release, Abstract!Finish,
            Abstract!Fail
<1>1. CASE UNCHANGED vars
  BY <1>1 DEF vars, diskVars
<1>2. CASE HeartbeatStart
  BY <1>2 DEF HeartbeatStart, At, WriteLock, LockUnchanged, Inv, TypeOK, OwnerInv
<1>3. CASE AbortRemoveLock \/ ReleaseLock
  BY <1>3 DEF AbortRemoveLock, ReleaseLock, At, RemoveLock, LockUnchanged, Inv, TypeOK,
              OwnerInv
<1>4. CASE WriteStatus
  BY <1>4 DEF WriteStatus, At, Verdict, LockUnchanged, Inv, TypeOK, OwnerInv
<1>5. CASE Beat
  BY <1>5 DEF Beat, WriteLock, LockUnchanged, Inv, TypeOK, OwnerInv
<1>6. ASSUME NEW c \in Collectors, GcRepair(c) \/ GcRemove(c) \/ GcWrite(c) \/ GcRetract(c)
      PROVE  [Abstract!Next]_Record
  <2>1. CASE GcRepair(c)
    BY <2>1 DEF GcRepair, RemoveLock, LockUnchanged, Inv, JudgementInv
  <2>2. CASE GcRemove(c)
    BY <2>2 DEF GcRemove, RemoveLock, LockUnchanged, Inv, TypeOK
  <2>3. CASE GcWrite(c)
    BY <2>3 DEF GcWrite, LockUnchanged, Inv, JudgementInv
  <2>4. CASE GcRetract(c)
    BY <2>4 DEF GcRetract, Step, Inv, JudgementInv
  <2> QED
    BY <1>6, <2>1, <2>2, <2>3, <2>4
<1> QED
  BY <1>1, <1>2, <1>3, <1>4, <1>5, <1>6
     DEF Next, Owner, Tick, Collector, GcKilled, GcVisit, GcRead, GcJudge, GcReread,
         GcRecheck, RefuseStart, CreateRunDir, MaterializeLocks, WriteConfig,
         WriteRunJson, SpawnHeartbeat, LoadDeclaration, CallFinish, CallFail,
         CallDrop, FlushAndDescribe, WriteManifest, StopHeartbeat, VerifyShallow,
         UpdateLink, ProcessEnds, LockUnchanged, diskVars

\* Under sound judgement the owner, its heartbeat and all collectors together
\* implement RunRecord: new, open, released, and then settled once.
THEOREM Refinement == JudgesSoundly /\ Spec => ImplementsRunRecord
<1>1. Init => Abstract!Init
  BY DEF Init, Abstract!Init, Record
<1> QED
  BY Invariance, <1>1, RecordStep, PTL DEF Spec, ImplementsRunRecord, Abstract!Spec
-----------------------------------------------------------------------------
(* Without any assumption on judgement.                                    *)

\* Before the directory is made there is nothing in it for anybody.
Untouched ==
    pc = "call" => /\ heart = "still" /\ files = {} /\ lock = 0 /\ status = "none"
                   /\ \A c \in Collectors : gpc[c] = "idle"

LEMMA UntouchedStep == TypeOK /\ Untouched /\ [Next]_vars => Untouched'
<1> SUFFICES ASSUME TypeOK, Untouched, [Next]_vars, pc' = "call" PROVE Untouched'
  BY DEF Untouched
<1>1. pc = "call" /\ (Next => ~Owner)
  BY DEF Next, vars, runVars, diskVars, gcVars, Owner, RefuseStart, CreateRunDir,
       MaterializeLocks, WriteConfig, WriteRunJson, HeartbeatStart, SpawnHeartbeat,
       AbortRemoveLock, LoadDeclaration, CallFinish, CallFail, CallDrop,
       FlushAndDescribe, WriteManifest, StopHeartbeat, ReleaseLock, VerifyShallow,
       WriteStatus, UpdateLink, ProcessEnds, At, Goto, FaultTo, Enter, Beat, Tick,
       Collector, GcKilled, GcVisit, GcRepair, GcRead, GcJudge, GcReread, GcRemove,
       GcWrite, GcRecheck, GcRetract
<1>2. ~Beat /\ ~Tick
  BY <1>1 DEF Untouched, Beat, Tick
<1>3. \A c \in Collectors : ~Collector(c) /\ ~GcKilled(c)
  BY <1>1 DEF Untouched, Collector, GcKilled, GcVisit, IsRunDir, GcRepair, GcRead,
       GcJudge, GcReread, GcRemove, GcWrite, GcRecheck, GcRetract, Step
<1> QED
  BY <1>1, <1>2, <1>3 DEF Next, vars, runVars, diskVars, gcVars, Untouched

LEMMA UntouchedAlways == Spec => []Untouched
<1>1. Init => Untouched
  BY DEF Init, Untouched
<1> QED
  BY <1>1, UntouchedStep, TypeCorrect, PTL DEF Spec

\* The verdict k stands, the owner is done, and no collector is on its way to
\* another verdict: one that came later looks at the status first.
Settled(k) ==
    /\ TypeOK /\ status = k
    /\ Over
    /\ \A c \in Collectors : gpc[c] \in {"idle", "repair"}

LEMMA SettledStep ==
  ASSUME NEW k \in Kinds, k # "none", Settled(k), [Next]_vars
  PROVE  Settled(k)'
<1> USE DEF Settled, TypeOK, Over
<1>t. TypeOK'
  BY TypeStep
<1> USE <1>t
<1>1. CASE UNCHANGED vars
  BY <1>1 DEF vars, runVars, diskVars, gcVars
<1>2. CASE Owner
  <2>1. CASE ProcessEnds
    BY <2>1 DEF ProcessEnds, Goto, diskVars, gcVars
  <2>2. CASE FlushAndDescribe
    BY <2>2 DEF FlushAndDescribe
  <2> QED
    BY <1>2, <2>1, <2>2
       DEF Owner, RefuseStart, CreateRunDir, MaterializeLocks, WriteConfig,
           WriteRunJson, HeartbeatStart, SpawnHeartbeat, AbortRemoveLock,
           LoadDeclaration, CallFinish, CallFail, CallDrop, WriteManifest,
           StopHeartbeat, ReleaseLock, VerifyShallow, WriteStatus, UpdateLink, At
<1>3. CASE Beat \/ Tick
  BY <1>3 DEF Beat, Tick, diskVars, gcVars, runVars
<1>4. ASSUME NEW c \in Collectors, Collector(c) \/ GcKilled(c) PROVE Settled(k)'
  <2>1. CASE GcVisit(c)
    BY <2>1 DEF GcVisit, Step, runVars, diskVars
  <2>2. CASE GcRepair(c)
    BY <2>2 DEF GcRepair, Step, GcFault, runVars
  <2>3. CASE GcKilled(c)
    BY <2>3 DEF GcKilled, GcFault, runVars, diskVars
  <2> QED
    BY <1>4, <2>1, <2>2, <2>3
       DEF Collector, GcRead, GcJudge, GcReread, GcRemove, GcWrite, GcRecheck,
           GcRetract, Step
<1> QED
  BY <1>1, <1>2, <1>3, <1>4 DEF Next

\* However late a run wakes up and whatever a remote collector made of it: a
\* verdict that is found when everybody is done is there for good (gc.rs, the
\* first branch of collect_one).
THEOREM QuietStands == Spec => QuietVerdictStands
<1> SUFFICES ASSUME NEW k \in Kinds, k # "none"
    PROVE Spec => [](/\ status = k /\ ~Owned /\ \A c \in Collectors : gpc[c] = "idle"
                     => [](status = k))
  BY DEF QuietVerdictStands
<1> DEFINE Quiet == status = k /\ ~Owned /\ \A c \in Collectors : gpc[c] = "idle"
           Stands == status = k
<1>1. TypeOK /\ Untouched /\ Quiet => Settled(k)
  BY DEF Settled, Untouched, Owned, Over
<1>2. Settled(k) /\ [Next]_vars => Settled(k)'
  BY SettledStep
<1>3. Settled(k) => Stands
  BY DEF Settled
<1>4. Spec => [](Quiet => []Stands)
  <2> HIDE DEF Quiet, Stands
  <2> QED BY <1>1, <1>2, <1>3, TypeCorrect, UntouchedAlways, PTL DEF Spec
<1> QED
  BY <1>4, PTL
-----------------------------------------------------------------------------
(***************************************************************************)
(* LatestFinished: the link that finish() moves last.  For any number of   *)
(* runs, kills and takeovers: until a run loses the mutex while it is      *)
(* under way, one run updates the link at a time and the link never walks  *)
(* backwards.                                                              *)
(*                                                                         *)
(* Mutual exclusion is not inductive by itself.  What is preserved is that *)
(* a run past `create_new` still owns the mutex, and that what it found    *)
(* out by comparing is still true when it renames the link.                *)
(***************************************************************************)

\* A run from create_new to the drop of its guard owns the mutex.
Owning == \A r \in Runs : place[r] \in {"compare", "swap", "release"} => mutex = r

\* The comparison a run acts on has not gone stale.
FreshCompare == \A r \in Runs : place[r] = "swap" => Later(r)

\* A run that is through with the link left it at itself or found a later one.
Through ==
    deleted = {} =>
        \A r \in Runs \ errored : place[r] \in {"release", "done"} =>
            link # NoRun /\ FinishedAt[r] <= FinishedAt[link]

LinkInv == LinkTypeOK /\ (NoTheft => Owning /\ FreshCompare /\ Through)

LEMMA LinkTypeInit == LinkInit => LinkTypeOK
BY LinkAssumption DEF LinkInit, LinkTypeOK, Steps

LEMMA LinkTypeStep == LinkTypeOK /\ [LinkNext]_linkVars => LinkTypeOK'
<1> SUFFICES ASSUME LinkTypeOK, [LinkNext]_linkVars PROVE LinkTypeOK'
    OBVIOUS
<1> USE LinkAssumption DEF LinkTypeOK, Steps
<1>1. CASE UNCHANGED linkVars
    BY <1>1 DEF linkVars
<1>2. ASSUME NEW r \in Runs, Finish(r) \/ AcquireFails(r) \/ Proceed(r) \/ DeleteRun(r) \/ Kill(r)
      PROVE LinkTypeOK'
    <2>1. CASE Finish(r)         BY <2>1 DEF Finish, Moves
    <2>2. CASE Acquire(r)        BY <2>2 DEF Acquire, Moves
    <2>3. CASE JudgeAbandoned(r) BY <2>3 DEF JudgeAbandoned, Moves
    <2>4. CASE TakeOver(r)       BY <2>4 DEF TakeOver, Moves
    <2>5. CASE Compare(r)        BY <2>5 DEF Compare, Moves
    <2>6. CASE Swap(r)           BY <2>6 DEF Swap, Moves
    <2>7. CASE UpdateFails(r)    BY <2>7 DEF UpdateFails
    <2>8. CASE Release(r)        BY <2>8 DEF Release, Moves
    <2>9. CASE DeleteRun(r)      BY <2>9 DEF DeleteRun
    <2>10. CASE Kill(r)          BY <2>10 DEF Kill
    <2>11. CASE AcquireFails(r)  BY <2>11 DEF AcquireFails, Moves
    <2> QED BY <1>2, <2>1, <2>2, <2>3, <2>4, <2>5, <2>6, <2>7, <2>8, <2>9, <2>10, <2>11
               DEF Proceed
<1> QED BY <1>1, <1>2 DEF LinkNext

\* Every state of every behaviour, with kills and takeovers, is well formed
\* (paths.rs, update_latest_finished).
THEOREM LinkTypeCorrect == LinkSpec => []LinkTypeOK
BY LinkTypeInit, LinkTypeStep, PTL DEF LinkSpec

LEMMA LinkInvStep == LinkInv /\ [LinkNext]_linkVars => LinkInv'
<1> SUFFICES ASSUME LinkInv, [LinkNext]_linkVars PROVE LinkInv'
    OBVIOUS
<1> USE LinkAssumption
<1>0. LinkTypeOK'
    BY LinkTypeStep DEF LinkInv
<1>1. CASE UNCHANGED linkVars
    BY <1>0, <1>1 DEF linkVars, LinkInv, Owning, FreshCompare, Through, Later, NoTheft
<1>2. ASSUME NEW r \in Runs, Finish(r) \/ AcquireFails(r) \/ Proceed(r) \/ DeleteRun(r) \/ Kill(r)
      PROVE LinkInv'
    <2> USE <1>0 DEF LinkInv, LinkTypeOK, Owning, FreshCompare, Through, Later, NoTheft
    <2>1. CASE Finish(r)         BY <2>1 DEF Finish, Moves
    <2>2. CASE Acquire(r)        BY <2>2 DEF Acquire, Moves
    <2>3. CASE JudgeAbandoned(r) BY <2>3 DEF JudgeAbandoned, Moves
    <2>4. CASE TakeOver(r)       BY <2>4 DEF TakeOver, Moves
    <2>5. CASE Compare(r)        BY <2>5 DEF Compare, Moves
    <2>6. CASE Swap(r)           BY <2>6 DEF Swap, Moves
    <2>7. CASE UpdateFails(r)    BY <2>7 DEF UpdateFails, Holding
    <2>8. CASE Release(r)        BY <2>8 DEF Release, Moves
    <2>9. CASE DeleteRun(r)      BY <2>9 DEF DeleteRun
    <2>10. CASE Kill(r)          BY <2>10 DEF Kill
    <2>11. CASE AcquireFails(r)  BY <2>11 DEF AcquireFails, Moves
    <2> QED BY <1>2, <2>1, <2>2, <2>3, <2>4, <2>5, <2>6, <2>7, <2>8, <2>9, <2>10, <2>11
               DEF Proceed
<1> QED BY <1>1, <1>2 DEF LinkNext

LEMMA LinkInvInit == LinkInit => LinkInv
BY LinkTypeInit DEF LinkInit, LinkInv, Owning, FreshCompare, Through

LEMMA LinkInvariance == LinkSpec => []LinkInv
BY LinkInvInit, LinkInvStep, PTL DEF LinkSpec

\* Two runs are never both between reading the link and replacing it, as long
\* as nobody's mutex was taken from under it (paths.rs, LinkMutex).
THEOREM LinkExclusion == LinkSpec => []OneUpdateAtATime
<1>1. LinkInv => OneUpdateAtATime
    BY DEF LinkInv, Owning, OneUpdateAtATime, Holding
<1> QED BY <1>1, LinkInvariance, PTL

\* Under the same condition the link moves only to a run that finished later
\* than the one it leaves (paths.rs, update_latest_finished).
THEOREM LinkForward == LinkSpec => LinkMovesForward
<1> DEFINE Forward == NoTheft /\ link' # link =>
        link \in deleted \cup {NoRun} \/ FinishedAt[link] < FinishedAt[link']
<1>1. LinkInv /\ [LinkNext]_linkVars => [Forward]_linkVars
    <2> SUFFICES ASSUME LinkInv, [LinkNext]_linkVars, NoTheft, link' # link PROVE Forward
        BY DEF linkVars
    <2>1. PICK r \in Runs : Swap(r)
        BY DEF LinkNext, linkVars, Proceed, Finish, Acquire, AcquireFails, JudgeAbandoned,
               TakeOver, Compare, UpdateFails, Release, DeleteRun, Kill
    <2> QED BY <2>1 DEF Swap, Moves, LinkInv, FreshCompare, Later
<1> QED BY <1>1, LinkInvariance, PTL DEF LinkSpec, LinkMovesForward

\* When every run has had its turn, nobody was robbed and none was deleted, the
\* link points at the last to finish of those whose update went without an error.
THEOREM LinkLatest == LinkSpec => []LinkIsLatest
<1>1. LinkInv => LinkIsLatest
    BY DEF LinkInv, Through, LinkIsLatest
<1> QED BY <1>1, LinkInvariance, PTL
=============================================================================

---------------------------- MODULE ProgressProofs ----------------------------
(***************************************************************************)
(* progress.rs and the seal of the run whose stages it reports: the proofs *)
(* about RunSeal, then those about ProgressStage.                          *)
(***************************************************************************)
EXTENDS RunSeal, ProgressStage, TLAPS

(***************************************************************************)
(* RunSeal, for any stages and artifacts: while stages are ticked by the   *)
(* thread that finishes the run, a sealed run verifies forever and a       *)
(* recorded run is never written to.  With threads of their own it fails:  *)
(* a stage that has read the flag may write after the manifest.            *)
(*                                                                         *)
(* The argument: a stage is inside a write only while the owner is at      *)
(* work, so from the moment the flag is cleared the files stand still, and *)
(* what has been hashed stays true.                                        *)
(***************************************************************************)

\* Past close_to_progress the flag stays down.
FlagInv ==
    pc \in {"walk", "digest", "create", "write", "record", "fail", "returned"}
        => open = "sealed"

\* A stage that has read the flag and not yet written holds the owner up.
BusyInv == \A s \in Stages : Busy(s) => pc \in {"working", "dead"}

\* The manifest is absent until it is created.
AbsentInv ==
    pc \in {"working", "flush", "walk", "digest", "create", "fail"}
        => manifest = "absent"

\* What has been hashed is what is on disk.
HashInv ==
    /\ pc \in {"working", "flush", "walk"} => \A p \in Paths : rows[p] = 0
    /\ pc = "digest" => \A p \in Paths : p \notin todo => rows[p] = disk[p]
    /\ pc \in {"create", "write", "record"} \/ manifest = "whole" =>
         \A p \in Paths : rows[p] = disk[p]

\* Who has recorded an outcome is out of the run, and a finished run is sealed.
StatusInv ==
    /\ status # "none" => pc \in {"returned", "dead"}
    /\ status = "finished" \/ pc = "record" => manifest = "whole"

SealInv == TypeOK /\ FlagInv /\ BusyInv /\ AbsentInv /\ HashInv /\ StatusInv

LEMMA SealTypeInit == Init => TypeOK
BY SealAssumption DEF Init, TypeOK, Paths

LEMMA SealTypeStep == TypeOK /\ [Next]_vars => TypeOK'
<1> SUFFICES ASSUME TypeOK, [Next]_vars PROVE TypeOK'
    OBVIOUS
<1> USE SealAssumption DEF TypeOK, Goto, stageVars
<1>p. Log \in Paths
    BY DEF Paths
<1>1. ASSUME NEW p \in Artifacts, SaveArtifact(p) PROVE TypeOK'
    <2>1. p \in Paths
        BY DEF Paths
    <2> QED BY <1>1, <2>1 DEF SaveArtifact
<1>2. ASSUME NEW s \in Stages, StageStep(s) PROVE TypeOK'
    <2>1. CASE OpenStage(s)  BY <2>1, <1>p DEF OpenStage
    <2>2. CASE TickStage(s)  BY <2>2 DEF TickStage, Line
    <2>3. CASE CloseStage(s) BY <2>3 DEF CloseStage, Line
    <2>4. CASE Append(s)     BY <2>4, <1>p DEF Append
    <2> QED BY <1>2, <2>1, <2>2, <2>3, <2>4 DEF StageStep
<1>3. CASE CallFinish     BY <1>3 DEF CallFinish
<1>4. CASE FlushAndClose  BY <1>4 DEF FlushAndClose
<1>5. CASE Walk           BY <1>5 DEF Walk
<1>6. ASSUME NEW p \in Paths, Digest(p) PROVE TypeOK'
    BY <1>6 DEF Digest
<1>7. CASE Digested       BY <1>7 DEF Digested
<1>8. CASE CreateManifest BY <1>8 DEF CreateManifest
<1>9. CASE WriteManifest  BY <1>9 DEF WriteManifest
<1>10. CASE Record        BY <1>10 DEF Record
<1>11. CASE FinishFails   BY <1>11 DEF FinishFails
<1>12. CASE CallFail      BY <1>12 DEF CallFail
<1>13. CASE FailRecords   BY <1>13 DEF FailRecords
<1>14. CASE CallDrop      BY <1>14 DEF CallDrop
<1>15. CASE DropRecords   BY <1>15 DEF DropRecords
<1>16. CASE Kill          BY <1>16 DEF Kill
<1>17. CASE GcRecords     BY <1>17 DEF GcRecords
<1>18. CASE UNCHANGED vars BY <1>18 DEF vars
<1> QED BY <1>1, <1>2, <1>3, <1>4, <1>5, <1>6, <1>7, <1>8, <1>9, <1>10, <1>11,
           <1>12, <1>13, <1>14, <1>15, <1>16, <1>17, <1>18 DEF Next

\* Well-formedness needs nothing of the threads.
THEOREM SealTypeCorrect == Spec => []TypeOK
BY SealTypeInit, SealTypeStep, PTL DEF Spec

LEMMA SealInvInit == Init => SealInv
BY SealTypeInit DEF Init, SealInv, FlagInv, BusyInv, Busy, AbsentInv, HashInv, StatusInv

\* The owner moves only when no stage is inside a write.
LEMMA OwnerAlone == SameThread /\ OwnerRuns => \A s \in Stages : ~Busy(s)
BY Zenon DEF OwnerRuns

\* A stage reads the flag only while the owner is outside finish().
LEMMA StageAlone == SameThread /\ StageRuns => pc \in {"working", "returned"}
BY Zenon DEF StageRuns

LEMMA SealInvStep == SameThread /\ SealInv /\ [Next]_vars => SealInv'
<1> SUFFICES ASSUME SameThread, SealInv, [Next]_vars PROVE SealInv'
    OBVIOUS
<1>t. TypeOK'
    BY SealTypeStep DEF SealInv
<1>o. OwnerRuns => \A s \in Stages : ~Busy(s)
    BY OwnerAlone
<1>a. StageRuns => pc \in {"working", "returned"}
    BY StageAlone
<1> USE <1>t, <1>o DEF SealInv, TypeOK, FlagInv, BusyInv, Busy, AbsentInv, HashInv, StatusInv,
        Goto, stageVars
<1>1. ASSUME NEW p \in Artifacts, SaveArtifact(p) PROVE SealInv'
    BY <1>1 DEF SaveArtifact, Paths
<1>2. ASSUME NEW s \in Stages, StageStep(s) PROVE SealInv'
    <2>1. CASE OpenStage(s)  BY <2>1 DEF OpenStage
    <2>2. CASE TickStage(s)  BY <2>2, <1>a DEF TickStage, Line
    <2>3. CASE CloseStage(s) BY <2>3, <1>a DEF CloseStage, Line
    <2>4. CASE Append(s)     BY <2>4 DEF Append
    <2> QED BY <1>2, <2>1, <2>2, <2>3, <2>4 DEF StageStep
<1>3. CASE CallFinish     BY <1>3 DEF CallFinish
<1>4. CASE FlushAndClose  BY <1>4 DEF FlushAndClose
<1>5. CASE Walk           BY <1>5 DEF Walk
<1>6. ASSUME NEW p \in Paths, Digest(p) PROVE SealInv'
    BY <1>6 DEF Digest
<1>7. CASE Digested       BY <1>7 DEF Digested
<1>8. CASE CreateManifest BY <1>8 DEF CreateManifest
<1>9. CASE WriteManifest  BY <1>9 DEF WriteManifest
<1>10. CASE Record        BY <1>10 DEF Record
<1>11. CASE FinishFails   BY <1>11 DEF FinishFails
<1>12. CASE CallFail      BY <1>12 DEF CallFail
<1>13. CASE FailRecords   BY <1>13 DEF FailRecords
<1>14. CASE CallDrop      BY <1>14 DEF CallDrop
<1>15. CASE DropRecords   BY <1>15 DEF DropRecords
<1>16. CASE Kill          BY <1>16 DEF Kill
<1>17. CASE GcRecords     BY <1>17 DEF GcRecords
<1>18. CASE UNCHANGED vars BY <1>18 DEF vars
<1> QED BY <1>1, <1>2, <1>3, <1>4, <1>5, <1>6, <1>7, <1>8, <1>9, <1>10, <1>11,
           <1>12, <1>13, <1>14, <1>15, <1>16, <1>17, <1>18 DEF Next

LEMMA SealInvariance == SameThread /\ Spec => []SealInv
<1> SUFFICES ASSUME SameThread PROVE Spec => []SealInv
    OBVIOUS
<1>1. SealInv /\ [Next]_vars => SealInv'
    BY SealInvStep
<1> QED BY SealInvInit, <1>1, PTL DEF Spec

\* A run whose manifest is whole passes the manifest check in every later
\* state (run.rs, write_manifest; progress.rs, Stage::line).
THEOREM SealHolds == SameThread /\ Spec => []SealedRunVerifies
<1>1. SealInv => SealedRunVerifies
    BY DEF SealInv, HashInv, StatusInv, SealedRunVerifies, ManifestAgrees
<1> QED BY <1>1, SealInvariance, PTL

\* Once an outcome is recorded, by finish, fail, drop or gc, no file the
\* manifest covers changes.
THEOREM RecordedStill == SameThread /\ Spec => RecordedRunIsStill
<1>1. SealInv /\ [Next]_vars => [status # "none" => disk' = disk]_vars
    <2> SUFFICES ASSUME SealInv, [Next]_vars, status # "none" PROVE disk' = disk
        BY DEF vars
    <2>1. pc \in {"returned", "dead"}
        BY DEF SealInv, StatusInv
    <2>2. \A s \in Stages : ~Append(s) /\ ~OpenStage(s)
        BY <2>1 DEF SealInv, BusyInv, Append, OpenStage, Goto
    <2> QED BY <2>1, <2>2 DEF Next, vars, SaveArtifact, Goto, StageStep, TickStage,
               CloseStage, Line, CallFinish, FlushAndClose, Walk, Digest, Digested,
               CreateManifest, WriteManifest, Record, FinishFails, CallFail, FailRecords,
               CallDrop, DropRecords, Kill, GcRecords
<1> QED BY <1>1, SealInvariance, PTL DEF Spec, RecordedRunIsStill

-----------------------------------------------------------------------------
(***************************************************************************)
(* ProgressStage, for stages of every size: lines come at the rate of the  *)
(* work and the final count is left to close().                            *)
(*                                                                         *)
(* The counts in the properties do not determine the next line; `next`     *)
(* does.  The inductive invariant says where it is: on a multiple of the   *)
(* step, ahead of the count, and within one step of the last line.         *)
(***************************************************************************)

\* A step is at least one condition.
LEMMA StepPositive == \A n \in Nat : StepFor(n) \in Nat /\ StepFor(n) >= 1
BY DEF StepFor

\* What the loop over `next` does when it is entered on the line's own count:
\* one step.
LEMMA OneStepAhead ==
  ASSUME NEW s \in Nat, s >= 1, NEW n \in Nat
  PROVE  n + s * ((n - n) \div s + 1) = n + s
<1>1. (n - n) \div s = 0
    BY SMT
<1> QED BY <1>1

\* One step from a multiple of the step is a multiple of the step.
LEMMA NextMultiple ==
  ASSUME NEW s \in Nat, s >= 1, NEW n \in Nat, n % s = 0
  PROVE  (n + s) % s = 0
<1>1. PICK q \in Nat : n = s * q
    <2>1. n \div s \in Nat
        OBVIOUS
    <2>2. n = s * (n \div s) + (n % s)
        OBVIOUS
    <2>3. n = s * (n \div s)
        BY <2>1, <2>2
    <2> QED BY <2>1, <2>3
<1>2. n + s = (q + 1) * s
    BY <1>1
<1>3. \A k \in Nat : (k * s) % s = 0
    OBVIOUS
<1> QED BY <1>2, <1>3

\* The next line is ahead of the count and at most a step after the last one.
Ahead == Reporting => done < next /\ next <= said + step

\* A stage counts from zero.
Fresh == phase = "unopened" => done = 0

StageInv == StageTypeOK /\ Ahead /\ Fresh /\ FinalCountIsClosing /\ ReportsOnTheGrid

LEMMA StageInvInit == StageInit => StageInv
BY StageAssumption DEF StageInit, StageInv, StageTypeOK, Ahead, Fresh, Reporting, FinalCountIsClosing,
       ReportsOnTheGrid

LEMMA StageInvStep == StageInv /\ [StageNext]_progressVars => StageInv'
<1> SUFFICES ASSUME StageInv, [StageNext]_progressVars PROVE StageInv'
    OBVIOUS
<1> USE StageAssumption DEF StageInv, StageTypeOK, Ahead, Fresh, Reporting, FinalCountIsClosing,
       ReportsOnTheGrid, step
<1>s. StepFor(total) \in Nat /\ StepFor(total) >= 1
    BY StepPositive
<1>1. ASSUME NEW n \in Totals, Open("counted", n) PROVE StageInv'
    <2>1. n \in Nat /\ StepFor(n) \in Nat /\ StepFor(n) >= 1 /\ StepFor(n) % StepFor(n) = 0
        BY StepPositive
    <2> QED BY <1>1, <2>1 DEF Open
<1>2. CASE Open("unbounded", 0)
    <2>1. StepFor(0) \in Nat
        BY StepPositive
    <2> QED BY <1>2, <2>1 DEF Open
<1>3. CASE Tick
    <2>1. CASE ~IsLast(done + 1) /\ (Crosses(done + 1) \/ quiet >= ReportInterval)
        <3>1. CASE kind = "unbounded" \/ next > done + 1
            <4>1. Advance(done + 1) = next
                BY <3>1 DEF Advance
            <4> QED BY <1>3, <2>1, <3>1, <4>1, <1>s DEF Tick, IsLast, Crosses
        <3>2. CASE kind = "counted" /\ next <= done + 1
            <4>1. next = done + 1
                BY <2>1, <3>2, <1>3 DEF IsLast, Tick
            <4>2. Advance(done + 1) =
                    next + StepFor(total) * ((next - next) \div StepFor(total) + 1)
                BY <3>2, <4>1 DEF Advance
            <4>3. Advance(done + 1) = next + StepFor(total)
                BY <4>2, <1>s, OneStepAhead
            <4>4. phase # "unopened" => (next + StepFor(total)) % StepFor(total) = 0
                BY <3>2, <1>s, NextMultiple
            <4> QED BY <1>3, <2>1, <3>2, <4>1, <4>3, <4>4, <1>s DEF Tick, IsLast, Crosses
        <3> QED BY <3>1, <3>2
    <2>2. CASE ~(~IsLast(done + 1) /\ (Crosses(done + 1) \/ quiet >= ReportInterval))
        BY <1>3, <2>2, <1>s DEF Tick, IsLast, Crosses
    <2> QED BY <2>1, <2>2
<1>4. CASE Close
    BY <1>4 DEF Close
<1>5. CASE DropStage
    BY <1>5 DEF DropStage
<1>6. CASE Pass
    BY <1>6 DEF Pass
<1>7. CASE UNCHANGED progressVars
    BY <1>7 DEF progressVars
<1> QED BY <1>1, <1>2, <1>3, <1>4, <1>5, <1>6, <1>7 DEF StageNext

\* Stages of every size, ticked at any pace, are well formed and never let a
\* step's worth of conditions pass without a line (progress.rs, Stage::tick).
THEOREM StageSilence == StageSpec => [](StageTypeOK /\ BoundedSilence)
<1>1. StageInv => StageTypeOK /\ BoundedSilence
    <2> SUFFICES ASSUME StageInv, Reporting PROVE done < said + step
        BY DEF StageInv, BoundedSilence
    <2>1. step \in Nat
        BY StepPositive DEF step, StageInv, StageTypeOK
    <2> QED BY <2>1 DEF StageInv, StageTypeOK, Ahead
<1> QED BY <1>1, StageInvInit, StageInvStep, PTL DEF StageSpec

\* No tick says the total: the hundred-per-cent line is close()'s.
THEOREM StageFinalCount == StageSpec => []FinalCountIsClosing
<1>1. StageInv => FinalCountIsClosing
    BY DEF StageInv
<1> QED BY <1>1, StageInvInit, StageInvStep, PTL DEF StageSpec

\* Whatever the timer says in between, the next line is due on a multiple of the
\* step, for every total (progress.rs, the comment in tick).
THEOREM StageGrid == StageSpec => []ReportsOnTheGrid
<1>1. StageInv => ReportsOnTheGrid
    BY DEF StageInv
<1> QED BY <1>1, StageInvInit, StageInvStep, PTL DEF StageSpec
=============================================================================

--------------------------- MODULE VaultDeleteProofs ---------------------------
(***************************************************************************)
(* Proofs about VaultDelete, for any number of machines and mishaps.       *)
(*                                                                         *)
(* The safety of `runvault delete` rests on three things the code does:    *)
(* the tombstone is appended before anything is removed, a plan refuses a  *)
(* source without status.json, and plan_all leaves out what is tombstoned. *)
(* IInv adds to them what a delete in flight knows of the vault, and which *)
(* copy still says how the run ended while the others go.                  *)
(***************************************************************************)
EXTENDS VaultDelete, TLAPS

\* A delete that is past its first step has the tombstone written.
RecordedFirst ==
    \A m \in Machines : dpc[m] \in {"vault", "unlink", "source"} => tomb = "written"

\* Short of a torn removal, a directory is whole or gone.
SourcesWhole == torn = "no" => \A m \in Machines : src[m] \in {{}, Live, Settled}

\* The directory of a run that is being executed is whole, and not in the plan
\* of a delete.
RunKeepsFiles ==
    running = "yes" =>
        src[Home] = Live /\ (dpc[Home] = "idle" \/ "source" \notin plan[Home])

\* Syncs and deletes are not in flight together.
OneKind ==
    crossed = "no" => \A m, n \in Machines : spc[m] = "idle" \/ dpc[n] = "idle"

\* No sync is on its way to the run's place in the vault.
NoSyncAfter ==
    crossed = "no" /\ tomb = "written" =>
        \A m \in Machines : spc[m] \in {"idle", "legacy"}

VaultIsADirectory == vault # {} => "dir" \in vault

\* A delete that found no copy in the vault is right about it until its end.
PlanSeesVault ==
    crossed = "no" =>
        \A m \in Machines :
            dpc[m] \in {"tombstone", "vault"} /\ "vault" \notin plan[m] => vault = {}

\* A delete that is past the vault's copy has emptied its place.
Emptied ==
    crossed = "no" =>
        \A m \in Machines :
            /\ dpc[m] \in {"unlink", "source"} => vault = {}
            /\ dpc[m] = "source" => link = "none"

\* A completed delete is on record, and what it removed stays away.
DoneIsGone == done # {} => tomb = "written" /\ DeletedStaysDeleted

\* Until the run has ended nothing says how it ended, and no delete is planned.
NotYetEnded ==
    running = "yes" =>
        /\ tomb = "none" /\ "status.json" \notin listed
        /\ src[Home] = Live
        /\ \A m \in Machines :
             /\ dpc[m] = "idle" /\ plan[m] = {} /\ "status.json" \notin sending[m]
             /\ m # Home => src[m] = {}

\* Afterwards every source that is left says it, short of a torn removal.
EndedSources ==
    running = "no" /\ torn = "no" => \A m \in Machines : src[m] \in {{}, Settled}

\* A sync that goes on, or begins, after a delete was planned sends the status.
SendsStatus ==
    crossed = "no" /\ torn = "no" /\ (\E n \in Machines : plan[n] # {}) =>
        \A m \in Machines : spc[m] \in {"begin", "copy"} => "status.json" \in sending[m]

\* Where a delete was planned and there is no source, the copy in the vault says
\* how the run ended, or is gone for good.
StatusKept ==
    crossed = "no" /\ torn = "no" =>
        \A m \in Machines :
            plan[m] # {} /\ src[m] = {} =>
                (vault = {} /\ tomb = "written") \/ "status.json" \in listed

\* From a plan of a delete on, the copy in the vault can be read until it goes.
VaultReadable ==
    crossed = "no" /\ torn = "no" /\ (tomb = "written" \/ \E m \in Machines : dpc[m] # "idle")
        => ~VaultUnreadable

IInv ==
    /\ TypeOK /\ RecordedFirst /\ SourcesWhole /\ RunKeepsFiles
    /\ OneKind /\ NoSyncAfter /\ VaultIsADirectory /\ PlanSeesVault /\ Emptied
    /\ DoneIsGone
    /\ NotYetEnded /\ EndedSources /\ SendsStatus /\ StatusKept /\ VaultReadable
-----------------------------------------------------------------------------
\* Every step keeps the types.
LEMMA TypeStep ==
    ASSUME TypeOK, [Next]_vars
    PROVE  TypeOK'
<1>1. ASSUME EndRun
      PROVE  TypeOK'
      BY <1>1, DeleteAssumption DEF EndRun, TypeOK, Copied, Live, Settled, endVars,
        syncVars, deleteVars
<1>2. ASSUME NEW m \in Machines, CopyDirectory(m)
      PROVE  TypeOK'
      BY <1>2, DeleteAssumption DEF CopyDirectory, TypeOK, Copied, Live, Settled,
        endVars, syncVars, deleteVars
<1>3. ASSUME NEW m \in Machines, PlanSync(m)
      PROVE  TypeOK'
      BY <1>3, DeleteAssumption DEF PlanSync, PlanCanonical, PlanLegacy, SyncGoto,
        Beside, TypeOK, Copied, Live, Settled, endVars, syncVars, deleteVars
<1>4. ASSUME NEW m \in Machines, BeginCopy(m)
      PROVE  TypeOK'
      BY <1>4, DeleteAssumption DEF BeginCopy, SyncGoto, TypeOK, Copied, Live, Settled,
        endVars, syncVars, deleteVars
<1>5. ASSUME NEW m \in Machines, NEW f \in Copied, CopyFile(m, f)
      PROVE  TypeOK'
      BY <1>5, DeleteAssumption DEF CopyFile, TypeOK, Copied, Live, Settled, endVars,
        syncVars, deleteVars
<1>6. ASSUME NEW m \in Machines, CopyFails(m)
      PROVE  TypeOK'
      BY <1>6, DeleteAssumption DEF CopyFails, TypeOK, Copied, Live, Settled, endVars,
        syncVars, deleteVars
<1>7. ASSUME NEW m \in Machines, WriteReceipt(m)
      PROVE  TypeOK'
      BY <1>7, DeleteAssumption DEF WriteReceipt, SyncGoto, TypeOK, Copied, Live,
        Settled, endVars, syncVars, deleteVars
<1>8. ASSUME NEW m \in Machines, LinkBySlug(m)
      PROVE  TypeOK'
      BY <1>8, DeleteAssumption DEF LinkBySlug, SyncGoto, TypeOK, Copied, Live,
        Settled, endVars, syncVars, deleteVars
<1>9. ASSUME NEW m \in Machines, SendLegacy(m)
      PROVE  TypeOK'
      BY <1>9, DeleteAssumption DEF SendLegacy, SyncGoto, TypeOK, Copied, Live,
        Settled, endVars, syncVars, deleteVars
<1>10. ASSUME NEW m \in Machines, KillSync(m)
      PROVE  TypeOK'
      BY <1>10, DeleteAssumption DEF KillSync, TypeOK, Copied, Live, Settled, endVars,
        syncVars, deleteVars
<1>11. ASSUME NEW m \in Machines, PlanDelete(m)
      PROVE  TypeOK'
      BY <1>11, DeleteAssumption DEF PlanDelete, DeleteGoto, Beside, TypeOK, Copied,
        Live, Settled, endVars, syncVars, deleteVars
<1>12. ASSUME NEW m \in Machines, AppendTombstone(m)
      PROVE  TypeOK'
      BY <1>12, DeleteAssumption DEF AppendTombstone, DeleteGoto, TypeOK, Copied, Live,
        Settled, endVars, syncVars, deleteVars
<1>13. ASSUME NEW m \in Machines, RemoveVault(m)
      PROVE  TypeOK'
      BY <1>13, DeleteAssumption DEF RemoveVault, DeleteGoto, TypeOK, Copied, Live,
        Settled, endVars, syncVars, deleteVars
<1>14. ASSUME NEW m \in Machines, RemoveLink(m)
      PROVE  TypeOK'
      BY <1>14, DeleteAssumption DEF RemoveLink, DeleteGoto, TypeOK, Copied, Live,
        Settled, endVars, syncVars, deleteVars
<1>15. ASSUME NEW m \in Machines, RemoveSource(m)
      PROVE  TypeOK'
      BY <1>15, DeleteAssumption DEF RemoveSource, DeleteGoto, TypeOK, Copied, Live,
        Settled, endVars, syncVars, deleteVars
<1>16. ASSUME NEW m \in Machines, KillDelete(m)
      PROVE  TypeOK'
  <2>1. mishaps' \in 0..MaxMishaps /\ torn' \in {"no", "yes"}
        BY <1>16, DeleteAssumption DEF KillDelete, TypeOK
  <2>2. dpc' \in [Machines -> {"idle", "tombstone", "vault", "unlink", "source"}]
        BY <1>16 DEF KillDelete, TypeOK
  <2>3. vault' \in SUBSET (Copied \cup {"dir", "sync.json"}) /\ listed' \in SUBSET Copied
        BY <1>16 DEF KillDelete, TypeOK
  <2>4. src' \in [Machines -> SUBSET (Live \cup Settled)]
        BY <1>16 DEF KillDelete, TypeOK
  <2> QED  BY <1>16, <2>1, <2>2, <2>3, <2>4 DEF KillDelete, TypeOK, syncVars
<1>17. CASE UNCHANGED vars
      BY <1>17 DEF TypeOK, vars, syncVars, deleteVars, endVars
<1> QED  BY <1>1, <1>2, <1>3, <1>4, <1>5, <1>6, <1>7, <1>8, <1>9, <1>10, <1>11, <1>12,
        <1>13, <1>14, <1>15, <1>16, <1>17 DEF Next, SyncStep, DeleteStep

\* The tombstone is never taken back, and no delete removes before it.
LEMMA RecordedStep ==
    ASSUME TypeOK, RecordedFirst, [Next]_vars
    PROVE  RecordedFirst'
<1>1. ASSUME NEW m \in Machines, PlanDelete(m)
      PROVE  RecordedFirst'
      BY <1>1 DEF PlanDelete, DeleteGoto, TypeOK, RecordedFirst, endVars, syncVars,
        deleteVars
<1>2. ASSUME NEW m \in Machines, AppendTombstone(m)
      PROVE  RecordedFirst'
      BY <1>2 DEF AppendTombstone, DeleteGoto, TypeOK, RecordedFirst, endVars,
        syncVars, deleteVars
<1>3. ASSUME NEW m \in Machines, RemoveVault(m)
      PROVE  RecordedFirst'
      BY <1>3 DEF RemoveVault, DeleteGoto, TypeOK, RecordedFirst, endVars, syncVars,
        deleteVars
<1>4. ASSUME NEW m \in Machines, RemoveLink(m)
      PROVE  RecordedFirst'
      BY <1>4 DEF RemoveLink, DeleteGoto, TypeOK, RecordedFirst, endVars, syncVars,
        deleteVars
<1>5. ASSUME NEW m \in Machines, RemoveSource(m)
      PROVE  RecordedFirst'
      BY <1>5 DEF RemoveSource, DeleteGoto, TypeOK, RecordedFirst, endVars, syncVars,
        deleteVars
<1>6. ASSUME NEW m \in Machines, KillDelete(m)
      PROVE  RecordedFirst'
      BY <1>6 DEF KillDelete, TypeOK, RecordedFirst, endVars, syncVars, deleteVars
<1>7. ASSUME NEW m \in Machines,
             \/ CopyDirectory(m) \/ PlanSync(m) \/ BeginCopy(m)
             \/ (\E f \in Copied : CopyFile(m, f)) \/ CopyFails(m)
             \/ WriteReceipt(m) \/ LinkBySlug(m) \/ SendLegacy(m)
             \/ KillSync(m)
      PROVE  RecordedFirst'
      BY <1>7 DEF CopyDirectory, PlanSync, SyncGoto, BeginCopy, CopyFile, CopyFails,
        WriteReceipt, LinkBySlug, SendLegacy, KillSync, TypeOK, RecordedFirst,
        syncVars, deleteVars, endVars
<1>8. CASE EndRun
      BY <1>8 DEF EndRun, TypeOK, RecordedFirst, syncVars, deleteVars, endVars
<1>9. CASE UNCHANGED vars
      BY <1>9 DEF TypeOK, RecordedFirst, vars, syncVars, deleteVars, endVars
<1> QED  BY <1>1, <1>2, <1>3, <1>4, <1>5, <1>6, <1>7, <1>8, <1>9 DEF Next, SyncStep, DeleteStep

\* Only a removal that was torn leaves a part of a directory.
LEMMA WholeStep ==
    ASSUME TypeOK, RunKeepsFiles, SourcesWhole, [Next]_vars
    PROVE  SourcesWhole'
<1>1. ASSUME EndRun
      PROVE  SourcesWhole'
      BY <1>1 DEF EndRun, TypeOK, RunKeepsFiles, SourcesWhole, Live, Settled, endVars,
        syncVars, deleteVars
<1>2. ASSUME NEW m \in Machines, CopyDirectory(m)
      PROVE  SourcesWhole'
      BY <1>2 DEF CopyDirectory, TypeOK, RunKeepsFiles, SourcesWhole, Live, Settled,
        endVars, syncVars, deleteVars
<1>3. ASSUME NEW m \in Machines, RemoveSource(m)
      PROVE  SourcesWhole'
      BY <1>3 DEF RemoveSource, DeleteGoto, TypeOK, RunKeepsFiles, SourcesWhole, Live,
        Settled, endVars, syncVars, deleteVars
<1>4. ASSUME NEW m \in Machines, KillDelete(m)
      PROVE  SourcesWhole'
      BY <1>4 DEF KillDelete, TypeOK, RunKeepsFiles, SourcesWhole, Live, Settled,
        endVars, syncVars, deleteVars
<1>5. ASSUME NEW m \in Machines,
             \/ PlanSync(m) \/ BeginCopy(m)
             \/ (\E f \in Copied : CopyFile(m, f)) \/ CopyFails(m)
             \/ WriteReceipt(m) \/ LinkBySlug(m) \/ SendLegacy(m)
             \/ KillSync(m) \/ PlanDelete(m) \/ AppendTombstone(m)
             \/ RemoveVault(m) \/ RemoveLink(m)
      PROVE  SourcesWhole'
      BY <1>5 DEF PlanSync, SyncGoto, BeginCopy, CopyFile, CopyFails, WriteReceipt,
        LinkBySlug, SendLegacy, KillSync, PlanDelete, DeleteGoto, AppendTombstone,
        RemoveVault, RemoveLink, TypeOK, RunKeepsFiles, SourcesWhole, syncVars,
        deleteVars, endVars
<1>6. CASE UNCHANGED vars
      BY <1>6 DEF TypeOK, RunKeepsFiles, SourcesWhole, vars, syncVars, deleteVars,
        endVars
<1> QED  BY <1>1, <1>2, <1>3, <1>4, <1>5, <1>6 DEF Next, SyncStep, DeleteStep

\* eligible_state refuses a source without a status, so no delete of the
\* directory is planned before the run has ended.
LEMMA RunningStep ==
    ASSUME TypeOK, RunKeepsFiles, [Next]_vars
    PROVE  RunKeepsFiles'
<1>1. ASSUME EndRun
      PROVE  RunKeepsFiles'
      BY <1>1, DeleteAssumption DEF EndRun, TypeOK, RunKeepsFiles, Live, Settled,
        endVars, syncVars, deleteVars
<1>2. ASSUME NEW m \in Machines, CopyDirectory(m)
      PROVE  RunKeepsFiles'
      BY <1>2, DeleteAssumption DEF CopyDirectory, TypeOK, RunKeepsFiles, Live,
        Settled, endVars, syncVars, deleteVars
<1>3. ASSUME NEW m \in Machines, PlanDelete(m)
      PROVE  RunKeepsFiles'
      BY <1>3, DeleteAssumption DEF PlanDelete, DeleteGoto, Refuses, Ineligible,
        TypeOK, RunKeepsFiles, Live, Settled, endVars, syncVars, deleteVars
<1>4. ASSUME NEW m \in Machines, AppendTombstone(m)
      PROVE  RunKeepsFiles'
      BY <1>4, DeleteAssumption DEF AppendTombstone, DeleteGoto, TypeOK, RunKeepsFiles,
        Live, Settled, endVars, syncVars, deleteVars
<1>5. ASSUME NEW m \in Machines, RemoveVault(m)
      PROVE  RunKeepsFiles'
      BY <1>5, DeleteAssumption DEF RemoveVault, DeleteGoto, TypeOK, RunKeepsFiles,
        Live, Settled, endVars, syncVars, deleteVars
<1>6. ASSUME NEW m \in Machines, RemoveLink(m)
      PROVE  RunKeepsFiles'
      BY <1>6, DeleteAssumption DEF RemoveLink, DeleteGoto, TypeOK, RunKeepsFiles,
        Live, Settled, endVars, syncVars, deleteVars
<1>7. ASSUME NEW m \in Machines, RemoveSource(m)
      PROVE  RunKeepsFiles'
      BY <1>7, DeleteAssumption DEF RemoveSource, DeleteGoto, TypeOK, RunKeepsFiles,
        Live, Settled, endVars, syncVars, deleteVars
<1>8. ASSUME NEW m \in Machines, KillDelete(m)
      PROVE  RunKeepsFiles'
      BY <1>8, DeleteAssumption DEF KillDelete, TypeOK, RunKeepsFiles, Live, Settled,
        endVars, syncVars, deleteVars
<1>9. ASSUME NEW m \in Machines,
             \/ PlanSync(m) \/ BeginCopy(m)
             \/ (\E f \in Copied : CopyFile(m, f)) \/ CopyFails(m)
             \/ WriteReceipt(m) \/ LinkBySlug(m) \/ SendLegacy(m)
             \/ KillSync(m)
      PROVE  RunKeepsFiles'
      BY <1>9 DEF PlanSync, SyncGoto, BeginCopy, CopyFile, CopyFails, WriteReceipt,
        LinkBySlug, SendLegacy, KillSync, TypeOK, RunKeepsFiles, syncVars, deleteVars,
        endVars
<1>10. CASE UNCHANGED vars
      BY <1>10 DEF TypeOK, RunKeepsFiles, vars, syncVars, deleteVars, endVars
<1> QED  BY <1>1, <1>2, <1>3, <1>4, <1>5, <1>6, <1>7, <1>8, <1>9, <1>10 DEF Next, SyncStep, DeleteStep

\* Two commands of different kinds in flight are recorded as crossed.
LEMMA KindStep ==
    ASSUME TypeOK, OneKind, [Next]_vars
    PROVE  OneKind'
<1>1. ASSUME NEW m \in Machines, PlanSync(m)
      PROVE  OneKind'
      BY <1>1 DEF PlanSync, PlanCanonical, PlanLegacy, SyncGoto, Beside, TypeOK,
        OneKind, Syncing, Deleting, endVars, syncVars, deleteVars
<1>2. ASSUME NEW m \in Machines, BeginCopy(m)
      PROVE  OneKind'
      BY <1>2 DEF BeginCopy, SyncGoto, TypeOK, OneKind, Syncing, Deleting, endVars,
        syncVars, deleteVars
<1>3. ASSUME NEW m \in Machines, CopyFails(m)
      PROVE  OneKind'
      BY <1>3 DEF CopyFails, TypeOK, OneKind, Syncing, Deleting, endVars, syncVars,
        deleteVars
<1>4. ASSUME NEW m \in Machines, WriteReceipt(m)
      PROVE  OneKind'
      BY <1>4 DEF WriteReceipt, SyncGoto, TypeOK, OneKind, Syncing, Deleting, endVars,
        syncVars, deleteVars
<1>5. ASSUME NEW m \in Machines, LinkBySlug(m)
      PROVE  OneKind'
      BY <1>5 DEF LinkBySlug, SyncGoto, TypeOK, OneKind, Syncing, Deleting, endVars,
        syncVars, deleteVars
<1>6. ASSUME NEW m \in Machines, SendLegacy(m)
      PROVE  OneKind'
      BY <1>6 DEF SendLegacy, SyncGoto, TypeOK, OneKind, Syncing, Deleting, endVars,
        syncVars, deleteVars
<1>7. ASSUME NEW m \in Machines, KillSync(m)
      PROVE  OneKind'
      BY <1>7 DEF KillSync, TypeOK, OneKind, Syncing, Deleting, endVars, syncVars,
        deleteVars
<1>8. ASSUME NEW m \in Machines, PlanDelete(m)
      PROVE  OneKind'
      BY <1>8 DEF PlanDelete, DeleteGoto, Beside, TypeOK, OneKind, Syncing, Deleting,
        endVars, syncVars, deleteVars
<1>9. ASSUME NEW m \in Machines, AppendTombstone(m)
      PROVE  OneKind'
      BY <1>9 DEF AppendTombstone, DeleteGoto, TypeOK, OneKind, Syncing, Deleting,
        endVars, syncVars, deleteVars
<1>10. ASSUME NEW m \in Machines, RemoveVault(m)
      PROVE  OneKind'
      BY <1>10 DEF RemoveVault, DeleteGoto, TypeOK, OneKind, Syncing, Deleting,
        endVars, syncVars, deleteVars
<1>11. ASSUME NEW m \in Machines, RemoveLink(m)
      PROVE  OneKind'
      BY <1>11 DEF RemoveLink, DeleteGoto, TypeOK, OneKind, Syncing, Deleting, endVars,
        syncVars, deleteVars
<1>12. ASSUME NEW m \in Machines, RemoveSource(m)
      PROVE  OneKind'
      BY <1>12 DEF RemoveSource, DeleteGoto, TypeOK, OneKind, Syncing, Deleting,
        endVars, syncVars, deleteVars
<1>13. ASSUME NEW m \in Machines, KillDelete(m)
      PROVE  OneKind'
      BY <1>13 DEF KillDelete, TypeOK, OneKind, Syncing, Deleting, endVars, syncVars,
        deleteVars
<1>14. ASSUME NEW m \in Machines,
             \/ CopyDirectory(m) \/ (\E f \in Copied : CopyFile(m, f))
      PROVE  OneKind'
      BY <1>14 DEF CopyDirectory, CopyFile, TypeOK, OneKind, syncVars, deleteVars,
        endVars
<1>15. CASE EndRun
      BY <1>15 DEF EndRun, TypeOK, OneKind, syncVars, deleteVars, endVars
<1>16. CASE UNCHANGED vars
      BY <1>16 DEF TypeOK, OneKind, vars, syncVars, deleteVars, endVars
<1> QED  BY <1>1, <1>2, <1>3, <1>4, <1>5, <1>6, <1>7, <1>8, <1>9, <1>10, <1>11, <1>12,
        <1>13, <1>14, <1>15, <1>16 DEF Next, SyncStep, DeleteStep

\* Once the tombstone is written, plan_all leaves the run out.
LEMMA AfterStep ==
    ASSUME TypeOK, OneKind, NoSyncAfter, [Next]_vars
    PROVE  NoSyncAfter'
<1>1. ASSUME NEW m \in Machines, PlanSync(m)
      PROVE  NoSyncAfter'
      BY <1>1 DEF PlanSync, PlanCanonical, PlanLegacy, SyncGoto, Beside, TypeOK,
        OneKind, NoSyncAfter, Syncing, Deleting, endVars, syncVars, deleteVars
<1>2. ASSUME NEW m \in Machines, BeginCopy(m)
      PROVE  NoSyncAfter'
      BY <1>2 DEF BeginCopy, SyncGoto, TypeOK, OneKind, NoSyncAfter, endVars, syncVars,
        deleteVars
<1>3. ASSUME NEW m \in Machines, CopyFails(m)
      PROVE  NoSyncAfter'
      BY <1>3 DEF CopyFails, TypeOK, OneKind, NoSyncAfter, endVars, syncVars, deleteVars
<1>4. ASSUME NEW m \in Machines, WriteReceipt(m)
      PROVE  NoSyncAfter'
      BY <1>4 DEF WriteReceipt, SyncGoto, TypeOK, OneKind, NoSyncAfter, endVars,
        syncVars, deleteVars
<1>5. ASSUME NEW m \in Machines, LinkBySlug(m)
      PROVE  NoSyncAfter'
      BY <1>5 DEF LinkBySlug, SyncGoto, TypeOK, OneKind, NoSyncAfter, endVars,
        syncVars, deleteVars
<1>6. ASSUME NEW m \in Machines, SendLegacy(m)
      PROVE  NoSyncAfter'
      BY <1>6 DEF SendLegacy, SyncGoto, TypeOK, OneKind, NoSyncAfter, endVars,
        syncVars, deleteVars
<1>7. ASSUME NEW m \in Machines, KillSync(m)
      PROVE  NoSyncAfter'
      BY <1>7 DEF KillSync, TypeOK, OneKind, NoSyncAfter, endVars, syncVars, deleteVars
<1>8. ASSUME NEW m \in Machines, PlanDelete(m)
      PROVE  NoSyncAfter'
      BY <1>8 DEF PlanDelete, DeleteGoto, Beside, TypeOK, OneKind, NoSyncAfter,
        Syncing, Deleting, endVars, syncVars, deleteVars
<1>9. ASSUME NEW m \in Machines, AppendTombstone(m)
      PROVE  NoSyncAfter'
      BY <1>9 DEF AppendTombstone, DeleteGoto, TypeOK, OneKind, NoSyncAfter, endVars,
        syncVars, deleteVars
<1>10. ASSUME NEW m \in Machines,
             \/ CopyDirectory(m) \/ (\E f \in Copied : CopyFile(m, f))
             \/ RemoveVault(m) \/ RemoveLink(m) \/ RemoveSource(m)
             \/ KillDelete(m)
      PROVE  NoSyncAfter'
      BY <1>10 DEF CopyDirectory, CopyFile, RemoveVault, DeleteGoto, RemoveLink,
        RemoveSource, KillDelete, TypeOK, OneKind, NoSyncAfter, syncVars, deleteVars,
        endVars
<1>11. CASE EndRun
      BY <1>11 DEF EndRun, TypeOK, OneKind, NoSyncAfter, syncVars, deleteVars, endVars
<1>12. CASE UNCHANGED vars
      BY <1>12 DEF TypeOK, OneKind, NoSyncAfter, vars, syncVars, deleteVars, endVars
<1> QED  BY <1>1, <1>2, <1>3, <1>4, <1>5, <1>6, <1>7, <1>8, <1>9, <1>10, <1>11, <1>12 DEF Next, SyncStep, DeleteStep

\* A removal takes the directory last.
LEMMA DirectoryStep ==
    ASSUME TypeOK, VaultIsADirectory, [Next]_vars
    PROVE  VaultIsADirectory'
<1>1. ASSUME NEW m \in Machines, BeginCopy(m)
      PROVE  VaultIsADirectory'
      BY <1>1 DEF BeginCopy, SyncGoto, TypeOK, VaultIsADirectory, endVars, syncVars,
        deleteVars
<1>2. ASSUME NEW m \in Machines, NEW f \in Copied, CopyFile(m, f)
      PROVE  VaultIsADirectory'
      BY <1>2 DEF CopyFile, TypeOK, VaultIsADirectory, endVars, syncVars, deleteVars
<1>3. ASSUME NEW m \in Machines, WriteReceipt(m)
      PROVE  VaultIsADirectory'
      BY <1>3 DEF WriteReceipt, SyncGoto, TypeOK, VaultIsADirectory, endVars, syncVars,
        deleteVars
<1>4. ASSUME NEW m \in Machines, RemoveVault(m)
      PROVE  VaultIsADirectory'
      BY <1>4 DEF RemoveVault, DeleteGoto, TypeOK, VaultIsADirectory, endVars,
        syncVars, deleteVars
<1>5. ASSUME NEW m \in Machines, KillDelete(m)
      PROVE  VaultIsADirectory'
      BY <1>5 DEF KillDelete, TypeOK, VaultIsADirectory, endVars, syncVars, deleteVars
<1>6. ASSUME NEW m \in Machines,
             \/ CopyDirectory(m) \/ PlanSync(m) \/ CopyFails(m)
             \/ LinkBySlug(m) \/ SendLegacy(m) \/ KillSync(m) \/ PlanDelete(m)
             \/ AppendTombstone(m) \/ RemoveLink(m) \/ RemoveSource(m)
      PROVE  VaultIsADirectory'
      BY <1>6 DEF CopyDirectory, PlanSync, SyncGoto, CopyFails, LinkBySlug, SendLegacy,
        KillSync, PlanDelete, DeleteGoto, AppendTombstone, RemoveLink, RemoveSource,
        TypeOK, VaultIsADirectory, syncVars, deleteVars, endVars
<1>7. CASE EndRun
      BY <1>7 DEF EndRun, TypeOK, VaultIsADirectory, syncVars, deleteVars, endVars
<1>8. CASE UNCHANGED vars
      BY <1>8 DEF TypeOK, VaultIsADirectory, vars, syncVars, deleteVars, endVars
<1> QED  BY <1>1, <1>2, <1>3, <1>4, <1>5, <1>6, <1>7, <1>8 DEF Next, SyncStep, DeleteStep

\* While a delete runs and no sync does, the copy does not come into being.
LEMMA SeenStep ==
    ASSUME TypeOK, OneKind, VaultIsADirectory, PlanSeesVault, [Next]_vars
    PROVE  PlanSeesVault'
<1>1. ASSUME NEW m \in Machines, PlanSync(m)
      PROVE  PlanSeesVault'
      BY <1>1 DEF PlanSync, PlanCanonical, PlanLegacy, SyncGoto, Beside, TypeOK,
        OneKind, VaultIsADirectory, PlanSeesVault, Syncing, Deleting, endVars,
        syncVars, deleteVars
<1>2. ASSUME NEW m \in Machines, BeginCopy(m)
      PROVE  PlanSeesVault'
      BY <1>2 DEF BeginCopy, SyncGoto, TypeOK, OneKind, VaultIsADirectory,
        PlanSeesVault, Syncing, endVars, syncVars, deleteVars
<1>3. ASSUME NEW m \in Machines, NEW f \in Copied, CopyFile(m, f)
      PROVE  PlanSeesVault'
      BY <1>3 DEF CopyFile, TypeOK, OneKind, VaultIsADirectory, PlanSeesVault, Syncing,
        endVars, syncVars, deleteVars
<1>4. ASSUME NEW m \in Machines, WriteReceipt(m)
      PROVE  PlanSeesVault'
      BY <1>4 DEF WriteReceipt, SyncGoto, TypeOK, OneKind, VaultIsADirectory,
        PlanSeesVault, Syncing, endVars, syncVars, deleteVars
<1>5. ASSUME NEW m \in Machines, PlanDelete(m)
      PROVE  PlanSeesVault'
      BY <1>5 DEF PlanDelete, DeleteGoto, Beside, TypeOK, OneKind, VaultIsADirectory,
        PlanSeesVault, Syncing, Deleting, endVars, syncVars, deleteVars
<1>6. ASSUME NEW m \in Machines, AppendTombstone(m)
      PROVE  PlanSeesVault'
      BY <1>6 DEF AppendTombstone, DeleteGoto, TypeOK, OneKind, VaultIsADirectory,
        PlanSeesVault, Syncing, endVars, syncVars, deleteVars
<1>7. ASSUME NEW m \in Machines, RemoveVault(m)
      PROVE  PlanSeesVault'
      BY <1>7 DEF RemoveVault, DeleteGoto, TypeOK, OneKind, VaultIsADirectory,
        PlanSeesVault, Syncing, endVars, syncVars, deleteVars
<1>8. ASSUME NEW m \in Machines, RemoveLink(m)
      PROVE  PlanSeesVault'
      BY <1>8 DEF RemoveLink, DeleteGoto, TypeOK, OneKind, VaultIsADirectory,
        PlanSeesVault, Syncing, endVars, syncVars, deleteVars
<1>9. ASSUME NEW m \in Machines, RemoveSource(m)
      PROVE  PlanSeesVault'
      BY <1>9 DEF RemoveSource, DeleteGoto, TypeOK, OneKind, VaultIsADirectory,
        PlanSeesVault, Syncing, endVars, syncVars, deleteVars
<1>10. ASSUME NEW m \in Machines, KillDelete(m)
      PROVE  PlanSeesVault'
      BY <1>10 DEF KillDelete, TypeOK, OneKind, VaultIsADirectory, PlanSeesVault,
        Syncing, endVars, syncVars, deleteVars
<1>11. ASSUME NEW m \in Machines,
             \/ CopyDirectory(m) \/ CopyFails(m) \/ LinkBySlug(m)
             \/ SendLegacy(m) \/ KillSync(m)
      PROVE  PlanSeesVault'
      BY <1>11 DEF CopyDirectory, CopyFails, LinkBySlug, SyncGoto, SendLegacy,
        KillSync, TypeOK, OneKind, VaultIsADirectory, PlanSeesVault, syncVars,
        deleteVars, endVars
<1>12. CASE EndRun
      BY <1>12 DEF EndRun, TypeOK, OneKind, VaultIsADirectory, PlanSeesVault, syncVars,
        deleteVars, endVars
<1>13. CASE UNCHANGED vars
      BY <1>13 DEF TypeOK, OneKind, VaultIsADirectory, PlanSeesVault, vars, syncVars,
        deleteVars, endVars
<1> QED  BY <1>1, <1>2, <1>3, <1>4, <1>5, <1>6, <1>7, <1>8, <1>9, <1>10, <1>11, <1>12,
        <1>13 DEF Next, SyncStep, DeleteStep

\* After remove_vault the copy, and then the link, is gone.
LEMMA EmptiedStep ==
    ASSUME TypeOK, OneKind, VaultIsADirectory, PlanSeesVault, Emptied, [Next]_vars
    PROVE  Emptied'
<1>1. ASSUME NEW m \in Machines, PlanSync(m)
      PROVE  Emptied'
      BY <1>1 DEF PlanSync, PlanCanonical, PlanLegacy, SyncGoto, Beside, TypeOK,
        OneKind, VaultIsADirectory, PlanSeesVault, Emptied, Syncing, Deleting, endVars,
        syncVars, deleteVars
<1>2. ASSUME NEW m \in Machines, BeginCopy(m)
      PROVE  Emptied'
      BY <1>2 DEF BeginCopy, SyncGoto, TypeOK, OneKind, VaultIsADirectory,
        PlanSeesVault, Emptied, endVars, syncVars, deleteVars
<1>3. ASSUME NEW m \in Machines, NEW f \in Copied, CopyFile(m, f)
      PROVE  Emptied'
      BY <1>3 DEF CopyFile, TypeOK, OneKind, VaultIsADirectory, PlanSeesVault, Emptied,
        endVars, syncVars, deleteVars
<1>4. ASSUME NEW m \in Machines, WriteReceipt(m)
      PROVE  Emptied'
      BY <1>4 DEF WriteReceipt, SyncGoto, TypeOK, OneKind, VaultIsADirectory,
        PlanSeesVault, Emptied, endVars, syncVars, deleteVars
<1>5. ASSUME NEW m \in Machines, LinkBySlug(m)
      PROVE  Emptied'
      BY <1>5 DEF LinkBySlug, SyncGoto, TypeOK, OneKind, VaultIsADirectory,
        PlanSeesVault, Emptied, endVars, syncVars, deleteVars
<1>6. ASSUME NEW m \in Machines, PlanDelete(m)
      PROVE  Emptied'
      BY <1>6 DEF PlanDelete, DeleteGoto, Beside, TypeOK, OneKind, VaultIsADirectory,
        PlanSeesVault, Emptied, Syncing, Deleting, endVars, syncVars, deleteVars
<1>7. ASSUME NEW m \in Machines, AppendTombstone(m)
      PROVE  Emptied'
      BY <1>7 DEF AppendTombstone, DeleteGoto, TypeOK, OneKind, VaultIsADirectory,
        PlanSeesVault, Emptied, endVars, syncVars, deleteVars
<1>8. ASSUME NEW m \in Machines, RemoveVault(m)
      PROVE  Emptied'
      BY <1>8 DEF RemoveVault, DeleteGoto, TypeOK, OneKind, VaultIsADirectory,
        PlanSeesVault, Emptied, endVars, syncVars, deleteVars
<1>9. ASSUME NEW m \in Machines, RemoveLink(m)
      PROVE  Emptied'
      BY <1>9 DEF RemoveLink, DeleteGoto, TypeOK, OneKind, VaultIsADirectory,
        PlanSeesVault, Emptied, endVars, syncVars, deleteVars
<1>10. ASSUME NEW m \in Machines, RemoveSource(m)
      PROVE  Emptied'
      BY <1>10 DEF RemoveSource, DeleteGoto, TypeOK, OneKind, VaultIsADirectory,
        PlanSeesVault, Emptied, endVars, syncVars, deleteVars
<1>11. ASSUME NEW m \in Machines, KillDelete(m)
      PROVE  Emptied'
      BY <1>11 DEF KillDelete, TypeOK, OneKind, VaultIsADirectory, PlanSeesVault,
        Emptied, endVars, syncVars, deleteVars
<1>12. ASSUME NEW m \in Machines,
             \/ CopyDirectory(m) \/ CopyFails(m) \/ SendLegacy(m)
             \/ KillSync(m)
      PROVE  Emptied'
      BY <1>12 DEF CopyDirectory, CopyFails, SendLegacy, SyncGoto, KillSync, TypeOK,
        OneKind, VaultIsADirectory, PlanSeesVault, Emptied, syncVars, deleteVars,
        endVars
<1>13. CASE EndRun
      BY <1>13 DEF EndRun, TypeOK, OneKind, VaultIsADirectory, PlanSeesVault, Emptied,
        syncVars, deleteVars, endVars
<1>14. CASE UNCHANGED vars
      BY <1>14 DEF TypeOK, OneKind, VaultIsADirectory, PlanSeesVault, Emptied, vars,
        syncVars, deleteVars, endVars
<1> QED  BY <1>1, <1>2, <1>3, <1>4, <1>5, <1>6, <1>7, <1>8, <1>9, <1>10, <1>11, <1>12,
        <1>13, <1>14 DEF Next, SyncStep, DeleteStep

\* And nothing brings it back.
LEMMA DoneStep ==
    ASSUME TypeOK, OneKind, NoSyncAfter, RecordedFirst, VaultIsADirectory, Emptied, DoneIsGone, [Next]_vars
    PROVE  DoneIsGone'
<1>1. ASSUME NEW m \in Machines, CopyDirectory(m)
      PROVE  DoneIsGone'
      BY <1>1 DEF CopyDirectory, TypeOK, OneKind, NoSyncAfter, RecordedFirst,
        VaultIsADirectory, Emptied, DoneIsGone, DeletedStaysDeleted, endVars, syncVars,
        deleteVars
<1>2. ASSUME NEW m \in Machines, PlanSync(m)
      PROVE  DoneIsGone'
      BY <1>2 DEF PlanSync, PlanCanonical, PlanLegacy, SyncGoto, Beside, TypeOK,
        OneKind, NoSyncAfter, RecordedFirst, VaultIsADirectory, Emptied, DoneIsGone,
        DeletedStaysDeleted, Syncing, Deleting, endVars, syncVars, deleteVars
<1>3. ASSUME NEW m \in Machines, BeginCopy(m)
      PROVE  DoneIsGone'
      BY <1>3 DEF BeginCopy, SyncGoto, TypeOK, OneKind, NoSyncAfter, RecordedFirst,
        VaultIsADirectory, Emptied, DoneIsGone, DeletedStaysDeleted, endVars, syncVars,
        deleteVars
<1>4. ASSUME NEW m \in Machines, NEW f \in Copied, CopyFile(m, f)
      PROVE  DoneIsGone'
      BY <1>4 DEF CopyFile, TypeOK, OneKind, NoSyncAfter, RecordedFirst,
        VaultIsADirectory, Emptied, DoneIsGone, DeletedStaysDeleted, endVars, syncVars,
        deleteVars
<1>5. ASSUME NEW m \in Machines, WriteReceipt(m)
      PROVE  DoneIsGone'
      BY <1>5 DEF WriteReceipt, SyncGoto, TypeOK, OneKind, NoSyncAfter, RecordedFirst,
        VaultIsADirectory, Emptied, DoneIsGone, DeletedStaysDeleted, endVars, syncVars,
        deleteVars
<1>6. ASSUME NEW m \in Machines, LinkBySlug(m)
      PROVE  DoneIsGone'
      BY <1>6 DEF LinkBySlug, SyncGoto, TypeOK, OneKind, NoSyncAfter, RecordedFirst,
        VaultIsADirectory, Emptied, DoneIsGone, DeletedStaysDeleted, endVars, syncVars,
        deleteVars
<1>7. ASSUME NEW m \in Machines, PlanDelete(m)
      PROVE  DoneIsGone'
      BY <1>7 DEF PlanDelete, DeleteGoto, Beside, TypeOK, OneKind, NoSyncAfter,
        RecordedFirst, VaultIsADirectory, Emptied, DoneIsGone, DeletedStaysDeleted,
        Syncing, Deleting, endVars, syncVars, deleteVars
<1>8. ASSUME NEW m \in Machines, AppendTombstone(m)
      PROVE  DoneIsGone'
      BY <1>8 DEF AppendTombstone, DeleteGoto, TypeOK, OneKind, NoSyncAfter,
        RecordedFirst, VaultIsADirectory, Emptied, DoneIsGone, DeletedStaysDeleted,
        endVars, syncVars, deleteVars
<1>9. ASSUME NEW m \in Machines, RemoveVault(m)
      PROVE  DoneIsGone'
      BY <1>9 DEF RemoveVault, DeleteGoto, TypeOK, OneKind, NoSyncAfter, RecordedFirst,
        VaultIsADirectory, Emptied, DoneIsGone, DeletedStaysDeleted, endVars, syncVars,
        deleteVars
<1>10. ASSUME NEW m \in Machines, RemoveLink(m)
      PROVE  DoneIsGone'
      BY <1>10 DEF RemoveLink, DeleteGoto, TypeOK, OneKind, NoSyncAfter, RecordedFirst,
        VaultIsADirectory, Emptied, DoneIsGone, DeletedStaysDeleted, endVars, syncVars,
        deleteVars
<1>11. ASSUME NEW m \in Machines, RemoveSource(m)
      PROVE  DoneIsGone'
      BY <1>11 DEF RemoveSource, DeleteGoto, TypeOK, OneKind, NoSyncAfter,
        RecordedFirst, VaultIsADirectory, Emptied, DoneIsGone, DeletedStaysDeleted,
        endVars, syncVars, deleteVars
<1>12. ASSUME NEW m \in Machines, KillDelete(m)
      PROVE  DoneIsGone'
      BY <1>12 DEF KillDelete, TypeOK, OneKind, NoSyncAfter, RecordedFirst,
        VaultIsADirectory, Emptied, DoneIsGone, DeletedStaysDeleted, endVars, syncVars,
        deleteVars
<1>13. ASSUME NEW m \in Machines,
             \/ CopyFails(m) \/ SendLegacy(m) \/ KillSync(m)
      PROVE  DoneIsGone'
      BY <1>13 DEF CopyFails, SendLegacy, SyncGoto, KillSync, TypeOK, OneKind,
        NoSyncAfter, RecordedFirst, VaultIsADirectory, Emptied, DoneIsGone,
        DeletedStaysDeleted, syncVars, deleteVars, endVars
<1>14. CASE EndRun
      BY <1>14 DEF EndRun, TypeOK, OneKind, NoSyncAfter, RecordedFirst,
        VaultIsADirectory, Emptied, DoneIsGone, DeletedStaysDeleted, syncVars,
        deleteVars, endVars
<1>15. CASE UNCHANGED vars
      BY <1>15 DEF TypeOK, OneKind, NoSyncAfter, RecordedFirst, VaultIsADirectory,
        Emptied, DoneIsGone, DeletedStaysDeleted, vars, syncVars, deleteVars, endVars
<1> QED  BY <1>1, <1>2, <1>3, <1>4, <1>5, <1>6, <1>7, <1>8, <1>9, <1>10, <1>11, <1>12,
        <1>13, <1>14, <1>15 DEF Next, SyncStep, DeleteStep

\* Every plan of a delete is refused while nothing says how the run ended.
LEMMA UnendedStep ==
    ASSUME TypeOK, NotYetEnded, [Next]_vars
    PROVE  NotYetEnded'
<1>1. ASSUME EndRun
      PROVE  NotYetEnded'
      BY <1>1, DeleteAssumption DEF EndRun, TypeOK, NotYetEnded, Live, Settled,
        Copied, endVars, syncVars, deleteVars
<1>2. ASSUME NEW m \in Machines, CopyDirectory(m)
      PROVE  NotYetEnded'
      BY <1>2, DeleteAssumption DEF CopyDirectory, TypeOK, NotYetEnded, Live, Settled,
        Copied, endVars, syncVars, deleteVars
<1>3. ASSUME NEW m \in Machines, PlanSync(m)
      PROVE  NotYetEnded'
      BY <1>3, DeleteAssumption DEF PlanSync, PlanCanonical, PlanLegacy, SyncGoto,
        Beside, Deleting, TypeOK, NotYetEnded, Live, Settled, Copied, endVars,
        syncVars, deleteVars
<1>4. ASSUME NEW m \in Machines, BeginCopy(m)
      PROVE  NotYetEnded'
      BY <1>4, DeleteAssumption DEF BeginCopy, SyncGoto, TypeOK, NotYetEnded, Live,
        Settled, Copied, endVars, syncVars, deleteVars
<1>5. ASSUME NEW m \in Machines, NEW f \in Copied, CopyFile(m, f)
      PROVE  NotYetEnded'
      BY <1>5, DeleteAssumption DEF CopyFile, TypeOK, NotYetEnded, Live, Settled,
        Copied, endVars, syncVars, deleteVars
<1>6. ASSUME NEW m \in Machines, CopyFails(m)
      PROVE  NotYetEnded'
      BY <1>6, DeleteAssumption DEF CopyFails, TypeOK, NotYetEnded, Live, Settled,
        Copied, endVars, syncVars, deleteVars
<1>7. ASSUME NEW m \in Machines, WriteReceipt(m)
      PROVE  NotYetEnded'
      BY <1>7, DeleteAssumption DEF WriteReceipt, SyncGoto, TypeOK, NotYetEnded, Live,
        Settled, Copied, endVars, syncVars, deleteVars
<1>8. ASSUME NEW m \in Machines, LinkBySlug(m)
      PROVE  NotYetEnded'
      BY <1>8, DeleteAssumption DEF LinkBySlug, SyncGoto, TypeOK, NotYetEnded, Live,
        Settled, Copied, endVars, syncVars, deleteVars
<1>9. ASSUME NEW m \in Machines, SendLegacy(m)
      PROVE  NotYetEnded'
      BY <1>9, DeleteAssumption DEF SendLegacy, SyncGoto, TypeOK, NotYetEnded, Live,
        Settled, Copied, endVars, syncVars, deleteVars
<1>10. ASSUME NEW m \in Machines, KillSync(m)
      PROVE  NotYetEnded'
      BY <1>10, DeleteAssumption DEF KillSync, TypeOK, NotYetEnded, Live, Settled,
        Copied, endVars, syncVars, deleteVars
<1>11. ASSUME NEW m \in Machines, PlanDelete(m)
      PROVE  NotYetEnded'
      BY <1>11, DeleteAssumption DEF PlanDelete, DeleteGoto, Beside, Syncing, TypeOK,
        NotYetEnded, Refuses, Ineligible, Live, Settled, Copied, endVars, syncVars,
        deleteVars
<1>12. ASSUME NEW m \in Machines, AppendTombstone(m)
      PROVE  NotYetEnded'
      BY <1>12, DeleteAssumption DEF AppendTombstone, DeleteGoto, TypeOK, NotYetEnded,
        Live, Settled, Copied, endVars, syncVars, deleteVars
<1>13. ASSUME NEW m \in Machines, RemoveVault(m)
      PROVE  NotYetEnded'
      BY <1>13, DeleteAssumption DEF RemoveVault, DeleteGoto, TypeOK, NotYetEnded,
        Live, Settled, Copied, endVars, syncVars, deleteVars
<1>14. ASSUME NEW m \in Machines, RemoveLink(m)
      PROVE  NotYetEnded'
      BY <1>14, DeleteAssumption DEF RemoveLink, DeleteGoto, TypeOK, NotYetEnded,
        Live, Settled, Copied, endVars, syncVars, deleteVars
<1>15. ASSUME NEW m \in Machines, RemoveSource(m)
      PROVE  NotYetEnded'
      BY <1>15, DeleteAssumption DEF RemoveSource, DeleteGoto, TypeOK, NotYetEnded,
        Live, Settled, Copied, endVars, syncVars, deleteVars
<1>16. ASSUME NEW m \in Machines, KillDelete(m)
      PROVE  NotYetEnded'
      BY <1>16, DeleteAssumption DEF KillDelete, TypeOK, NotYetEnded, Live, Settled,
        Copied, endVars, syncVars, deleteVars
<1>17. CASE UNCHANGED vars
      BY <1>17 DEF vars, TypeOK, NotYetEnded, endVars, syncVars, deleteVars
<1> QED  BY <1>1, <1>2, <1>3, <1>4, <1>5, <1>6, <1>7, <1>8, <1>9, <1>10, <1>11, <1>12,
        <1>13, <1>14, <1>15, <1>16, <1>17 DEF Next, SyncStep, DeleteStep

\* Only the end of the run and a delete change a source.
LEMMA EndedStep ==
    ASSUME TypeOK, NotYetEnded, EndedSources, [Next]_vars
    PROVE  EndedSources'
<1>1. ASSUME EndRun
      PROVE  EndedSources'
      BY <1>1, DeleteAssumption DEF EndRun, TypeOK, NotYetEnded, EndedSources, Live,
        Settled, Copied, endVars, syncVars, deleteVars
<1>2. ASSUME NEW m \in Machines, CopyDirectory(m)
      PROVE  EndedSources'
      BY <1>2, DeleteAssumption DEF CopyDirectory, TypeOK, NotYetEnded, EndedSources,
        Live, Settled, Copied, endVars, syncVars, deleteVars
<1>3. ASSUME NEW m \in Machines, PlanSync(m)
      PROVE  EndedSources'
      BY <1>3, DeleteAssumption DEF PlanSync, PlanCanonical, PlanLegacy, SyncGoto,
        Beside, Deleting, TypeOK, NotYetEnded, EndedSources, Live, Settled, Copied,
        endVars, syncVars, deleteVars
<1>4. ASSUME NEW m \in Machines, BeginCopy(m)
      PROVE  EndedSources'
      BY <1>4, DeleteAssumption DEF BeginCopy, SyncGoto, TypeOK, NotYetEnded,
        EndedSources, Live, Settled, Copied, endVars, syncVars, deleteVars
<1>5. ASSUME NEW m \in Machines, NEW f \in Copied, CopyFile(m, f)
      PROVE  EndedSources'
      BY <1>5, DeleteAssumption DEF CopyFile, TypeOK, NotYetEnded, EndedSources, Live,
        Settled, Copied, endVars, syncVars, deleteVars
<1>6. ASSUME NEW m \in Machines, CopyFails(m)
      PROVE  EndedSources'
      BY <1>6, DeleteAssumption DEF CopyFails, TypeOK, NotYetEnded, EndedSources,
        Live, Settled, Copied, endVars, syncVars, deleteVars
<1>7. ASSUME NEW m \in Machines, WriteReceipt(m)
      PROVE  EndedSources'
      BY <1>7, DeleteAssumption DEF WriteReceipt, SyncGoto, TypeOK, NotYetEnded,
        EndedSources, Live, Settled, Copied, endVars, syncVars, deleteVars
<1>8. ASSUME NEW m \in Machines, LinkBySlug(m)
      PROVE  EndedSources'
      BY <1>8, DeleteAssumption DEF LinkBySlug, SyncGoto, TypeOK, NotYetEnded,
        EndedSources, Live, Settled, Copied, endVars, syncVars, deleteVars
<1>9. ASSUME NEW m \in Machines, SendLegacy(m)
      PROVE  EndedSources'
      BY <1>9, DeleteAssumption DEF SendLegacy, SyncGoto, TypeOK, NotYetEnded,
        EndedSources, Live, Settled, Copied, endVars, syncVars, deleteVars
<1>10. ASSUME NEW m \in Machines, KillSync(m)
      PROVE  EndedSources'
      BY <1>10, DeleteAssumption DEF KillSync, TypeOK, NotYetEnded, EndedSources,
        Live, Settled, Copied, endVars, syncVars, deleteVars
<1>11. ASSUME NEW m \in Machines, PlanDelete(m)
      PROVE  EndedSources'
      BY <1>11, DeleteAssumption DEF PlanDelete, DeleteGoto, Beside, Syncing, TypeOK,
        NotYetEnded, EndedSources, Live, Settled, Copied, endVars, syncVars,
        deleteVars
<1>12. ASSUME NEW m \in Machines, AppendTombstone(m)
      PROVE  EndedSources'
      BY <1>12, DeleteAssumption DEF AppendTombstone, DeleteGoto, TypeOK, NotYetEnded,
        EndedSources, Live, Settled, Copied, endVars, syncVars, deleteVars
<1>13. ASSUME NEW m \in Machines, RemoveVault(m)
      PROVE  EndedSources'
      BY <1>13, DeleteAssumption DEF RemoveVault, DeleteGoto, TypeOK, NotYetEnded,
        EndedSources, Live, Settled, Copied, endVars, syncVars, deleteVars
<1>14. ASSUME NEW m \in Machines, RemoveLink(m)
      PROVE  EndedSources'
      BY <1>14, DeleteAssumption DEF RemoveLink, DeleteGoto, TypeOK, NotYetEnded,
        EndedSources, Live, Settled, Copied, endVars, syncVars, deleteVars
<1>15. ASSUME NEW m \in Machines, RemoveSource(m)
      PROVE  EndedSources'
      BY <1>15, DeleteAssumption DEF RemoveSource, DeleteGoto, TypeOK, NotYetEnded,
        EndedSources, Live, Settled, Copied, endVars, syncVars, deleteVars
<1>16. ASSUME NEW m \in Machines, KillDelete(m)
      PROVE  EndedSources'
      BY <1>16, DeleteAssumption DEF KillDelete, TypeOK, NotYetEnded, EndedSources,
        Live, Settled, Copied, endVars, syncVars, deleteVars
<1>17. CASE UNCHANGED vars
      BY <1>17 DEF vars, TypeOK, NotYetEnded, EndedSources, endVars, syncVars,
        deleteVars
<1> QED  BY <1>1, <1>2, <1>3, <1>4, <1>5, <1>6, <1>7, <1>8, <1>9, <1>10, <1>11, <1>12,
        <1>13, <1>14, <1>15, <1>16, <1>17 DEF Next, SyncStep, DeleteStep

\* What is planned to be sent is read from sources that say how the run ended.
LEMMA SendsStep ==
    ASSUME TypeOK, OneKind, NotYetEnded, EndedSources, SendsStatus, [Next]_vars
    PROVE  SendsStatus'
<1>1. ASSUME EndRun
      PROVE  SendsStatus'
      BY <1>1, DeleteAssumption DEF EndRun, TypeOK, OneKind, NotYetEnded,
        EndedSources, SendsStatus, Live, Settled, Copied, endVars, syncVars,
        deleteVars
<1>2. ASSUME NEW m \in Machines, CopyDirectory(m)
      PROVE  SendsStatus'
      BY <1>2, DeleteAssumption DEF CopyDirectory, TypeOK, OneKind, NotYetEnded,
        EndedSources, SendsStatus, Live, Settled, Copied, endVars, syncVars,
        deleteVars
<1>3. ASSUME NEW m \in Machines, PlanSync(m)
      PROVE  SendsStatus'
      BY <1>3, DeleteAssumption DEF PlanSync, PlanCanonical, PlanLegacy, SyncGoto,
        Beside, Deleting, TypeOK, OneKind, NotYetEnded, EndedSources, SendsStatus,
        Live, Settled, Copied, endVars, syncVars, deleteVars
<1>4. ASSUME NEW m \in Machines, BeginCopy(m)
      PROVE  SendsStatus'
      BY <1>4, DeleteAssumption DEF BeginCopy, SyncGoto, TypeOK, OneKind, NotYetEnded,
        EndedSources, SendsStatus, Live, Settled, Copied, endVars, syncVars,
        deleteVars
<1>5. ASSUME NEW m \in Machines, NEW f \in Copied, CopyFile(m, f)
      PROVE  SendsStatus'
      BY <1>5, DeleteAssumption DEF CopyFile, TypeOK, OneKind, NotYetEnded,
        EndedSources, SendsStatus, Live, Settled, Copied, endVars, syncVars,
        deleteVars
<1>6. ASSUME NEW m \in Machines, CopyFails(m)
      PROVE  SendsStatus'
      BY <1>6, DeleteAssumption DEF CopyFails, TypeOK, OneKind, NotYetEnded,
        EndedSources, SendsStatus, Live, Settled, Copied, endVars, syncVars,
        deleteVars
<1>7. ASSUME NEW m \in Machines, WriteReceipt(m)
      PROVE  SendsStatus'
      BY <1>7, DeleteAssumption DEF WriteReceipt, SyncGoto, TypeOK, OneKind,
        NotYetEnded, EndedSources, SendsStatus, Live, Settled, Copied, endVars,
        syncVars, deleteVars
<1>8. ASSUME NEW m \in Machines, LinkBySlug(m)
      PROVE  SendsStatus'
      BY <1>8, DeleteAssumption DEF LinkBySlug, SyncGoto, TypeOK, OneKind,
        NotYetEnded, EndedSources, SendsStatus, Live, Settled, Copied, endVars,
        syncVars, deleteVars
<1>9. ASSUME NEW m \in Machines, SendLegacy(m)
      PROVE  SendsStatus'
      BY <1>9, DeleteAssumption DEF SendLegacy, SyncGoto, TypeOK, OneKind,
        NotYetEnded, EndedSources, SendsStatus, Live, Settled, Copied, endVars,
        syncVars, deleteVars
<1>10. ASSUME NEW m \in Machines, KillSync(m)
      PROVE  SendsStatus'
      BY <1>10, DeleteAssumption DEF KillSync, TypeOK, OneKind, NotYetEnded,
        EndedSources, SendsStatus, Live, Settled, Copied, endVars, syncVars,
        deleteVars
<1>11. ASSUME NEW m \in Machines, PlanDelete(m)
      PROVE  SendsStatus'
      BY <1>11, DeleteAssumption DEF PlanDelete, DeleteGoto, Beside, Syncing, TypeOK,
        OneKind, NotYetEnded, EndedSources, SendsStatus, Refuses, Ineligible, Live,
        Settled, Copied, endVars, syncVars, deleteVars
<1>12. ASSUME NEW m \in Machines, AppendTombstone(m)
      PROVE  SendsStatus'
      BY <1>12, DeleteAssumption DEF AppendTombstone, DeleteGoto, TypeOK, OneKind,
        NotYetEnded, EndedSources, SendsStatus, Live, Settled, Copied, endVars,
        syncVars, deleteVars
<1>13. ASSUME NEW m \in Machines, RemoveVault(m)
      PROVE  SendsStatus'
      BY <1>13, DeleteAssumption DEF RemoveVault, DeleteGoto, TypeOK, OneKind,
        NotYetEnded, EndedSources, SendsStatus, Live, Settled, Copied, endVars,
        syncVars, deleteVars
<1>14. ASSUME NEW m \in Machines, RemoveLink(m)
      PROVE  SendsStatus'
      BY <1>14, DeleteAssumption DEF RemoveLink, DeleteGoto, TypeOK, OneKind,
        NotYetEnded, EndedSources, SendsStatus, Live, Settled, Copied, endVars,
        syncVars, deleteVars
<1>15. ASSUME NEW m \in Machines, RemoveSource(m)
      PROVE  SendsStatus'
      BY <1>15, DeleteAssumption DEF RemoveSource, DeleteGoto, TypeOK, OneKind,
        NotYetEnded, EndedSources, SendsStatus, Live, Settled, Copied, endVars,
        syncVars, deleteVars
<1>16. ASSUME NEW m \in Machines, KillDelete(m)
      PROVE  SendsStatus'
      BY <1>16, DeleteAssumption DEF KillDelete, TypeOK, OneKind, NotYetEnded,
        EndedSources, SendsStatus, Live, Settled, Copied, endVars, syncVars,
        deleteVars
<1>17. CASE UNCHANGED vars
      BY <1>17 DEF vars, TypeOK, OneKind, NotYetEnded, EndedSources, SendsStatus,
        endVars, syncVars, deleteVars
<1> QED  BY <1>1, <1>2, <1>3, <1>4, <1>5, <1>6, <1>7, <1>8, <1>9, <1>10, <1>11, <1>12,
        <1>13, <1>14, <1>15, <1>16, <1>17 DEF Next, SyncStep, DeleteStep

\* The source goes after the vault's copy.
LEMMA KeptStep ==
    ASSUME TypeOK, RecordedFirst, NoSyncAfter, Emptied, SendsStatus, StatusKept, [Next]_vars
    PROVE  StatusKept'
<1>1. ASSUME EndRun
      PROVE  StatusKept'
      BY <1>1, DeleteAssumption DEF EndRun, TypeOK, RecordedFirst, NoSyncAfter,
        Emptied, SendsStatus, StatusKept, Live, Settled, Copied, endVars, syncVars,
        deleteVars
<1>2. ASSUME NEW m \in Machines, CopyDirectory(m)
      PROVE  StatusKept'
      BY <1>2, DeleteAssumption DEF CopyDirectory, TypeOK, RecordedFirst, NoSyncAfter,
        Emptied, SendsStatus, StatusKept, Live, Settled, Copied, endVars, syncVars,
        deleteVars
<1>3. ASSUME NEW m \in Machines, PlanSync(m)
      PROVE  StatusKept'
      BY <1>3, DeleteAssumption DEF PlanSync, PlanCanonical, PlanLegacy, SyncGoto,
        Beside, Deleting, TypeOK, RecordedFirst, NoSyncAfter, Emptied, SendsStatus,
        StatusKept, Live, Settled, Copied, endVars, syncVars, deleteVars
<1>4. ASSUME NEW m \in Machines, BeginCopy(m)
      PROVE  StatusKept'
      BY <1>4, DeleteAssumption DEF BeginCopy, SyncGoto, TypeOK, RecordedFirst,
        NoSyncAfter, Emptied, SendsStatus, StatusKept, Live, Settled, Copied, endVars,
        syncVars, deleteVars
<1>5. ASSUME NEW m \in Machines, NEW f \in Copied, CopyFile(m, f)
      PROVE  StatusKept'
      BY <1>5, DeleteAssumption DEF CopyFile, TypeOK, RecordedFirst, NoSyncAfter,
        Emptied, SendsStatus, StatusKept, Live, Settled, Copied, endVars, syncVars,
        deleteVars
<1>6. ASSUME NEW m \in Machines, CopyFails(m)
      PROVE  StatusKept'
      BY <1>6, DeleteAssumption DEF CopyFails, TypeOK, RecordedFirst, NoSyncAfter,
        Emptied, SendsStatus, StatusKept, Live, Settled, Copied, endVars, syncVars,
        deleteVars
<1>7. ASSUME NEW m \in Machines, WriteReceipt(m)
      PROVE  StatusKept'
      BY <1>7, DeleteAssumption DEF WriteReceipt, SyncGoto, TypeOK, RecordedFirst,
        NoSyncAfter, Emptied, SendsStatus, StatusKept, Live, Settled, Copied, endVars,
        syncVars, deleteVars
<1>8. ASSUME NEW m \in Machines, LinkBySlug(m)
      PROVE  StatusKept'
      BY <1>8, DeleteAssumption DEF LinkBySlug, SyncGoto, TypeOK, RecordedFirst,
        NoSyncAfter, Emptied, SendsStatus, StatusKept, Live, Settled, Copied, endVars,
        syncVars, deleteVars
<1>9. ASSUME NEW m \in Machines, SendLegacy(m)
      PROVE  StatusKept'
      BY <1>9, DeleteAssumption DEF SendLegacy, SyncGoto, TypeOK, RecordedFirst,
        NoSyncAfter, Emptied, SendsStatus, StatusKept, Live, Settled, Copied, endVars,
        syncVars, deleteVars
<1>10. ASSUME NEW m \in Machines, KillSync(m)
      PROVE  StatusKept'
      BY <1>10, DeleteAssumption DEF KillSync, TypeOK, RecordedFirst, NoSyncAfter,
        Emptied, SendsStatus, StatusKept, Live, Settled, Copied, endVars, syncVars,
        deleteVars
<1>11. ASSUME NEW m \in Machines, PlanDelete(m)
      PROVE  StatusKept'
      BY <1>11, DeleteAssumption DEF PlanDelete, DeleteGoto, Beside, Syncing, TypeOK,
        RecordedFirst, NoSyncAfter, Emptied, SendsStatus, StatusKept, Refuses,
        Ineligible, Live, Settled, Copied, endVars, syncVars, deleteVars
<1>12. ASSUME NEW m \in Machines, AppendTombstone(m)
      PROVE  StatusKept'
      BY <1>12, DeleteAssumption DEF AppendTombstone, DeleteGoto, TypeOK,
        RecordedFirst, NoSyncAfter, Emptied, SendsStatus, StatusKept, Live, Settled,
        Copied, endVars, syncVars, deleteVars
<1>13. ASSUME NEW m \in Machines, RemoveVault(m)
      PROVE  StatusKept'
      BY <1>13, DeleteAssumption DEF RemoveVault, DeleteGoto, TypeOK, RecordedFirst,
        NoSyncAfter, Emptied, SendsStatus, StatusKept, Live, Settled, Copied, endVars,
        syncVars, deleteVars
<1>14. ASSUME NEW m \in Machines, RemoveLink(m)
      PROVE  StatusKept'
      BY <1>14, DeleteAssumption DEF RemoveLink, DeleteGoto, TypeOK, RecordedFirst,
        NoSyncAfter, Emptied, SendsStatus, StatusKept, Live, Settled, Copied, endVars,
        syncVars, deleteVars
<1>15. ASSUME NEW m \in Machines, RemoveSource(m)
      PROVE  StatusKept'
      BY <1>15, DeleteAssumption DEF RemoveSource, DeleteGoto, TypeOK, RecordedFirst,
        NoSyncAfter, Emptied, SendsStatus, StatusKept, Live, Settled, Copied, endVars,
        syncVars, deleteVars
<1>16. ASSUME NEW m \in Machines, KillDelete(m)
      PROVE  StatusKept'
      BY <1>16, DeleteAssumption DEF KillDelete, TypeOK, RecordedFirst, NoSyncAfter,
        Emptied, SendsStatus, StatusKept, Live, Settled, Copied, endVars, syncVars,
        deleteVars
<1>17. CASE UNCHANGED vars
      BY <1>17 DEF vars, TypeOK, RecordedFirst, NoSyncAfter, Emptied, SendsStatus,
        StatusKept, endVars, syncVars, deleteVars
<1> QED  BY <1>1, <1>2, <1>3, <1>4, <1>5, <1>6, <1>7, <1>8, <1>9, <1>10, <1>11, <1>12,
        <1>13, <1>14, <1>15, <1>16, <1>17 DEF Next, SyncStep, DeleteStep

\* No sync writes beside a delete or after its tombstone.
LEMMA ReadableStep ==
    ASSUME TypeOK, OneKind, NoSyncAfter, RecordedFirst, VaultReadable, [Next]_vars
    PROVE  VaultReadable'
<1>1. ASSUME EndRun
      PROVE  VaultReadable'
      BY <1>1, DeleteAssumption DEF EndRun, TypeOK, OneKind, NoSyncAfter,
        RecordedFirst, VaultReadable, VaultUnreadable, Live, Settled, Copied, endVars,
        syncVars, deleteVars
<1>2. ASSUME NEW m \in Machines, CopyDirectory(m)
      PROVE  VaultReadable'
      BY <1>2, DeleteAssumption DEF CopyDirectory, TypeOK, OneKind, NoSyncAfter,
        RecordedFirst, VaultReadable, VaultUnreadable, Live, Settled, Copied, endVars,
        syncVars, deleteVars
<1>3. ASSUME NEW m \in Machines, PlanSync(m)
      PROVE  VaultReadable'
      BY <1>3, DeleteAssumption DEF PlanSync, PlanCanonical, PlanLegacy, SyncGoto,
        Beside, Deleting, TypeOK, OneKind, NoSyncAfter, RecordedFirst, VaultReadable,
        VaultUnreadable, Live, Settled, Copied, endVars, syncVars, deleteVars
<1>4. ASSUME NEW m \in Machines, BeginCopy(m)
      PROVE  VaultReadable'
      BY <1>4, DeleteAssumption DEF BeginCopy, SyncGoto, TypeOK, OneKind, NoSyncAfter,
        RecordedFirst, VaultReadable, VaultUnreadable, Live, Settled, Copied, endVars,
        syncVars, deleteVars
<1>5. ASSUME NEW m \in Machines, NEW f \in Copied, CopyFile(m, f)
      PROVE  VaultReadable'
      BY <1>5, DeleteAssumption DEF CopyFile, TypeOK, OneKind, NoSyncAfter,
        RecordedFirst, VaultReadable, VaultUnreadable, Live, Settled, Copied, endVars,
        syncVars, deleteVars
<1>6. ASSUME NEW m \in Machines, CopyFails(m)
      PROVE  VaultReadable'
      BY <1>6, DeleteAssumption DEF CopyFails, TypeOK, OneKind, NoSyncAfter,
        RecordedFirst, VaultReadable, VaultUnreadable, Live, Settled, Copied, endVars,
        syncVars, deleteVars
<1>7. ASSUME NEW m \in Machines, WriteReceipt(m)
      PROVE  VaultReadable'
      BY <1>7, DeleteAssumption DEF WriteReceipt, SyncGoto, TypeOK, OneKind,
        NoSyncAfter, RecordedFirst, VaultReadable, VaultUnreadable, Live, Settled,
        Copied, endVars, syncVars, deleteVars
<1>8. ASSUME NEW m \in Machines, LinkBySlug(m)
      PROVE  VaultReadable'
      BY <1>8, DeleteAssumption DEF LinkBySlug, SyncGoto, TypeOK, OneKind,
        NoSyncAfter, RecordedFirst, VaultReadable, VaultUnreadable, Live, Settled,
        Copied, endVars, syncVars, deleteVars
<1>9. ASSUME NEW m \in Machines, SendLegacy(m)
      PROVE  VaultReadable'
      BY <1>9, DeleteAssumption DEF SendLegacy, SyncGoto, TypeOK, OneKind,
        NoSyncAfter, RecordedFirst, VaultReadable, VaultUnreadable, Live, Settled,
        Copied, endVars, syncVars, deleteVars
<1>10. ASSUME NEW m \in Machines, KillSync(m)
      PROVE  VaultReadable'
      BY <1>10, DeleteAssumption DEF KillSync, TypeOK, OneKind, NoSyncAfter,
        RecordedFirst, VaultReadable, VaultUnreadable, Live, Settled, Copied, endVars,
        syncVars, deleteVars
<1>11. ASSUME NEW m \in Machines, PlanDelete(m)
      PROVE  VaultReadable'
      BY <1>11, DeleteAssumption DEF PlanDelete, DeleteGoto, Beside, Syncing, TypeOK,
        OneKind, NoSyncAfter, RecordedFirst, VaultReadable, Refuses, VaultUnreadable,
        Live, Settled, Copied, endVars, syncVars, deleteVars
<1>12. ASSUME NEW m \in Machines, AppendTombstone(m)
      PROVE  VaultReadable'
      BY <1>12, DeleteAssumption DEF AppendTombstone, DeleteGoto, TypeOK, OneKind,
        NoSyncAfter, RecordedFirst, VaultReadable, VaultUnreadable, Live, Settled,
        Copied, endVars, syncVars, deleteVars
<1>13. ASSUME NEW m \in Machines, RemoveVault(m)
      PROVE  VaultReadable'
      BY <1>13, DeleteAssumption DEF RemoveVault, DeleteGoto, TypeOK, OneKind,
        NoSyncAfter, RecordedFirst, VaultReadable, VaultUnreadable, Live, Settled,
        Copied, endVars, syncVars, deleteVars
<1>14. ASSUME NEW m \in Machines, RemoveLink(m)
      PROVE  VaultReadable'
      BY <1>14, DeleteAssumption DEF RemoveLink, DeleteGoto, TypeOK, OneKind,
        NoSyncAfter, RecordedFirst, VaultReadable, VaultUnreadable, Live, Settled,
        Copied, endVars, syncVars, deleteVars
<1>15. ASSUME NEW m \in Machines, RemoveSource(m)
      PROVE  VaultReadable'
      BY <1>15, DeleteAssumption DEF RemoveSource, DeleteGoto, TypeOK, OneKind,
        NoSyncAfter, RecordedFirst, VaultReadable, VaultUnreadable, Live, Settled,
        Copied, endVars, syncVars, deleteVars
<1>16. ASSUME NEW m \in Machines, KillDelete(m)
      PROVE  VaultReadable'
      BY <1>16, DeleteAssumption DEF KillDelete, TypeOK, OneKind, NoSyncAfter,
        RecordedFirst, VaultReadable, VaultUnreadable, Live, Settled, Copied, endVars,
        syncVars, deleteVars
<1>17. CASE UNCHANGED vars
      BY <1>17 DEF vars, TypeOK, OneKind, NoSyncAfter, RecordedFirst, VaultReadable,
        VaultUnreadable, endVars, syncVars, deleteVars
<1> QED  BY <1>1, <1>2, <1>3, <1>4, <1>5, <1>6, <1>7, <1>8, <1>9, <1>10, <1>11, <1>12,
        <1>13, <1>14, <1>15, <1>16, <1>17 DEF Next, SyncStep, DeleteStep
-----------------------------------------------------------------------------
LEMMA InitIInv == Init => IInv
  BY DeleteAssumption DEF Init, IInv, TypeOK, RecordedFirst, SourcesWhole, RunKeepsFiles, OneKind, NoSyncAfter, VaultIsADirectory, PlanSeesVault, Emptied,
     DoneIsGone, DeletedStaysDeleted, NotYetEnded, EndedSources, SendsStatus, StatusKept,
     VaultReadable, VaultUnreadable, Live, Settled, Copied

LEMMA NextIInv == IInv /\ [Next]_vars => IInv'
  BY TypeStep, RecordedStep, WholeStep, RunningStep, KindStep, AfterStep,
     DirectoryStep, SeenStep, EmptiedStep, DoneStep,
     UnendedStep, EndedStep, SendsStep, KeptStep, ReadableStep DEF IInv

LEMMA Invariance == Spec => []IInv
  BY InitIInv, NextIInv, PTL DEF Spec
-----------------------------------------------------------------------------
\* The types hold for any number of machines.
THEOREM DeleteTypes == Spec => []TypeOK
  BY Invariance, PTL DEF IInv

\* What a completed delete removed is not brought back, on any number of
\* machines, by a sync that was not in flight beside it (delete.rs, sync.rs).
THEOREM DeletionLasts == Spec => []DeletedStaysDeleted
<1>1. DoneIsGone => DeletedStaysDeleted
      BY DEF DoneIsGone, DeletedStaysDeleted
<1> QED  BY <1>1, Invariance, PTL DEF IInv

\* A delete on record that was killed between two steps can be run again, where
\* it was planned and wherever a copy is left (delete.rs::plan, execute).
THEOREM KilledDeleteResumes == Spec => []InterruptedDeleteResumes
<1>1. ASSUME IInv, tomb = "written", crossed = "no", torn = "no",
             NEW m \in Machines, plan[m] # {} \/ src[m] # {}
      PROVE  ~Refuses(m)
  <2>1. running = "no"
        BY <1>1 DEF IInv, TypeOK, NotYetEnded
  <2>2. src[m] \in {{}, Settled}
        BY <1>1, <2>1 DEF IInv, EndedSources
  <2>3. ~VaultUnreadable
        BY <1>1 DEF IInv, VaultReadable
  <2>4. ~SourceRefused(m)
        BY <2>2 DEF SourceRefused, Settled
  <2>5. CASE src[m] = Settled
        BY <2>3, <2>4, <2>5 DEF Refuses, Ineligible, Settled
  <2>6. CASE src[m] = {}
    <3>1. vault = {} \/ "status.json" \in listed
          BY <1>1, <2>6 DEF IInv, StatusKept
    <3> QED  BY <1>1, <2>3, <2>4, <2>6, <3>1 DEF Refuses, Ineligible
  <2> QED  BY <2>2, <2>5, <2>6
<1>2. IInv => InterruptedDeleteResumes
      BY <1>1 DEF InterruptedDeleteResumes
<1> QED  BY <1>2, Invariance, PTL

\* No step takes a file before the deletion is on record (delete.rs::execute).
THEOREM RemovalIsRecorded == Spec => TombstoneFirst
<1>1. ASSUME IInv, Next
      PROVE  (~ vault \subseteq vault' \/ \E m \in Machines : ~ src[m] \subseteq src'[m])
                => tomb = "written"
  <2>1. ASSUME NEW m \in Machines, RemoveVault(m) \/ RemoveSource(m) \/ KillDelete(m)
        PROVE  tomb = "written" \/ (vault' = vault /\ src' = src)
        BY <1>1, <2>1 DEF IInv, RecordedFirst, RemoveVault, RemoveSource, KillDelete,
           DeleteGoto
  <2>2. CASE EndRun
        BY <1>1, <2>2, DeleteAssumption DEF IInv, TypeOK, EndRun
  <2>3. ASSUME NEW m \in Machines, CopyDirectory(m)
        PROVE  vault' = vault /\ \A n \in Machines : src[n] \subseteq src'[n]
        BY <1>1, <2>3 DEF IInv, TypeOK, CopyDirectory
  <2>4. ASSUME NEW m \in Machines,
               \/ PlanSync(m) \/ CopyFails(m) \/ LinkBySlug(m) \/ SendLegacy(m)
               \/ KillSync(m) \/ PlanDelete(m) \/ AppendTombstone(m) \/ RemoveLink(m)
        PROVE  vault' = vault /\ src' = src
        BY <2>4 DEF PlanSync, CopyFails, LinkBySlug, SendLegacy, KillSync, PlanDelete,
           AppendTombstone, RemoveLink
  <2>5. ASSUME NEW m \in Machines,
               BeginCopy(m) \/ (\E f \in Copied : CopyFile(m, f)) \/ WriteReceipt(m)
        PROVE  vault \subseteq vault' /\ src' = src
        BY <2>5 DEF BeginCopy, CopyFile, WriteReceipt
  <2> QED  BY <1>1, <2>1, <2>2, <2>3, <2>4, <2>5 DEF Next, SyncStep, DeleteStep
<1>2. UNCHANGED vars =>
        ((~ vault \subseteq vault' \/ \E m \in Machines : ~ src[m] \subseteq src'[m])
            => tomb = "written")
      BY DEF vars
<1> QED  BY <1>1, <1>2, Invariance, PTL DEF Spec, TombstoneFirst

\* While the run is executed no delete takes a file of it, on this machine or
\* another, planned before or after (delete.rs::eligible_state).
THEOREM LiveRunIsKept == Spec => LiveRunIsSpared
<1>1. ASSUME IInv, [Next]_vars, running = "yes"
      PROVE  src[Home] \subseteq src'[Home]
  <2>1. CASE EndRun
        BY <1>1, <2>1, DeleteAssumption DEF IInv, TypeOK, EndRun
  <2>2. ASSUME NEW m \in Machines, CopyDirectory(m)
        PROVE  FALSE
        BY <1>1, <2>2 DEF CopyDirectory
  <2>3. ASSUME NEW m \in Machines, RemoveSource(m) \/ KillDelete(m)
        PROVE  src'[Home] = src[Home]
        BY <1>1, <2>3, DeleteAssumption DEF IInv, TypeOK, RunKeepsFiles, RemoveSource,
           KillDelete, DeleteGoto
  <2>4. ASSUME NEW m \in Machines,
               \/ PlanSync(m) \/ BeginCopy(m) \/ (\E f \in Copied : CopyFile(m, f))
               \/ CopyFails(m) \/ WriteReceipt(m) \/ LinkBySlug(m) \/ SendLegacy(m)
               \/ KillSync(m) \/ PlanDelete(m) \/ AppendTombstone(m) \/ RemoveVault(m)
               \/ RemoveLink(m)
        PROVE  src' = src
        BY <2>4 DEF PlanSync, BeginCopy, CopyFile, CopyFails, WriteReceipt, LinkBySlug,
           SendLegacy, KillSync, PlanDelete, AppendTombstone, RemoveVault, RemoveLink
  <2>5. CASE UNCHANGED vars
        BY <2>5 DEF vars
  <2> QED  BY <1>1, <2>1, <2>2, <2>3, <2>4, <2>5 DEF Next, SyncStep, DeleteStep
<1> QED  BY <1>1, Invariance, PTL DEF Spec, LiveRunIsSpared
=============================================================================

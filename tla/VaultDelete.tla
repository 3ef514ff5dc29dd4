----------------------------- MODULE VaultDelete -----------------------------
(***************************************************************************)
(* One run's copies: a source directory on each of several machines, and   *)
(* the aggregation copy in the vault they share.  `runvault sync` copies,  *)
(* `runvault delete` removes (tombstone, then vault, then source), both    *)
(* are killed anywhere and repeated.  VaultSync models what sync writes in *)
(* detail; here a file is there or not.                                    *)
(***************************************************************************)
EXTENDS Naturals, FiniteSets

CONSTANTS
    Machines,       \* machines with a results/ of their own
    Home,           \* the machine the run is executed on
    AllowInternal,  \* sync accepts what does not declare itself public
    MaxMishaps      \* bound: kills, and plans made while the other command runs

ASSUME DeleteAssumption ==
    /\ Home \in Machines
    /\ AllowInternal \in BOOLEAN
    /\ MaxMishaps \in Nat

VARIABLES
    running,    \* whether the run is still executed on Home
    src,        \* the files of each machine's copy; "rest" is all others
    vault,      \* the entries of the aggregation copy; "dir" is the directory
    listed,     \* the files its receipt lists
    link,       \* the by-slug link: "none" or "linked"
    fragment,   \* whether a part of the run went to the vault as a legacy run
    tomb,       \* the tombstone: "none" or "written"
    spc,        \* each machine's sync
    sending,    \* the files it planned to copy
    todo,       \* and those it has yet to copy
    dpc, plan,  \* each machine's delete, and the copies it found
    done,       \* machines on which a delete has completed
    crossed,    \* history: whether a sync and a delete were in flight together
    torn,       \* history: whether a kill fell inside a remove_dir_all
    mishaps     \* kills and such plans so far

syncVars == <<spc, sending, todo>>
deleteVars == <<dpc, plan, done>>
endVars == <<running, torn, mishaps>>
vars == <<src, vault, listed, link, fragment, tomb, syncVars, deleteVars, crossed,
          endVars>>

Live == {"run.json", "rest"}
Settled == {"run.json", "rest", "status.json"}
Copied == {"run.json", "rest", "status.json"}
Rank == [f \in Copied |-> IF f = "rest" THEN 1 ELSE IF f = "run.json" THEN 2 ELSE 3]

TypeOK ==
    /\ running \in {"yes", "no"}
    /\ src \in [Machines -> SUBSET (Live \cup Settled)]
    /\ vault \in SUBSET (Copied \cup {"dir", "sync.json"})
    /\ listed \in SUBSET Copied
    /\ link \in {"none", "linked"} /\ fragment \in {"none", "sent"}
    /\ tomb \in {"none", "written"}
    /\ spc \in [Machines -> {"idle", "begin", "copy", "link", "legacy"}]
    /\ sending \in [Machines -> SUBSET Copied] /\ todo \in [Machines -> SUBSET Copied]
    /\ dpc \in [Machines -> {"idle", "tombstone", "vault", "unlink", "source"}]
    /\ plan \in [Machines -> SUBSET {"source", "vault"}]
    /\ done \in SUBSET Machines
    /\ crossed \in {"no", "yes"} /\ torn \in {"no", "yes"}
    /\ mishaps \in 0..MaxMishaps

Init ==
    /\ running = "yes"
    /\ src = [m \in Machines |-> IF m = Home THEN Live ELSE {}]
    /\ vault = {} /\ listed = {} /\ link = "none" /\ fragment = "none"
    /\ tomb = "none"
    /\ spc = [m \in Machines |-> "idle"]
    /\ sending = [m \in Machines |-> {}] /\ todo = [m \in Machines |-> {}]
    /\ dpc = [m \in Machines |-> "idle"] /\ plan = [m \in Machines |-> {}]
    /\ done = {} /\ crossed = "no" /\ torn = "no" /\ mishaps = 0

Syncing == \E m \in Machines : spc[m] # "idle"
Deleting == \E m \in Machines : dpc[m] # "idle"

\* A plan made beside a running command of the other kind.
Beside(inFlight) ==
    \/ ~inFlight /\ UNCHANGED <<crossed, mishaps>>
    \/ inFlight /\ mishaps < MaxMishaps /\ mishaps' = mishaps + 1 /\ crossed' = "yes"

SyncGoto(m, from, to) == spc[m] = from /\ spc' = [spc EXCEPT ![m] = to]
DeleteGoto(m, from, to) == dpc[m] = from /\ dpc' = [dpc EXCEPT ![m] = to]
-----------------------------------------------------------------------------
(* The run ends, and its directory may be copied to another machine.       *)

EndRun ==
    /\ running = "yes"
    /\ running' = "no"
    /\ src' = [src EXCEPT ![Home] = @ \cup {"status.json"}]
    /\ UNCHANGED <<vault, listed, link, fragment, tomb, syncVars, deleteVars, crossed, torn,
                   mishaps>>

CopyDirectory(m) ==
    /\ running = "no" /\ src[Home] = Settled /\ src[m] = {}
    /\ dpc[m] = "idle" /\ dpc[Home] = "idle"
    /\ src' = [src EXCEPT ![m] = Settled]
    /\ done' = done \ {m}
    /\ UNCHANGED <<vault, listed, link, fragment, tomb, syncVars, dpc, plan, crossed, endVars>>
-----------------------------------------------------------------------------
(* sync                                                                    *)

MutPlanIgnoresTombstone(m) ==
    /\ "run.json" \in src[m]
    /\ SyncGoto(m, "idle", "begin")
    /\ sending' = [sending EXCEPT ![m] = src[m] \cap Copied]
    /\ todo' = [todo EXCEPT ![m] = src[m] \cap Copied]

\* plan_all for a directory with run.json: a tombstoned run is skipped.  A
\* live run and a settled one both pass verify.
PlanCanonical(m) ==
    /\ "run.json" \in src[m] /\ tomb = "none"
    /\ SyncGoto(m, "idle", "begin")
    /\ sending' = [sending EXCEPT ![m] = src[m] \cap Copied]
    /\ todo' = [todo EXCEPT ![m] = src[m] \cap Copied]

\* plan_all for one without: the run's name is also a legacy run's name.
PlanLegacy(m) ==
    /\ src[m] # {} /\ "run.json" \notin src[m] /\ AllowInternal
    /\ SyncGoto(m, "idle", "legacy")
    /\ UNCHANGED <<sending, todo>>

PlanSync(m) ==
    /\ PlanCanonical(m) \/ PlanLegacy(m)
    /\ Beside(Deleting)
    /\ UNCHANGED <<src, vault, listed, link, fragment, tomb, deleteVars, running, torn>>

\* execute reads the receipt and makes the directory,
BeginCopy(m) ==
    /\ SyncGoto(m, "begin", "copy")
    /\ vault' = vault \cup {"dir"}
    /\ UNCHANGED <<src, listed, link, fragment, tomb, sending, todo, deleteVars, crossed, endVars>>

\* copies the planned files in order, in directories it makes as needed,
CopyFile(m, f) ==
    /\ spc[m] = "copy" /\ f \in todo[m] /\ f \in src[m]
    /\ \A g \in todo[m] : Rank[f] <= Rank[g]
    /\ vault' = vault \cup {"dir", f}
    /\ todo' = [todo EXCEPT ![m] = @ \ {f}]
    /\ UNCHANGED <<src, listed, link, fragment, tomb, spc, sending, deleteVars, crossed, endVars>>

\* fails when the next is no longer there,
CopyFails(m) ==
    /\ spc[m] = "copy" /\ todo[m] # {}
    /\ \E f \in todo[m] \ src[m] : \A g \in todo[m] : Rank[f] <= Rank[g]
    /\ spc' = [spc EXCEPT ![m] = "idle"] /\ todo' = [todo EXCEPT ![m] = {}]
    /\ UNCHANGED <<sending, src, vault, listed, link, fragment, tomb, deleteVars, crossed, endVars>>

\* writes the receipt,
WriteReceipt(m) ==
    /\ SyncGoto(m, "copy", "link") /\ todo[m] = {}
    /\ vault' = vault \cup {"dir", "sync.json"}
    /\ listed' = sending[m]
    /\ UNCHANGED <<src, link, fragment, tomb, sending, todo, deleteVars, crossed, endVars>>

\* and links the slug.
LinkBySlug(m) ==
    /\ SyncGoto(m, "link", "idle")
    /\ link' = "linked"
    /\ UNCHANGED <<src, vault, listed, fragment, tomb, sending, todo, deleteVars, crossed, endVars>>

\* A legacy plan files what is left of the directory under its own name.
SendLegacy(m) ==
    /\ SyncGoto(m, "legacy", "idle")
    /\ fragment' = IF src[m] = {} THEN fragment ELSE "sent"
    /\ UNCHANGED <<src, vault, listed, link, tomb, sending, todo, deleteVars, crossed, endVars>>

KillSync(m) ==
    /\ spc[m] # "idle" /\ mishaps < MaxMishaps
    /\ spc' = [spc EXCEPT ![m] = "idle"] /\ todo' = [todo EXCEPT ![m] = {}]
    /\ mishaps' = mishaps + 1
    /\ UNCHANGED <<sending, src, vault, listed, link, fragment, tomb, deleteVars, crossed, running, torn>>
-----------------------------------------------------------------------------
(* delete                                                                  *)

\* scan_sources: a directory without run.json but with this run's status is
\* refused as legacy.
SourceRefused(m) == "run.json" \notin src[m] /\ "status.json" \in src[m]

\* scan_vault: the copy is read through its receipt.
VaultUnreadable ==
    /\ "dir" \in vault
    /\ ~ ({"sync.json", "run.json"} \subseteq vault /\ "run.json" \in listed
          /\ ("status.json" \in listed => "status.json" \in vault))

MutDeletesUnfinished(m) ==
    IF "run.json" \in src[m] THEN FALSE
    ELSE IF "dir" \in vault THEN "status.json" \notin listed
    ELSE tomb = "none"

\* eligible_state: an unfinished source is refused, live or stale; otherwise
\* some copy must say how the run ended.  Without any copy the tombstone has
\* to vouch for it.
Ineligible(m) ==
    IF "run.json" \in src[m] THEN "status.json" \notin src[m]
    ELSE IF "dir" \in vault THEN "status.json" \notin listed
    ELSE tomb = "none"

Refuses(m) == SourceRefused(m) \/ VaultUnreadable \/ Ineligible(m)

PlanDelete(m) ==
    /\ DeleteGoto(m, "idle", "tombstone")
    /\ ~ Refuses(m)
    /\ plan' = [plan EXCEPT ![m] =
         (IF "run.json" \in src[m] THEN {"source"} ELSE {})
           \cup (IF "dir" \in vault THEN {"vault"} ELSE {})]
    /\ Beside(Syncing)
    /\ UNCHANGED <<src, vault, listed, link, fragment, tomb, done, syncVars, running, torn>>

MutTombstoneLater(m) ==
    /\ DeleteGoto(m, "tombstone", "vault")
    /\ UNCHANGED <<src, vault, listed, link, fragment, tomb, plan, done, syncVars, crossed, endVars>>

AppendTombstone(m) ==
    /\ DeleteGoto(m, "tombstone", "vault")
    /\ tomb' = "written"
    /\ UNCHANGED <<src, vault, listed, link, fragment, plan, done, syncVars, crossed, endVars>>

MutForgetVault(m) ==
    /\ DeleteGoto(m, "vault", "unlink")
    /\ UNCHANGED <<src, vault, listed, link, fragment, tomb, plan, done, syncVars, crossed, endVars>>

\* remove_dir_all of the copy the plan found, whatever is in it by now;
RemoveVault(m) ==
    /\ DeleteGoto(m, "vault", "unlink")
    /\ IF "vault" \in plan[m] THEN vault' = {} /\ listed' = {}
       ELSE UNCHANGED <<vault, listed>>
    /\ UNCHANGED <<src, link, fragment, tomb, plan, done, syncVars, crossed, endVars>>

\* the by-slug link;
RemoveLink(m) ==
    /\ DeleteGoto(m, "unlink", "source")
    /\ link' = "none"
    /\ UNCHANGED <<src, vault, listed, fragment, tomb, plan, done, syncVars, crossed, endVars>>

\* and remove_dir_all of the source.
RemoveSource(m) ==
    /\ DeleteGoto(m, "source", "idle")
    /\ src' = IF "source" \in plan[m] THEN [src EXCEPT ![m] = {}] ELSE src
    /\ done' = done \cup {m}
    /\ UNCHANGED <<vault, listed, link, fragment, tomb, plan, syncVars, crossed, endVars>>

\* A kill between two steps, or inside a remove_dir_all, which takes the
\* entries of a directory in any order and the directory last.
KillDelete(m) ==
    /\ dpc[m] # "idle" /\ mishaps < MaxMishaps
    /\ dpc' = [dpc EXCEPT ![m] = "idle"]
    /\ mishaps' = mishaps + 1
    /\ \/ UNCHANGED <<src, vault, listed, torn>>
       \/ /\ dpc[m] = "vault" /\ "vault" \in plan[m] /\ "dir" \in vault
          /\ \E left \in SUBSET (vault \ {"dir"}) : vault' = left \cup {"dir"}
          /\ listed' = IF "sync.json" \in vault' THEN listed ELSE {}
          /\ torn' = "yes" /\ UNCHANGED src
       \/ /\ dpc[m] = "source" /\ "source" \in plan[m]
          /\ \E left \in SUBSET src[m] : src' = [src EXCEPT ![m] = left]
          /\ torn' = "yes" /\ UNCHANGED <<vault, listed>>
    /\ UNCHANGED <<running, link, fragment, tomb, plan, done, syncVars, crossed>>

SyncStep(m) ==
    \/ BeginCopy(m) \/ (\E f \in Copied : CopyFile(m, f)) \/ CopyFails(m)
    \/ WriteReceipt(m) \/ LinkBySlug(m) \/ SendLegacy(m)

MutSourceFirst(m) ==
    \/ AppendTombstone(m) \/ RemoveLink(m)
    \/ /\ DeleteGoto(m, "vault", "unlink")
       /\ src' = IF "source" \in plan[m] THEN [src EXCEPT ![m] = {}] ELSE src
       /\ UNCHANGED <<vault, listed, link, fragment, tomb, plan, done, syncVars, crossed, endVars>>
    \/ /\ DeleteGoto(m, "source", "idle")
       /\ IF "vault" \in plan[m] THEN vault' = {} /\ listed' = {}
          ELSE UNCHANGED <<vault, listed>>
       /\ done' = done \cup {m}
       /\ UNCHANGED <<src, link, fragment, tomb, plan, syncVars, crossed, endVars>>

\* execute: the steps in the order the program points give them.
DeleteStep(m) ==
    AppendTombstone(m) \/ RemoveVault(m) \/ RemoveLink(m) \/ RemoveSource(m)

Next ==
    \/ EndRun
    \/ \E m \in Machines :
         \/ CopyDirectory(m) \/ PlanSync(m) \/ SyncStep(m) \/ KillSync(m)
         \/ PlanDelete(m) \/ DeleteStep(m) \/ KillDelete(m)

Spec == Init /\ [][Next]_vars

\* A command that was started goes on until it ends or is killed, and whoever
\* began to delete the run repeats the command where a copy is left.
FairSpec ==
    /\ Spec
    /\ \A m \in Machines :
         /\ WF_vars(SyncStep(m)) /\ WF_vars(DeleteStep(m))
         /\ SF_vars(tomb = "written" /\ m \notin done /\ PlanDelete(m))
-----------------------------------------------------------------------------
(* Properties.                                                             *)

\* No file of either copy is removed before the deletion is on record, so an
\* interrupted delete is never mistaken for a loss.
TombstoneFirst ==
    [][(~ vault \subseteq vault' \/ \E m \in Machines : ~ src[m] \subseteq src'[m])
         => tomb = "written"]_vars

\* A run that is still being executed keeps its directory: until it has ended
\* no delete, planned before or after, on this machine or another, takes a file
\* of it.
LiveRunIsSpared == [][running = "yes" => src[Home] \subseteq src'[Home]]_vars

\* A run deleted everywhere it was known stays deleted: no copy left on another
\* machine, no sync that is repeated or was killed, brings it back to the vault.
\* (A sync in flight beside the delete does: sync.rs reads the tombstones once.)
DeletedStaysDeleted ==
    crossed = "no" /\ done # {} => vault = {} /\ link = "none"

\* A delete that was killed between two steps is not refused when it is run
\* again, there or where another copy of the run is left (docs/preservation.md, on
\* repeating the command).  The copy in the vault may be one that was synced
\* while the run was live, so that only the source says how the run ended: it
\* goes after the vault's copy, and without either the tombstone vouches for it.
InterruptedDeleteResumes ==
    tomb = "written" /\ crossed = "no" /\ torn = "no" =>
        \A m \in Machines :
            dpc[m] = "idle" /\ (plan[m] # {} \/ src[m] # {}) => ~Refuses(m)

\* A deletion that is on record and repeated wherever a copy is comes to its
\* end: nothing of the run is left there or in the vault.
DeletionCompletes ==
    \A m \in Machines :
        tomb = "written" ~>
            \/ src[m] = {} /\ vault = {} /\ link = "none"
            \/ crossed = "yes" \/ torn = "yes"
=============================================================================

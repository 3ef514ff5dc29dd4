------------------------------- MODULE Lineage -------------------------------
(***************************************************************************)
(* How runs of one results root name each other (sweep parent, resumed     *)
(* run, derived run), what Run::start lets them say, and how finish() and  *)
(* `runvault verify` check it: the shape, the state of the resumed run,    *)
(* and a depth-first search for a cycle that reads run.json after run.json *)
(* while runs end, are collected and are deleted.                          *)
(*                                                                         *)
(* Runs that are found may say anything, since run.json can be edited; a   *)
(* run that is started says what its options let it.  A uid that is not a  *)
(* run here is one of another repository.                                  *)
(***************************************************************************)
EXTENDS Naturals, Sequences, FiniteSets

CONSTANTS
    Runs,        \* uids
    NoRun,       \* the absent reference
    Found,       \* lineages a run found in the results root may carry
    Options,     \* what a program may ask of Run::start: [lineage, sweep_parent, sweep_point]
    None,        \* any other absent value
    Slugs,       \* sweep ids
    OwnSlug,     \* the slug of the run itself, as sweep id
    MaxChanges   \* bound: steps of runs that end, are collected or deleted

Refs == Runs \cup {NoRun}

\* Lineage (meta.rs), and the options it comes from.
Lineages ==
    [parent_run_uid : Refs, resumed_from : Refs, derived_from : Refs,
     sweep_id : Slugs \cup {None}, sweep_index : Nat \cup {None}, sweep_total : Nat \cup {None}]
Requests ==
    [lineage : Lineages, sweep_parent : BOOLEAN, sweep_point : (Nat \X Nat) \cup {None}]

ASSUME LineageAssumption ==
    /\ NoRun \notin Runs /\ OwnSlug \in Slugs /\ None \notin Slugs \cup Nat
    /\ Found \subseteq Lineages /\ Options \subseteq Requests
    /\ MaxChanges \in Nat

VARIABLES
    life,       \* each run: "unborn", "running", "killed", "failed", "finished", "gone"
    lineage,    \* what its run.json says
    started,    \* runs started by the library, as opposed to found
    accepted,   \* runs whose lineage was accepted once
    pc,         \* the verification: "idle", "resumed", "search", "ended"
    subject,    \* the run it checks
    finishing,  \* it is the run's own finish()
    siblings,   \* runs of the results root when they were listed
    stack,      \* runs to visit and to leave
    marks,      \* "none", "path" or "done"
    seen,       \* the references read from each visited run
    rank,       \* when each run was left, as a number
    left,       \* how many were
    verdict,    \* "none", "ok", "shape", "self", "resumed", "cycle"
    removed,    \* a run was deleted since the siblings were listed
    changes

check == <<pc, subject, finishing, siblings, stack, marks, seen, rank, left, verdict, removed>>
vars == <<life, lineage, started, accepted, check, changes>>

Entries == [uid : Runs, visit : {"enter", "leave"}]

TypeOK ==
    /\ life \in [Runs -> {"unborn", "running", "killed", "failed", "finished", "gone"}]
    /\ lineage \in [Runs -> Lineages]
    /\ started \subseteq Runs /\ accepted \subseteq Runs /\ siblings \subseteq Runs
    /\ pc \in {"idle", "resumed", "search", "ended"} /\ subject \in Refs
    /\ pc # "idle" => subject \in Runs
    /\ finishing \in BOOLEAN /\ removed \in {"no", "yes"}
    /\ stack \in Seq(Entries)
    /\ marks \in [Runs -> {"none", "path", "done"}]
    /\ seen \in [Runs -> Seq(Runs)]
    /\ rank \in [Runs -> Nat] /\ left \in Nat
    /\ verdict \in {"none", "ok", "shape", "self", "resumed", "cycle"}
    /\ changes \in 0..MaxChanges

\* A directory with a run.json, and one with a status.json.
Readable(r) == life[r] \notin {"unborn", "gone"}
Recorded(r) == life[r] \in {"failed", "finished"}
-----------------------------------------------------------------------------
(* What a run may say.                                                     *)

CheckLineageShape(l) ==
    /\ l.parent_run_uid # NoRun => l.sweep_id # None
    /\ l.sweep_index # None => l.sweep_id # None
    /\ l.sweep_total # None => l.sweep_index # None /\ l.sweep_index < l.sweep_total
    /\ l.resumed_from = NoRun \/ l.derived_from = NoRun

MutPointUnchecked(o) ==
    /\ o.sweep_parent => o.lineage.sweep_id = None /\ o.lineage.parent_run_uid = NoRun
    /\ CheckLineageShape(o.lineage)

\* RunOptions::require, the part about the lineage.
Require(o) ==
    /\ o.sweep_parent => o.lineage.sweep_id = None /\ o.lineage.parent_run_uid = NoRun
    /\ o.sweep_point # None =>
          /\ o.sweep_parent \/ o.lineage.sweep_id # None
          /\ o.sweep_point[1] < o.sweep_point[2]
    /\ CheckLineageShape(o.lineage)

\* lineage_of: the sweep parent's own slug, and the point.
LineageOf(o) ==
    LET sweep == IF o.sweep_parent THEN [o.lineage EXCEPT !.sweep_id = OwnSlug] ELSE o.lineage
    IN  IF o.sweep_point = None THEN sweep
        ELSE [sweep EXCEPT !.sweep_index = o.sweep_point[1], !.sweep_total = o.sweep_point[2]]

NoLineage ==
    [parent_run_uid |-> NoRun, resumed_from |-> NoRun, derived_from |-> NoRun,
     sweep_id |-> None, sweep_index |-> None, sweep_total |-> None]

Startable == {LineageOf(o) : o \in {p \in Options : Require(p)}}

\* A reference as a sequence of none or one, and the three in the order they
\* are followed.
One(r) == IF r = NoRun THEN <<>> ELSE <<r>>
EdgesOf(l) == One(l.parent_run_uid) \o One(l.resumed_from) \o One(l.derived_from)
Names(l, r) == \E i \in DOMAIN EdgesOf(l) : EdgesOf(l)[i] = r
-----------------------------------------------------------------------------
\* Nothing read and nothing marked, as a verification begins.
Blank(f) == [r \in Runs |-> f]

Init ==
    /\ life \in [Runs -> {"unborn", "killed", "failed"}]
    /\ lineage \in [Runs -> Found \cup {NoLineage}]
    /\ \A r \in Runs : Readable(r) <=> lineage[r] # NoLineage
    /\ \A q, r \in Runs : life[r] = "unborn" => ~Names(lineage[q], r)
    /\ started = {} /\ accepted = {}
    /\ pc = "idle" /\ subject = NoRun /\ finishing = FALSE /\ siblings = {}
    /\ stack = <<>> /\ marks = Blank("none") /\ seen = Blank(<<>>)
    /\ rank = Blank(0) /\ left = 0
    /\ verdict = "none" /\ removed = "no" /\ changes = 0

NothingRead ==
    /\ stack' = <<>> /\ marks' = Blank("none") /\ seen' = Blank(<<>>)
    /\ rank' = Blank(0) /\ left' = 0

\* The verification is over and leaves nothing behind.
EndCheck ==
    /\ pc' = "idle" /\ subject' = NoRun /\ finishing' = FALSE /\ siblings' = {}
    /\ NothingRead /\ verdict' = "none" /\ removed' = "no"

Change == changes < MaxChanges /\ changes' = changes + 1
Becomes(r, from, to) == life[r] \in from /\ life' = [life EXCEPT ![r] = to]

\* Run::start.  The uid is new: nobody has named it, the run itself included.
Start(r, l) ==
    /\ Change /\ Becomes(r, {"unborn"}, "running")
    /\ ~Names(l, r) /\ \A q \in Runs : ~Names(lineage[q], r)
    /\ lineage' = [lineage EXCEPT ![r] = l] /\ started' = started \cup {r}
    /\ UNCHANGED <<accepted, check>>

\* The verification inside finish() dies with its run.
KillRun(r) ==
    /\ Change /\ Becomes(r, {"running"}, "killed")
    /\ IF finishing /\ subject = r /\ pc # "idle"
       THEN EndCheck
       ELSE UNCHANGED check
    /\ UNCHANGED <<lineage, started, accepted>>

\* `runvault gc`.
GcRecords(r) ==
    /\ Change /\ Becomes(r, {"killed"}, "failed")
    /\ UNCHANGED <<lineage, started, accepted, check>>

\* Run::fail does not verify anything.
FailRun(r) ==
    /\ Change /\ ~(finishing /\ subject = r /\ pc # "idle")
    /\ Becomes(r, {"running"}, "failed")
    /\ UNCHANGED <<lineage, started, accepted, check>>

\* `runvault delete`, or someone's rm.
DeleteRun(r) ==
    /\ Change /\ Becomes(r, {"failed", "finished"}, "gone")
    /\ ~(subject = r /\ pc # "idle")
    /\ removed' = IF pc = "idle" THEN "no" ELSE "yes"
    /\ UNCHANGED <<lineage, started, accepted, pc, subject, finishing, siblings, stack,
                   marks, seen, rank, left, verdict>>
-----------------------------------------------------------------------------
(* check_lineage.                                                          *)

Ended(v) == pc' = "ended" /\ verdict' = v

\* The shape and the run itself, then the list of the siblings.  A run that
\* runs is checked by its finish(), a recorded one by verify or sync.
BeginCheck(r) ==
    /\ pc = "idle" /\ (life[r] = "running" \/ Recorded(r))
    /\ subject' = r /\ finishing' = (life[r] = "running")
    /\ siblings' = {q \in Runs : Readable(q)} /\ removed' = "no"
    /\ NothingRead
    /\ IF ~CheckLineageShape(lineage[r]) THEN Ended("shape")
       ELSE IF Names(lineage[r], r) THEN Ended("self")
       ELSE pc' = "resumed" /\ verdict' = "none"
    /\ UNCHANGED <<life, lineage, started, accepted, changes>>

MutMissingRefused ==
    /\ pc = "resumed"
    /\ LET from == lineage[subject].resumed_from
       IN  IF from # NoRun /\ life[from] # "failed"
           THEN Ended("resumed") /\ UNCHANGED stack
           ELSE /\ pc' = "search" /\ UNCHANGED verdict
                /\ stack' = <<[uid |-> subject, visit |-> "enter"]>>
    /\ UNCHANGED <<life, lineage, started, accepted, subject, finishing, siblings, marks,
                   seen, rank, left, removed, changes>>

\* A resumed run among the siblings has to have failed, by its status.json of
\* this moment; then the search begins at the run.
CheckResumed ==
    /\ pc = "resumed"
    /\ LET from == lineage[subject].resumed_from
       IN  IF from \in siblings /\ life[from] # "failed"
           THEN Ended("resumed") /\ UNCHANGED stack
           ELSE /\ pc' = "search" /\ UNCHANGED verdict
                /\ stack' = <<[uid |-> subject, visit |-> "enter"]>>
    /\ UNCHANGED <<life, lineage, started, accepted, subject, finishing, siblings, marks,
                   seen, rank, left, removed, changes>>

Top == stack[Len(stack)]
Below == SubSeq(stack, 1, Len(stack) - 1)
Searching == pc = "search" /\ stack # <<>>

\* check_no_cycle: the run on top is left,
LeaveRun ==
    /\ Searching /\ Top.visit = "leave"
    /\ stack' = Below
    /\ marks' = [marks EXCEPT ![Top.uid] = "done"]
    /\ left' = left + 1 /\ rank' = [rank EXCEPT ![Top.uid] = left']
    /\ UNCHANGED <<life, lineage, started, accepted, pc, subject, finishing, siblings, seen,
                   verdict, removed, changes>>

\* was on the path,
MeetPath ==
    /\ Searching /\ Top.visit = "enter" /\ marks[Top.uid] = "path"
    /\ Ended("cycle") /\ stack' = Below
    /\ UNCHANGED <<life, lineage, started, accepted, subject, finishing, siblings, marks,
                   seen, rank, left, removed, changes>>

MutDoneIsCycle ==
    /\ Searching /\ Top.visit = "enter" /\ marks[Top.uid] = "done"
    /\ Ended("cycle") /\ stack' = Below
    /\ UNCHANGED <<life, lineage, started, accepted, subject, finishing, siblings, marks,
                   seen, rank, left, removed, changes>>

\* was left before,
MeetDone ==
    /\ Searching /\ Top.visit = "enter" /\ marks[Top.uid] = "done"
    /\ stack' = Below
    /\ UNCHANGED <<life, lineage, started, accepted, pc, subject, finishing, siblings, marks,
                   seen, rank, left, verdict, removed, changes>>

\* What the walk reads of a run: nothing of one that is not here any more.
ReadEdges(r) ==
    IF r = subject \/ (r \in siblings /\ Readable(r)) THEN EdgesOf(lineage[r]) ELSE <<>>

MutVisitLost ==
    /\ Searching /\ Top.visit = "enter" /\ marks[Top.uid] = "none"
    /\ LET edges == ReadEdges(Top.uid)
       IN  /\ stack' = Below \o [i \in DOMAIN edges |-> [uid |-> edges[i], visit |-> "enter"]]
           /\ seen' = [seen EXCEPT ![Top.uid] = edges]
    /\ marks' = [marks EXCEPT ![Top.uid] = "done"]
    /\ UNCHANGED <<life, lineage, started, accepted, pc, subject, finishing, siblings, rank, left,
                   verdict, removed, changes>>

\* or is entered, to be left after all it refers to.
VisitRun ==
    /\ Searching /\ Top.visit = "enter" /\ marks[Top.uid] = "none"
    /\ LET edges == ReadEdges(Top.uid)
       IN  /\ stack' = Below \o <<[uid |-> Top.uid, visit |-> "leave"]>>
                             \o [i \in DOMAIN edges |-> [uid |-> edges[i], visit |-> "enter"]]
           /\ seen' = [seen EXCEPT ![Top.uid] = edges]
    /\ marks' = [marks EXCEPT ![Top.uid] = "path"]
    /\ UNCHANGED <<life, lineage, started, accepted, pc, subject, finishing, siblings, rank, left,
                   verdict, removed, changes>>

SearchEnds ==
    /\ pc = "search" /\ stack = <<>>
    /\ Ended("ok")
    /\ UNCHANGED <<life, lineage, started, accepted, subject, finishing, siblings, stack,
                   marks, seen, rank, left, removed, changes>>

\* finish() writes the status; verify reports and sync goes on or refuses.
Conclude ==
    /\ pc = "ended" /\ EndCheck
    /\ accepted' = IF verdict = "ok" THEN accepted \cup {subject} ELSE accepted
    /\ life' = IF ~finishing THEN life
               ELSE [life EXCEPT ![subject] = IF verdict = "ok" THEN "finished" ELSE "failed"]
    /\ UNCHANGED <<lineage, started, changes>>

Search == LeaveRun \/ MeetPath \/ MeetDone \/ VisitRun \/ SearchEnds

Next ==
    \/ \E r \in Runs : (\E l \in Startable : Start(r, l)) \/ KillRun(r) \/ GcRecords(r)
                       \/ FailRun(r) \/ DeleteRun(r) \/ BeginCheck(r)
    \/ CheckResumed \/ Search \/ Conclude

Spec == Init /\ [][Next]_vars
-----------------------------------------------------------------------------
(* Properties.                                                             *)

\* The references among the runs of a set, and what they lead to.
Follow(edges, r) == {edges[r][i] : i \in DOMAIN edges[r]}
ClosedUnder(edges, S) == \A r \in S : Follow(edges, r) \subseteq S
Reach(edges, r) ==
    {q \in Runs : \A S \in SUBSET Runs : r \in S /\ ClosedUnder(edges, S) => q \in S}

\* Runs that go round in a circle, reached from r.
Circular(edges, r) ==
    \E C \in SUBSET Reach(edges, r) :
        C # {} /\ \A p \in C : Follow(edges, p) \cap C # {}

\* What the run.json files say, as far as they were here to be read.
AsRecorded == [r \in Runs |-> IF r \in siblings THEN EdgesOf(lineage[r]) ELSE <<>>]

\* The search accepts no lineage with a circle in what it read, whatever ended
\* or was deleted meanwhile.
AcceptedIsAcyclic == verdict = "ok" => ~Circular(seen, subject)

\* It finds a circle only where the files held one when they were listed, and
\* finds it unless a run was deleted under it.
CycleIsFound ==
    /\ verdict = "cycle" => Circular(AsRecorded, subject)
    /\ verdict = "ok" /\ removed = "no" => ~Circular(AsRecorded, subject)

\* A lineage that was accepted once is not refused later: runs end, are
\* collected and deleted, but a failed run stays failed and a new run is named
\* by nobody.  Only a deletion under the check itself can refuse it.
AcceptedStaysAccepted ==
    pc = "ended" /\ subject \in accepted => verdict = "ok" \/ removed = "yes"

\* What a program may ask of Run::start is settled there: finish() refuses the
\* lineage of a run whose ancestors were all started by the library for the
\* state of the resumed run only, never after the work is done for its shape.
StartSettlesTheShape ==
    pc = "ended" /\ Reach(AsRecorded, subject) \subseteq started
        => verdict \in {"ok", "resumed"}

=============================================================================

------------------------------ MODULE MetricLog ------------------------------
(***************************************************************************)
(* The numbers of the runs of one experiment, one run after another: rows  *)
(* appended to metrics.csv and reference.csv through a buffer, the         *)
(* declaration (runvault.toml) that a name must be covered by before it is *)
(* recorded, metrics.meta.json written at finish() for the names the run   *)
(* used, the check of the keys, and the audit of the index that asks later *)
(* whether each recorded name was described.                               *)
(*                                                                         *)
(* A row is its key without the run_uid, the same in every row of a run.   *)
(* Values are left out: a value that is not finite is refused like a scope.*)
(* No file and no repository at all read as an empty declaration, which    *)
(* demands descriptions in the first case and nothing in the second.  The  *)
(* names are current ones: the index keeps them as they are (the registry  *)
(* renames none, and moves one out of the metrics).                        *)
(***************************************************************************)
EXTENDS Naturals, Sequences, FiniteSets, SequencesExt, FiniteSetsExt

CONSTANTS
    Names,         \* metric names a program uses
    Reserved,      \* those whose meaning the vocabulary fixes
    Scopes,        \* scopes a program uses
    RunScope,      \* the one scope a reserved name is allowed at
    Families,      \* metric_patterns a repository may declare
    Covers,        \* the names each family matches
    Declarations,  \* what the repository may declare when a run starts
    MaxBatch,      \* bound: rows of one call
    MaxRuns,       \* bound: runs of the experiment
    MaxRows,       \* bound: rows of one run
    MaxFaults      \* bound: I/O errors

ASSUME MetricAssumption ==
    /\ Reserved \subseteq Names
    /\ RunScope \in Scopes
    /\ Covers \in [Families -> SUBSET Names]
    /\ Declarations \subseteq [docs : SUBSET Names, families : Seq(Families),
                               demand : {"described", "anything"}]
    /\ MaxBatch \in Nat /\ MaxRuns \in Nat \ {0} /\ MaxRows \in Nat /\ MaxFaults \in Nat

Tables == {"metrics", "reference"}
Rows == [name : Names, scope : Scopes]

VARIABLES
    phase,        \* the current run: "open", "over" or "killed"
    declaration,  \* what it read when it started
    disk,         \* the rows in each file
    pending,      \* the rows in each writer's buffer
    names,        \* metric_names
    counted,      \* counts.metrics
    meta,         \* metrics.meta.json, NoMeta while there is none
    status,       \* status.json: its verdict and counts.metrics
    past,         \* what the earlier runs left in the index
    runs, faults

runVars == <<phase, declaration, disk, pending, names, counted, meta, status>>
vars == <<phase, declaration, disk, pending, names, counted, meta, status, past, runs, faults>>

-----------------------------------------------------------------------------
(* Describing a name.                                                       *)

AllowedAt(name, scope) == name \in Reserved => scope = RunScope

Matching(d, name) == {i \in DOMAIN d.families : name \in Covers[d.families[i]]}
Describes(d, name) == name \in d.docs \/ Matching(d, name) # {}

Demanded(d, name) == d.demand = "described" /\ name \notin Reserved
MayRecord(d, name) == Demanded(d, name) => Describes(d, name)

\* Mutant: a family claims reserved names too.
MutClaimsReserved(d, used, i) ==
    {n \in used \ d.docs : Matching(d, n) # {} /\ Min(Matching(d, n)) = i}

\* The names a family answers for: neither named one by one nor reserved, and
\* matched by no family before it.
AnsweredBy(d, used, i) ==
    {n \in used \ (d.docs \cup Reserved) : Matching(d, n) # {} /\ Min(Matching(d, n)) = i}

Resolve(d, used) ==
    [docs |-> used \cap d.docs,
     families |-> {<<d.families[i], Cardinality(AnsweredBy(d, used, i))>> :
                      i \in {j \in DOMAIN d.families : AnsweredBy(d, used, j) # {}}},
     undescribed |-> {n \in used \ (d.docs \cup Reserved) : Matching(d, n) = {}}]

NoMeta == [docs |-> {}, families |-> {}, undescribed |-> {}]

\* Nothing is written when nothing is described.
MetaOf(d, used) ==
    LET m == Resolve(d, used)
    IN  IF m.docs = {} /\ m.families = {} THEN NoMeta ELSE m

-----------------------------------------------------------------------------
(* What the index takes from a run, and what the audit says.                *)

NamesIn(rows) == {r.name : r \in ToSet(rows)}

NothingYet == [recorded |-> {}, docs |-> {}, families |-> {}, owed |-> {}]

\* `owed`, which the index does not have, are the names the audit has to know:
\* those of a finished run that had to describe them.
Flattened ==
    LET recorded == NamesIn(disk["metrics"])
    IN  [recorded |-> recorded,
         docs |-> meta.docs,
         families |-> {f[1] : f \in meta.families},
         owed |-> IF status.state = "finished" /\ declaration.demand = "described"
                  THEN recorded ELSE {}]

Index == [k \in DOMAIN past |-> past[k] \cup Flattened[k]]

AuditUndescribed ==
    {n \in Index.recorded : /\ n \notin Index.docs \cup Reserved
                            /\ \A f \in Index.families : n \notin Covers[f]}

-----------------------------------------------------------------------------
NoStatus == [state |-> "none", metrics |-> 0]

Starts(d) ==
    /\ phase' = "open" /\ declaration' = d
    /\ disk' = [t \in Tables |-> <<>>] /\ pending' = [t \in Tables |-> <<>>]
    /\ names' = {} /\ counted' = 0 /\ meta' = NoMeta /\ status' = NoStatus

Init ==
    /\ phase = "open" /\ declaration \in Declarations
    /\ disk = [t \in Tables |-> <<>>] /\ pending = [t \in Tables |-> <<>>]
    /\ names = {} /\ counted = 0 /\ meta = NoMeta /\ status = NoStatus
    /\ past = NothingYet /\ runs = 1 /\ faults = 0

NextRun ==
    /\ phase # "open" /\ runs < MaxRuns
    /\ past' = Index /\ runs' = runs + 1
    /\ \E d \in Declarations : Starts(d)
    /\ UNCHANGED faults

-----------------------------------------------------------------------------
(* Recording.                                                               *)

HasRoom(k) == Len(disk["metrics"]) + Len(pending["metrics"])
              + Len(disk["reference"]) + Len(pending["reference"]) + k <= MaxRows

Buffered(t, rows) == /\ pending' = [pending EXCEPT ![t] = @ \o rows]
                     /\ UNCHANGED disk
\* Mutant: a writer of its own for every call.
MutFlushesItsOwn(t, rows) == /\ disk' = [disk EXCEPT ![t] = @ \o rows]
                             /\ pending' = [pending EXCEPT ![t] = <<>>]

Flushed(t, rows) == /\ disk' = [disk EXCEPT ![t] = @ \o pending[t] \o rows]
                    /\ pending' = [pending EXCEPT ![t] = <<>>]

\* Mutant: a batch is described when its first name is.
MutTaken(batch) == IF MayRecord(declaration, batch[1].name) THEN batch ELSE <<>>

\* The rows of a batch that reach the writer: up to the first name refused.
Taken(batch) ==
    LET refused == {i \in DOMAIN batch : ~MayRecord(declaration, batch[i].name)}
    IN  IF refused = {} THEN batch ELSE SubSeq(batch, 1, Min(refused) - 1)

\* log_metrics, and send() as a batch of one: every name and scope is checked
\* before the first row, the descriptions row by row; the last row flushes.  A
\* flush that fails leaves the rows in the buffer, the last one uncounted.
LogMetrics(batch) ==
    /\ phase = "open" /\ HasRoom(Len(batch))
    /\ \A i \in DOMAIN batch : AllowedAt(batch[i].name, batch[i].scope)
    /\ LET taken == Taken(batch)
       IN  \/ /\ taken # batch
              /\ Buffered("metrics", taken)
              /\ names' = names \cup NamesIn(taken) /\ counted' = counted + Len(taken)
              /\ UNCHANGED faults
           \/ /\ taken = batch
              /\ Flushed("metrics", batch)
              /\ names' = names \cup NamesIn(batch) /\ counted' = counted + Len(batch)
              /\ UNCHANGED faults
           \/ /\ taken = batch /\ faults < MaxFaults
              /\ Buffered("metrics", batch)
              /\ names' = names \cup NamesIn(Front(batch))
              /\ counted' = counted + Len(batch) - 1
              /\ faults' = faults + 1
    /\ UNCHANGED <<phase, declaration, meta, status, past, runs>>

\* A reported value: no description is asked for, and it is not counted.
LogReference(row) ==
    /\ phase = "open" /\ HasRoom(1)
    /\ AllowedAt(row.name, row.scope)
    /\ \/ Flushed("reference", <<row>>) /\ UNCHANGED faults
       \/ /\ faults < MaxFaults
          /\ Buffered("reference", <<row>>) /\ faults' = faults + 1
    /\ UNCHANGED <<phase, declaration, names, counted, meta, status, past, runs>>

-----------------------------------------------------------------------------
(* Ending.  RunLifecycle has the order of the files and the kills between   *)
(* them; here the whole of finish() is one step.                            *)

\* The writers are dropped after the run, and a dropped writer flushes.
WritersDrop == /\ disk' = [t \in Tables |-> disk[t] \o pending[t]]
               /\ pending' = [t \in Tables |-> <<>>]

WritersLost == pending' = [t \in Tables |-> <<>>] /\ UNCHANGED disk

\* verify::shallow reads the files as they are once finish() has flushed.
KeysAreUnique(files) == \A t \in Tables : IsInjective(files[t])

\* Mutant: the files are verified before the writers are flushed.
MutVerifiesFirst ==
    /\ phase = "open" /\ phase' = "over"
    /\ WritersDrop
    /\ meta' = MetaOf(declaration, names)
    /\ status' = [state |-> IF KeysAreUnique(disk) THEN "finished" ELSE "failed",
                  metrics |-> counted]
    /\ UNCHANGED <<declaration, names, counted, past, runs, faults>>

Finish ==
    /\ phase = "open" /\ phase' = "over"
    /\ WritersDrop
    /\ meta' = MetaOf(declaration, names)
    /\ status' = [state |-> IF KeysAreUnique(disk') THEN "finished" ELSE "failed",
                  metrics |-> counted]
    /\ UNCHANGED <<declaration, names, counted, past, runs, faults>>

\* An error inside finish() drops the run: in the flush, which the dropped
\* writers may or may not make good, or once the description is written.
FinishFails ==
    /\ phase = "open" /\ phase' = "over"
    /\ faults < MaxFaults /\ faults' = faults + 1
    /\ \/ WritersDrop /\ meta' \in {meta, MetaOf(declaration, names)}
       \/ WritersLost /\ UNCHANGED meta
    /\ status' = [state |-> "failed", metrics |-> counted]
    /\ UNCHANGED <<declaration, names, counted, past, runs>>

\* fail(), or the run dropped: no description is written.
Fail ==
    /\ phase = "open" /\ phase' = "over"
    /\ WritersDrop
    /\ status' = [state |-> "failed", metrics |-> counted]
    /\ UNCHANGED <<declaration, names, counted, meta, past, runs, faults>>

\* The buffers die with the process.
Killed ==
    /\ phase = "open" /\ phase' = "killed"
    /\ WritersLost
    /\ UNCHANGED <<declaration, names, counted, meta, status, past, runs, faults>>

\* One number by send(), or several under one scope.
Batches ==
    {batch \in UNION {[1..n -> Rows] : n \in 1..MaxBatch} :
        \A i \in DOMAIN batch : batch[i].scope = batch[1].scope}

Next ==
    \/ \E batch \in Batches : LogMetrics(batch)
    \/ \E row \in Rows : LogReference(row)
    \/ Finish \/ FinishFails \/ Fail \/ Killed
    \/ NextRun

Spec == Init /\ [][Next]_vars

-----------------------------------------------------------------------------
(* Properties.                                                              *)

\* The types, and that no row waits in a buffer once the run is over
\* (run.rs 430-459).
TypeOK ==
    /\ phase \in {"open", "over", "killed"}
    /\ declaration \in Declarations
    /\ disk \in [Tables -> Seq(Rows)] /\ pending \in [Tables -> Seq(Rows)]
    /\ names \subseteq Names /\ counted \in Nat
    /\ status \in [state : {"none", "finished", "failed"}, metrics : Nat]
    /\ meta.docs \subseteq Names /\ \A f \in meta.families : f[1] \in Families
    /\ past \in [recorded : SUBSET Names, docs : SUBSET Names,
                 families : SUBSET Families, owed : SUBSET Names]
    /\ runs \in 1..MaxRuns /\ faults \in 0..MaxFaults
    /\ phase # "open" => \A t \in Tables : pending[t] = <<>>

\* A name that had to be described to be recorded is one the audit counts as
\* described once its run finished, whatever the repository declared for the
\* runs before and after (run.rs 992-996, "a name that is allowed to be
\* recorded is always a name they count as described").
AuditKnowsFinishedNames == faults = 0 => Index.owed \cap AuditUndescribed = {}

\* metrics.meta.json accounts for the names in metrics.csv, each of them once:
\* named, reserved, listed as undescribed, or answered for by one family, which
\* covers it and is said to have as many names as it answers for; a run that was
\* refused names half-way included (metrics_meta.rs 299-341).
MetaAccountsForTheRun ==
    (status.state = "finished" /\ faults = 0 /\ meta # NoMeta) =>
        LET used == NamesIn(disk["metrics"])
            rest == used \ (meta.docs \cup Reserved \cup meta.undescribed)
            matched == {f[1] : f \in meta.families}
        IN  /\ meta.docs \cup meta.undescribed \subseteq used
            /\ meta.undescribed \cap (meta.docs \cup Reserved) = {}
            /\ \E answers \in [rest -> matched] :
                  /\ \A n \in rest : n \in Covers[answers[n]]
                  /\ \A f \in meta.families :
                        f[2] = Cardinality({n \in rest : answers[n] = f[1]})

\* status.json never counts a row that metrics.csv does not have, and without
\* an I/O error it counts them all, those of refused batches too
\* (run.rs 1029-1052, 885-896).
CountsMatchRows ==
    status.state = "finished" =>
        /\ status.metrics <= Len(disk["metrics"])
        /\ faults = 0 => status.metrics = Len(disk["metrics"])

\* No row of a finished run is there twice, although recording accepts it and
\* rows may sit in a buffer until the end (verify.rs 264-300).
FinishedKeysAreUnique ==
    status.state = "finished" => \A t \in Tables : IsInjective(disk[t])

=============================================================================

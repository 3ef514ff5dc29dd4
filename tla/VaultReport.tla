----------------------------- MODULE VaultReport -----------------------------
(***************************************************************************)
(* `runvault report --obsidian`: a summary of the index, built by one      *)
(* query after the other while a refresh may replace the tables under it.  *)
(*                                                                         *)
(* How a refresh reads the vault is in VaultIndex; here it takes the vault *)
(* at one instant, and writes the four tables the queries of this module  *)
(* use.  The metrics of a legacy run are what LegacyRun reads.  There is   *)
(* one repository, so that an experiment is known by its name.             *)
(***************************************************************************)
EXTENDS LegacyRun

CONSTANTS
    Runs,
    Legacy,          \* those written before this specification
    PathOf,          \* the path of each legacy run below results/
    FilesOf,         \* the sets of files each legacy run may have
    ExperimentOf,    \* the experiment of every other run
    RowsOf,          \* the sets of metrics every other run may record
    IssuesOf,        \* the issue keys of each run
    DocsOf,          \* what each run was told of its metrics: names and meanings
    Vocabulary,      \* names whose meaning the registry fixes
    NameOrder,       \* the names of metrics in their order
    Headlines,       \* bound of primary_metrics: 3
    SummaryMetrics,  \* bound of the metrics carried by frequency: 12
    MaxChanges       \* bound: changes of the vault

\* The files of one directory: each name once, rows of cells, and what parses as
\* an integer is a value.
IsSequence(s) == s \in Seq({s[i] : i \in DOMAIN s})
AreFiles(files) ==
    /\ IsFiniteSet(files) /\ \A f, g \in files : f.stem = g.stem => f = g
    /\ \A f \in files :
         /\ IsSequence(f.header) /\ IsSequence(f.rows)
         /\ \A i \in DOMAIN f.rows :
              /\ IsSequence(f.rows[i])
              /\ \A c \in DOMAIN f.rows[i] :
                   f.rows[i][c].kind = "integer" => f.rows[i][c].of # Absent

ASSUME ReportAssumption ==
    /\ Legacy \subseteq Runs /\ Headlines \in Nat \ {0} /\ SummaryMetrics \in Nat
    /\ MaxChanges \in Nat
    /\ \A r \in Legacy : IssuesOf[r] = {} /\ DocsOf[r] = {}
    /\ \A r \in Legacy : LegacyDirs({PathOf[r]}, {}, {}) = {PathOf[r]}
    /\ \A r \in Runs : \A d \in DocsOf[r] : d = [name |-> d.name, meaning |-> d.meaning]
    /\ Absent \notin {"created_at", "unfinished", "finished"} \cup Seq(IsDate \cup IsTime)
    /\ \A r \in Legacy : \A files \in FilesOf[r] : AreFiles(files)

VARIABLES
    vault,      \* what the vault holds of each run: its state and its metrics
    changes,
    tables,     \* the index on disk
    filling,    \* the refresh: 0, or the table it writes next
    taken,      \* the tables it collected
    query,      \* the report: 0, or the query it asks next
    draft,      \* the answers so far
    mixed       \* they may be of more than one refresh

refresh == <<filling, taken>>
report == <<query, draft, mixed>>
reportVars == <<vault, changes, tables, refresh, report>>

TableNames == <<"metric_docs", "metrics", "run_jira", "runs">>
EmptyTables == [t \in {"metric_docs", "metrics", "run_jira", "runs"} |-> {}]
NotThere == [state |-> "none", metrics |-> {}]
NoDraft == [counts |-> Absent, issues |-> Absent, primary |-> Absent, carried |-> Absent,
            docs |-> Absent, listed |-> Absent, aggregates |-> Absent, shown |-> Absent,
            jira |-> Absent, warned |-> Absent]
Filed(r, files) == [state |-> "legacy", metrics |-> ReadRun(PathOf[r], files).metrics]

ReportInit ==
    /\ \E before \in SUBSET Legacy :
         \E files \in [before -> UNION {FilesOf[r] : r \in before}] :
           /\ \A r \in before : files[r] \in FilesOf[r]
           /\ vault = [r \in Runs |-> IF r \in before THEN Filed(r, files[r]) ELSE NotThere]
    /\ changes = 0
    /\ tables = EmptyTables /\ filling = 0 /\ taken = EmptyTables
    /\ query = 0 /\ draft = NoDraft /\ mixed = FALSE
-----------------------------------------------------------------------------
(* The vault and the index.                                                *)

Change(r, held) ==
    /\ changes < MaxChanges /\ changes' = changes + 1
    /\ vault' = [vault EXCEPT ![r] = held]
    /\ UNCHANGED <<tables, refresh, report>>

\* A sync of a run that goes on or has finished; one that failed counts as it
\* does while it goes on.
SyncRun(r) ==
    /\ r \notin Legacy /\ vault[r].state \in {"none", "unfinished"}
    /\ \E state \in {"unfinished", "finished"}, rows \in RowsOf[r] :
         vault[r].metrics \subseteq rows /\ Change(r, [state |-> state, metrics |-> rows])

SyncLegacy(r) ==
    /\ r \in Legacy /\ vault[r] = NotThere
    /\ \E files \in FilesOf[r] : Change(r, Filed(r, files))

DeleteRun(r) ==
    /\ vault[r].state = "finished"
    /\ Change(r, NotThere)

RunRow(r) ==
    [run |-> r,
     state |-> IF r \in Legacy THEN Absent ELSE vault[r].state,
     experiment |-> IF r \in Legacy THEN Grouping(PathOf[r]) ELSE ExperimentOf[r],
     created |-> IF r \in Legacy THEN Timestamp(PathOf[r][Len(PathOf[r])]) ELSE "created_at"]

Collected ==
    LET there == {r \in Runs : vault[r] # NotThere}
    IN  [runs |-> {RunRow(r) : r \in there},
         metrics |-> UNION {{[run |-> r, metric |-> m] : m \in vault[r].metrics} : r \in there},
         run_jira |-> UNION {{[run |-> r, issue |-> i] : i \in IssuesOf[r]} : r \in there},
         metric_docs |-> UNION {{[run |-> r, doc |-> d] : d \in DocsOf[r]} : r \in there}]

BeginRefresh ==
    /\ filling = 0 /\ filling' = 1 /\ taken' = Collected
    /\ UNCHANGED <<vault, changes, tables, report>>

\* A table written with what it held before disturbs nobody.
WriteTable ==
    /\ filling # 0
    /\ LET t == TableNames[filling]
       IN  /\ tables' = [tables EXCEPT ![t] = taken[t]]
           /\ mixed' = (mixed \/ (query # 0 /\ tables[t] # taken[t]))
    /\ IF filling < Len(TableNames) THEN filling' = filling + 1 /\ UNCHANGED taken
       ELSE filling' = 0 /\ taken' = EmptyTables
    /\ UNCHANGED <<vault, changes, query, draft>>
-----------------------------------------------------------------------------
(* The queries, in their order.                                            *)

Asks(k, answered) ==
    /\ query = k /\ query' = k + 1 /\ draft' = answered
    /\ UNCHANGED <<vault, changes, tables, refresh, mixed>>

\* A report that begins between two tables of a refresh mixes two of them.
BeginReport ==
    /\ query = 0 /\ query' = 1 /\ draft' = NoDraft
    /\ mixed' = \E t \in DOMAIN tables : filling > 1 /\ tables[t] # taken[t]
    /\ UNCHANGED <<vault, changes, tables, refresh>>

Groups == {r.experiment : r \in tables.runs}
InGroup(e) == {r \in tables.runs : r.experiment = e}
KeysOf(e) == {r.run : r \in InGroup(e)}

CountRuns ==
    Asks(1, [draft EXCEPT !.counts =
        [e \in Groups |->
            [runs |-> Cardinality(InGroup(e)),
             finished |-> Cardinality({r \in InGroup(e) : r.state = "finished"})]]])

ListIssues ==
    Asks(2, [draft EXCEPT !.issues =
        [e \in Groups |-> {j.issue : j \in {k \in tables.run_jira : k.run \in KeysOf(e)}}]])

\* Names by the number of their rows with scope `run`, points of a series
\* among them, then in their own order; the first of all are carried and the
\* first that are not reserved are the headline, which is carried too.
OfScopeRun(e) == {m \in tables.metrics : m.run \in KeysOf(e) /\ m.metric.scope = "run"}
NamesOf(e) == {m.metric.name : m \in OfScopeRun(e)} \ Unusable
Frequency(e, n) == Cardinality({m \in OfScopeRun(e) : m.metric.name = n})
Place(n) == CHOOSE i \in DOMAIN NameOrder : NameOrder[i] = n
Precedes(e, a, b) ==
    \/ Frequency(e, a) > Frequency(e, b)
    \/ Frequency(e, a) = Frequency(e, b) /\ Place(a) < Place(b)
First(e, names, k) == {n \in names : Cardinality({a \in names : Precedes(e, a, n)}) < k}
Primary(e) == First(e, NamesOf(e) \ Vocabulary, Headlines)

MutHeadlineNotCarried ==
    Asks(3, [draft EXCEPT !.primary = [e \in Groups |-> Primary(e)],
                          !.carried = [e \in Groups |-> First(e, NamesOf(e), SummaryMetrics)]])

RankNames ==
    Asks(3, [draft EXCEPT !.primary = [e \in Groups |-> Primary(e)],
                          !.carried = [e \in Groups |->
                             First(e, NamesOf(e), SummaryMetrics) \cup Primary(e)]])

\* One meaning of each name; which, when runs were told different ones, is left
\* to the order the database returns them in.
DocsIn(e) == {d.doc : d \in {x \in tables.metric_docs : x.run \in KeysOf(e)}}
Meanings(e, n) == {d.meaning : d \in {x \in DocsIn(e) : x.name = n}}

DescribeNames ==
    \E pick \in [Groups \X {d.doc.name : d \in tables.metric_docs} ->
                   {d.doc.meaning : d \in tables.metric_docs}] :
      /\ \A e \in Groups : \A d \in DocsIn(e) : pick[<<e, d.name>>] \in Meanings(e, d.name)
      /\ Asks(4, [draft EXCEPT !.docs = [e \in Groups |->
                    {[name |-> d.name, meaning |-> pick[<<e, d.name>>]] : d \in DocsIn(e)}]])

MutListCapped ==
    LET dated == {r \in tables.runs : r.created # Absent}
    IN  Asks(5, [draft EXCEPT !.listed =
                    IF Cardinality(dated) < 2 THEN dated ELSE dated \ {CHOOSE r \in dated : TRUE}])

ListRuns == Asks(5, [draft EXCEPT !.listed = {r \in tables.runs : r.created # Absent}])

\* The aggregates of the runs listed: all are counted, the carried are shown.
Carried(r) == IF r.experiment \in DOMAIN draft.carried THEN draft.carried[r.experiment] ELSE {}

ShowMetrics ==
    LET aggregates(r) == {m.metric : m \in {x \in tables.metrics :
                            x.run = r.run /\ x.metric.scope = "run" /\ x.metric.step = Absent}}
    IN  Asks(6, [draft EXCEPT
                    !.aggregates = [r \in draft.listed |-> aggregates(r)],
                    !.shown = [r \in draft.listed |->
                              {m.name : m \in aggregates(r)} \cap Carried(r)]])

ShowIssues ==
    Asks(7, [draft EXCEPT !.jira =
        [r \in draft.listed |-> {j.issue : j \in {k \in tables.run_jira : k.run = r.run}}]])

\* The runs without a run_uid, and those of them without an experiment.
Warn ==
    LET old == {r \in tables.runs : r.run \in Legacy}
    IN  Asks(8, [draft EXCEPT !.warned =
                    [legacy |-> Cardinality(old),
                     nameless |-> Cardinality({r \in old : r.experiment = Absent})]])

\* The payload is complete and written as a whole; or a query finds a table
\* half written, or the report is killed, and what was there before stays.
EndReport ==
    /\ query # 0 /\ query' = 0 /\ draft' = NoDraft /\ mixed' = FALSE
    /\ UNCHANGED <<vault, changes, tables, refresh>>

ReportNext ==
    \/ \E r \in Runs : SyncRun(r) \/ SyncLegacy(r) \/ DeleteRun(r)
    \/ BeginRefresh \/ WriteTable
    \/ BeginReport \/ CountRuns \/ ListIssues \/ RankNames \/ DescribeNames \/ ListRuns \/ ShowMetrics
    \/ ShowIssues \/ Warn \/ EndReport

ReportSpec == ReportInit /\ [][ReportNext]_reportVars
-----------------------------------------------------------------------------
(* Properties.                                                             *)

Complete == query = 9

\* A screen that shows the headline of an experiment finds it in each run that
\* recorded such a number of its own, however many names come before it.
HeadlineIsShown ==
    Complete =>
        \A r \in draft.listed :
          r.experiment \in DOMAIN draft.primary =>
            \A m \in draft.aggregates[r] :
              m.name \in draft.primary[r.experiment] => m.name \in draft.shown[r]

\* The same of every run that recorded the name at all (runs.report.json, of
\* `metrics`: primary_metrics are in it without exception): it does not hold,
\* for the points of a series rank a name and are not shown.
HeadlineIsAlwaysShown ==
    [][query = 6 /\ query' = 7 =>
         \A r \in draft.listed : \A m \in tables.metrics :
           /\ m.run = r.run /\ r.experiment \in DOMAIN draft.primary
           /\ m.metric.name \in draft.primary[r.experiment]
           => m.metric.name \in draft'.shown[r]]_query

\* A payload is of one index unless the contents of a table changed under it:
\* then the experiments count the runs that are listed, the warning counts the
\* legacy runs among them, the issues of an experiment are those of its runs, and
\* a name is described when one of them was told what it means.
Of(e) == {r \in draft.listed : r.experiment = e}
ReportAddsUp ==
    Complete /\ ~mixed =>
        /\ {r.experiment : r \in draft.listed} = DOMAIN draft.counts
        /\ \A e \in DOMAIN draft.counts :
             /\ draft.counts[e].runs = Cardinality(Of(e))
             /\ draft.counts[e].finished
                  = Cardinality({r \in Of(e) : r.state = "finished"})
             /\ draft.issues[e] = UNION {draft.jira[r] : r \in Of(e)}
             /\ \A d \in draft.docs[e] : \E r \in Of(e) : d \in DocsOf[r.run]
             /\ {d.name : d \in draft.docs[e]}
                  = {d.name : d \in UNION {DocsOf[r.run] : r \in Of(e)}}
        /\ draft.warned.legacy = Cardinality({r \in draft.listed : r.state = Absent})

\* n_metrics counts the names a legacy run has an aggregate of, as long as the
\* names its files use have no dots: no two files of a run give the same name.
EachNumberOnce ==
    Complete =>
        \A r \in draft.listed :
          r.run \in Legacy /\ (\A f \in UNION FilesOf[r.run] : IsPlain(f)) =>
            Cardinality(draft.aggregates[r])
              = Cardinality({m.name : m \in draft.aggregates[r]})
=============================================================================

------------------------------ MODULE VaultIndex ------------------------------
(***************************************************************************)
(* `runvault query --refresh`: the walk of the vault by its receipts, the  *)
(* reading of each run's stored files, and the nine tables written one by  *)
(* one, while a sync replaces the files of a run before its receipt and a  *)
(* delete takes a run away.                                                *)
(*                                                                         *)
(* A run has two editions, live and ended; the only file that differs in   *)
(* them is metrics.csv, and status.json and what finish() writes are there *)
(* in the second alone.  A legacy run has metrics.csv only.  What happens  *)
(* between two syncs, or a sync and a delete, is in VaultSync and          *)
(* VaultDelete: here one of them is at work at a time.                     *)
(***************************************************************************)
EXTENDS Naturals, Sequences, FiniteSets

CONSTANTS
    Dirs,        \* places of runs in the vault
    Legacy,      \* those of legacy runs
    Gone,        \* those whose source is no longer there to be synced
    Beginnings,  \* the sets of them that may be in the vault from the beginning
    Hidden,      \* places below a directory named `index`
    NoDate,      \* legacy runs whose name is no date
    Kept,        \* the files the runs have, among those the index reads
    Large,       \* files that may be stored compressed, each with its run
    RowsAt,      \* the rows of metrics.csv in each edition of each run
    Moved,       \* retired names that became a column of the run
    GroupOf,     \* the grouping directory of each run: its experiment
    DirOrder,    \* the places in the order of their paths
    TableOrder,  \* the tables in the order of their names
    Absent,
    MaxSyncs,    \* bound: syncs
    MaxKills     \* bound: syncs, deletes and refreshes that die

ReadOrder == <<"run.json", "status.json", "metrics.csv", "reference.csv", "manifest.csv",
               "metrics.meta.json", "parameters.meta.json">>
SyncOrder == <<"manifest.csv", "metrics.csv", "metrics.meta.json", "parameters.meta.json",
               "reference.csv", "run.json", "status.json">>
AllTables == {"manifest", "metric_docs", "metrics", "parameter_docs", "reference",
              "run_data", "run_jira", "run_targets", "runs"}
Files == {ReadOrder[i] : i \in DOMAIN ReadOrder}
Tables == {TableOrder[i] : i \in DOMAIN TableOrder}
AtTheEnd == {"status.json", "manifest.csv", "metrics.meta.json", "parameters.meta.json"}
Forms == {"none", "zstd"}

ASSUME IndexAssumption ==
    /\ Kept \subseteq Files /\ "metrics.csv" \in Kept /\ Large \subseteq Dirs \X {"metrics.csv"}
    /\ Legacy \subseteq Dirs /\ Hidden \subseteq Dirs /\ NoDate \subseteq Legacy
    /\ Gone \subseteq Dirs /\ Beginnings \subseteq SUBSET Gone
    /\ {"metrics", "runs"} \subseteq Tables /\ Tables \subseteq AllTables
    /\ Absent \notin Dirs \cup Forms
    /\ DirOrder \in Seq(Dirs) /\ DirOrder # <<>>
    /\ \A d \in Dirs : \E i \in DOMAIN DirOrder : DirOrder[i] = d
    /\ \A i, j \in DOMAIN DirOrder : DirOrder[i] = DirOrder[j] => i = j
    /\ TableOrder \in Seq(AllTables)
    /\ \A d \in Dirs : \A e \in 1..2 :
         /\ IsFiniteSet(RowsAt[d][e])
         /\ \A r \in RowsAt[d][e] : r = [name |-> r.name, step |-> r.step]
    /\ MaxSyncs \in Nat /\ MaxKills \in Nat

VARIABLES
    source,     \* the edition of each run at its source
    stored,     \* the edition each file is stored in, in each form; 0 for none
    receipt,    \* sync.json: the form of each file, or Absent
    job,        \* the sync that runs
    deleting,   \* the run being deleted
    tombs,      \* the deleted runs
    syncs, kills,
    pc,         \* the refresh: "idle", "walk", "read", "write"
    found,      \* the receipts it read
    at,         \* the position in DirOrder, or in TableOrder
    got,        \* what it read of the files of the run at that position
    rows,       \* what it collected
    index,      \* the tables on disk
    whole,      \* they are of one refresh
    changed,    \* the vault changed since the refresh began
    current,    \* and since the last complete one began
    crossed,    \* runs that were not as their receipt says, during this refresh
    doubt       \* the same for the refresh the tables are of

vault == <<source, stored, receipt, job, deleting, tombs, syncs>>
reader == <<pc, found, at, got, rows, crossed>>
tables == <<index, whole, doubt>>
vars == <<vault, kills, reader, tables, changed, current>>

NoJob == [dir |-> Absent, forms |-> <<>>, k |-> 0, phase |-> "none"]
NoReceipt == [f \in Files |-> Absent]
NotRead == [f \in Files |-> 0]
Empty == [t \in Tables |-> {}]

TypeOK ==
    /\ source \in [Dirs -> 1..2]
    /\ stored \in [Dirs -> [Files -> [Forms -> 0..2]]]
    /\ receipt \in [Dirs -> [Files -> Forms \cup {Absent}]]
    /\ job \in {NoJob} \cup [dir : Dirs, forms : [Files -> Forms \cup {Absent}],
                             k : 1..Len(SyncOrder) + 1, phase : {"copy", "other"}]
    /\ deleting \in Dirs \cup {Absent} /\ tombs \subseteq Dirs
    /\ syncs \in 0..MaxSyncs /\ kills \in 0..MaxKills
    /\ pc \in {"idle", "walk", "read", "write"}
    /\ found \in [Dirs -> [Files -> Forms \cup {Absent}]]
    /\ at \in Nat /\ got \in [Files -> 0..3]
    /\ DOMAIN rows = Tables /\ DOMAIN index = Tables
    /\ \A t \in Tables : \A r \in rows[t] \cup index[t] : r.dir \in Dirs
    /\ whole \in BOOLEAN /\ changed \in BOOLEAN /\ current \in BOOLEAN
    /\ crossed \subseteq Dirs /\ doubt \subseteq Dirs

HasFile(d, f) ==
    IF d \in Legacy THEN f = "metrics.csv"
    ELSE f \in Kept /\ (f \in AtTheEnd => source[d] = 2)
Content(d, f) == IF f = "metrics.csv" THEN source[d] ELSE 1

Init ==
    /\ source = [d \in Dirs |-> IF d \in Legacy \cup Gone THEN 2 ELSE 1]
    /\ \E before \in Beginnings, form \in Forms :
         LET FormOf(f) == IF f = "metrics.csv" THEN form ELSE "none"
         IN  /\ stored = [d \in Dirs |-> [f \in Files |-> [m \in Forms |->
                            IF d \in before /\ HasFile(d, f) /\ m = FormOf(f)
                            THEN Content(d, f) ELSE 0]]]
             /\ receipt = [d \in Dirs |-> [f \in Files |->
                             IF d \in before /\ HasFile(d, f) THEN FormOf(f) ELSE Absent]]
    /\ job = NoJob /\ deleting = Absent /\ tombs = {} /\ syncs = 0 /\ kills = 0
    /\ pc = "idle" /\ found = [d \in Dirs |-> NoReceipt]
    /\ at = 1 /\ got = NotRead /\ rows = Empty
    /\ index = Empty /\ whole = FALSE /\ changed = TRUE /\ current = FALSE
    /\ crossed = {} /\ doubt = {}
-----------------------------------------------------------------------------
(* The vault.                                                              *)

Synced(d) == receipt[d] # NoReceipt
Held(d, f, m) == stored[d][f][m] # 0

\* Every file the receipt lists is there in the form it says.
Described(d) == \A f \in Files : receipt[d][f] # Absent => Held(d, f, receipt[d][f])

Changes == changed' = TRUE /\ current' = FALSE
Crosses(d) == crossed' = IF pc = "idle" THEN crossed ELSE crossed \cup {d}
ReaderStays == UNCHANGED <<pc, found, at, got, rows>>

EndRun(d) ==
    /\ source[d] = 1 /\ source' = [source EXCEPT ![d] = 2]
    /\ UNCHANGED <<stored, receipt, job, deleting, tombs, syncs, kills, reader, tables,
                   changed, current>>

Onward(forms, k) ==
    LET left == {i \in k..Len(SyncOrder) : forms[SyncOrder[i]] # Absent}
    IN  IF left = {} THEN Len(SyncOrder) + 1
        ELSE CHOOSE i \in left : \A j \in left : i <= j

MutPlanChanges(d) ==
    /\ job = NoJob /\ deleting = Absent /\ d \notin tombs \cup Gone /\ syncs < MaxSyncs
    /\ syncs' = syncs + 1
    /\ \E big \in SUBSET {f \in Files : <<d, f>> \in Large} :
         LET forms == [f \in Files |->
                         IF ~HasFile(d, f) \/ \E m \in Forms : stored[d][f][m] = Content(d, f)
                         THEN Absent
                         ELSE IF f \in big THEN "zstd" ELSE "none"]
         IN  job' = [dir |-> d, forms |-> forms, k |-> Onward(forms, 1), phase |-> "copy"]
    /\ UNCHANGED <<source, stored, receipt, deleting, tombs, kills, reader, tables, changed, current>>

\* The files that are there now; whether one is large depends on the
\* threshold the vault declares at this moment.
PlanSync(d) ==
    /\ job = NoJob /\ deleting = Absent /\ d \notin tombs \cup Gone /\ syncs < MaxSyncs
    /\ syncs' = syncs + 1
    /\ \E big \in SUBSET {f \in Files : <<d, f>> \in Large} :
         LET forms == [f \in Files |-> IF ~HasFile(d, f) THEN Absent
                                       ELSE IF f \in big THEN "zstd" ELSE "none"]
         IN  job' = [dir |-> d, forms |-> forms, k |-> Onward(forms, 1), phase |-> "copy"]
    /\ UNCHANGED <<source, stored, receipt, deleting, tombs, kills, reader, tables, changed, current>>

Copied == SyncOrder[job.k]
Other(m) == IF m = "none" THEN "zstd" ELSE "none"
NextCopy == job' = [job EXCEPT !.k = Onward(job.forms, @ + 1), !.phase = "copy"]

MutCopyOnce ==
    /\ job # NoJob /\ job.phase = "copy" /\ job.k <= Len(SyncOrder)
    /\ LET d == job.dir  f == Copied  m == job.forms[f]
       IN  /\ stored' = [stored EXCEPT ![d][f][m] = IF @ = 0 THEN Content(d, f) ELSE @]
           /\ IF Held(d, f, Other(m)) THEN job' = [job EXCEPT !.phase = "other"] ELSE NextCopy
    /\ Changes
    /\ UNCHANGED <<source, receipt, deleting, tombs, syncs, kills, reader, tables>>

\* copy_into, and nothing more to do unless the other form is there.
CopyFile ==
    /\ job # NoJob /\ job.phase = "copy" /\ job.k <= Len(SyncOrder)
    /\ LET d == job.dir  f == Copied  m == job.forms[f]
       IN  /\ stored' = [stored EXCEPT ![d][f][m] = Content(d, f)]
           /\ IF Held(d, f, Other(m)) THEN job' = [job EXCEPT !.phase = "other"] ELSE NextCopy
    /\ Changes
    /\ UNCHANGED <<source, receipt, deleting, tombs, syncs, kills, reader, tables>>

RemoveOtherForm ==
    /\ job # NoJob /\ job.phase = "other"
    /\ LET d == job.dir  f == Copied
       IN  stored' = [stored EXCEPT ![d][f][Other(job.forms[f])] = 0] /\ Crosses(d)
    /\ NextCopy /\ Changes /\ ReaderStays
    /\ UNCHANGED <<source, receipt, deleting, tombs, syncs, kills, tables>>

WriteReceipt ==
    /\ job # NoJob /\ job.phase = "copy" /\ job.k > Len(SyncOrder)
    /\ receipt' = [receipt EXCEPT ![job.dir] = job.forms] /\ job' = NoJob
    /\ Changes
    /\ UNCHANGED <<source, stored, deleting, tombs, syncs, kills, reader, tables>>

\* A delete removes the files of a run in any order, the receipt among them.
BeginDelete(d) ==
    /\ job = NoJob /\ deleting = Absent /\ d \notin Legacy /\ source[d] = 2
    /\ Synced(d) \/ \E f \in Files, m \in Forms : Held(d, f, m)
    /\ deleting' = d /\ tombs' = tombs \cup {d}
    /\ UNCHANGED <<source, stored, receipt, job, syncs, kills, reader, tables, changed, current>>

RemoveOne ==
    /\ deleting # Absent
    /\ \/ /\ receipt' = [receipt EXCEPT ![deleting] = NoReceipt] /\ Synced(deleting)
          /\ UNCHANGED stored
       \/ \E f \in Files, m \in Forms :
            /\ Held(deleting, f, m) /\ stored' = [stored EXCEPT ![deleting][f][m] = 0]
            /\ UNCHANGED receipt
    /\ Crosses(deleting) /\ Changes /\ ReaderStays
    /\ UNCHANGED <<source, job, deleting, tombs, syncs, kills, tables>>

EndDelete ==
    /\ deleting # Absent /\ ~Synced(deleting)
    /\ \A f \in Files, m \in Forms : ~Held(deleting, f, m)
    /\ deleting' = Absent
    /\ UNCHANGED <<source, stored, receipt, job, tombs, syncs, kills, reader, tables,
                   changed, current>>

KillWriter ==
    /\ job # NoJob \/ deleting # Absent
    /\ kills < MaxKills /\ kills' = kills + 1
    /\ job' = NoJob /\ deleting' = Absent
    /\ UNCHANGED <<source, stored, receipt, tombs, syncs, reader, tables, changed, current>>

Vault ==
    \/ \E d \in Dirs : EndRun(d) \/ PlanSync(d) \/ BeginDelete(d)
    \/ CopyFile \/ RemoveOtherForm \/ WriteReceipt \/ RemoveOne \/ EndDelete \/ KillWriter
-----------------------------------------------------------------------------
(* The refresh.                                                            *)

BeginRefresh ==
    /\ pc = "idle" /\ pc' = "walk"
    /\ found' = [d \in Dirs |-> NoReceipt] /\ at' = 1
    /\ got' = NotRead /\ rows' = Empty
    /\ changed' = FALSE /\ crossed' = {d \in Dirs : ~Described(d)}
    /\ UNCHANGED <<vault, kills, tables, current>>

Here == DirOrder[at]
Step(nextPc) ==
    IF at < Len(DirOrder) THEN at' = at + 1 /\ UNCHANGED pc ELSE at' = 1 /\ pc' = nextPc

\* synced_runs does not enter a directory named `index`.
VisitDir ==
    /\ pc = "walk" /\ Step("read")
    /\ found' = IF Here \in Hidden THEN found ELSE [found EXCEPT ![Here] = receipt[Here]]
    /\ UNCHANGED <<vault, kills, got, rows, crossed, tables, changed, current>>

Reading == pc = "read"
NextDir == got' = NotRead /\ Step("write")

MutBytesUncompressed(d, f, entry) == IF entry[f] = Absent THEN 0 ELSE stored[d][f]["none"]

\* stored_bytes: the form the receipt says, or nothing.
StoredBytes(d, f, entry) == IF entry[f] = Absent THEN 0 ELSE stored[d][f][entry[f]]

\* The files are read in this order, one at a time; got keeps the edition,
\* with 3 for what could not be read.
Unread == {i \in DOMAIN ReadOrder : got[ReadOrder[i]] = 0 /\ found[Here][ReadOrder[i]] # Absent}

SkipDir ==
    /\ Reading /\ found[Here] = NoReceipt
    /\ NextDir
    /\ UNCHANGED <<vault, kills, found, rows, crossed, tables, changed, current>>

MutReadFails ==
    /\ Reading /\ Here \notin Legacy /\ Unread # {} /\ got["run.json"] # 3
    /\ LET i == CHOOSE k \in Unread : \A j \in Unread : k <= j
           bytes == StoredBytes(Here, ReadOrder[i], found[Here])
       IN  bytes # 0 /\ got' = [got EXCEPT ![ReadOrder[i]] = bytes]
    /\ UNCHANGED <<vault, kills, pc, found, at, rows, crossed, tables, changed, current>>

ReadFile ==
    /\ Reading /\ Here \notin Legacy /\ Unread # {} /\ got["run.json"] # 3
    /\ LET i == CHOOSE k \in Unread : \A j \in Unread : k <= j
           bytes == StoredBytes(Here, ReadOrder[i], found[Here])
       IN  got' = [got EXCEPT ![ReadOrder[i]] = IF bytes = 0 THEN 3 ELSE bytes]
    /\ UNCHANGED <<vault, kills, pc, found, at, rows, crossed, tables, changed, current>>

IsRead(f) == got[f] \in {1, 2}

\* place: a retired name leaves the metrics for a column of the run.
MetricsOf(d, edition) == {r \in RowsAt[d][edition] : r.name \notin Moved}
MovedOf(d, edition) == RowsAt[d][edition] \ MetricsOf(d, edition)
MetricRows(d, edition) ==
    {[dir |-> d, name |-> r.name, step |-> r.step] : r \in MetricsOf(d, edition)}

\* The row of the run: status.json says that it has ended, and counts its
\* rows; a retired metric stands in for a duration status.json does not give.
Ended == IsRead("status.json")
Duration(hasMoved) == IF Ended THEN "status" ELSE IF hasMoved THEN "metric" ELSE "none"
Counted == IF Ended THEN Cardinality(RowsAt[Here][2]) ELSE 0
RunRow ==
    LET moved == IF IsRead("metrics.csv") THEN MovedOf(Here, got["metrics.csv"]) ELSE {}
    IN  [dir |-> Here, state |-> IF Ended THEN "ended" ELSE "unfinished",
         n_metrics |-> Counted, duration |-> Duration(moved # {}), experiment |-> GroupOf[Here]]

\* The tables of which no property tells the rows of a run apart.
SourceOf(t) ==
    CASE t = "reference" -> "reference.csv"
      [] t = "manifest" -> "manifest.csv"
      [] t = "metric_docs" -> "metrics.meta.json"
      [] t = "parameter_docs" -> "parameters.meta.json"
      [] OTHER -> "run.json"
OtherRows(t) == IF IsRead(SourceOf(t)) THEN {[dir |-> Here]} ELSE {}

\* flatten_canonical: the tables' rows of the run that was read.
RunRows ==
    [t \in Tables |->
       CASE t = "runs" -> {RunRow}
         [] t = "metrics" ->
              IF IsRead("metrics.csv") THEN MetricRows(Here, got["metrics.csv"]) ELSE {}
         [] OTHER -> OtherRows(t)]

Collect(new) == rows' = [t \in Tables |-> rows[t] \cup new[t]]

FlattenCanonical ==
    /\ Reading /\ Here \notin Legacy /\ found[Here] # NoReceipt
    /\ Unread = {} \/ got["run.json"] = 3
    /\ IF IsRead("run.json") THEN Collect(RunRows) ELSE UNCHANGED rows
    /\ NextDir
    /\ UNCHANGED <<vault, kills, found, crossed, tables, changed, current>>

\* flatten_legacy: the directory as it is, or what the receipt lists expanded
\* into a directory of its own, which has no grouping directory above it.
LegacyRows(entry) ==
    LET compressed == \E f \in Files : entry[f] = "zstd"
        edition == IF compressed THEN StoredBytes(Here, "metrics.csv", entry)
                   ELSE stored[Here]["metrics.csv"]["none"]
        readable == IF edition = 0 THEN {} ELSE RowsAt[Here][edition]
    IN  [t \in Tables |->
           CASE t = "runs" ->
                  {[dir |-> Here, state |-> "legacy", n_metrics |-> 0,
                    duration |-> IF \E r \in readable : r.name \in Moved THEN "metric" ELSE "none",
                    experiment |-> IF compressed THEN Absent ELSE GroupOf[Here]]}
             [] t = "metrics" -> IF edition = 0 THEN {} ELSE MetricRows(Here, edition)
             [] OTHER -> {}]

FlattenLegacy ==
    /\ Reading /\ Here \in Legacy \ NoDate /\ found[Here] # NoReceipt
    /\ Collect(LegacyRows(found[Here])) /\ NextDir
    /\ UNCHANGED <<vault, kills, found, crossed, tables, changed, current>>

\* A name that is no date ends the refresh; so do I/O errors and a kill.
GivesUp ==
    /\ pc' = "idle" /\ found' = [d \in Dirs |-> NoReceipt] /\ at' = 1
    /\ got' = NotRead /\ rows' = Empty /\ crossed' = {}

LegacyFails ==
    /\ Reading /\ Here \in NoDate /\ found[Here] # NoReceipt
    /\ GivesUp
    /\ UNCHANGED <<vault, kills, tables, changed, current>>

RefreshDies ==
    /\ pc # "idle" /\ kills < MaxKills /\ kills' = kills + 1
    /\ GivesUp
    /\ UNCHANGED <<vault, tables, changed, current>>

\* COPY of one table after the other, in the order of their names.
WriteTable ==
    /\ pc = "write" /\ at < Len(TableOrder) /\ at' = at + 1
    /\ index' = [index EXCEPT ![TableOrder[at]] = rows[TableOrder[at]]]
    /\ whole' = FALSE
    /\ UNCHANGED <<vault, kills, pc, found, got, rows, crossed, doubt, changed, current>>

WriteLastTable ==
    /\ pc = "write" /\ at = Len(TableOrder)
    /\ index' = [index EXCEPT ![TableOrder[at]] = rows[TableOrder[at]]]
    /\ whole' = TRUE /\ doubt' = crossed /\ current' = ~changed
    /\ GivesUp
    /\ UNCHANGED <<vault, kills, changed>>

Refresh ==
    \/ BeginRefresh \/ VisitDir
    \/ SkipDir \/ ReadFile \/ FlattenCanonical \/ FlattenLegacy \/ LegacyFails
    \/ WriteTable \/ WriteLastTable

Next == Vault \/ Refresh \/ RefreshDies

\* The refresh is repeated, as refresh_vault.sh does; syncs may stop for ever.
Spec == Init /\ [][Next]_vars /\ WF_vars(Refresh)
-----------------------------------------------------------------------------
(* Properties.                                                             *)

\* What the vault holds, read at one instant.
Shown(d) == d \notin Hidden /\ Synced(d)
There(d, f) == receipt[d][f] # Absent /\ Held(d, f, receipt[d][f])
MetricsThere(d) ==
    IF There(d, "metrics.csv")
    THEN MetricRows(d, stored[d]["metrics.csv"][receipt[d]["metrics.csv"]])
    ELSE {}

\* After a refresh under which nothing changed, and until something does, the
\* index is the vault: its runs are those that have a receipt in a place the
\* walk enters, its metrics those that are stored, and status.json alone says
\* which of them have ended.
CurrentIndexIsTheVault ==
    current =>
        LET known == {d \in Dirs : Shown(d) /\ (d \in Legacy \/ There(d, "run.json"))}
        IN  /\ {r.dir : r \in index["runs"]} = known
            /\ index["metrics"] = UNION {MetricsThere(d) : d \in known}
            /\ {r.dir : r \in {s \in index["runs"] : s.state = "ended"}}
                 = {d \in known : There(d, "status.json")}

\* In the tables of one refresh a run that is shown as ended has the rows its
\* status.json counts, whatever a sync was doing meanwhile: the receipt is
\* written last and lists status.json only when the other files are final.
\* Only files that left their listed form under the refresh break it.
Rows(d) == {m \in index["metrics"] : m.dir = d}
CountHolds(r) ==
    r.state = "ended" => Cardinality(Rows(r.dir)) + Cardinality(MovedOf(r.dir, 2)) = r.n_metrics
EndedRunIsWhole == whole => \A r \in index["runs"] : r.dir \notin doubt => CountHolds(r)

\* The same without the condition (index.rs:170-172, "a half-copied tree
\* contributes nothing rather than contributing a partial run").
NoPartialRun == whole => \A r \in index["runs"] : CountHolds(r)

\* A run that was shown as ended is not shown as unfinished, and does not
\* vanish, in a later refresh, until it is deleted.
ShowsEnded(d) == \E r \in index["runs"] : r.dir = d /\ r.state = "ended"
EndedStaysEnded ==
    [][\A d \in Dirs \ (tombs \cup crossed) : ShowsEnded(d) => ShowsEnded(d)']_index

\* Once syncs and deletes have come to rest, however they were interrupted, a
\* refresh that is repeated brings the index up to date -- unless the name of a
\* legacy run in the vault is no date, which ends every refresh.
IndexCatchesUp == <>[](current \/ \E d \in NoDate : Shown(d))
=============================================================================

------------------------------ MODULE LegacyRun ------------------------------
(***************************************************************************)
(* legacy.rs: what is read out of a run that predates run.json.            *)
(*                                                                         *)
(* A name is a sequence of words: those between two dots in the name of a  *)
(* metric, those between two underscores in the name of a directory.  A    *)
(* cell is a record: `kind` says whether it parses as an integer, as a     *)
(* finite number only, or as neither, and `of` is what it holds.  A file   *)
(* has a stem, a header (a sequence of names) and rows (sequences of       *)
(* cells).                                                                 *)
(***************************************************************************)
EXTENDS Naturals, Sequences, FiniteSets

CONSTANTS
    MetricStems,   \* stems of the files whose columns may be metrics
    TimeUnit,      \* the step_unit of each column that can be a time axis
    PairedValue,   \* of each column that may name metrics, the column of values
    Unusable,      \* names and scopes no slug allows
    IsDate,        \* words of eight digits
    IsTime,        \* words of six digits
    Absent

Least(S) == CHOOSE i \in S : \A j \in S : i <= j
-----------------------------------------------------------------------------
(* The name of the directory.                                              *)

\* parse_dir_name: the first date followed by a time.
Stamps(name) == {i \in 1..(Len(name) - 1) : name[i] \in IsDate /\ name[i + 1] \in IsTime}
IsLegacyName(name) == Stamps(name) # {}

Timestamp(name) ==
    IF IsLegacyName(name) THEN SubSeq(name, Least(Stamps(name)), Least(Stamps(name)) + 1)
    ELSE Absent

\* What stands before the timestamp, or else what stands behind it.
Subcommand(name) ==
    LET i == Least(Stamps(name))
    IN  CASE ~IsLegacyName(name) -> Absent
          [] IsLegacyName(name) /\ i > 1 -> SubSeq(name, 1, i - 1)
          [] IsLegacyName(name) /\ i = 1 /\ Len(name) > 2 -> SubSeq(name, 3, Len(name))
          [] OTHER -> Absent

\* The grouping directories; a path is a non-empty sequence of directory names.
Grouping(path) == IF Len(path) = 1 THEN Absent ELSE SubSeq(path, 1, Len(path) - 1)

\* find_run_dirs: the first directory with such a name ends the descent, and
\* one that holds run.json, or is hidden, is not entered.
LegacyDirs(paths, canonical, closed) ==
    LET Above(p) == {SubSeq(p, 1, k) : k \in 1..(Len(p) - 1)}
        Enters(p) == p \notin canonical \cup closed
    IN  {p \in paths : /\ IsLegacyName(p[Len(p)]) /\ Enters(p)
                       /\ \A q \in Above(p) : Enters(q) /\ ~IsLegacyName(q[Len(q)])}
-----------------------------------------------------------------------------
(* One file.                                                               *)

Columns(f) == DOMAIN f.header
TimeColumns(f) == {i \in Columns(f) : f.header[i] \in DOMAIN TimeUnit}

\* A file is long when a column names the metrics and another has their values;
\* the column called after the first wins over one called `value`.
NameColumns(f) == {i \in Columns(f) : f.header[i] \in DOMAIN PairedValue}
NameColumn(f) == Least(NameColumns(f))
ValueColumns(f) ==
    LET Called(name) == {i \in Columns(f) : f.header[i] = name}
        paired == Called(PairedValue[f.header[NameColumn(f)]])
    IN  IF paired # {} THEN paired ELSE Called(<<"value">>)
ValueColumn(f) == Least(ValueColumns(f))
IsLong(f) == NameColumns(f) # {} /\ ValueColumns(f) # {}
ScopeColumns(f) == {i \in Columns(f) : f.header[i] = <<"scope">>}

\* 0 when there is none.
Axis(f) ==
    LET able == IF IsLong(f) THEN TimeColumns(f) \ {NameColumn(f), ValueColumn(f)}
                ELSE TimeColumns(f)
    IN  IF able = {} THEN 0 ELSE Least(able)

MutPrefixed(f, name) == name

\* Only metrics.csv may use bare column names.
Prefixed(f, name) == IF f.stem = "metrics" THEN name ELSE <<f.stem>> \o name

NameAt(f, c) ==
    Prefixed(f, IF IsLong(f) THEN f.rows[c[1]][NameColumn(f)].of ELSE f.header[c[2]])
ScopeAt(f, c) ==
    IF ~IsLong(f) \/ ScopeColumns(f) = {} THEN "run"
    ELSE LET cell == f.rows[c[1]][Least(ScopeColumns(f))]
         IN  IF cell.of = "" THEN "run" ELSE cell.of

MetricAt(f, c) ==
    [name |-> NameAt(f, c),
     step |-> IF Axis(f) = 0 THEN Absent ELSE f.rows[c[1]][Axis(f)].of,
     unit |-> IF Axis(f) = 0 THEN Absent ELSE TimeUnit[f.header[Axis(f)]],
     scope |-> ScopeAt(f, c),
     value |-> f.rows[c[1]][c[2]].of,
     source |-> f.stem]

\* The cells whose values are offered: every column beside the axis, or the
\* column of values of a long file.
Offered(f) ==
    (DOMAIN f.rows) \X (IF IsLong(f) THEN {ValueColumn(f)} ELSE Columns(f) \ {Axis(f)})
HasStep(f, r) == Axis(f) = 0 \/ f.rows[r][Axis(f)].kind = "integer"
Usable(f, c) ==
    /\ HasStep(f, c[1]) /\ f.rows[c[1]][c[2]].kind \in {"integer", "number"}
    /\ NameAt(f, c) \notin Unusable /\ ScopeAt(f, c) \notin Unusable
Cells(f) == {c \in Offered(f) : Usable(f, c)}

KeyOf(m) == [name |-> m.name, step |-> m.step, unit |-> m.unit, scope |-> m.scope]
Panel(f) ==
    \E c, d \in Cells(f) : c # d /\ KeyOf(MetricAt(f, c)) = KeyOf(MetricAt(f, d))

\* convert_wide and convert_long: a file whose rows have no axis to tell them
\* apart, or that gives one key twice, or nothing, stays a table as a whole.
StaysTable(f) ==
    \/ ~IsLong(f) /\ Axis(f) = 0 /\ Len(f.rows) > 1
    \/ Panel(f)
    \/ Cells(f) = {}

\* Rows of other lengths than the header make the CSV unreadable.
Unreadable(f) == \E r \in DOMAIN f.rows : Len(f.rows[r]) # Len(f.header)

Converted(f) ==
    IF Unreadable(f) \/ StaysTable(f) THEN {} ELSE {MetricAt(f, c) : c \in Cells(f)}

-----------------------------------------------------------------------------
(* One run: its directory's name and the files directly in it.             *)

MetricFiles(files) == {f \in files : f.stem \in MetricStems}
ReadMetrics(files) == UNION {Converted(f) : f \in MetricFiles(files)}
ReadTables(files) == {f \in MetricFiles(files) : ~Unreadable(f) /\ StaysTable(f)}

ReadRun(path, files) ==
    [experiment |-> Grouping(path),
     subcommand |-> Subcommand(path[Len(path)]),
     timestamp |-> Timestamp(path[Len(path)]),
     metrics |-> ReadMetrics(files),
     tables |-> ReadTables(files)]
-----------------------------------------------------------------------------
(* What holds of them.                                                     *)

\* The index joins on the key: no two metrics of one file have the same.
FileKeysAreUnique(f) == \A m, n \in Converted(f) : KeyOf(m) = KeyOf(n) => m = n

\* The same for a run, whose files the prefix keeps apart: "so two files in one
\* run cannot claim the same metric" (legacy.rs:492-493).  That is so as long as
\* the names in the files have no dots.
RunKeysAreUnique(files) ==
    \A m, n \in ReadMetrics(files) : KeyOf(m) = KeyOf(n) => m = n

IsWord(name) == Len(name) = 1 /\ name = <<name[1]>>
IsPlain(f) ==
    /\ \A i \in Columns(f) : IsWord(f.header[i])
    /\ IsLong(f) => \A r \in DOMAIN f.rows : IsWord(f.rows[r][NameColumn(f)].of)
=============================================================================

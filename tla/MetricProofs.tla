---------------------------- MODULE MetricProofs -----------------------------
(***************************************************************************)
(* The numbers of a run: the proofs about MetricLog, which records them,   *)
(* about LegacyRun, which reads those of runs that predate run.json, and   *)
(* about VaultReport, which shows them.                                    *)
(***************************************************************************)
EXTENDS MetricLog, VaultReport, SequenceTheorems, FiniteSetTheorems, WellFoundedInduction, TLAPS

(***************************************************************************)
(* MetricLog, for any names, declarations and batches: the count of a      *)
(* finished run is that of its rows, and the audit knows every name a      *)
(* finished run had to describe.                                           *)
(*                                                                         *)
(* The argument: while the run is open, what is counted is what is on disk *)
(* or in a buffer (RowsInv); a name that was used passed the description   *)
(* check (NamesInv), by the very test by which resolve() gives it to a     *)
(* name or a family at the end (DescribedIsKnown); what earlier runs left  *)
(* in the index only grows (PastInv); and no name is used without a row in *)
(* the file (FileInv), so that what resolve() says of the names it says of *)
(* the file (ResolveAccounts).                                             *)
(***************************************************************************)

-----------------------------------------------------------------------------
(* Sequences and minima.                                                    *)

\* A set of positions that is not empty has a least one.
LEMMA LeastNatural ==
    ASSUME NEW S, S \subseteq Nat, S # {}
    PROVE  \E k \in S : \A l \in S : k <= l
<1>1. PICK x \in S : \A y \in S : ~(<<y, x>> \in OpToRel(<, Nat))
    BY NatLessThanWellFounded, WFMin
<1>2. \A y \in S : ~(y < x)
    BY <1>1 DEF OpToRel
<1> QED BY <1>2

LEMMA LeastPosition ==
    ASSUME NEW S, S \subseteq Nat, S # {}
    PROVE  Min(S) \in S /\ \A y \in S : Min(S) <= y
BY LeastNatural DEF Min

\* The names of two runs of rows are those of both.
LEMMA NamesOfConcat ==
    ASSUME NEW s \in Seq(Rows), NEW t \in Seq(Rows)
    PROVE  NamesIn(s \o t) = NamesIn(s) \cup NamesIn(t)
<1>1. /\ s \o t \in Seq(Rows) /\ Len(s \o t) = Len(s) + Len(t)
      /\ \A j \in 1..(Len(s) + Len(t)) :
            (s \o t)[j] = IF j <= Len(s) THEN s[j] ELSE t[j - Len(s)]
    BY ConcatProperties
<1>2. /\ DOMAIN s = 1..Len(s) /\ DOMAIN t = 1..Len(t) /\ DOMAIN (s \o t) = 1..(Len(s) + Len(t))
      /\ Len(s) \in Nat /\ Len(t) \in Nat
    BY <1>1, LenProperties
<1>3. ASSUME NEW i \in DOMAIN (s \o t)
      PROVE  (s \o t)[i] \in ToSet(s) \cup ToSet(t)
    <2>1. CASE i <= Len(s)
        BY <1>1, <1>2, <2>1 DEF ToSet
    <2>2. CASE i > Len(s)
        <3>1. i - Len(s) \in DOMAIN t /\ (s \o t)[i] = t[i - Len(s)]
            BY <1>1, <1>2, <2>2
        <3> QED BY <3>1 DEF ToSet
    <2> QED BY <1>2, <2>1, <2>2
<1>4. ASSUME NEW i \in DOMAIN s PROVE s[i] \in ToSet(s \o t)
    <2>1. i \in DOMAIN (s \o t) /\ (s \o t)[i] = s[i]
        BY <1>1, <1>2
    <2> QED BY <2>1 DEF ToSet
<1>5. ASSUME NEW i \in DOMAIN t PROVE t[i] \in ToSet(s \o t)
    <2>1. Len(s) + i \in DOMAIN (s \o t) /\ (s \o t)[Len(s) + i] = t[(Len(s) + i) - Len(s)]
        BY <1>1, <1>2
    <2>2. (Len(s) + i) - Len(s) = i
        BY <1>2
    <2> QED BY <2>1, <2>2 DEF ToSet
<1>6. ToSet(s \o t) = ToSet(s) \cup ToSet(t)
    <2>1. ToSet(s \o t) \subseteq ToSet(s) \cup ToSet(t)
        BY <1>3 DEF ToSet
    <2>2. ToSet(s) \subseteq ToSet(s \o t) /\ ToSet(t) \subseteq ToSet(s \o t)
        BY <1>4, <1>5 DEF ToSet
    <2> QED BY <2>1, <2>2
<1> QED BY <1>6 DEF NamesIn

\* The rows of a batch that are accepted passed the check, every one.
LEMMA TakenMayBeRecorded ==
    ASSUME NEW batch \in Seq(Rows)
    PROVE  /\ Taken(batch) \in Seq(Rows)
           /\ \A n \in NamesIn(Taken(batch)) : MayRecord(declaration, n)
<1> DEFINE refused == {i \in DOMAIN batch : ~MayRecord(declaration, batch[i].name)}
<1>0. DOMAIN batch = 1..Len(batch) /\ Len(batch) \in Nat
    BY LenProperties
<1>1. CASE refused = {}
    <2>1. Taken(batch) = batch
        BY <1>1 DEF Taken
    <2> QED BY <1>1, <2>1 DEF NamesIn, ToSet
<1>2. CASE refused # {}
    <2>1. Min(refused) \in refused /\ \A y \in refused : Min(refused) <= y
        <3>1. refused \subseteq Nat
            BY <1>0
        <3> QED BY <1>2, <3>1, LeastPosition
    <2> DEFINE m == Min(refused) - 1
    <2>2. Taken(batch) = SubSeq(batch, 1, m)
        BY <1>2 DEF Taken
    <2>3. m \in 0..Len(batch)
        BY <2>1, <1>0
    <2>4. \A i \in 1..m : i \in DOMAIN batch /\ batch[i] \in Rows
        BY <2>3, <1>0, ElementOfSeq
    <2> HIDE DEF m
    <2>5. /\ Taken(batch) \in Seq(Rows) /\ Len(Taken(batch)) = m
          /\ \A i \in 1..m : Taken(batch)[i] = batch[i]
        BY <2>2, <2>3, <2>4, <1>0, SubSeqProperties
    <2>6. \A i \in 1..m : i \notin refused
        <3>1. SUFFICES ASSUME NEW i \in 1..m, i \in refused PROVE FALSE
            OBVIOUS
        <3>2. Min(refused) <= i
            BY <2>1, <3>1
        <3>3. Min(refused) \in Nat /\ m = Min(refused) - 1
            BY <2>1, <1>0 DEF m
        <3> HIDE DEF refused
        <3> QED BY <3>1, <3>2, <3>3, <2>3
    <2>7. \A i \in 1..m : MayRecord(declaration, batch[i].name)
        BY <2>4, <2>6
    <2>8. DOMAIN Taken(batch) = 1..m
        BY <2>5, LenProperties
    <2> QED BY <2>5, <2>7, <2>8 DEF NamesIn, ToSet
<1> QED BY <1>1, <1>2

-----------------------------------------------------------------------------
(* The inductive invariant.                                                 *)

\* An open run has no verdict; what it counts is on disk or in the buffer,
\* short of a row whose flush failed.
RowsInv ==
    phase = "open" =>
        /\ status.state = "none"
        /\ counted <= Len(disk["metrics"]) + Len(pending["metrics"])
        /\ faults = 0 => counted = Len(disk["metrics"]) + Len(pending["metrics"])

\* A name that was used passed the check, and without a failure every name in
\* the file is known to have been used.
NamesInv ==
    /\ \A n \in names : MayRecord(declaration, n)
    /\ faults = 0 => NamesIn(disk["metrics"]) \cup NamesIn(pending["metrics"]) \subseteq names

\* A finished run described what it used.
MetaInv == status.state = "finished" => meta = MetaOf(declaration, names)

Known(index, n) ==
    n \in index.docs \cup Reserved \/ \E f \in index.families : n \in Covers[f]

\* The earlier runs left descriptions of all they owed.
PastInv == faults = 0 => \A n \in past.owed : Known(past, n)

Inv == TypeOK /\ RowsInv /\ CountsMatchRows /\ NamesInv /\ MetaInv /\ PastInv

\* Without a failure every name that was used is in the file, or in the buffer
\* of a run that was not killed.
FileInv ==
    /\ faults = 0 /\ phase # "killed" =>
         names \subseteq NamesIn(disk["metrics"]) \cup NamesIn(pending["metrics"])
    /\ status.state = "finished" => phase = "over"

\* The shape of a description.
LEMMA MetaType ==
    ASSUME NEW d \in Declarations, NEW used, used \subseteq Names
    PROVE  /\ MetaOf(d, used).docs \subseteq Names
           /\ \A f \in MetaOf(d, used).families : f[1] \in Families
<1>1. d.docs \subseteq Names /\ d.families \in Seq(Families)
    BY MetricAssumption
<1>2. \A i \in DOMAIN d.families : d.families[i] \in Families
    BY <1>1, LenProperties, ElementOfSeq
<1>3. /\ Resolve(d, used).docs \subseteq Names
      /\ \A f \in Resolve(d, used).families : f[1] \in Families
    BY <1>1, <1>2 DEF Resolve
<1> QED BY <1>3 DEF MetaOf, NoMeta

\* What may be recorded because it must be described is described, or claimed
\* by a family, in what resolve() makes of any names it is one of.
LEMMA DescribedIsKnown ==
    ASSUME NEW d \in Declarations, NEW used, NEW n \in used,
           d.demand = "described", MayRecord(d, n), n \notin Reserved
    PROVE  LET m == MetaOf(d, used)
           IN  n \in m.docs \/ \E f \in m.families : n \in Covers[f[1]]
<1> DEFINE m == Resolve(d, used)
<1>1. Describes(d, n)
    BY DEF MayRecord, Demanded
<1>2. CASE n \in d.docs
    <2>1. n \in m.docs
        BY <1>2 DEF Resolve
    <2>2. MetaOf(d, used) = m
        BY <2>1 DEF MetaOf
    <2> QED BY <2>1, <2>2
<1>3. CASE n \notin d.docs
    <2>1. Matching(d, n) # {}
        BY <1>1, <1>3 DEF Describes
    <2> DEFINE i == Min(Matching(d, n))
    <2>2. i \in Matching(d, n)
        <3>1. d.families \in Seq(Families)
            BY MetricAssumption
        <3>2. Matching(d, n) \subseteq Nat
            BY <3>1, LenProperties DEF Matching
        <3> QED BY <2>1, <3>2, LeastPosition
    <2>3. n \in AnsweredBy(d, used, i)
        BY <1>3, <2>1 DEF AnsweredBy
    <2>4. i \in DOMAIN d.families /\ n \in Covers[d.families[i]]
        BY <2>2 DEF Matching
    <2> HIDE DEF i
    <2> DEFINE f == <<d.families[i], Cardinality(AnsweredBy(d, used, i))>>
    <2>5. f \in m.families /\ f[1] = d.families[i]
        BY <2>3, <2>4 DEF Resolve
    <2>6. MetaOf(d, used) = m
        BY <2>5 DEF MetaOf
    <2> QED BY <2>4, <2>5, <2>6
<1> QED BY <1>2, <1>3

\* The index owes nothing after this run either.
LEMMA IndexIsKnown ==
    ASSUME Inv, faults = 0
    PROVE  \A n \in Index.owed : Known(Index, n)
<1> SUFFICES ASSUME NEW n \in Index.owed PROVE Known(Index, n)
    OBVIOUS
<1>0. DOMAIN past = {"recorded", "docs", "families", "owed"}
    BY DEF Inv, TypeOK
<1>1. /\ Index.owed = past.owed \cup Flattened.owed
      /\ Index.docs = past.docs \cup meta.docs
      /\ Index.families = past.families \cup {f[1] : f \in meta.families}
    BY <1>0 DEF Index, Flattened
<1>2. CASE n \in past.owed
    BY <1>1, <1>2 DEF Inv, PastInv, Known
<1>3. CASE n \in Flattened.owed
    <2>1. /\ n \in NamesIn(disk["metrics"])
          /\ status.state = "finished" /\ declaration.demand = "described"
        BY <1>3 DEF Flattened
    <2>2. n \in names /\ MayRecord(declaration, n) /\ declaration \in Declarations
        BY <2>1 DEF Inv, NamesInv, TypeOK
    <2>3. meta = MetaOf(declaration, names)
        BY <2>1 DEF Inv, MetaInv
    <2>4. n \in Reserved \/ n \in meta.docs \/ \E f \in meta.families : n \in Covers[f[1]]
        BY <2>1, <2>2, <2>3, DescribedIsKnown
    <2> QED BY <1>1, <2>4 DEF Known
<1> QED BY <1>1, <1>2, <1>3

-----------------------------------------------------------------------------
(* It holds always.                                                         *)

LEMMA MetricTypeInit == Init => TypeOK
<1> SUFFICES ASSUME Init PROVE TypeOK
    OBVIOUS
<1>1. <<>> \in Seq(Rows)
    BY EmptySeq
<1> QED BY <1>1, MetricAssumption DEF Init, TypeOK, NoMeta, NoStatus, NothingYet, Tables

\* The names of rows are names.
LEMMA NamesInType ==
    ASSUME NEW s \in Seq(Rows)
    PROVE  NamesIn(s) \subseteq Names
<1>1. \A i \in DOMAIN s : s[i] \in Rows
    BY LenProperties, ElementOfSeq
<1>2. \A r \in ToSet(s) : r.name \in Names
    BY <1>1 DEF ToSet, Rows
<1> QED BY <1>2 DEF NamesIn

LEMMA BatchType ==
    ASSUME NEW batch \in Batches
    PROVE  /\ batch \in Seq(Rows) /\ Len(batch) \in Nat \ {0}
           /\ Front(batch) \in Seq(Rows)
           /\ NamesIn(Front(batch)) \subseteq NamesIn(batch)
<1>1. PICK n \in 1..MaxBatch : batch \in [1..n -> Rows]
    BY DEF Batches
<1>2. n \in Nat \ {0} /\ batch \in Seq(Rows) /\ Len(batch) = n
    BY <1>1, MetricAssumption, IsASeq, LenProperties
<1>3. \A i \in 1..n-1 : batch[i] \in Rows
    BY <1>1, <1>2
<1>4. /\ Front(batch) \in Seq(Rows) /\ Len(Front(batch)) = n - 1
      /\ \A i \in 1..n-1 : Front(batch)[i] = batch[i]
    BY <1>2, <1>3, SubSeqProperties DEF Front
<1>5. DOMAIN Front(batch) = 1..n-1 /\ DOMAIN batch = 1..n
    BY <1>2, <1>4, LenProperties
<1>6. ToSet(Front(batch)) \subseteq ToSet(batch)
    BY <1>2, <1>4, <1>5 DEF ToSet
<1> QED BY <1>2, <1>4, <1>6 DEF NamesIn

\* Either way a file and its buffer together grow by the rows written.
LEMMA WriteType ==
    ASSUME TypeOK, NEW t \in Tables, NEW rows \in Seq(Rows),
           Buffered(t, rows) \/ Flushed(t, rows)
    PROVE  /\ disk' \in [Tables -> Seq(Rows)] /\ pending' \in [Tables -> Seq(Rows)]
           /\ Len(disk'[t]) + Len(pending'[t])
                = Len(disk[t]) + Len(pending[t]) + Len(rows)
           /\ \A u \in Tables \ {t} : disk'[u] = disk[u] /\ pending'[u] = pending[u]
           /\ NamesIn(disk'[t]) \cup NamesIn(pending'[t])
                = NamesIn(disk[t]) \cup NamesIn(pending[t]) \cup NamesIn(rows)
<1>0. /\ disk \in [Tables -> Seq(Rows)] /\ pending \in [Tables -> Seq(Rows)]
      /\ disk[t] \in Seq(Rows) /\ pending[t] \in Seq(Rows)
      /\ Len(disk[t]) \in Nat /\ Len(pending[t]) \in Nat /\ Len(rows) \in Nat
    BY LenProperties DEF TypeOK
<1>1. CASE Buffered(t, rows)
    <2>1. /\ pending[t] \o rows \in Seq(Rows)
          /\ Len(pending[t] \o rows) = Len(pending[t]) + Len(rows)
          /\ NamesIn(pending[t] \o rows) = NamesIn(pending[t]) \cup NamesIn(rows)
        BY <1>0, ConcatProperties, NamesOfConcat
    <2>2. disk' = disk /\ pending' = [pending EXCEPT ![t] = pending[t] \o rows]
        BY <1>1 DEF Buffered
    <2> QED BY <1>0, <2>1, <2>2
<1>2. CASE Flushed(t, rows)
    <2> DEFINE before == disk[t] \o pending[t]
               all == before \o rows
    <2>1. /\ before \in Seq(Rows) /\ Len(before) = Len(disk[t]) + Len(pending[t])
          /\ NamesIn(before) = NamesIn(disk[t]) \cup NamesIn(pending[t])
        BY <1>0, ConcatProperties, NamesOfConcat
    <2>3. disk' = [disk EXCEPT ![t] = all] /\ pending' = [pending EXCEPT ![t] = <<>>]
        BY <1>2 DEF Flushed
    <2> HIDE DEF before
    <2>2. /\ all \in Seq(Rows) /\ Len(all) = Len(before) + Len(rows)
          /\ NamesIn(all) = NamesIn(before) \cup NamesIn(rows)
        BY <1>0, <2>1, ConcatProperties, NamesOfConcat
    <2> HIDE DEF all
    <2>4. <<>> \in Seq(Rows) /\ Len(<<>>) = 0 /\ NamesIn(<<>>) = {}
        BY EmptySeq DEF NamesIn, ToSet
    <2>5. disk'[t] = all /\ pending'[t] = <<>>
        BY <1>0, <2>3
    <2> QED BY <1>0, <2>1, <2>2, <2>3, <2>4, <2>5
<1> QED BY <1>1, <1>2

\* The end of a run loses or keeps what waits in a buffer.
LEMMA DropType ==
    ASSUME TypeOK, WritersDrop \/ WritersLost
    PROVE  /\ disk' \in [Tables -> Seq(Rows)] /\ pending' = [t \in Tables |-> <<>>]
           /\ pending' \in [Tables -> Seq(Rows)]
           /\ WritersDrop => \A t \in Tables :
                 /\ Len(disk'[t]) = Len(disk[t]) + Len(pending[t])
                 /\ NamesIn(disk'[t]) = NamesIn(disk[t]) \cup NamesIn(pending[t])
           /\ \A t \in Tables : NamesIn(disk'[t]) \cup NamesIn(pending'[t])
                                  \subseteq NamesIn(disk[t]) \cup NamesIn(pending[t])
<1>0. \A t \in Tables : disk[t] \in Seq(Rows) /\ pending[t] \in Seq(Rows)
    BY DEF TypeOK
<1>1. \A t \in Tables : /\ disk[t] \o pending[t] \in Seq(Rows)
                         /\ Len(disk[t] \o pending[t]) = Len(disk[t]) + Len(pending[t])
                         /\ NamesIn(disk[t] \o pending[t])
                              = NamesIn(disk[t]) \cup NamesIn(pending[t])
    BY <1>0, ConcatProperties, NamesOfConcat
<1>2. <<>> \in Seq(Rows) /\ NamesIn(<<>>) = {}
    BY EmptySeq DEF NamesIn, ToSet
<1>3. pending' = [t \in Tables |-> <<>>]
    BY DEF WritersDrop, WritersLost
<1>4. CASE WritersDrop
    BY <1>1, <1>2, <1>3, <1>4 DEF WritersDrop
<1>5. CASE WritersLost /\ ~WritersDrop
    BY <1>0, <1>2, <1>3, <1>5 DEF WritersLost, TypeOK
<1> QED BY <1>4, <1>5

LEMMA MetricTypeStep == TypeOK /\ [Next]_vars => TypeOK'
<1> SUFFICES ASSUME TypeOK, [Next]_vars PROVE TypeOK'
    OBVIOUS
<1> USE MetricAssumption DEF TypeOK
<1>1. ASSUME NEW batch \in Batches, LogMetrics(batch) PROVE TypeOK'
    <2>1. /\ batch \in Seq(Rows) /\ Len(batch) \in Nat \ {0} /\ Front(batch) \in Seq(Rows)
          /\ Taken(batch) \in Seq(Rows) /\ Len(Taken(batch)) \in Nat
        BY BatchType, TakenMayBeRecorded, LenProperties
    <2>2. /\ NamesIn(batch) \subseteq Names /\ NamesIn(Front(batch)) \subseteq Names
          /\ NamesIn(Taken(batch)) \subseteq Names
        BY <2>1, NamesInType
    <2>3. "metrics" \in Tables
        BY DEF Tables
    <2>4. disk' \in [Tables -> Seq(Rows)] /\ pending' \in [Tables -> Seq(Rows)]
        BY <1>1, <2>1, <2>3, WriteType DEF LogMetrics
    <2>5. names' \subseteq Names /\ counted' \in Nat /\ faults' \in 0..MaxFaults
        BY <1>1, <2>1, <2>2 DEF LogMetrics
    <2> QED BY <1>1, <2>4, <2>5 DEF LogMetrics
<1>2. ASSUME NEW row \in Rows, LogReference(row) PROVE TypeOK'
    <2>1. <<row>> \in Seq(Rows) /\ "reference" \in Tables
        BY DEF Tables
    <2>2. disk' \in [Tables -> Seq(Rows)] /\ pending' \in [Tables -> Seq(Rows)]
        BY <1>2, <2>1, WriteType DEF LogReference
    <2> QED BY <1>2, <2>2 DEF LogReference
<1>3. CASE Finish
    <2>1. disk' \in [Tables -> Seq(Rows)] /\ pending' \in [Tables -> Seq(Rows)]
        BY <1>3, DropType DEF Finish
    <2>2. meta'.docs \subseteq Names /\ \A f \in meta'.families : f[1] \in Families
        BY <1>3, MetaType DEF Finish
    <2>3. status' \in [state : {"none", "finished", "failed"}, metrics : Nat]
        BY <1>3 DEF Finish
    <2> QED BY <1>3, <2>1, <2>2, <2>3, DropType DEF Finish
<1>4. CASE FinishFails
    <2>1. disk' \in [Tables -> Seq(Rows)] /\ pending' \in [Tables -> Seq(Rows)]
        BY <1>4, DropType DEF FinishFails
    <2>2. meta'.docs \subseteq Names /\ \A f \in meta'.families : f[1] \in Families
        BY <1>4, MetaType DEF FinishFails
    <2> QED BY <1>4, <2>1, <2>2, DropType DEF FinishFails
<1>5. CASE Fail
    <2>1. disk' \in [Tables -> Seq(Rows)] /\ pending' \in [Tables -> Seq(Rows)]
        BY <1>5, DropType DEF Fail
    <2> QED BY <1>5, <2>1, DropType DEF Fail
<1>6. CASE Killed
    <2>1. disk' \in [Tables -> Seq(Rows)] /\ pending' \in [Tables -> Seq(Rows)]
        BY <1>6, DropType DEF Killed
    <2> QED BY <1>6, <2>1, DropType DEF Killed
<1>7. CASE NextRun
    <2>1. <<>> \in Seq(Rows)
        BY EmptySeq
    <2>2. Index \in [recorded : SUBSET Names, docs : SUBSET Names,
                     families : SUBSET Families, owed : SUBSET Names]
        <3>1. NamesIn(disk["metrics"]) \subseteq Names
            BY NamesInType DEF Tables
        <3>2. Flattened \in [recorded : SUBSET Names, docs : SUBSET Names,
                             families : SUBSET Families, owed : SUBSET Names]
            BY <3>1 DEF Flattened
        <3> QED BY <3>2 DEF Index
    <2>3. PICK d \in Declarations : Starts(d)
        BY <1>7 DEF NextRun
    <2> QED BY <1>7, <2>1, <2>2, <2>3 DEF NextRun, Starts, NoMeta, NoStatus
<1>8. CASE UNCHANGED vars
    BY <1>8 DEF vars
<1> QED BY <1>1, <1>2, <1>3, <1>4, <1>5, <1>6, <1>7, <1>8 DEF Next

\* The types hold, and no row waits in a buffer once its run is over.
THEOREM MetricTypeCorrect == Spec => []TypeOK
BY MetricTypeInit, MetricTypeStep, PTL DEF Spec

LEMMA MetricInvInit == Init => Inv
<1> SUFFICES ASSUME Init PROVE Inv
    OBVIOUS
<1>1. Len(<<>>) = 0 /\ NamesIn(<<>>) = {}
    BY DEF NamesIn, ToSet
<1>2. disk["metrics"] = <<>> /\ pending["metrics"] = <<>>
    BY DEF Init, Tables
<1>3. TypeOK
    BY MetricTypeInit
<1> QED BY <1>1, <1>2, <1>3 DEF Init, Inv, RowsInv, CountsMatchRows, NamesInv, MetaInv,
                                PastInv, NoStatus, NothingYet

\* A recorded batch is counted and named as it is written.
LEMMA LogMetricsKeepsInv ==
    ASSUME Inv, NEW batch \in Batches, LogMetrics(batch)
    PROVE  RowsInv' /\ CountsMatchRows' /\ NamesInv' /\ MetaInv' /\ PastInv'
<1> DEFINE accepted == Taken(batch)
           held == Len(disk["metrics"]) + Len(pending["metrics"])
<1>0. /\ TypeOK /\ phase = "open" /\ status.state = "none" /\ counted \in Nat
      /\ faults \in Nat /\ "metrics" \in Tables
    BY MetricAssumption DEF Inv, TypeOK, RowsInv, LogMetrics, Tables
<1>1. /\ batch \in Seq(Rows) /\ Len(batch) \in Nat \ {0}
      /\ accepted \in Seq(Rows) /\ Len(accepted) \in Nat
      /\ \A n \in NamesIn(accepted) : MayRecord(declaration, n)
      /\ NamesIn(Front(batch)) \subseteq NamesIn(batch)
    BY BatchType, TakenMayBeRecorded, LenProperties
<1> HIDE DEF accepted
<1>2. held \in Nat
    BY <1>0, LenProperties DEF TypeOK
<1>3. /\ phase' = phase /\ declaration' = declaration /\ meta' = meta
      /\ status' = status /\ past' = past
    BY DEF LogMetrics
<1>4. \/ /\ Buffered("metrics", accepted) \/ Flushed("metrics", accepted)
         /\ names' = names \cup NamesIn(accepted) /\ counted' = counted + Len(accepted)
         /\ faults' = faults
      \/ /\ Buffered("metrics", batch) /\ accepted = batch
         /\ names' = names \cup NamesIn(Front(batch))
         /\ counted' = counted + Len(batch) - 1 /\ faults' = faults + 1
    BY DEF LogMetrics, accepted
<1>5. /\ Len(disk'["metrics"]) + Len(pending'["metrics"]) = held + Len(accepted)
      /\ NamesIn(disk'["metrics"]) \cup NamesIn(pending'["metrics"])
          \subseteq NamesIn(disk["metrics"]) \cup NamesIn(pending["metrics"]) \cup NamesIn(accepted)
    BY <1>0, <1>1, <1>4, WriteType
<1>6. /\ counted <= held
      /\ faults = 0 => counted = held
    BY <1>0 DEF Inv, RowsInv
<1>7. RowsInv'
    <2>1. \/ counted' = counted + Len(accepted) /\ faults' = faults
          \/ /\ counted' = counted + Len(accepted) - 1 /\ Len(accepted) \in Nat \ {0}
             /\ faults' = faults + 1
        BY <1>1, <1>4
    <2> HIDE DEF held
    <2>2. /\ counted' <= held + Len(accepted)
          /\ faults' = 0 => counted' = held + Len(accepted)
        BY <1>0, <1>1, <1>2, <1>6, <2>1
    <2> QED BY <1>0, <1>3, <1>5, <2>2 DEF RowsInv
<1>8. NamesInv'
    <2>1. \A n \in names' : MayRecord(declaration, n)
        BY <1>1, <1>4 DEF Inv, NamesInv
    <2>2. faults' = 0 => faults = 0 /\ names' = names \cup NamesIn(accepted)
        BY <1>0, <1>4
    <2>3. faults' = 0 => NamesIn(disk'["metrics"]) \cup NamesIn(pending'["metrics"]) \subseteq names'
        BY <1>5, <2>2 DEF Inv, NamesInv
    <2> QED BY <1>3, <2>1, <2>3 DEF NamesInv
<1>9. CountsMatchRows' /\ MetaInv'
    BY <1>0, <1>3 DEF CountsMatchRows, MetaInv
<1>10. PastInv'
    BY <1>0, <1>3, <1>4 DEF Inv, PastInv, Known
<1> QED BY <1>7, <1>8, <1>9, <1>10

LEMMA MetricInvStep == Inv /\ [Next]_vars => Inv'
<1> SUFFICES ASSUME Inv, [Next]_vars PROVE Inv'
    OBVIOUS
<1>t. TypeOK /\ TypeOK'
    BY MetricTypeStep DEF Inv
<1>n. faults \in Nat /\ counted \in Nat /\ "metrics" \in Tables
    BY <1>t, MetricAssumption DEF TypeOK, Tables
<1>l. /\ Len(disk["metrics"]) \in Nat /\ Len(pending["metrics"]) \in Nat
    BY <1>t, <1>n, LenProperties DEF TypeOK
<1>1. ASSUME NEW batch \in Batches, LogMetrics(batch) PROVE Inv'
    BY <1>1, <1>t, LogMetricsKeepsInv DEF Inv
<1>2. ASSUME NEW row \in Rows, LogReference(row) PROVE Inv'
    <2>1. <<row>> \in Seq(Rows) /\ "reference" \in Tables
        BY DEF Tables
    <2>2. disk'["metrics"] = disk["metrics"] /\ pending'["metrics"] = pending["metrics"]
        <3>1. "metrics" \in Tables \ {"reference"}
            BY DEF Tables
        <3>2. Buffered("reference", <<row>>) \/ Flushed("reference", <<row>>)
            BY <1>2 DEF LogReference
        <3> HIDE DEF Tables
        <3> QED BY <1>t, <2>1, <3>1, <3>2, WriteType
    <2>3. /\ phase = "open"
          /\ UNCHANGED <<phase, declaration, names, counted, meta, status, past>>
          /\ faults' = faults \/ faults' = faults + 1
        BY <1>2 DEF LogReference
    <2>4. faults' = 0 => faults = 0
        BY <1>n, <2>3
    <2>5. RowsInv' /\ CountsMatchRows' /\ MetaInv'
        BY <2>2, <2>3, <2>4 DEF Inv, RowsInv, CountsMatchRows, MetaInv
    <2>6. NamesInv' /\ PastInv'
        BY <2>2, <2>3, <2>4 DEF Inv, NamesInv, PastInv, Known
    <2> QED BY <1>t, <2>5, <2>6 DEF Inv
<1>3. CASE Finish
    <2>1. /\ Len(disk'["metrics"]) = Len(disk["metrics"]) + Len(pending["metrics"])
          /\ NamesIn(disk'["metrics"]) \cup NamesIn(pending'["metrics"])
              \subseteq NamesIn(disk["metrics"]) \cup NamesIn(pending["metrics"])
        BY <1>3, <1>t, <1>n, DropType DEF Finish
    <2>2. /\ phase = "open" /\ phase' = "over" /\ status'.metrics = counted
          /\ meta' = MetaOf(declaration, names)
          /\ UNCHANGED <<declaration, names, counted, past, faults>>
        BY <1>3 DEF Finish
    <2>3. CountsMatchRows'
        BY <2>1, <2>2, <1>n, <1>l DEF Inv, RowsInv, CountsMatchRows
    <2>4. RowsInv' /\ NamesInv' /\ MetaInv' /\ PastInv'
        BY <2>1, <2>2 DEF Inv, RowsInv, NamesInv, MetaInv, PastInv, Known
    <2> QED BY <1>t, <2>3, <2>4 DEF Inv
<1>4. CASE FinishFails \/ Fail \/ Killed
    <2>1. NamesIn(disk'["metrics"]) \cup NamesIn(pending'["metrics"])
              \subseteq NamesIn(disk["metrics"]) \cup NamesIn(pending["metrics"])
        <3>1. WritersDrop \/ WritersLost
            BY <1>4 DEF FinishFails, Fail, Killed
        <3> QED BY <3>1, <1>t, <1>n, DropType
    <2>2. /\ phase = "open" /\ phase' \in {"over", "killed"}
          /\ UNCHANGED <<declaration, names, past>>
          /\ faults' = faults \/ faults' = faults + 1
        BY <1>4 DEF FinishFails, Fail, Killed
    <2>3. status.state = "none"
        BY <2>2 DEF Inv, RowsInv
    <2>4. status'.state # "finished"
        BY <1>4, <2>3 DEF FinishFails, Fail, Killed
    <2>5. RowsInv' /\ CountsMatchRows' /\ MetaInv'
        BY <2>2, <2>4 DEF RowsInv, CountsMatchRows, MetaInv
    <2>6. faults' = 0 => faults = 0
        BY <2>2, <1>n
    <2>7. NamesInv' /\ PastInv'
        BY <2>1, <2>2, <2>6 DEF Inv, NamesInv, PastInv, Known
    <2> QED BY <1>t, <2>5, <2>7 DEF Inv
<1>5. CASE NextRun
    <2>1. PICK d \in Declarations : Starts(d)
        BY <1>5 DEF NextRun
    <2>2. /\ disk'["metrics"] = <<>> /\ pending'["metrics"] = <<>>
          /\ names' = {} /\ counted' = 0 /\ status'.state = "none" /\ faults' = faults
          /\ past' = Index
        BY <1>5, <1>n, <2>1 DEF NextRun, Starts, NoStatus
    <2>3. Len(<<>>) = 0 /\ NamesIn(<<>>) = {}
        BY DEF NamesIn, ToSet
    <2>4. RowsInv' /\ CountsMatchRows' /\ NamesInv' /\ MetaInv'
        BY <2>2, <2>3 DEF RowsInv, CountsMatchRows, NamesInv, MetaInv
    <2>5. PastInv'
        BY <2>2, IndexIsKnown DEF PastInv, Known
    <2> QED BY <1>t, <2>4, <2>5 DEF Inv
<1>6. CASE UNCHANGED vars
    BY <1>6, <1>t DEF vars, Inv, RowsInv, CountsMatchRows, NamesInv, MetaInv, PastInv, Known
<1> QED BY <1>1, <1>2, <1>3, <1>4, <1>5, <1>6 DEF Next

THEOREM MetricInvariance == Spec => []Inv
BY MetricInvInit, MetricInvStep, PTL DEF Spec

\* What a finished run says it counted is in metrics.csv, and all of it unless
\* a write failed.
THEOREM CountsAreOfRows == Spec => []CountsMatchRows
<1>1. Inv => CountsMatchRows
    BY DEF Inv
<1> QED BY <1>1, MetricInvariance, PTL

\* A name that had to be described is never one the audit misses once its run
\* has finished, whatever is declared for later runs.
THEOREM AuditIsNoStricter == Spec => []AuditKnowsFinishedNames
<1>1. Inv => AuditKnowsFinishedNames
    <2> SUFFICES ASSUME Inv, faults = 0, NEW n \in Index.owed PROVE n \notin AuditUndescribed
        BY DEF AuditKnowsFinishedNames
    <2>1. Known(Index, n)
        BY IndexIsKnown
    <2> QED BY <2>1 DEF Known, AuditUndescribed
<1> QED BY <1>1, MetricInvariance, PTL

LEMMA FileInit == Init => FileInv
BY DEF Init, FileInv, NoStatus

LEMMA FileStep == Inv /\ FileInv /\ [Next]_vars => FileInv'
<1> SUFFICES ASSUME Inv, FileInv, [Next]_vars PROVE FileInv'
    OBVIOUS
<1>t. TypeOK /\ RowsInv /\ faults \in Nat /\ "metrics" \in Tables
    BY MetricAssumption DEF Inv, TypeOK, Tables
<1>1. ASSUME NEW batch \in Batches, LogMetrics(batch) PROVE FileInv'
    <2>1. batch \in Seq(Rows) /\ Taken(batch) \in Seq(Rows)
        BY BatchType, TakenMayBeRecorded
    <2>2. /\ phase = "open" /\ status' = status /\ status.state = "none"
          /\ faults' = faults \/ faults' = faults + 1
        BY <1>1, <1>t DEF LogMetrics, RowsInv
    <2>r. status'.state # "finished"
        BY <2>2
    <2>3. CASE faults' = faults + 1
        <3>1. faults' # 0
            BY <1>t, <2>3
        <3> QED BY <2>r, <3>1 DEF FileInv
    <2>4. CASE faults' = faults
        <3>1. /\ Buffered("metrics", Taken(batch)) \/ Flushed("metrics", Taken(batch))
              /\ names' = names \cup NamesIn(Taken(batch))
            BY <1>1, <1>t, <2>4 DEF LogMetrics
        <3>2. NamesIn(disk'["metrics"]) \cup NamesIn(pending'["metrics"])
                = NamesIn(disk["metrics"]) \cup NamesIn(pending["metrics"]) \cup NamesIn(Taken(batch))
            BY <1>t, <2>1, <3>1, WriteType
        <3> QED BY <2>2, <2>r, <2>4, <3>1, <3>2 DEF FileInv
    <2> QED BY <2>2, <2>3, <2>4
<1>2. ASSUME NEW row \in Rows, LogReference(row) PROVE FileInv'
    <2>1. <<row>> \in Seq(Rows) /\ "reference" \in Tables /\ "metrics" \in Tables \ {"reference"}
        BY DEF Tables
    <2>2. Buffered("reference", <<row>>) \/ Flushed("reference", <<row>>)
        BY <1>2 DEF LogReference
    <2>3. disk'["metrics"] = disk["metrics"] /\ pending'["metrics"] = pending["metrics"]
        BY <1>t, <2>1, <2>2, WriteType
    <2>4. UNCHANGED <<phase, names, status>> /\ (faults' = faults \/ faults' = faults + 1)
        BY <1>2 DEF LogReference
    <2>5. faults' = 0 => faults = 0
        BY <1>t, <2>4
    <2> QED BY <2>3, <2>4, <2>5 DEF FileInv
<1>3. CASE Finish \/ FinishFails \/ Fail \/ Killed
    <2>1. phase = "open" /\ status.state = "none" /\ names' = names
        BY <1>3, <1>t DEF Finish, FinishFails, Fail, Killed, RowsInv
    <2>2. status'.state = "finished" => phase' = "over"
        BY <1>3, <2>1 DEF Finish, FinishFails, Fail, Killed
    <2>3. ASSUME faults' = 0, phase' # "killed"
          PROVE  faults = 0 /\ WritersDrop
        BY <1>3, <1>t, <2>3 DEF Finish, FinishFails, Fail, Killed
    <2>4. ASSUME WritersDrop
          PROVE  NamesIn(disk'["metrics"]) = NamesIn(disk["metrics"]) \cup NamesIn(pending["metrics"])
        BY <1>t, <2>4, DropType
    <2> QED BY <2>1, <2>2, <2>3, <2>4 DEF FileInv
<1>4. CASE NextRun
    <2>1. PICK d \in Declarations : Starts(d)
        BY <1>4 DEF NextRun
    <2> QED BY <2>1 DEF Starts, FileInv, NoStatus
<1>5. CASE UNCHANGED vars
    BY <1>5 DEF vars, FileInv
<1> QED BY <1>1, <1>2, <1>3, <1>4, <1>5 DEF Next

\* Two families that a declaration repeats answer as the first of them: the
\* family of a name is that of the first that matches it.
FamilyOf(d, n) == d.families[Min(Matching(d, n))]

LEMMA FirstMatch ==
    ASSUME NEW d \in Declarations, NEW n, Matching(d, n) # {}
    PROVE  /\ Min(Matching(d, n)) \in Matching(d, n) /\ Min(Matching(d, n)) \in Nat
           /\ \A i \in Matching(d, n) : Min(Matching(d, n)) <= i
           /\ n \in Covers[FamilyOf(d, n)] /\ Min(Matching(d, n)) \in DOMAIN d.families
<1>1. d.families \in Seq(Families)
    BY MetricAssumption
<1>2. Matching(d, n) \subseteq Nat
    BY <1>1, LenProperties DEF Matching
<1>3. /\ Min(Matching(d, n)) \in Matching(d, n)
      /\ \A i \in Matching(d, n) : Min(Matching(d, n)) <= i
    BY <1>2, LeastPosition
<1>4. n \in Covers[FamilyOf(d, n)] /\ Min(Matching(d, n)) \in DOMAIN d.families
    BY <1>3 DEF FamilyOf, Matching
<1> QED BY <1>2, <1>3, <1>4

\* What a description says of the names that are used: each once.
Accounted(m, used) ==
    LET rest == used \ (m.docs \cup Reserved \cup m.undescribed)
    IN  /\ m.docs \cup m.undescribed \subseteq used
        /\ m.undescribed \cap (m.docs \cup Reserved) = {}
        /\ \E answers \in [rest -> {f[1] : f \in m.families}] :
              /\ \A n \in rest : n \in Covers[answers[n]]
              /\ \A f \in m.families :
                    f[2] = Cardinality({n \in rest : answers[n] = f[1]})

LEMMA ResolveAccounts ==
    ASSUME NEW d \in Declarations, NEW used
    PROVE  Accounted(Resolve(d, used), used)
<1> DEFINE m == Resolve(d, used)
           rest == used \ (m.docs \cup Reserved \cup m.undescribed)
           answering == {j \in DOMAIN d.families : AnsweredBy(d, used, j) # {}}
           answers == [n \in rest |-> FamilyOf(d, n)]
<1>1. /\ m.docs = used \cap d.docs
      /\ m.undescribed = {n \in used \ (d.docs \cup Reserved) : Matching(d, n) = {}}
      /\ m.families = {<<d.families[i], Cardinality(AnsweredBy(d, used, i))>> : i \in answering}
    BY DEF Resolve
<1>2. rest = {n \in used \ (d.docs \cup Reserved) : Matching(d, n) # {}}
    BY <1>1
<1> HIDE DEF m, rest
<1>3. ASSUME NEW n \in rest
      PROVE  /\ n \in AnsweredBy(d, used, Min(Matching(d, n)))
             /\ n \in Covers[FamilyOf(d, n)] /\ FamilyOf(d, n) \in {f[1] : f \in m.families}
    <2>1. n \in used \ (d.docs \cup Reserved) /\ Matching(d, n) # {}
        BY <1>2
    <2>2. n \in AnsweredBy(d, used, Min(Matching(d, n)))
        BY <2>1 DEF AnsweredBy
    <2>3. Min(Matching(d, n)) \in answering /\ n \in Covers[FamilyOf(d, n)]
        BY <2>1, <2>2, FirstMatch
    <2> DEFINE f == <<FamilyOf(d, n), Cardinality(AnsweredBy(d, used, Min(Matching(d, n))))>>
    <2>4. f \in m.families /\ f[1] = FamilyOf(d, n)
        BY <1>1, <2>3 DEF FamilyOf
    <2> QED BY <2>2, <2>3, <2>4
<1>4. answers \in [rest -> {f[1] : f \in m.families}]
    BY <1>3
<1>5. ASSUME NEW f \in m.families
      PROVE  f[2] = Cardinality({n \in rest : answers[n] = f[1]})
    <2>1. PICK i \in answering : f = <<d.families[i], Cardinality(AnsweredBy(d, used, i))>>
        BY <1>1
    <2>2. PICK k \in AnsweredBy(d, used, i) : TRUE
        OBVIOUS
    <2>3. Matching(d, k) # {} /\ Min(Matching(d, k)) = i
        BY <2>2 DEF AnsweredBy
    <2>4. AnsweredBy(d, used, i) \subseteq rest
        BY <1>2 DEF AnsweredBy
    <2>5. ASSUME NEW n \in rest, FamilyOf(d, n) = d.families[i]
          PROVE  n \in AnsweredBy(d, used, i)
        <3> DEFINE j == Min(Matching(d, n))
        <3>1. Matching(d, n) # {}
            BY <1>2
        <3>2. /\ j \in Matching(d, n) /\ j \in Nat /\ j \in DOMAIN d.families
              /\ \A x \in Matching(d, n) : j <= x
            BY <3>1, FirstMatch
        <3>3. i \in Nat /\ i \in DOMAIN d.families /\ \A x \in Matching(d, k) : i <= x
            BY <2>3, FirstMatch
        <3>4. i \in Matching(d, n)
            BY <2>5, <3>2, <3>3 DEF Matching, FamilyOf
        <3>5. j \in Matching(d, k)
            <4>1. i \in Matching(d, k)
                BY <2>3, FirstMatch
            <4>2. d.families[j] = d.families[i]
                BY <2>5 DEF FamilyOf
            <4> QED BY <3>2, <4>1, <4>2 DEF Matching
        <3> HIDE DEF j
        <3>6. i = j
            BY <3>2, <3>3, <3>4, <3>5
        <3> QED BY <1>3, <3>6 DEF j
    <2>6. ASSUME NEW n \in AnsweredBy(d, used, i) PROVE FamilyOf(d, n) = d.families[i]
        BY DEF AnsweredBy, FamilyOf
    <2>7. {n \in rest : answers[n] = f[1]} = AnsweredBy(d, used, i)
        BY <2>1, <2>4, <2>5, <2>6
    <2> QED BY <2>1, <2>7
<1>6. \A n \in rest : n \in Covers[answers[n]]
    BY <1>3
<1> HIDE DEF answers
<1>7. /\ m.docs \cup m.undescribed \subseteq used
      /\ m.undescribed \cap (m.docs \cup Reserved) = {}
    BY <1>1
<1>8. rest = used \ (m.docs \cup Reserved \cup m.undescribed)
    BY DEF rest
<1>9. Accounted(m, used)
    BY <1>4, <1>5, <1>6, <1>7, <1>8, Zenon DEF Accounted
<1> QED BY <1>9 DEF m

\* metrics.meta.json accounts for the names in metrics.csv, each of them once, for
\* any declaration, families that overlap or are repeated included.
THEOREM MetaAccounts == Spec => []MetaAccountsForTheRun
<1>1. ASSUME Inv, FileInv PROVE MetaAccountsForTheRun
    <2>1. SUFFICES ASSUME status.state = "finished", faults = 0, meta # NoMeta
                   PROVE  MetaAccountsForTheRun
        BY DEF MetaAccountsForTheRun
    <2>2. declaration \in Declarations /\ phase = "over" /\ pending["metrics"] = <<>>
        BY <1>1, <2>1 DEF Inv, TypeOK, FileInv, Tables
    <2>3. NamesIn(<<>>) = {}
        BY DEF NamesIn, ToSet
    <2>4. NamesIn(disk["metrics"]) = names
        BY <1>1, <2>1, <2>2, <2>3 DEF Inv, NamesInv, FileInv
    <2>5. meta = Resolve(declaration, names)
        BY <1>1, <2>1 DEF Inv, MetaInv, MetaOf
    <2>6. Accounted(meta, names)
        BY <2>2, <2>5, ResolveAccounts
    <2> QED BY <2>4, <2>6, Zenon DEF MetaAccountsForTheRun, Accounted
<1>2. Spec => [](Inv /\ FileInv)
    BY MetricInvariance, FileInit, FileStep, PTL DEF Spec
<1> QED BY <1>1, <1>2, PTL

\* A verdict other than a failure is given once, over unique keys, and the
\* files stand still afterwards.
THEOREM FinishedKeysStayUnique == Spec => []FinishedKeysAreUnique
<1>1. Init => FinishedKeysAreUnique
    BY DEF Init, NoStatus, FinishedKeysAreUnique
<1>2. Inv /\ FinishedKeysAreUnique /\ [Next]_vars => FinishedKeysAreUnique'
    <2> SUFFICES ASSUME Inv, FinishedKeysAreUnique, [Next]_vars
                 PROVE  FinishedKeysAreUnique'
        OBVIOUS
    <2>0. phase = "open" => status.state = "none"
        BY DEF Inv, RowsInv
    <2>1. CASE Finish
        BY <2>1 DEF Finish, KeysAreUnique, FinishedKeysAreUnique
    <2>2. CASE FinishFails \/ Fail \/ Killed
        <3>1. status'.state # "finished"
            BY <2>0, <2>2 DEF FinishFails, Fail, Killed
        <3> QED BY <3>1 DEF FinishedKeysAreUnique
    <2>3. CASE NextRun
        BY <2>3 DEF NextRun, Starts, NoStatus, FinishedKeysAreUnique
    <2>4. CASE \/ \E batch \in Batches : LogMetrics(batch)
               \/ \E row \in Rows : LogReference(row)
        <3>1. status'.state = "none"
            BY <2>0, <2>4 DEF LogMetrics, LogReference
        <3> QED BY <3>1 DEF FinishedKeysAreUnique
    <2>5. CASE UNCHANGED vars
        BY <2>5 DEF vars, FinishedKeysAreUnique
    <2> QED BY <2>1, <2>2, <2>3, <2>4, <2>5 DEF Next
<1> QED BY <1>1, <1>2, MetricInvariance, PTL DEF Spec

-----------------------------------------------------------------------------
(***************************************************************************)
(* What the reader of legacy runs promises the index, for any files: a key *)
(* names one number of a file, and, where no name has a dot in it, one     *)
(* number of the run.                                                      *)
(***************************************************************************)

\* A file that is accepted apart gives no key twice: it would be a panel, and
\* convert_wide and convert_long leave a panel whole.
THEOREM FileKeysDiffer ==
    ASSUME NEW f
    PROVE  FileKeysAreUnique(f)
<1> SUFFICES ASSUME NEW m \in Converted(f), NEW n \in Converted(f), KeyOf(m) = KeyOf(n)
             PROVE  m = n
    BY DEF FileKeysAreUnique
<1>1. ~StaysTable(f) /\ Converted(f) = {MetricAt(f, c) : c \in Cells(f)}
    BY DEF Converted
<1>2. PICK c \in Cells(f) : m = MetricAt(f, c)
    BY <1>1
<1>3. PICK d \in Cells(f) : n = MetricAt(f, d)
    BY <1>1
<1>4. c = d
    BY <1>1, <1>2, <1>3 DEF StaysTable, Panel
<1> QED BY <1>2, <1>3, <1>4

\* A number that is accepted from a file carries its name with the file's prefix.
LEMMA NameOfConverted ==
    ASSUME NEW f, IsPlain(f), NEW m \in Converted(f),
           \A c \in Cells(f) : c[1] \in DOMAIN f.rows /\ (~IsLong(f) => c[2] \in Columns(f))
    PROVE  \E w : IsWord(w) /\ m.name = Prefixed(f, w)
<1>1. PICK c \in Cells(f) : m = MetricAt(f, c)
    BY DEF Converted
<1>2. m.name = NameAt(f, c)
    BY <1>1 DEF MetricAt
<1>3. CASE IsLong(f)
    <2>1. m.name = Prefixed(f, f.rows[c[1]][NameColumn(f)].of)
        BY <1>2, <1>3 DEF NameAt
    <2>2. IsWord(f.rows[c[1]][NameColumn(f)].of)
        BY <1>1, <1>3 DEF IsPlain
    <2> QED BY <2>1, <2>2
<1>4. CASE ~IsLong(f)
    <2>1. m.name = Prefixed(f, f.header[c[2]])
        BY <1>2, <1>4 DEF NameAt
    <2>2. IsWord(f.header[c[2]])
        BY <1>1, <1>4 DEF IsPlain
    <2> QED BY <2>1, <2>2
<1> QED BY <1>3, <1>4

LEMMA TwoWords ==
    ASSUME NEW s, NEW x
    PROVE  <<s>> \o <<x>> = <<s, x>>
<1> DEFINE S == {s, x}
<1>1. <<s>> \in Seq(S) /\ <<x>> \in Seq(S) /\ <<s, x>> \in Seq(S)
    OBVIOUS
<1>2. /\ Len(<<s>>) = 1 /\ <<s>>[1] = s /\ Len(<<x>>) = 1 /\ <<x>>[1] = x
      /\ Len(<<s, x>>) = 2 /\ <<s, x>>[1] = s /\ <<s, x>>[2] = x
    OBVIOUS
<1> DEFINE l == <<s>>
           r == <<x>>
           p == <<s, x>>
<1> HIDE DEF l, r, p, S
<1>3. l \in Seq(S) /\ r \in Seq(S) /\ p \in Seq(S)
    BY <1>1 DEF l, r, p
<1>4. /\ Len(l) = 1 /\ l[1] = s /\ Len(r) = 1 /\ r[1] = x
      /\ Len(p) = 2 /\ p[1] = s /\ p[2] = x
    BY <1>2 DEF l, r, p
<1>5. /\ l \o r \in Seq(S) /\ Len(l \o r) = Len(l) + Len(r)
      /\ \A i \in 1..Len(l) + Len(r) : (l \o r)[i] = IF i <= Len(l) THEN l[i] ELSE r[i - Len(l)]
    BY <1>3, ConcatProperties
<1>6. Len(l \o r) = 2 /\ (l \o r)[1] = s /\ (l \o r)[2] = x
    BY <1>4, <1>5
<1>7. \A i \in 1..Len(p) : p[i] = (l \o r)[i]
    BY <1>4, <1>6
<1>8. p = l \o r
    BY <1>3, <1>4, <1>5, <1>6, <1>7, SeqEqual
<1> QED BY <1>8 DEF l, r, p

\* One word, or two of which the first is the stem: the name says which file it
\* is from.
LEMMA PrefixTellsFiles ==
    ASSUME NEW f, NEW g, NEW v, IsWord(v), NEW w, IsWord(w), Prefixed(f, v) = Prefixed(g, w)
    PROVE  f.stem = g.stem
<1> DEFINE x == v[1]
           y == w[1]
<1>1. v = <<x>> /\ w = <<y>>
    BY DEF IsWord
<1> HIDE DEF x, y
<1>2. \A s : <<s>> \o <<x>> = <<s, x>> /\ <<s>> \o <<y>> = <<s, y>>
    BY TwoWords
<1>3. /\ Prefixed(f, v) = IF f.stem = "metrics" THEN <<x>> ELSE <<f.stem, x>>
      /\ Prefixed(g, w) = IF g.stem = "metrics" THEN <<y>> ELSE <<g.stem, y>>
    BY <1>1, <1>2, Zenon DEF Prefixed
<1>4. \A s : <<s, x>> # <<y>> /\ <<s, y>> # <<x>>
    OBVIOUS
<1>5. \A s, t : <<s, x>> = <<t, y>> => s = t
    OBVIOUS
<1> QED BY <1>3, <1>4, <1>5

\* "So two files in one run cannot claim the same metric" (legacy.rs:492-493),
\* for any number of files whose names have no dots: the reason is the prefix
\* and nothing that is checked when the run is read.
THEOREM RunKeysDiffer ==
    ASSUME NEW files,
           \A f \in files : IsPlain(f),
           \A f, g \in files : f.stem = g.stem => f = g
    PROVE  RunKeysAreUnique(files)
<1> SUFFICES ASSUME NEW m \in ReadMetrics(files), NEW n \in ReadMetrics(files), KeyOf(m) = KeyOf(n)
             PROVE  m = n
    BY DEF RunKeysAreUnique
<1>1. PICK f \in files : m \in Converted(f)
    BY DEF ReadMetrics, MetricFiles
<1>2. PICK g \in files : n \in Converted(g)
    BY DEF ReadMetrics, MetricFiles
<1>3. \A h : \A c \in Cells(h) : c[1] \in DOMAIN h.rows /\ (~IsLong(h) => c[2] \in Columns(h))
    BY DEF Cells, Offered
<1>4. PICK v : IsWord(v) /\ m.name = Prefixed(f, v)
    BY <1>1, <1>3, NameOfConverted
<1>5. PICK w : IsWord(w) /\ n.name = Prefixed(g, w)
    BY <1>2, <1>3, NameOfConverted
<1>6. m.name = n.name
    BY DEF KeyOf
<1>7. f = g
    BY <1>4, <1>5, <1>6, PrefixTellsFiles
<1> QED BY <1>1, <1>2, <1>7, FileKeysDiffer DEF FileKeysAreUnique

-----------------------------------------------------------------------------
(***************************************************************************)
(* VaultReport, for any runs, files and changes of the vault: a payload of *)
(* one index adds up, the headline is shown, and no number of a legacy run *)
(* counts twice.                                                           *)
(*                                                                         *)
(* The argument: the tables are written in one order, so that those before *)
(* the place of the refresh are its own and the rest, before it begins to  *)
(* write, of the one before (TableInv); an answer says what the tables say *)
(* as long as none of them changes (AgreeInv); and the metrics table alone *)
(* is always of one reading of each legacy run (OneReading), whose keys    *)
(* differ (RunKeysDiffer).                                                 *)
(***************************************************************************)

\* Tables that one refresh collected.
Together(t) ==
    /\ \A r \in t.runs : /\ r.run \in Runs /\ r.created # Absent
                         /\ r.state = Absent <=> r.run \in Legacy
    /\ \A x \in t.metric_docs : \E r \in t.runs : x.run = r.run /\ x.doc \in DocsOf[r.run]
    /\ \A r \in t.runs : \A d \in DocsOf[r.run] : [run |-> r.run, doc |-> d] \in t.metric_docs

\* The metrics of a legacy run are those of its files at one time.
OneReading(metrics) ==
    \A r \in Legacy : \E files \in FilesOf[r] \cup {{}} :
        \A x \in metrics : x.run = r => x.metric \in ReadMetrics(files)

\* Of a legacy run the vault holds what was read of its files at one time.
VaultInv ==
    /\ DOMAIN vault = Runs
    /\ \A r \in Runs :
         \/ vault[r] = NotThere
         \/ r \in Legacy /\ \E files \in FilesOf[r] : vault[r] = Filed(r, files)
         \/ r \notin Legacy /\ vault[r].state \in {"unfinished", "finished"}

\* What is written of a refresh is written in the order of the tables.
TableInv ==
    /\ tables = [n \in DOMAIN EmptyTables |-> tables[n]]
    /\ DOMAIN taken = DOMAIN EmptyTables
    /\ filling \in 0..4 /\ OneReading(tables.metrics)
    /\ filling # 0 => Together(taken) /\ OneReading(taken.metrics)
    /\ filling < 2 => Together(tables)
    /\ \A i \in 1..4 : i < filling => tables[TableNames[i]] = taken[TableNames[i]]

LEMMA NamesOfTables ==
    /\ TableNames[1] = "metric_docs" /\ TableNames[2] = "metrics"
    /\ TableNames[3] = "run_jira" /\ TableNames[4] = "runs" /\ Len(TableNames) = 4
    /\ DOMAIN EmptyTables = {"metric_docs", "metrics", "run_jira", "runs"}
BY DEF TableNames, EmptyTables

LEMMA VaultInit == ReportInit => VaultInv
<1> SUFFICES ASSUME ReportInit
             PROVE  /\ DOMAIN vault = Runs
                    /\ \A r \in Runs :
                         \/ vault[r] = NotThere
                         \/ r \in Legacy /\ \E files \in FilesOf[r] : vault[r] = Filed(r, files)
    BY DEF VaultInv
<1> QED BY DEF ReportInit

LEMMA VaultStep == VaultInv /\ [ReportNext]_reportVars => VaultInv'
<1> SUFFICES ASSUME VaultInv, [ReportNext]_reportVars PROVE VaultInv'
    OBVIOUS
<1>1. ASSUME NEW r \in Runs, SyncRun(r) PROVE VaultInv'
    BY <1>1 DEF SyncRun, Change, VaultInv
<1>2. ASSUME NEW r \in Runs, SyncLegacy(r) PROVE VaultInv'
    BY <1>2 DEF SyncLegacy, Change, VaultInv
<1>3. ASSUME NEW r \in Runs, DeleteRun(r) PROVE VaultInv'
    BY <1>3 DEF DeleteRun, Change, VaultInv
<1>4. CASE UNCHANGED vault
    BY <1>4 DEF VaultInv
<1> QED BY <1>1, <1>2, <1>3, <1>4
        DEF ReportNext, reportVars, BeginRefresh, WriteTable, BeginReport, CountRuns, ListIssues,
            RankNames, DescribeNames, ListRuns, ShowMetrics, ShowIssues, Warn, EndReport, Asks

\* Every run has a date: a path the walk finds ends in one, and Absent is none.
LEMMA RunsAreDated == \A r \in Runs : RunRow(r).created # Absent
<1>1. "created_at" # Absent
    BY ReportAssumption
<1>2. ASSUME NEW r \in Legacy PROVE Timestamp(PathOf[r][Len(PathOf[r])]) # Absent
    <2> DEFINE name == PathOf[r][Len(PathOf[r])]
               i == Least(Stamps(name))
    <2>1. IsLegacyName(name)
        BY ReportAssumption DEF LegacyDirs
    <2>2. i \in Stamps(name)
        <3>1. Stamps(name) # {} /\ Stamps(name) \subseteq Nat
            BY <2>1 DEF IsLegacyName, Stamps
        <3>2. \E k \in Stamps(name) : \A l \in Stamps(name) : k <= l
            BY <3>1, LeastNatural
        <3> QED BY <3>2 DEF Least
    <2>3. i \in Nat /\ name[i] \in IsDate /\ name[i + 1] \in IsTime
        BY <2>2 DEF Stamps
    <2> HIDE DEF i, name
    <2>4. SubSeq(name, i, i + 1) \in Seq(IsDate \cup IsTime)
        BY <2>3
    <2>5. Timestamp(name) = SubSeq(name, i, i + 1)
        BY <2>1 DEF Timestamp, i
    <2> QED BY <2>4, <2>5, ReportAssumption DEF name
<1> QED BY <1>1, <1>2 DEF RunRow

LEMMA CollectedTogether ==
    ASSUME VaultInv
    PROVE  /\ Together(Collected) /\ OneReading(Collected.metrics)
           /\ DOMAIN Collected = DOMAIN EmptyTables
<1> DEFINE there == {r \in Runs : vault[r] # NotThere}
<1>1. /\ Collected.runs = {RunRow(r) : r \in there}
      /\ Collected.metrics = UNION {{[run |-> r, metric |-> m] : m \in vault[r].metrics} : r \in there}
      /\ Collected.metric_docs = UNION {{[run |-> r, doc |-> d] : d \in DocsOf[r]} : r \in there}
      /\ DOMAIN Collected = DOMAIN EmptyTables
    BY DEF Collected, EmptyTables
<1>2. Together(Collected)
    <2>1. \A r \in Runs : RunRow(r).run = r
        BY DEF RunRow
    <2>2. ASSUME NEW r \in there PROVE RunRow(r).state = Absent <=> r \in Legacy
        <3>1. CASE r \in Legacy
            BY <3>1 DEF RunRow
        <3>2. CASE r \notin Legacy
            BY <3>2, ReportAssumption DEF VaultInv, RunRow
        <3> QED BY <3>1, <3>2
    <2>3. ASSUME NEW x \in Collected.runs
          PROVE  /\ x.run \in Runs /\ x.created # Absent
                 /\ x.state = Absent <=> x.run \in Legacy
        <3>1. PICK r \in there : x = RunRow(r)
            BY <1>1, <2>3
        <3> QED BY <3>1, <2>1, <2>2, RunsAreDated
    <2>4. ASSUME NEW x \in Collected.metric_docs
          PROVE  \E r \in Collected.runs : x.run = r.run /\ x.doc \in DocsOf[r.run]
        <3>1. PICK r \in there : x \in {[run |-> r, doc |-> d] : d \in DocsOf[r]}
            BY <1>1, <2>4
        <3>2. x.run = r /\ x.doc \in DocsOf[r] /\ RunRow(r) \in Collected.runs
            BY <1>1, <3>1
        <3> QED BY <2>1, <3>2
    <2>5. ASSUME NEW x \in Collected.runs, NEW d \in DocsOf[x.run]
          PROVE  [run |-> x.run, doc |-> d] \in Collected.metric_docs
        <3>1. PICK r \in there : x = RunRow(r)
            BY <1>1, <2>5
        <3>2. [run |-> r, doc |-> d] \in {[run |-> r, doc |-> c] : c \in DocsOf[r]}
            BY <2>1, <2>5, <3>1
        <3> QED BY <1>1, <2>1, <3>1, <3>2
    <2> QED BY <2>3, <2>4, <2>5 DEF Together
<1>3. OneReading(Collected.metrics)
    <2> SUFFICES ASSUME NEW r \in Legacy
                 PROVE  \E files \in FilesOf[r] \cup {{}} :
                           \A x \in Collected.metrics : x.run = r => x.metric \in ReadMetrics(files)
        BY DEF OneReading
    <2>1. r \in Runs
        BY ReportAssumption
    <2>2. ASSUME NEW x \in Collected.metrics, x.run = r
          PROVE  r \in there /\ x.metric \in vault[r].metrics
        <3>1. PICK q \in there : x \in {[run |-> q, metric |-> m] : m \in vault[q].metrics}
            BY <1>1, <2>2
        <3> QED BY <2>2, <3>1
    <2>3. CASE vault[r] = NotThere
        BY <2>2, <2>3
    <2>4. ASSUME NEW files \in FilesOf[r], vault[r] = Filed(r, files)
          PROVE  \A x \in Collected.metrics : x.run = r => x.metric \in ReadMetrics(files)
        BY <2>2, <2>4 DEF Filed, ReadRun
    <2> QED BY <2>1, <2>3, <2>4 DEF VaultInv
<1> QED BY <1>1, <1>2, <1>3

LEMMA EmptyTogether ==
    /\ Together(EmptyTables) /\ OneReading({})
    /\ EmptyTables = [n \in DOMAIN EmptyTables |-> EmptyTables[n]]
BY DEF Together, EmptyTables, OneReading

LEMMA TableInit == ReportInit => TableInv
<1> SUFFICES ASSUME ReportInit PROVE TableInv
    OBVIOUS
<1>1. tables = EmptyTables /\ taken = EmptyTables /\ filling = 0 /\ EmptyTables.metrics = {}
    BY DEF ReportInit, EmptyTables
<1> QED BY <1>1, EmptyTogether DEF TableInv

LEMMA TableStep == VaultInv /\ TableInv /\ [ReportNext]_reportVars => TableInv'
<1> SUFFICES ASSUME VaultInv, TableInv, [ReportNext]_reportVars PROVE TableInv'
    OBVIOUS
<1>1. CASE BeginRefresh
    <2>1. /\ filling = 0 /\ filling' = 1 /\ taken' = Collected /\ tables' = tables
        BY <1>1 DEF BeginRefresh
    <2> QED BY <2>1, CollectedTogether DEF TableInv
<1>2. CASE WriteTable
    <2> DEFINE t == TableNames[filling]
    <2>1. /\ filling \in 1..4 /\ t \in DOMAIN EmptyTables
          /\ tables' = [tables EXCEPT ![t] = taken[t]]
        BY <1>2, NamesOfTables DEF WriteTable, TableInv
    <2>2. /\ tables' = [n \in DOMAIN EmptyTables |-> tables'[n]]
          /\ tables'[t] = taken[t]
          /\ \A n \in DOMAIN EmptyTables : n # t => tables'[n] = tables[n]
        BY <2>1 DEF TableInv
    <2>3. OneReading(tables.metrics)'
        <3>1. "metrics" \in DOMAIN EmptyTables
            BY NamesOfTables
        <3>2. tables'.metrics = tables.metrics \/ tables'.metrics = taken.metrics
            BY <2>2, <3>1
        <3>3. OneReading(tables'.metrics)
            BY <2>1, <3>2 DEF TableInv
        <3> QED BY <3>3 DEF OneReading
    <2>4. CASE filling < 4
        <3>1. filling' = filling + 1 /\ taken' = taken
            BY <1>2, <2>4, NamesOfTables DEF WriteTable
        <3>2. \A i \in 1..4 : i < filling' => tables'[TableNames[i]] = taken'[TableNames[i]]
            BY <2>1, <2>2, <3>1, NamesOfTables DEF TableInv
        <3>3. Together(taken') /\ OneReading(taken'.metrics)
            BY <2>1, <3>1 DEF TableInv
        <3>4. filling' \in 2..4
            BY <2>1, <2>4, <3>1
        <3>5. DOMAIN taken' = DOMAIN EmptyTables
            BY <3>1 DEF TableInv
        <3> HIDE DEF t
        <3> QED BY <2>2, <2>3, <3>2, <3>3, <3>4, <3>5 DEF TableInv
    <2>5. CASE filling = 4
        <3>1. filling' = 0 /\ taken' = EmptyTables
            BY <1>2, <2>5, NamesOfTables DEF WriteTable
        <3>2. \A n \in DOMAIN EmptyTables : tables'[n] = taken[n]
            BY <2>1, <2>2, <2>5, NamesOfTables DEF TableInv
        <3>3. Together(tables')
            <4>1. /\ tables'.runs = taken.runs /\ tables'.metric_docs = taken.metric_docs
                  /\ Together(taken)
                BY <2>1, <3>2, NamesOfTables DEF TableInv
            <4> QED BY <4>1 DEF Together
        <3> QED BY <2>2, <2>3, <3>1, <3>3 DEF TableInv
    <2> QED BY <2>1, <2>4, <2>5
<1>3. CASE UNCHANGED <<tables, filling, taken>>
    BY <1>3 DEF TableInv
<1> QED BY <1>1, <1>2, <1>3
        DEF ReportNext, reportVars, refresh, SyncRun, SyncLegacy, DeleteRun, Change, BeginReport,
            CountRuns, ListIssues, RankNames, DescribeNames, ListRuns, ShowMetrics, ShowIssues, Warn,
            EndReport, Asks

-----------------------------------------------------------------------------
(* The answers.                                                            *)

\* What was answered is there until the report ends.
DraftInv ==
    /\ DOMAIN draft = DOMAIN NoDraft /\ query \in 0..9
    /\ query > 3 =>
         /\ DOMAIN draft.carried = DOMAIN draft.primary
         /\ \A e \in DOMAIN draft.primary : draft.primary[e] \subseteq draft.carried[e]
    /\ query > 6 =>
         \A r \in draft.listed :
           /\ draft.shown[r] = {m.name : m \in draft.aggregates[r]} \cap Carried(r)
           /\ \A m \in draft.aggregates[r] : m.scope = "run" /\ m.step = Absent
           /\ r.run \in Legacy =>
                \E files \in FilesOf[r.run] \cup {{}} : draft.aggregates[r] \subseteq ReadMetrics(files)

\* What each query says of the tables.
CountsAgree ==
    draft.counts = [e \in Groups |->
        [runs |-> Cardinality(InGroup(e)),
         finished |-> Cardinality({r \in InGroup(e) : r.state = "finished"})]]
IssuesAgree ==
    draft.issues =
        [e \in Groups |-> {j.issue : j \in {k \in tables.run_jira : k.run \in KeysOf(e)}}]
DocsAgree ==
    \A e \in Groups : /\ draft.docs[e] \subseteq DocsIn(e)
                      /\ {d.name : d \in draft.docs[e]} = {d.name : d \in DocsIn(e)}
ListAgrees == draft.listed = tables.runs
JiraAgrees ==
    draft.jira =
        [r \in tables.runs |-> {j.issue : j \in {k \in tables.run_jira : k.run = r.run}}]
WarningAgrees == draft.warned.legacy = Cardinality({r \in tables.runs : r.run \in Legacy})

\* A payload of one index says of it what each query asks.
AgreeInv ==
    query # 0 /\ ~mixed =>
        /\ Together(tables)
        /\ query > 1 => CountsAgree
        /\ query > 2 => IssuesAgree
        /\ query > 4 => DocsAgree
        /\ query > 5 => ListAgrees
        /\ query > 7 => JiraAgrees
        /\ query > 8 => WarningAgrees

LEMMA DraftFields ==
    DOMAIN NoDraft = {"counts", "issues", "primary", "carried", "docs", "listed", "aggregates",
                      "shown", "jira", "warned"}
BY DEF NoDraft

LEMMA DraftStep == DraftInv /\ TableInv /\ [ReportNext]_reportVars => DraftInv'
<1> SUFFICES ASSUME DraftInv, TableInv, [ReportNext]_reportVars PROVE DraftInv'
    OBVIOUS
<1> USE DraftFields
<1>1. CASE UNCHANGED <<draft, query>>
    BY <1>1 DEF DraftInv, Carried
<1>2. CASE BeginReport \/ EndReport
    <2>1. draft' = NoDraft /\ query' \in {0, 1}
        BY <1>2 DEF BeginReport, EndReport
    <2> QED BY <2>1 DEF DraftInv
<1>3. CASE CountRuns
    BY <1>3 DEF CountRuns, Asks, DraftInv
<1>4. CASE ListIssues
    BY <1>4 DEF ListIssues, Asks, DraftInv
<1>5. CASE RankNames
    BY <1>5 DEF RankNames, Asks, DraftInv
<1>6. CASE DescribeNames
    BY <1>6 DEF DescribeNames, Asks, DraftInv
<1>7. CASE ListRuns
    BY <1>7 DEF ListRuns, Asks, DraftInv
<1>8. CASE ShowMetrics
    <2> DEFINE aggregates(r) == {m.metric : m \in {x \in tables.metrics :
                            x.run = r.run /\ x.metric.scope = "run" /\ x.metric.step = Absent}}
    <2>1. /\ query = 6 /\ query' = 7 /\ mixed' = mixed /\ draft' = [draft EXCEPT
                    !.aggregates = [r \in draft.listed |-> aggregates(r)],
                    !.shown = [r \in draft.listed |->
                              {m.name : m \in aggregates(r)} \cap Carried(r)]]
        BY <1>8 DEF ShowMetrics, Asks
    <2>2. /\ DOMAIN draft' = DOMAIN NoDraft /\ draft'.listed = draft.listed
          /\ draft'.carried = draft.carried /\ draft'.primary = draft.primary
          /\ draft'.aggregates = [r \in draft.listed |-> aggregates(r)]
          /\ draft'.shown = [r \in draft.listed |-> {m.name : m \in aggregates(r)} \cap Carried(r)]
        BY <2>1 DEF DraftInv
    <2>3. \A r : Carried(r)' = Carried(r)
        BY <2>2 DEF Carried
    <2>4. ASSUME NEW r \in draft.listed
          PROVE  /\ \A m \in aggregates(r) : m.scope = "run" /\ m.step = Absent
                 /\ r.run \in Legacy =>
                      \E files \in FilesOf[r.run] \cup {{}} : aggregates(r) \subseteq ReadMetrics(files)
        BY DEF TableInv, OneReading
    <2> HIDE DEF aggregates
    <2> QED BY <2>1, <2>2, <2>3, <2>4 DEF DraftInv
<1>9. CASE ShowIssues
    BY <1>9 DEF ShowIssues, Asks, DraftInv, Carried
<1>10. CASE Warn
    BY <1>10 DEF Warn, Asks, DraftInv, Carried
<1> QED BY <1>1, <1>2, <1>3, <1>4, <1>5, <1>6, <1>7, <1>8, <1>9, <1>10
        DEF ReportNext, reportVars, report, refresh, SyncRun, SyncLegacy, DeleteRun, Change,
            BeginRefresh, WriteTable, DraftInv

\* A report begins on tables of one refresh, or is mixed from the beginning.
LEMMA BeginsTogether ==
    ASSUME TableInv, BeginReport, ~mixed'
    PROVE  Together(tables)
<1>1. filling \in 2..4 => \A n \in DOMAIN tables : tables[n] = taken[n]
    BY DEF BeginReport, TableInv
<1>2. CASE filling \in 2..4
    <2>1. tables.runs = taken.runs /\ tables.metric_docs = taken.metric_docs
        BY <1>1, <1>2, NamesOfTables DEF TableInv
    <2>2. Together(taken)
        BY <1>2 DEF TableInv
    <2> QED BY <2>1, <2>2 DEF Together
<1>3. CASE filling < 2
    BY <1>3 DEF TableInv
<1> QED BY <1>2, <1>3 DEF TableInv

LEMMA AgreeStays ==
    ASSUME UNCHANGED tables
    PROVE  /\ Together(tables) => Together(tables)'
           /\ CountsAgree /\ draft'.counts = draft.counts => CountsAgree'
           /\ IssuesAgree /\ draft'.issues = draft.issues => IssuesAgree'
           /\ DocsAgree /\ draft'.docs = draft.docs => DocsAgree'
           /\ ListAgrees /\ draft'.listed = draft.listed => ListAgrees'
           /\ JiraAgrees /\ draft'.jira = draft.jira => JiraAgrees'
           /\ WarningAgrees /\ draft'.warned = draft.warned => WarningAgrees'
<1>1. Together(tables) => Together(tables)'
    BY DEF Together
<1>2. CountsAgree /\ draft'.counts = draft.counts => CountsAgree'
    BY DEF CountsAgree, Groups, InGroup
<1>3. IssuesAgree /\ draft'.issues = draft.issues => IssuesAgree'
    BY DEF IssuesAgree, Groups, InGroup, KeysOf
<1>4. DocsAgree /\ draft'.docs = draft.docs => DocsAgree'
    BY DEF DocsAgree, Groups, InGroup, KeysOf, DocsIn
<1>5. ListAgrees /\ draft'.listed = draft.listed => ListAgrees'
    BY DEF ListAgrees
<1>6. JiraAgrees /\ draft'.jira = draft.jira => JiraAgrees'
    BY DEF JiraAgrees
<1>7. WarningAgrees /\ draft'.warned = draft.warned => WarningAgrees'
    BY DEF WarningAgrees
<1> QED BY <1>1, <1>2, <1>3, <1>4, <1>5, <1>6, <1>7

LEMMA AgreeStep ==
    DraftInv /\ TableInv /\ AgreeInv /\ [ReportNext]_reportVars => AgreeInv'
<1> SUFFICES ASSUME DraftInv, TableInv, AgreeInv, [ReportNext]_reportVars, query' # 0, ~mixed'
             PROVE AgreeInv'
    BY DEF AgreeInv
<1>d. DOMAIN draft = {"counts", "issues", "primary", "carried", "docs", "listed", "aggregates",
                      "shown", "jira", "warned"}
    BY DraftFields DEF DraftInv
<1>1. CASE UNCHANGED <<tables, report>>
    BY <1>1, AgreeStays DEF AgreeInv, report
<1>2. CASE WriteTable
    <2>1. UNCHANGED <<draft, query>> /\ ~mixed
        BY <1>2 DEF WriteTable
    <2>2. tables[TableNames[filling]] = taken[TableNames[filling]]
          /\ tables' = [tables EXCEPT ![TableNames[filling]] = taken[TableNames[filling]]]
        BY <1>2, <2>1 DEF WriteTable
    <2>3. tables' = tables
        BY <2>2 DEF TableInv
    <2> QED BY <2>1, <2>3, AgreeStays DEF AgreeInv, report
<1>3. CASE BeginReport
    <2>1. query' = 1 /\ tables' = tables
        BY <1>3 DEF BeginReport
    <2>2. Together(tables)'
        BY <1>3, <2>1, BeginsTogether, AgreeStays
    <2> QED BY <2>1, <2>2 DEF AgreeInv
<1>4. CASE EndReport
    BY <1>4 DEF EndReport
<1>6. CASE CountRuns
    <2> DEFINE counts ==
        [e \in Groups |->
            [runs |-> Cardinality(InGroup(e)),
             finished |-> Cardinality({r \in InGroup(e) : r.state = "finished"})]]
    <2>1. /\ query = 1 /\ query' = 2 /\ ~mixed /\ tables' = tables
          /\ draft' = [draft EXCEPT !.counts = counts]
        BY <1>6 DEF CountRuns, Asks
    <2>2. CountsAgree'
        <3> HIDE DEF counts
        <3>1. draft'.counts = counts
            BY <1>d, <2>1
        <3> QED BY <2>1, <3>1 DEF CountsAgree, Groups, InGroup, counts
    <2> QED BY <2>1, <2>2, AgreeStays DEF AgreeInv
<1>7. CASE ListIssues
    <2> DEFINE issues ==
        [e \in Groups |-> {j.issue : j \in {k \in tables.run_jira : k.run \in KeysOf(e)}}]
    <2>1. /\ query = 2 /\ query' = 3 /\ ~mixed /\ tables' = tables
          /\ draft' = [draft EXCEPT !.issues = issues]
        BY <1>7 DEF ListIssues, Asks
    <2> HIDE DEF issues
    <2>2. draft'.issues = issues /\ draft'.counts = draft.counts
        BY <1>d, <2>1
    <2>3. IssuesAgree'
        BY <2>1, <2>2 DEF IssuesAgree, Groups, InGroup, KeysOf, issues
    <2> QED BY <2>1, <2>2, <2>3, AgreeStays DEF AgreeInv
<1>8. CASE RankNames
    <2> DEFINE carried == [e \in Groups |->
                             First(e, NamesOf(e), SummaryMetrics) \cup Primary(e)]
               primary == [e \in Groups |-> Primary(e)]
    <2>1. /\ query = 3 /\ query' = 4 /\ ~mixed /\ tables' = tables
          /\ draft' = [draft EXCEPT !.primary = primary, !.carried = carried]
        BY <1>8 DEF RankNames, Asks
    <2> HIDE DEF carried, primary
    <2>2. draft'.counts = draft.counts /\ draft'.issues = draft.issues
        BY <1>d, <2>1
    <2> QED BY <2>1, <2>2, AgreeStays DEF AgreeInv
<1>9. CASE DescribeNames
    <2>1. PICK pick \in [Groups \X {d.doc.name : d \in tables.metric_docs} ->
                          {d.doc.meaning : d \in tables.metric_docs}] :
            /\ \A e \in Groups : \A d \in DocsIn(e) : pick[<<e, d.name>>] \in Meanings(e, d.name)
            /\ Asks(4, [draft EXCEPT !.docs = [e \in Groups |->
                    {[name |-> d.name, meaning |-> pick[<<e, d.name>>]] : d \in DocsIn(e)}]])
        BY <1>9, Zenon DEF DescribeNames
    <2> DEFINE docs == [e \in Groups |->
                {[name |-> d.name, meaning |-> pick[<<e, d.name>>]] : d \in DocsIn(e)}]
    <2>2. /\ query = 4 /\ query' = 5 /\ ~mixed /\ tables' = tables
          /\ draft' = [draft EXCEPT !.docs = docs]
        BY <2>1 DEF Asks
    <2>3. ASSUME NEW e \in Groups
          PROVE  /\ docs[e] \subseteq DocsIn(e)
                 /\ {d.name : d \in docs[e]} = {d.name : d \in DocsIn(e)}
        <3>1. docs[e] = {[name |-> d.name, meaning |-> pick[<<e, d.name>>]] : d \in DocsIn(e)}
            OBVIOUS
        <3> HIDE DEF docs
        <3>2. ASSUME NEW d \in DocsIn(e)
              PROVE  [name |-> d.name, meaning |-> pick[<<e, d.name>>]] \in DocsIn(e)
            <4>1. PICK c \in DocsIn(e) : c.name = d.name /\ c.meaning = pick[<<e, d.name>>]
                BY <2>1 DEF Meanings
            <4>2. PICK x \in tables.metric_docs : c = x.doc
                BY <4>1 DEF DocsIn
            <4>3. PICK r \in tables.runs : x.doc \in DocsOf[r.run] /\ r.run \in Runs
                BY <2>2, <4>2 DEF AgreeInv, Together
            <4>4. c = [name |-> c.name, meaning |-> c.meaning]
                BY <4>2, <4>3, ReportAssumption
            <4> QED BY <4>1, <4>4
        <3>3. docs[e] \subseteq DocsIn(e)
            BY <3>1, <3>2
        <3>4. ASSUME NEW d \in DocsIn(e) PROVE \E c \in docs[e] : c.name = d.name
            <4>1. [name |-> d.name, meaning |-> pick[<<e, d.name>>]] \in docs[e]
                BY <3>1
            <4> QED BY <4>1
        <3> QED BY <3>3, <3>4
    <2> HIDE DEF docs
    <2>4. draft'.docs = docs /\ draft'.counts = draft.counts /\ draft'.issues = draft.issues
        BY <1>d, <2>2
    <2>5. DocsAgree'
        <3>1. Groups' = Groups /\ \A e : DocsIn(e)' = DocsIn(e)
            BY <2>2 DEF Groups, DocsIn, KeysOf, InGroup
        <3> QED BY <2>3, <2>4, <3>1 DEF DocsAgree
    <2> QED BY <2>2, <2>4, <2>5, AgreeStays DEF AgreeInv
<1>10. CASE ListRuns
    <2> DEFINE listed == {r \in tables.runs : r.created # Absent}
    <2>1. /\ query = 5 /\ query' = 6 /\ ~mixed /\ tables' = tables
          /\ draft' = [draft EXCEPT !.listed = listed]
        BY <1>10 DEF ListRuns, Asks
    <2>2. listed = tables.runs
        BY <2>1 DEF AgreeInv, Together
    <2> HIDE DEF listed
    <2>3. /\ draft'.counts = draft.counts /\ draft'.issues = draft.issues
          /\ draft'.docs = draft.docs /\ draft'.listed = listed
        BY <1>d, <2>1
    <2>4. ListAgrees'
        BY <2>1, <2>2, <2>3 DEF ListAgrees
    <2> QED BY <2>1, <2>3, <2>4, AgreeStays DEF AgreeInv
<1>11. CASE ShowMetrics
    <2> DEFINE of(r) == {m.metric : m \in {x \in tables.metrics :
                            x.run = r.run /\ x.metric.scope = "run" /\ x.metric.step = Absent}}
               aggregates == [r \in draft.listed |-> of(r)]
               shown == [r \in draft.listed |-> {m.name : m \in of(r)} \cap Carried(r)]
    <2>1. /\ query = 6 /\ query' = 7 /\ ~mixed /\ tables' = tables
          /\ draft' = [draft EXCEPT !.aggregates = aggregates, !.shown = shown]
        BY <1>11 DEF ShowMetrics, Asks
    <2> HIDE DEF aggregates, shown
    <2>2. /\ draft'.counts = draft.counts /\ draft'.issues = draft.issues
          /\ draft'.docs = draft.docs /\ draft'.listed = draft.listed
        BY <1>d, <2>1
    <2> QED BY <2>1, <2>2, AgreeStays DEF AgreeInv
<1>12. CASE ShowIssues
    <2> DEFINE jira ==
            [r \in draft.listed |-> {j.issue : j \in {k \in tables.run_jira : k.run = r.run}}]
    <2>1. /\ query = 7 /\ query' = 8 /\ ~mixed /\ tables' = tables
          /\ draft' = [draft EXCEPT !.jira = jira]
        BY <1>12 DEF ShowIssues, Asks
    <2> HIDE DEF jira
    <2>2. /\ draft'.counts = draft.counts /\ draft'.issues = draft.issues
          /\ draft'.docs = draft.docs /\ draft'.listed = draft.listed /\ draft'.jira = jira
        BY <1>d, <2>1
    <2>3. draft.listed = tables.runs
        BY <2>1 DEF AgreeInv, ListAgrees
    <2>4. JiraAgrees'
        BY <2>1, <2>2, <2>3 DEF JiraAgrees, jira
    <2> QED BY <2>1, <2>2, <2>4, AgreeStays DEF AgreeInv
<1>13. CASE Warn
    <2> DEFINE old == {r \in tables.runs : r.run \in Legacy}
               warned == [legacy |-> Cardinality(old),
                          nameless |-> Cardinality({r \in old : r.experiment = Absent})]
    <2>1. /\ query = 8 /\ query' = 9 /\ ~mixed /\ tables' = tables
          /\ draft' = [draft EXCEPT !.warned = warned]
        BY <1>13 DEF Warn, Asks
    <2>2. warned.legacy = Cardinality(old)
        OBVIOUS
    <2> HIDE DEF warned
    <2>3. /\ draft'.counts = draft.counts /\ draft'.issues = draft.issues
          /\ draft'.docs = draft.docs /\ draft'.listed = draft.listed /\ draft'.jira = draft.jira
          /\ draft'.warned = warned
        BY <1>d, <2>1
    <2>4. WarningAgrees'
        BY <2>1, <2>2, <2>3 DEF WarningAgrees
    <2> QED BY <2>1, <2>3, <2>4, AgreeStays DEF AgreeInv
<1> QED BY <1>1, <1>2, <1>3, <1>4, <1>6, <1>7, <1>8, <1>9, <1>10, <1>11, <1>12, <1>13
        DEF ReportNext, reportVars, report, refresh, SyncRun, SyncLegacy, DeleteRun, Change,
            BeginRefresh

ReportInv == VaultInv /\ TableInv /\ DraftInv /\ AgreeInv

LEMMA ReportInvariance == ReportSpec => []ReportInv
<1>1. ReportInit => ReportInv
    <2>1. ReportInit => DraftInv /\ AgreeInv
        BY DEF ReportInit, DraftInv, AgreeInv
    <2> QED BY <2>1, VaultInit, TableInit DEF ReportInv
<1>2. ReportInv /\ [ReportNext]_reportVars => ReportInv'
    BY VaultStep, TableStep, DraftStep, AgreeStep DEF ReportInv
<1> QED BY <1>1, <1>2, PTL DEF ReportSpec

\* Whatever is written under the report, a headline that a run of the list
\* recorded is shown: the query that ranks the names carries it.
THEOREM HeadlineShows == ReportSpec => []HeadlineIsShown
<1>1. DraftInv => HeadlineIsShown
    BY DEF DraftInv, HeadlineIsShown, Complete, Carried
<1> QED BY <1>1, ReportInvariance, PTL DEF ReportInv

\* A payload of one index adds up.
THEOREM ReportIsOfOneIndex == ReportSpec => []ReportAddsUp
<1>1. ASSUME DraftInv, AgreeInv, Complete, ~mixed PROVE ReportAddsUp
    <2>1. /\ Together(tables) /\ CountsAgree /\ IssuesAgree /\ DocsAgree /\ ListAgrees
          /\ JiraAgrees /\ WarningAgrees
        BY <1>1 DEF AgreeInv, Complete
    <2>2. draft.listed = tables.runs /\ \A e : Of(e) = InGroup(e)
        BY <2>1 DEF ListAgrees, Of, InGroup
    <2>3. DOMAIN draft.counts = Groups /\ {r.experiment : r \in draft.listed} = Groups
        BY <2>1, <2>2 DEF CountsAgree, Groups
    <2>4. ASSUME NEW e \in Groups
          PROVE  /\ draft.counts[e].runs = Cardinality(Of(e))
                 /\ draft.counts[e].finished = Cardinality({r \in Of(e) : r.state = "finished"})
        BY <2>1, <2>2 DEF CountsAgree
    <2>5. ASSUME NEW e \in Groups PROVE draft.issues[e] = UNION {draft.jira[r] : r \in Of(e)}
        <3>1. draft.issues[e] = {j.issue : j \in {k \in tables.run_jira : k.run \in KeysOf(e)}}
            BY <2>1 DEF IssuesAgree
        <3>2. \A r \in Of(e) : draft.jira[r] = {j.issue : j \in {k \in tables.run_jira : k.run = r.run}}
            BY <2>1, <2>2 DEF JiraAgrees, InGroup
        <3>3. KeysOf(e) = {r.run : r \in Of(e)}
            BY <2>2 DEF KeysOf
        <3> QED BY <3>1, <3>2, <3>3
    <2>6. ASSUME NEW e \in Groups
          PROVE  /\ \A d \in draft.docs[e] : \E r \in Of(e) : d \in DocsOf[r.run]
                 /\ {d.name : d \in draft.docs[e]}
                      = {d.name : d \in UNION {DocsOf[r.run] : r \in Of(e)}}
        <3>1. DocsIn(e) = UNION {DocsOf[r.run] : r \in Of(e)}
            <4>1. ASSUME NEW d \in DocsIn(e) PROVE \E r \in Of(e) : d \in DocsOf[r.run]
                <5>1. PICK x \in tables.metric_docs : x.run \in KeysOf(e) /\ d = x.doc
                    BY <4>1 DEF DocsIn
                <5>2. PICK q \in tables.runs : x.run = q.run /\ x.doc \in DocsOf[q.run]
                    BY <2>1, <5>1 DEF Together
                <5>3. PICK r \in Of(e) : x.run = r.run
                    BY <2>2, <5>1 DEF KeysOf
                <5> QED BY <5>1, <5>2, <5>3
            <4>2. ASSUME NEW r \in Of(e), NEW d \in DocsOf[r.run] PROVE d \in DocsIn(e)
                <5>1. r \in tables.runs /\ r.run \in KeysOf(e)
                    BY <2>2 DEF InGroup, KeysOf
                <5>2. [run |-> r.run, doc |-> d] \in tables.metric_docs
                    BY <2>1, <4>2, <5>1 DEF Together
                <5> QED BY <5>1, <5>2 DEF DocsIn
            <4> QED BY <4>1, <4>2
        <3> QED BY <2>1, <3>1 DEF DocsAgree
    <2>7. draft.warned.legacy = Cardinality({r \in draft.listed : r.state = Absent})
        <3>1. {r \in tables.runs : r.run \in Legacy} = {r \in draft.listed : r.state = Absent}
            BY <2>1, <2>2 DEF Together
        <3> QED BY <2>1, <3>1 DEF WarningAgrees
    <2> QED BY <2>3, <2>4, <2>5, <2>6, <2>7 DEF ReportAddsUp
<1>2. DraftInv /\ AgreeInv => ReportAddsUp
    BY <1>1 DEF ReportAddsUp
<1> QED BY <1>2, ReportInvariance, PTL DEF ReportInv

\* What is read of the files of a legacy run is finite.
LEMMA ReadingIsFinite ==
    ASSUME NEW files, AreFiles(files)
    PROVE  IsFiniteSet(ReadMetrics(files))
<1>1. ASSUME NEW f \in files PROVE IsFiniteSet(Converted(f))
    <2>1. IsFiniteSet(DOMAIN f.rows) /\ IsFiniteSet(Columns(f))
        <3>1. Len(f.rows) \in Nat /\ DOMAIN f.rows = 1..Len(f.rows)
            BY DEF AreFiles, IsSequence
        <3>2. Len(f.header) \in Nat /\ Columns(f) = 1..Len(f.header)
            BY DEF AreFiles, IsSequence, Columns
        <3>3. \A n \in Nat : IsFiniteSet(1..n)
            BY FS_Interval
        <3> QED BY <3>1, <3>2, <3>3
    <2>2. IsFiniteSet(Columns(f) \cup {ValueColumn(f)})
        BY <2>1, FS_AddElement
    <2>3. IsFiniteSet((DOMAIN f.rows) \X (Columns(f) \cup {ValueColumn(f)}))
        BY <2>1, <2>2, FS_Product
    <2>4. Cells(f) \subseteq (DOMAIN f.rows) \X (Columns(f) \cup {ValueColumn(f)})
        BY DEF Cells, Offered
    <2>5. IsFiniteSet(Cells(f))
        BY <2>3, <2>4, FS_Subset
    <2> DEFINE g == [c \in Cells(f) |-> MetricAt(f, c)]
    <2>6. g \in Surjection(Cells(f), {MetricAt(f, c) : c \in Cells(f)})
        BY DEF Surjection
    <2>7. IsFiniteSet({MetricAt(f, c) : c \in Cells(f)})
        BY <2>5, <2>6, FS_Surjection
    <2> QED BY <2>7, FS_EmptySet DEF Converted
<1> DEFINE g == [f \in MetricFiles(files) |-> Converted(f)]
<1>2. IsFiniteSet(MetricFiles(files))
    BY FS_Subset DEF MetricFiles, AreFiles
<1>3. g \in Surjection(MetricFiles(files), {Converted(f) : f \in MetricFiles(files)})
    BY DEF Surjection
<1>4. IsFiniteSet({Converted(f) : f \in MetricFiles(files)})
    BY <1>2, <1>3, FS_Surjection
<1>5. \A T \in {Converted(f) : f \in MetricFiles(files)} : IsFiniteSet(T)
    BY <1>1 DEF MetricFiles
<1> QED BY <1>4, <1>5, FS_UNION DEF ReadMetrics

\* A number that no step goes with has no unit of one either.
LEMMA StepAndUnit ==
    ASSUME NEW files, AreFiles(files), NEW m \in ReadMetrics(files), m.step = Absent
    PROVE  m.unit = Absent
<1>1. PICK f \in files : m \in Converted(f)
    BY DEF ReadMetrics, MetricFiles
<1>2. PICK c \in Cells(f) : m = MetricAt(f, c) /\ ~Unreadable(f)
    BY <1>1 DEF Converted
<1>3. Axis(f) = 0
    <2> SUFFICES ASSUME Axis(f) # 0 PROVE FALSE
        OBVIOUS
    <2>1. Axis(f) \in Columns(f)
        <3>1. PICK able : able \subseteq TimeColumns(f) /\ able # {} /\ Axis(f) = Least(able)
            BY DEF Axis
        <3>2. able \subseteq Columns(f) /\ Columns(f) \subseteq Nat
            <4>1. Columns(f) = 1..Len(f.header) /\ Len(f.header) \in Nat
                BY DEF AreFiles, IsSequence, Columns
            <4> QED BY <3>1, <4>1 DEF TimeColumns
        <3>3. Least(able) \in able
            BY <3>1, <3>2, LeastNatural DEF Least
        <3> QED BY <3>1, <3>2, <3>3
    <2>2. c[1] \in DOMAIN f.rows /\ f.rows[c[1]][Axis(f)].kind = "integer"
        BY DEF Cells, Offered, Usable, HasStep
    <2>3. Axis(f) \in DOMAIN f.rows[c[1]]
        <3>1. Len(f.rows[c[1]]) = Len(f.header)
            BY <1>2, <2>2 DEF Unreadable
        <3> QED BY <2>1, <2>2, <3>1 DEF Columns, AreFiles, IsSequence
    <2>4. m.step = f.rows[c[1]][Axis(f)].of
        BY <1>2 DEF MetricAt
    <2> QED BY <2>2, <2>3, <2>4 DEF AreFiles
<1> QED BY <1>2, <1>3 DEF MetricAt

\* Numbers that differ in their names only are as many as their names.
LEMMA AsManyNames ==
    ASSUME NEW S, IsFiniteSet(S), \A m, n \in S : m.name = n.name => m = n
    PROVE  Cardinality(S) = Cardinality({m.name : m \in S})
<1> DEFINE g == [m \in S |-> m.name]
<1>1. g \in Surjection(S, {m.name : m \in S})
    BY DEF Surjection
<1>2. g \in Injection(S, {m.name : m \in S})
    BY DEF Injection, IsInjective
<1>3. g \in Bijection(S, {m.name : m \in S})
    BY <1>1, <1>2 DEF Bijection
<1> QED BY <1>3, FS_Bijection DEF ExistsBijection

\* No number of a legacy run counts twice where its headers have no dots.
THEOREM NumbersCountOnce == ReportSpec => []EachNumberOnce
<1>1. ASSUME DraftInv, Complete, NEW r \in draft.listed, r.run \in Legacy,
             \A f \in UNION FilesOf[r.run] : IsPlain(f)
      PROVE  Cardinality(draft.aggregates[r]) = Cardinality({m.name : m \in draft.aggregates[r]})
    <2> DEFINE S == draft.aggregates[r]
    <2>1. PICK files \in FilesOf[r.run] \cup {{}} : S \subseteq ReadMetrics(files)
        BY <1>1 DEF DraftInv, Complete
    <2>2. \A m \in S : m.scope = "run" /\ m.step = Absent
        BY <1>1 DEF DraftInv, Complete
    <2>3. AreFiles(files) /\ \A f \in files : IsPlain(f)
        <3>1. AreFiles({})
            BY FS_EmptySet DEF AreFiles
        <3> QED BY <1>1, <2>1, <3>1, ReportAssumption
    <2>4. RunKeysAreUnique(files)
        BY <2>3, RunKeysDiffer DEF AreFiles
    <2>5. ASSUME NEW m \in S, NEW n \in S, m.name = n.name PROVE m = n
        <3>1. m \in ReadMetrics(files) /\ n \in ReadMetrics(files)
            BY <2>1
        <3>2. m.unit = Absent /\ n.unit = Absent
            BY <2>2, <2>3, <3>1, StepAndUnit
        <3>3. KeyOf(m) = KeyOf(n)
            BY <2>2, <2>5, <3>2 DEF KeyOf
        <3> QED BY <2>4, <3>1, <3>3 DEF RunKeysAreUnique
    <2>6. IsFiniteSet(S)
        BY <2>1, <2>3, ReadingIsFinite, FS_Subset
    <2> HIDE DEF S
    <2>7. Cardinality(S) = Cardinality({m.name : m \in S})
        BY <2>5, <2>6, AsManyNames
    <2> QED BY <2>7 DEF S
<1>2. DraftInv => EachNumberOnce
    BY <1>1 DEF EachNumberOnce
<1> QED BY <1>2, ReportInvariance, PTL DEF ReportInv
=============================================================================

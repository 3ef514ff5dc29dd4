--------------------------- MODULE VaultIndexProofs ---------------------------
(***************************************************************************)
(* Proofs about VaultIndex, for any runs, tables, editions and bounds.     *)
(*                                                                         *)
(* The invariant has two halves.  VaultInv says what a sync and a delete   *)
(* leave: a receipt that lists status.json lists every file of an ended    *)
(* run, metrics.csv in its last edition or gone (FinalReceipts).           *)
(* ReaderInv follows what the refresh takes from there: the receipts it    *)
(* has read still hold of every run that nothing crossed (FoundInv), so do *)
(* the bytes it has of the files of one run (GotInv), the rows it collects *)
(* of them (RowsInv) and the tables it writes (IndexInv); and while        *)
(* nothing at all has changed, each of these is what the vault holds       *)
(* (SameInv).                                                              *)
(***************************************************************************)
EXTENDS VaultIndex, FiniteSetTheorems, WellFoundedInduction, TLAPS

-----------------------------------------------------------------------------
(* The orders of the files.                                                *)

LEMMA FileOrders ==
    /\ Files = {"run.json", "status.json", "metrics.csv", "reference.csv", "manifest.csv",
                "metrics.meta.json", "parameters.meta.json"}
    /\ DOMAIN ReadOrder = 1..7 /\ \A i \in 1..7 : ReadOrder[i] \in Files
    /\ \A f \in Files : \E i \in 1..7 : ReadOrder[i] = f
    /\ Len(SyncOrder) = 7 /\ \A i \in 1..7 : SyncOrder[i] \in Files
    /\ \A f \in Files : \E i \in 1..7 : SyncOrder[i] = f
    /\ \A i \in 1..7 : SyncOrder[i] = "metrics.csv" <=> i = 2
<1>1. DOMAIN ReadOrder = 1..7
    BY DEF ReadOrder
<1>2. /\ ReadOrder[1] = "run.json" /\ ReadOrder[2] = "status.json"
      /\ ReadOrder[3] = "metrics.csv" /\ ReadOrder[4] = "reference.csv"
      /\ ReadOrder[5] = "manifest.csv" /\ ReadOrder[6] = "metrics.meta.json"
      /\ ReadOrder[7] = "parameters.meta.json"
    BY DEF ReadOrder
<1>3. /\ SyncOrder[1] = "manifest.csv" /\ SyncOrder[2] = "metrics.csv"
      /\ SyncOrder[3] = "metrics.meta.json" /\ SyncOrder[4] = "parameters.meta.json"
      /\ SyncOrder[5] = "reference.csv" /\ SyncOrder[6] = "run.json"
      /\ SyncOrder[7] = "status.json" /\ Len(SyncOrder) = 7
    BY DEF SyncOrder
<1>4. 1..7 = {1, 2, 3, 4, 5, 6, 7}
    OBVIOUS
<1>5. Files = {ReadOrder[i] : i \in 1..7}
    BY <1>1 DEF Files
<1>6. Files = {"run.json", "status.json", "metrics.csv", "reference.csv", "manifest.csv",
                "metrics.meta.json", "parameters.meta.json"}
    BY <1>2, <1>4, <1>5
<1> QED BY <1>1, <1>2, <1>3, <1>4, <1>5, <1>6

\* A set of positions that is not empty has a least one.
LEMMA LeastPosition ==
    ASSUME NEW S, S \subseteq Nat, S # {}
    PROVE  \E k \in S : \A l \in S : k <= l
<1>1. PICK x \in S : \A y \in S : ~(<<y, x>> \in OpToRel(<, Nat))
    BY NatLessThanWellFounded, WFMin
<1>2. \A y \in S : ~(y < x)
    BY <1>1 DEF OpToRel
<1> QED BY <1>2

\* A sync passes over the files it does not have, and over no other.
LEMMA OnwardSkips ==
    ASSUME NEW forms, NEW k \in 1..8
    PROVE  /\ Onward(forms, k) \in k..8
           /\ Onward(forms, k) # 8 => forms[SyncOrder[Onward(forms, k)]] # Absent
           /\ \A i \in k..7 : i < Onward(forms, k) => forms[SyncOrder[i]] = Absent
<1> DEFINE left == {i \in k..7 : forms[SyncOrder[i]] # Absent}
<1>1. Len(SyncOrder) = 7
    BY FileOrders
<1>2. CASE left = {}
    <2>1. Onward(forms, k) = 8
        BY <1>1, <1>2 DEF Onward
    <2> QED BY <1>2, <2>1
<1>3. CASE left # {}
    <2>1. \E x \in left : \A y \in left : x <= y
        BY <1>3, LeastPosition
    <2>2. Onward(forms, k) = CHOOSE i \in left : \A j \in left : i <= j
        BY <1>1, <1>3 DEF Onward
    <2> HIDE DEF left
    <2>3. Onward(forms, k) \in left /\ \A j \in left : Onward(forms, k) <= j
        BY <2>1, <2>2
    <2> QED BY <2>3 DEF left
<1> QED BY <1>2, <1>3

-----------------------------------------------------------------------------
(* The vault.                                                              *)

\* The files of which a sync has written the form its receipt will name.
Done(i) == i < job.k \/ (i = job.k /\ job.phase = "other")

VaultType ==
    /\ source \in [Dirs -> 1..2]
    /\ stored \in [Dirs -> [Files -> [Forms -> 0..2]]]
    /\ receipt \in [Dirs -> [Files -> Forms \cup {Absent}]]
    /\ job \in {NoJob} \cup [dir : Dirs, forms : [Files -> Forms \cup {Absent}],
                             k : 1..8, phase : {"copy", "other"}]
    /\ deleting \in Dirs \cup {Absent} /\ tombs \subseteq Dirs
    /\ syncs \in 0..MaxSyncs

\* What is being written: a sync names files its run has, what it has copied
\* stays until its receipt, and a delete is recorded before it removes.
WorkInv ==
    /\ deleting # Absent => job = NoJob /\ deleting \in tombs
    /\ job # NoJob =>
         /\ \A f \in Files : job.forms[f] # Absent =>
              IF job.dir \in Legacy THEN f = "metrics.csv" ELSE f \in Kept
         /\ \A i \in 1..7 : Done(i) /\ job.forms[SyncOrder[i]] # Absent =>
              Held(job.dir, SyncOrder[i], job.forms[SyncOrder[i]])
         /\ job.k <= 7 => job.forms[SyncOrder[job.k]] # Absent
         /\ job.phase = "other" => job.k <= 7

\* A receipt that lists status.json lists every file of an ended run, and
\* metrics.csv in its last edition; so will that of a sync which found it.
FinalForm(d, entry) == stored[d]["metrics.csv"][entry["metrics.csv"]] \in {0, 2}
FinalReceipts ==
    /\ \A d \in Dirs : \A f \in Files : receipt[d][f] # Absent =>
         IF d \in Legacy THEN f = "metrics.csv" ELSE f \in Kept
    /\ \A d \in Dirs : receipt[d]["status.json"] # Absent =>
         /\ source[d] = 2 /\ FinalForm(d, receipt[d])
         /\ \A f \in Kept : receipt[d][f] # Absent
    /\ job # NoJob /\ (receipt[job.dir]["status.json"] # Absent
                        \/ job.forms["status.json"] # Absent) =>
         /\ source[job.dir] = 2
         /\ \A f \in Kept : job.forms[f] # Absent
         /\ Done(2) => FinalForm(job.dir, job.forms)

VaultInv == VaultType /\ WorkInv /\ FinalReceipts

LEMMA VaultInit == Init => VaultInv
<1> SUFFICES ASSUME Init PROVE VaultInv
    OBVIOUS
<1> USE IndexAssumption, FileOrders
<1>1. PICK before \in Beginnings, form \in Forms :
        /\ stored = [d \in Dirs |-> [f \in Files |-> [m \in Forms |->
              IF d \in before /\ HasFile(d, f) /\ m = (IF f = "metrics.csv" THEN form ELSE "none")
              THEN Content(d, f) ELSE 0]]]
        /\ receipt = [d \in Dirs |-> [f \in Files |->
              IF d \in before /\ HasFile(d, f)
              THEN (IF f = "metrics.csv" THEN form ELSE "none") ELSE Absent]]
    BY DEF Init
<1>2. source = [d \in Dirs |-> IF d \in Legacy \cup Gone THEN 2 ELSE 1]
      /\ job = NoJob /\ deleting = Absent /\ tombs = {} /\ syncs = 0
    BY DEF Init
<1>3. VaultType
    BY <1>1, <1>2 DEF VaultType, Content, Forms
<1>4. WorkInv
    BY <1>2 DEF WorkInv
<1>5. FinalReceipts
    BY <1>1, <1>2 DEF FinalReceipts, FinalForm, HasFile, Content, Forms
<1> QED BY <1>3, <1>4, <1>5 DEF VaultInv

LEMMA PlanKeeps ==
    ASSUME VaultInv, NEW d \in Dirs, PlanSync(d) PROVE VaultInv'
<1> USE IndexAssumption, FileOrders DEF VaultInv
<1>1. PICK big \in SUBSET {f \in Files : <<d, f>> \in Large} :
        job' = [dir |-> d,
                forms |-> [f \in Files |-> IF ~HasFile(d, f) THEN Absent
                                          ELSE IF f \in big THEN "zstd" ELSE "none"],
                k |-> Onward([f \in Files |-> IF ~HasFile(d, f) THEN Absent
                                ELSE IF f \in big THEN "zstd" ELSE "none"], 1),
                phase |-> "copy"]
    BY DEF PlanSync
<1> DEFINE forms == [f \in Files |-> IF ~HasFile(d, f) THEN Absent
                                    ELSE IF f \in big THEN "zstd" ELSE "none"]
<1>2. /\ \A f \in Files : forms[f] # Absent <=> HasFile(d, f)
      /\ forms \in [Files -> Forms \cup {Absent}]
    BY DEF Forms
<1> HIDE DEF forms
<1>3. /\ job'.dir = d /\ job'.forms = forms /\ job'.k = Onward(forms, 1)
      /\ job'.phase = "copy" /\ job = NoJob /\ deleting = Absent /\ syncs < MaxSyncs
      /\ syncs' = syncs + 1 /\ UNCHANGED <<source, stored, receipt, deleting, tombs>>
    BY <1>1 DEF PlanSync, forms
<1>4. /\ Onward(forms, 1) \in 1..8
      /\ Onward(forms, 1) # 8 => forms[SyncOrder[Onward(forms, 1)]] # Absent
      /\ \A i \in 1..7 : i < Onward(forms, 1) => forms[SyncOrder[i]] = Absent
    BY OnwardSkips
<1>5. VaultType'
    <2>1. job' \in [dir : Dirs, forms : [Files -> Forms \cup {Absent}],
                   k : 1..8, phase : {"copy", "other"}]
        BY <1>1, <1>2, <1>4 DEF forms
    <2> QED BY <1>3, <2>1 DEF VaultType
<1>6. WorkInv'
    <2>1. \A i \in 1..7 : Done(i)' => forms[SyncOrder[i]] = Absent
        BY <1>3, <1>4 DEF Done
    <2>2. \A f \in Files : forms[f] # Absent =>
            IF d \in Legacy THEN f = "metrics.csv" ELSE f \in Kept
        BY <1>2 DEF HasFile
    <2> QED BY <1>3, <1>4, <2>1, <2>2 DEF WorkInv
<1>7. FinalReceipts'
    <2>1. forms["status.json"] # Absent => source[d] = 2 /\ d \notin Legacy
        BY <1>2 DEF HasFile, AtTheEnd
    <2>2. receipt[d]["status.json"] # Absent => source[d] = 2 /\ d \notin Legacy
        BY <1>3 DEF FinalReceipts
    <2>3. source[d] = 2 /\ d \notin Legacy => \A f \in Kept : forms[f] # Absent
        BY <1>2 DEF HasFile
    <2>4. Done(2)' => forms["metrics.csv"] = Absent
        BY <1>3, <1>4 DEF Done
    <2> QED BY <1>3, <2>1, <2>2, <2>3, <2>4 DEF FinalReceipts, FinalForm
<1> QED BY <1>5, <1>6, <1>7

\* What a step to the next file leaves of the invariant.
LEMMA NextKeeps ==
    ASSUME VaultInv, job # NoJob, job.k \in 1..7, NextCopy,
           UNCHANGED <<source, receipt, deleting, tombs, syncs>>,
           \A i \in 1..7 : i <= job.k /\ job.forms[SyncOrder[i]] # Absent =>
              stored'[job.dir][SyncOrder[i]][job.forms[SyncOrder[i]]] # 0
    PROVE  /\ job' \in [dir : Dirs, forms : [Files -> Forms \cup {Absent}], k : 1..8,
                        phase : {"copy", "other"}]
           /\ job'.dir = job.dir /\ job'.forms = job.forms /\ job' # NoJob
           /\ WorkInv'
           /\ Done(2)' => job.k >= 2 \/ job.forms["metrics.csv"] = Absent
<1> USE FileOrders DEF VaultInv
<1>1. job \in [dir : Dirs, forms : [Files -> Forms \cup {Absent}], k : 1..8,
              phase : {"copy", "other"}]
    BY DEF VaultType
<1> DEFINE on == Onward(job.forms, job.k + 1)
<1>2. job' = [job EXCEPT !.k = on, !.phase = "copy"]
    BY DEF NextCopy
<1>3. /\ on \in job.k + 1..8
      /\ on # 8 => job.forms[SyncOrder[on]] # Absent
      /\ \A i \in job.k + 1..7 : i < on => job.forms[SyncOrder[i]] = Absent
    BY OnwardSkips
<1> HIDE DEF on
<1>4. /\ job'.dir = job.dir /\ job'.forms = job.forms /\ job'.k = on /\ job'.phase = "copy"
      /\ on \in 1..8
      /\ job' \in [dir : Dirs, forms : [Files -> Forms \cup {Absent}], k : 1..8,
                   phase : {"copy", "other"}]
    <2>1. on \in 1..8
        BY <1>1, <1>3
    <2>2. /\ job'.dir = job.dir /\ job'.forms = job.forms /\ job'.k = on
          /\ job'.phase = "copy"
        BY ONLY <1>1, <1>2
    <2>3. job' \in [dir : Dirs, forms : [Files -> Forms \cup {Absent}], k : 1..8,
                   phase : {"copy", "other"}]
        BY ONLY <1>1, <1>2, <2>1
    <2> QED BY <2>1, <2>2, <2>3
<1>5. job' # NoJob
    BY <1>4, IndexAssumption DEF NoJob
<1>6. \A i \in 1..7 : Done(i)' /\ job.forms[SyncOrder[i]] # Absent => i <= job.k
    BY <1>1, <1>3, <1>4 DEF Done
<1>7. WorkInv'
    <2>1. deleting' = Absent
        BY DEF WorkInv
    <2>2. \A i \in 1..7 : Done(i)' /\ job'.forms[SyncOrder[i]] # Absent =>
            stored'[job'.dir][SyncOrder[i]][job'.forms[SyncOrder[i]]] # 0
        BY <1>4, <1>6
    <2>3. job'.k <= 7 => job'.forms[SyncOrder[job'.k]] # Absent
        BY <1>3, <1>4
    <2>4. \A f \in Files : job'.forms[f] # Absent =>
             IF job'.dir \in Legacy THEN f = "metrics.csv" ELSE f \in Kept
        BY <1>4 DEF WorkInv
    <2>5. job'.phase = "other" => job'.k <= 7
        BY <1>4
    <2> QED BY ONLY <2>1, <2>2, <2>3, <2>4, <2>5 DEF WorkInv, Held
<1> QED BY <1>3, <1>4, <1>5, <1>6, <1>7

\* What a step of the vault leaves to a refresh that is under way, and to the
\* index: nothing goes without a mark, and nothing an ended run had is unlisted.
VaultMoves ==
    /\ UNCHANGED <<pc, found, at, got, rows, index, whole, doubt>>
    /\ crossed \subseteq crossed' /\ (pc = "idle" => crossed' = crossed)
    /\ crossed' \subseteq crossed \cup Dirs
    /\ tombs \subseteq tombs'
    /\ \A d \in Dirs : source[d] = 2 => source'[d] = 2
    /\ \A d \in Dirs : \A m \in Forms :
         source[d] = 2 /\ stored[d]["metrics.csv"][m] \in {0, 2}
            => stored'[d]["metrics.csv"][m] \in {0, 2}
    /\ pc # "idle" =>
         \A d \in Dirs \ crossed' :
           /\ \A f \in Files : \A m \in Forms : stored[d][f][m] # 0 => stored'[d][f][m] # 0
           /\ Described(d) => Described(d)'
    /\ \A d \in Dirs \ tombs' :
         receipt[d]["status.json"] # Absent => \A f \in Kept : receipt'[d][f] # Absent
    /\ \/ changed' = TRUE /\ current' = FALSE
       \/ UNCHANGED <<stored, receipt, changed, current>>

LEMMA CopyKeeps ==
    ASSUME VaultInv, CopyFile, NEW d, NEW f, NEW m, NEW v,
           d = job.dir, f = SyncOrder[job.k], m = job.forms[f], v = Content(d, f)
    PROVE  VaultInv' /\ VaultMoves
<1>1. /\ job \in [dir : Dirs, forms : [Files -> Forms \cup {Absent}], k : 1..8,
                 phase : {"copy", "other"}]
      /\ job # NoJob /\ job.phase = "copy" /\ job.k \in 1..7 /\ deleting = Absent
    BY FileOrders DEF CopyFile, VaultInv, VaultType, WorkInv
<1>2. /\ stored' = [stored EXCEPT ![d][f][m] = v]
      /\ job' = [job EXCEPT !.phase = "other"] \/ NextCopy
      /\ changed' = TRUE /\ current' = FALSE
      /\ UNCHANGED <<source, receipt, deleting, tombs, syncs, pc, found, at, got, rows,
                    crossed, index, whole, doubt>>
    BY <1>1 DEF CopyFile, Copied, Changes, reader, tables
<1>3. /\ d \in Dirs /\ f \in Files /\ m \in Forms /\ m # Absent
    <2>1. d \in Dirs /\ f \in Files /\ m \in Forms \cup {Absent}
        BY <1>1, FileOrders
    <2>2. m # Absent
        BY <1>1 DEF VaultInv, WorkInv
    <2> QED BY <2>1, <2>2
<1>4. /\ v \in 1..2
      /\ f = "metrics.csv" => v = source[d]
      /\ f = "metrics.csv" <=> job.k = 2
      /\ "metrics.csv" \in Files /\ "status.json" \in Files
    BY <1>1, <1>3, FileOrders DEF VaultInv, VaultType, Content
<1>5. /\ stored' \in [Dirs -> [Files -> [Forms -> 0..2]]]
      /\ \A e \in Dirs : \A g \in Files : \A n \in Forms :
           stored'[e][g][n] = IF e = d /\ g = f /\ n = m THEN v ELSE stored[e][g][n]
    <2>1. stored \in [Dirs -> [Files -> [Forms -> 0..2]]]
        BY DEF VaultInv, VaultType
    <2> QED BY ONLY <1>2, <1>3, <1>4, <2>1
<1>6. \A i \in 1..7 : i <= job.k /\ job.forms[SyncOrder[i]] # Absent =>
        stored'[d][SyncOrder[i]][job.forms[SyncOrder[i]]] # 0
    <2> SUFFICES ASSUME NEW i \in 1..7, i <= job.k, job.forms[SyncOrder[i]] # Absent
                 PROVE  stored'[d][SyncOrder[i]][job.forms[SyncOrder[i]]] # 0
        OBVIOUS
    <2>1. SyncOrder[i] \in Files /\ job.forms[SyncOrder[i]] \in Forms
        BY <1>1, FileOrders
    <2>2. CASE i = job.k
        BY <1>3, <1>4, <1>5, <2>2
    <2>3. CASE i < job.k
        <3>1. stored[d][SyncOrder[i]][job.forms[SyncOrder[i]]] # 0
            BY <1>1, <2>3 DEF VaultInv, WorkInv, Done, Held
        <3> QED BY <1>3, <1>4, <1>5, <2>1, <3>1
    <2> QED BY <1>1, <2>2, <2>3
<1>7. /\ job' \in [dir : Dirs, forms : [Files -> Forms \cup {Absent}], k : 1..8,
                  phase : {"copy", "other"}]
      /\ job'.dir = job.dir /\ job'.forms = job.forms /\ job' # NoJob
      /\ WorkInv'
      /\ Done(2)' => job.k >= 2 \/ job.forms["metrics.csv"] = Absent
    <2>1. CASE NextCopy
        BY <1>1, <1>2, <1>6, <2>1, NextKeeps
    <2>2. CASE job' = [job EXCEPT !.phase = "other"]
        <3>1. /\ job' \in [dir : Dirs, forms : [Files -> Forms \cup {Absent}], k : 1..8,
                          phase : {"copy", "other"}]
              /\ job'.dir = job.dir /\ job'.forms = job.forms /\ job'.k = job.k
            BY ONLY <1>1, <2>2
        <3>2. job' # NoJob
            BY <3>1, IndexAssumption DEF NoJob
        <3>3. /\ \A i \in 1..7 : Done(i)' => i <= job.k
              /\ Done(2)' => job.k >= 2
            BY <1>1, <3>1 DEF Done
        <3>4. \A i \in 1..7 : Done(i)' /\ job'.forms[SyncOrder[i]] # Absent =>
                stored'[job'.dir][SyncOrder[i]][job'.forms[SyncOrder[i]]] # 0
            BY <1>6, <3>1, <3>3
        <3>5. /\ \A g \in Files : job'.forms[g] # Absent =>
                   IF job'.dir \in Legacy THEN g = "metrics.csv" ELSE g \in Kept
              /\ job'.forms[SyncOrder[job'.k]] # Absent
            BY <1>1, <1>3, <3>1 DEF VaultInv, WorkInv
        <3>6. deleting' = Absent /\ job'.k <= 7
            BY <1>1, <1>2, <3>1
        <3>7. WorkInv'
            BY ONLY <3>4, <3>5, <3>6 DEF WorkInv, Held
        <3> QED BY <3>1, <3>2, <3>3, <3>7
    <2> QED BY <1>2, <2>1, <2>2
<1>8. VaultType'
    BY <1>2, <1>5, <1>7 DEF VaultInv, VaultType
<1>9. \A e \in Dirs : \A n \in Forms :
        source[e] = 2 /\ stored[e]["metrics.csv"][n] \in {0, 2}
            => stored'[e]["metrics.csv"][n] \in {0, 2}
    BY ONLY <1>4, <1>5
<1>10. FinalReceipts'
    <2>1. ASSUME NEW e \in Dirs, receipt[e]["status.json"] # Absent
          PROVE  stored'[e]["metrics.csv"][receipt[e]["metrics.csv"]] \in {0, 2}
        <3>1. receipt[e]["metrics.csv"] \in Forms /\ source[e] = 2 /\ FinalForm(e, receipt[e])
            BY <1>4, <2>1, IndexAssumption DEF VaultInv, FinalReceipts, VaultType
        <3> QED BY <1>9, <3>1 DEF FinalForm
    <2>2. ASSUME \/ receipt[d]["status.json"] # Absent
                 \/ job.forms["status.json"] # Absent
          PROVE  /\ source[d] = 2 /\ (\A g \in Kept : job.forms[g] # Absent)
                 /\ Done(2)' => stored'[d]["metrics.csv"][job.forms["metrics.csv"]] \in {0, 2}
        <3>1. /\ source[d] = 2 /\ (\A g \in Kept : job.forms[g] # Absent)
              /\ Done(2) => FinalForm(d, job.forms)
            BY <1>1, <2>2 DEF VaultInv, FinalReceipts
        <3>2. job.forms["metrics.csv"] \in Forms /\ job.forms["metrics.csv"] # Absent
            BY <1>1, <1>4, <3>1, IndexAssumption
        <3>3. CASE job.k = 2
            BY <1>3, <1>4, <1>5, <3>1, <3>3
        <3>4. CASE job.k > 2
            <4>1. FinalForm(d, job.forms)
                BY <1>1, <3>1, <3>4 DEF Done
            <4> QED BY <1>3, <1>9, <3>1, <3>2, <4>1 DEF FinalForm
        <3> QED BY <1>1, <1>7, <3>1, <3>2, <3>3, <3>4
    <2>3. /\ \A e \in Dirs : \A g \in Files : receipt[e][g] # Absent =>
               IF e \in Legacy THEN g = "metrics.csv" ELSE g \in Kept
          /\ \A e \in Dirs : receipt[e]["status.json"] # Absent =>
               source[e] = 2 /\ \A g \in Kept : receipt[e][g] # Absent
        BY DEF VaultInv, FinalReceipts
    <2> QED BY ONLY <1>2, <1>7, <2>1, <2>2, <2>3, d = job.dir DEF FinalReceipts, FinalForm
<1>11. VaultMoves
    <2>1. \A e \in Dirs : \A g \in Files : \A n \in Forms :
            stored[e][g][n] # 0 => stored'[e][g][n] # 0
        BY ONLY <1>4, <1>5
    <2>2. \A e \in Dirs : Described(e) => Described(e)'
        <3>1. receipt \in [Dirs -> [Files -> Forms \cup {Absent}]] /\ receipt' = receipt
            BY <1>2 DEF VaultInv, VaultType
        <3> QED BY ONLY <2>1, <3>1 DEF Described, Held
    <2>3. \A e \in Dirs : receipt[e]["status.json"] # Absent =>
            \A g \in Kept : receipt'[e][g] # Absent
        BY <1>2 DEF VaultInv, FinalReceipts
    <2> QED BY ONLY <1>2, <1>9, <2>1, <2>2, <2>3 DEF VaultMoves
<1> QED BY <1>7, <1>8, <1>10, <1>11 DEF VaultInv

\* The invariant where files only go, and all but those are left alone.
LEMMA RemovalKeeps ==
    ASSUME VaultInv, VaultType', UNCHANGED <<source, tombs, found, at, got, rows, pc, index,
                                             whole, doubt>>,
           changed' = TRUE, current' = FALSE, NEW d \in Dirs, Crosses(d),
           \A e \in Dirs : \A f \in Files : \A m \in Forms :
              stored'[e][f][m] = stored[e][f][m] \/ (e = d /\ stored'[e][f][m] = 0),
           \A e \in Dirs \ {d} : receipt'[e] = receipt[e],
           receipt'[d] = receipt[d] \/ (receipt'[d] = NoReceipt /\ d \in tombs)
    PROVE  /\ VaultMoves
           /\ \A e \in Dirs : \A f \in Files : receipt'[e][f] # Absent =>
                IF e \in Legacy THEN f = "metrics.csv" ELSE f \in Kept
           /\ \A e \in Dirs : receipt'[e]["status.json"] # Absent =>
                /\ receipt[e]["status.json"] # Absent
                /\ source[e] = 2 /\ FinalForm(e, receipt[e])'
                /\ \A f \in Kept : receipt'[e][f] # Absent
<1>0. "metrics.csv" \in Files /\ "status.json" \in Files
    BY FileOrders
<1>1. \A e \in Dirs : \A f \in Files : receipt'[e][f] = receipt[e][f] \/
        (e = d /\ d \in tombs /\ receipt'[e] = NoReceipt /\ receipt'[e][f] = Absent)
    BY DEF NoReceipt
<1>2. \A e \in Dirs : \A f \in Files : receipt'[e][f] # Absent =>
        IF e \in Legacy THEN f = "metrics.csv" ELSE f \in Kept
    BY <1>1 DEF VaultInv, FinalReceipts
<1>3. \A e \in Dirs : \A m \in Forms :
        stored[e]["metrics.csv"][m] \in {0, 2} => stored'[e]["metrics.csv"][m] \in {0, 2}
    BY <1>0
<1>4. ASSUME NEW e \in Dirs, receipt'[e]["status.json"] # Absent
      PROVE  /\ receipt[e]["status.json"] # Absent
             /\ source[e] = 2 /\ FinalForm(e, receipt[e])'
             /\ \A f \in Kept : receipt'[e][f] # Absent
    <2>1. receipt'[e] = receipt[e]
        <3>1. receipt'[e] # NoReceipt
            BY <1>0, <1>4 DEF NoReceipt
        <3> QED BY <3>1
    <2>2. /\ source[e] = 2 /\ FinalForm(e, receipt[e])
          /\ \A f \in Kept : receipt[e][f] # Absent
        BY <1>4, <2>1 DEF VaultInv, FinalReceipts
    <2>3. receipt[e]["metrics.csv"] \in Forms
        BY <1>0, <2>2, IndexAssumption DEF VaultInv, VaultType
    <2> QED BY <1>3, <1>4, <2>1, <2>2, <2>3 DEF FinalForm
<1>5. VaultMoves
    <2>1. crossed' = IF pc = "idle" THEN crossed ELSE crossed \cup {d}
        BY DEF Crosses
    <2>2. pc # "idle" => \A e \in Dirs \ crossed' :
            /\ e # d /\ receipt'[e] = receipt[e]
            /\ \A f \in Files : \A m \in Forms : stored'[e][f][m] = stored[e][f][m]
        BY <2>1
    <2>3. pc # "idle" => \A e \in Dirs \ crossed' : Described(e) => Described(e)'
        <3>1. receipt \in [Dirs -> [Files -> Forms \cup {Absent}]]
            BY DEF VaultInv, VaultType
        <3> QED BY ONLY <2>2, <3>1 DEF Described, Held
    <2>4. \A e \in Dirs \ tombs' : receipt[e]["status.json"] # Absent =>
            \A g \in Kept : receipt'[e][g] # Absent
        <3> SUFFICES ASSUME NEW e \in Dirs \ tombs', receipt[e]["status.json"] # Absent,
                            NEW g \in Kept
                     PROVE  receipt'[e][g] # Absent
            OBVIOUS
        <3>1. receipt'[e] = receipt[e]
            OBVIOUS
        <3> QED BY <3>1 DEF VaultInv, FinalReceipts
    <2>5. /\ UNCHANGED <<pc, found, at, got, rows, index, whole, doubt>>
          /\ source' = source /\ tombs' = tombs /\ changed' = TRUE /\ current' = FALSE
          /\ d \in Dirs
        OBVIOUS
    <2>6. /\ crossed \subseteq crossed' /\ (pc = "idle" => crossed' = crossed)
          /\ crossed' \subseteq crossed \cup Dirs
        BY <2>1
    <2>7. pc # "idle" => \A e \in Dirs \ crossed' :
            \A f \in Files : \A m \in Forms : stored[e][f][m] # 0 => stored'[e][f][m] # 0
        BY ONLY <2>2
    <2> QED BY ONLY <1>3, <2>3, <2>4, <2>5, <2>6, <2>7 DEF VaultMoves
<1> QED BY <1>2, <1>4, <1>5

LEMMA OtherFormKeeps ==
    ASSUME VaultInv, RemoveOtherForm, NEW d, NEW f, NEW m, NEW o,
           d = job.dir, f = SyncOrder[job.k], m = job.forms[f], o = Other(m)
    PROVE  VaultInv' /\ VaultMoves
<1>1. /\ job \in [dir : Dirs, forms : [Files -> Forms \cup {Absent}], k : 1..8,
                 phase : {"copy", "other"}]
      /\ job # NoJob /\ job.phase = "other" /\ job.k \in 1..7 /\ deleting = Absent
    BY FileOrders DEF RemoveOtherForm, VaultInv, VaultType, WorkInv
<1>2. /\ stored' = [stored EXCEPT ![d][f][o] = 0] /\ Crosses(d) /\ NextCopy
      /\ changed' = TRUE /\ current' = FALSE
      /\ UNCHANGED <<source, receipt, deleting, tombs, syncs, pc, found, at, got, rows,
                    index, whole, doubt>>
    BY <1>1 DEF RemoveOtherForm, Copied, Changes, ReaderStays, tables
<1>3. d \in Dirs /\ f \in Files /\ m \in Forms /\ o \in Forms /\ o # m
    <2>1. d \in Dirs /\ f \in Files /\ m \in Forms \cup {Absent}
        BY <1>1, FileOrders
    <2>2. m # Absent
        BY <1>1 DEF VaultInv, WorkInv
    <2> QED BY <2>1, <2>2 DEF Forms, Other
<1>4. "metrics.csv" \in Files /\ "status.json" \in Files
      /\ (f = "metrics.csv" <=> job.k = 2)
    BY <1>1, FileOrders
<1>5. /\ stored' \in [Dirs -> [Files -> [Forms -> 0..2]]]
      /\ \A e \in Dirs : \A g \in Files : \A n \in Forms :
           stored'[e][g][n] = IF e = d /\ g = f /\ n = o THEN 0 ELSE stored[e][g][n]
    <2>1. stored \in [Dirs -> [Files -> [Forms -> 0..2]]]
        BY DEF VaultInv, VaultType
    <2> QED BY ONLY <1>2, <1>3, <2>1
<1>6. \A i \in 1..7 : i <= job.k /\ job.forms[SyncOrder[i]] # Absent =>
        stored'[d][SyncOrder[i]][job.forms[SyncOrder[i]]] # 0
    <2> SUFFICES ASSUME NEW i \in 1..7, i <= job.k, job.forms[SyncOrder[i]] # Absent
                 PROVE  stored'[d][SyncOrder[i]][job.forms[SyncOrder[i]]] # 0
        OBVIOUS
    <2>1. SyncOrder[i] \in Files /\ job.forms[SyncOrder[i]] \in Forms
        BY <1>1, FileOrders
    <2>2. stored[d][SyncOrder[i]][job.forms[SyncOrder[i]]] # 0
        <3>1. Done(i)
            BY <1>1 DEF Done
        <3> QED BY <1>1, <3>1 DEF VaultInv, WorkInv, Held
    <2>3. SyncOrder[i] = f => job.forms[SyncOrder[i]] = m
        OBVIOUS
    <2> QED BY <1>3, <1>5, <2>1, <2>2, <2>3
<1>7. /\ job' \in [dir : Dirs, forms : [Files -> Forms \cup {Absent}], k : 1..8,
                  phase : {"copy", "other"}]
      /\ job'.dir = job.dir /\ job'.forms = job.forms /\ job' # NoJob
      /\ WorkInv'
      /\ Done(2)' => job.k >= 2 \/ job.forms["metrics.csv"] = Absent
    BY <1>1, <1>2, <1>6, NextKeeps
<1>8. VaultType'
    BY <1>2, <1>5, <1>7 DEF VaultInv, VaultType
<1>9. /\ VaultMoves
      /\ \A e \in Dirs : \A g \in Files : receipt[e][g] # Absent =>
           IF e \in Legacy THEN g = "metrics.csv" ELSE g \in Kept
      /\ \A e \in Dirs : receipt[e]["status.json"] # Absent =>
           /\ source[e] = 2 /\ FinalForm(e, receipt[e])'
           /\ \A g \in Kept : receipt[e][g] # Absent
    <2>1. /\ \A e \in Dirs : \A g \in Files : \A n \in Forms :
               stored'[e][g][n] = stored[e][g][n] \/ (e = d /\ stored'[e][g][n] = 0)
          /\ \A e \in Dirs \ {d} : receipt'[e] = receipt[e]
          /\ receipt'[d] = receipt[d] \/ (receipt'[d] = NoReceipt /\ d \in tombs)
          /\ receipt' = receipt
        <3>1. receipt' = receipt
            BY <1>2
        <3> QED BY ONLY <1>5, <3>1
    <2>2. UNCHANGED <<source, tombs, found, at, got, rows, pc, index, whole, doubt>>
        BY <1>2
    <2>3. /\ VaultMoves
          /\ \A e \in Dirs : \A g \in Files : receipt'[e][g] # Absent =>
               IF e \in Legacy THEN g = "metrics.csv" ELSE g \in Kept
          /\ \A e \in Dirs : receipt'[e]["status.json"] # Absent =>
               /\ receipt[e]["status.json"] # Absent
               /\ source[e] = 2 /\ FinalForm(e, receipt[e])'
               /\ \A g \in Kept : receipt'[e][g] # Absent
        BY <1>2, <1>3, <1>8, <2>1, <2>2, RemovalKeeps
    <2> QED BY ONLY <2>1, <2>3
<1>10. FinalReceipts'
    <2>1. ASSUME \/ receipt[d]["status.json"] # Absent
                 \/ job.forms["status.json"] # Absent
          PROVE  /\ source[d] = 2 /\ (\A g \in Kept : job.forms[g] # Absent)
                 /\ Done(2)' => stored'[d]["metrics.csv"][job.forms["metrics.csv"]] \in {0, 2}
        <3>1. /\ source[d] = 2 /\ (\A g \in Kept : job.forms[g] # Absent)
              /\ Done(2) => FinalForm(d, job.forms)
            BY <1>1, <2>1 DEF VaultInv, FinalReceipts
        <3>2. job.forms["metrics.csv"] \in Forms /\ job.forms["metrics.csv"] # Absent
            BY <1>1, <1>4, <3>1, IndexAssumption
        <3>3. CASE job.k >= 2
            <4>1. FinalForm(d, job.forms)
                BY <1>1, <3>1, <3>3 DEF Done
            <4> QED BY <1>3, <1>4, <1>5, <3>1, <3>2, <4>1 DEF FinalForm
        <3> QED BY <1>7, <3>1, <3>2, <3>3
    <2> QED BY ONLY <1>2, <1>7, <1>9, <2>1, d = job.dir DEF FinalReceipts, FinalForm
<1> QED BY <1>7, <1>8, <1>9, <1>10 DEF VaultInv

LEMMA ReceiptKeeps ==
    ASSUME VaultInv, WriteReceipt PROVE VaultInv' /\ VaultMoves
<1>1. /\ job \in [dir : Dirs, forms : [Files -> Forms \cup {Absent}], k : 1..8,
                 phase : {"copy", "other"}]
      /\ job # NoJob /\ job.k = 8 /\ deleting = Absent
    BY FileOrders DEF WriteReceipt, VaultInv, VaultType, WorkInv
<1>2. /\ receipt' = [receipt EXCEPT ![job.dir] = job.forms] /\ job' = NoJob
      /\ changed' = TRUE /\ current' = FALSE
      /\ UNCHANGED <<source, stored, deleting, tombs, syncs, pc, found, at, got, rows,
                    crossed, index, whole, doubt>>
    BY DEF WriteReceipt, Changes, reader, tables
<1>3. VaultType'
    BY <1>1, <1>2 DEF VaultInv, VaultType
<1>4. WorkInv'
    BY <1>1, <1>2 DEF WorkInv
<1>5. \A d \in Dirs : receipt'[d] = IF d = job.dir THEN job.forms ELSE receipt[d]
    BY <1>2 DEF VaultInv, VaultType
<1>6. Done(2) /\ \A i \in 1..7 : Done(i)
    BY <1>1 DEF Done
<1>7. /\ job.forms["status.json"] # Absent \/ receipt[job.dir]["status.json"] # Absent =>
           /\ source[job.dir] = 2 /\ FinalForm(job.dir, job.forms)
           /\ \A f \in Kept : job.forms[f] # Absent
      /\ \A f \in Files : job.forms[f] # Absent =>
           IF job.dir \in Legacy THEN f = "metrics.csv" ELSE f \in Kept
    BY <1>1, <1>6 DEF VaultInv, WorkInv, FinalReceipts
<1>8. FinalReceipts'
    <2>1. \A d \in Dirs : \A f \in Files : receipt'[d][f] # Absent =>
            IF d \in Legacy THEN f = "metrics.csv" ELSE f \in Kept
        BY <1>5, <1>7 DEF VaultInv, FinalReceipts
    <2>2. ASSUME NEW d \in Dirs, receipt'[d]["status.json"] # Absent
          PROVE  /\ source[d] = 2 /\ FinalForm(d, receipt'[d])
                 /\ \A f \in Kept : receipt'[d][f] # Absent
        BY <1>5, <1>7, <2>2 DEF VaultInv, FinalReceipts
    <2> QED BY ONLY <1>2, <2>1, <2>2 DEF FinalReceipts, FinalForm
<1>9. VaultMoves
    <2>1. ASSUME NEW d \in Dirs, Described(d) PROVE Described(d)'
        <3>1. CASE d = job.dir
            <4>1. \A i \in 1..7 : job.forms[SyncOrder[i]] # Absent =>
                    stored[d][SyncOrder[i]][job.forms[SyncOrder[i]]] # 0
                BY <1>1, <1>6, <3>1 DEF VaultInv, WorkInv, Held
            <4>2. \A f \in Files : job.forms[f] # Absent => stored[d][f][job.forms[f]] # 0
                BY <4>1, FileOrders
            <4> QED BY <1>2, <1>5, <3>1, <4>2 DEF Described, Held
        <3>2. CASE d # job.dir
            BY <1>2, <1>5, <2>1, <3>2 DEF Described, Held
        <3> QED BY <3>1, <3>2
    <2>2. \A d \in Dirs : receipt[d]["status.json"] # Absent =>
            \A f \in Kept : receipt'[d][f] # Absent
        BY <1>5, <1>7 DEF VaultInv, FinalReceipts
    <2> QED BY ONLY <1>2, <2>1, <2>2 DEF VaultMoves
<1> QED BY <1>3, <1>4, <1>8, <1>9 DEF VaultInv

LEMMA RemoveOneKeeps ==
    ASSUME VaultInv, RemoveOne PROVE VaultInv' /\ VaultMoves
<1>1. /\ deleting \in Dirs /\ deleting \in tombs /\ job = NoJob /\ Crosses(deleting)
      /\ changed' = TRUE /\ current' = FALSE
      /\ UNCHANGED <<source, job, deleting, tombs, syncs, pc, found, at, got, rows,
                    index, whole, doubt>>
    BY DEF RemoveOne, Changes, ReaderStays, tables, VaultInv, VaultType, WorkInv
<1>2. \/ receipt' = [receipt EXCEPT ![deleting] = NoReceipt] /\ stored' = stored
      \/ /\ receipt' = receipt
         /\ \E f \in Files, m \in Forms : stored' = [stored EXCEPT ![deleting][f][m] = 0]
    BY DEF RemoveOne
<1>3. /\ stored \in [Dirs -> [Files -> [Forms -> 0..2]]]
      /\ receipt \in [Dirs -> [Files -> Forms \cup {Absent}]]
      /\ NoReceipt \in [Files -> Forms \cup {Absent}]
    BY DEF VaultInv, VaultType, NoReceipt
<1>4. /\ stored' \in [Dirs -> [Files -> [Forms -> 0..2]]]
      /\ \A e \in Dirs : \A f \in Files : \A m \in Forms :
           stored'[e][f][m] = stored[e][f][m] \/ (e = deleting /\ stored'[e][f][m] = 0)
    <2>1. CASE stored' = stored
        BY ONLY <1>3, <2>1
    <2>2. CASE \E f \in Files, m \in Forms : stored' = [stored EXCEPT ![deleting][f][m] = 0]
        <3>1. PICK f \in Files, m \in Forms : stored' = [stored EXCEPT ![deleting][f][m] = 0]
            BY <2>2
        <3> QED BY ONLY <1>1, <1>3, <3>1
    <2> QED BY <1>2, <2>1, <2>2
<1>5. /\ receipt' \in [Dirs -> [Files -> Forms \cup {Absent}]]
      /\ \A e \in Dirs \ {deleting} : receipt'[e] = receipt[e]
      /\ \/ receipt'[deleting] = receipt[deleting]
         \/ receipt'[deleting] = NoReceipt /\ deleting \in tombs
    BY ONLY <1>1, <1>2, <1>3
<1>6. VaultType'
    BY <1>1, <1>4, <1>5 DEF VaultInv, VaultType
<1>7. WorkInv'
    BY <1>1 DEF WorkInv
<1>8. UNCHANGED <<source, tombs, found, at, got, rows, pc, index, whole, doubt>>
    BY <1>1
<1>9. /\ VaultMoves
      /\ \A e \in Dirs : \A g \in Files : receipt'[e][g] # Absent =>
           IF e \in Legacy THEN g = "metrics.csv" ELSE g \in Kept
      /\ \A e \in Dirs : receipt'[e]["status.json"] # Absent =>
           /\ receipt[e]["status.json"] # Absent
           /\ source[e] = 2 /\ FinalForm(e, receipt[e])'
           /\ \A g \in Kept : receipt'[e][g] # Absent
    BY <1>1, <1>4, <1>5, <1>6, <1>8, RemovalKeeps
<1>10. FinalReceipts'
    BY ONLY <1>1, <1>9 DEF FinalReceipts, FinalForm
<1> QED BY <1>6, <1>7, <1>9, <1>10 DEF VaultInv

\* Every step of the vault.
LEMMA VaultStep == ASSUME VaultInv, Vault PROVE VaultInv' /\ VaultMoves
<1>1. ASSUME /\ UNCHANGED <<stored, receipt, reader, tables, changed, current>>
             /\ tombs \subseteq tombs' /\ \A d \in Dirs : source[d] = 2 => source'[d] = 2
             /\ VaultType'
             /\ job' = job \/ job' = NoJob
      PROVE  FinalReceipts' /\ VaultMoves
    <2>1. \A d \in Dirs : receipt[d]["status.json"] # Absent =>
            \A f \in Kept : receipt[d][f] # Absent
        BY DEF VaultInv, FinalReceipts
    <2>2. receipt' = receipt /\ stored' = stored
        BY <1>1
    <2>3. VaultMoves
        BY <1>1, <2>1, <2>2 DEF VaultMoves, reader, tables, Described, Held
    <2>4. CASE job' = NoJob
        BY <1>1, <2>2, <2>3, <2>4 DEF VaultInv, FinalReceipts, FinalForm
    <2>5. CASE job' = job
        <3>1. job # NoJob => job.dir \in Dirs
            BY DEF VaultInv, VaultType
        <3>2. Done(2)' = Done(2)
            BY <2>5 DEF Done
        <3> QED BY <1>1, <2>2, <2>3, <2>5, <3>1, <3>2 DEF VaultInv, FinalReceipts, FinalForm
    <2> QED BY <1>1, <2>3, <2>4, <2>5
<1>2. ASSUME NEW d \in Dirs, EndRun(d) PROVE VaultInv' /\ VaultMoves
    <2>1. VaultType'
        BY <1>2 DEF EndRun, VaultInv, VaultType
    <2>2. \A e \in Dirs : source[e] = 2 => source'[e] = 2
        BY <1>2 DEF EndRun, VaultInv, VaultType
    <2>3. FinalReceipts' /\ VaultMoves
        BY <1>1, <1>2, <2>1, <2>2 DEF EndRun
    <2>4. WorkInv'
        BY <1>2 DEF EndRun, VaultInv, WorkInv, Done, Held
    <2> QED BY <2>1, <2>3, <2>4 DEF VaultInv
<1>3. ASSUME NEW d \in Dirs, PlanSync(d) PROVE VaultInv' /\ VaultMoves
    <2>1. VaultMoves
        <3>1. \A e \in Dirs : receipt[e]["status.json"] # Absent =>
                \A f \in Kept : receipt[e][f] # Absent
            BY DEF VaultInv, FinalReceipts
        <3> QED BY <1>3, <3>1 DEF PlanSync, VaultMoves, reader, tables, Described, Held
    <2> QED BY <1>3, <2>1, PlanKeeps
<1>4. ASSUME NEW d \in Dirs, BeginDelete(d) PROVE VaultInv' /\ VaultMoves
    <2>1. VaultType'
        BY <1>4 DEF BeginDelete, VaultInv, VaultType
    <2>2. FinalReceipts' /\ VaultMoves
        BY <1>1, <1>4, <2>1 DEF BeginDelete
    <2>3. WorkInv'
        BY <1>4 DEF BeginDelete, WorkInv
    <2> QED BY <2>1, <2>2, <2>3 DEF VaultInv
<1>5. ASSUME EndDelete PROVE VaultInv' /\ VaultMoves
    <2>1. VaultType'
        BY <1>5 DEF EndDelete, VaultInv, VaultType
    <2>2. FinalReceipts' /\ VaultMoves
        BY <1>1, <1>5, <2>1 DEF EndDelete
    <2>3. WorkInv'
        BY <1>5 DEF EndDelete, VaultInv, WorkInv
    <2> QED BY <2>1, <2>2, <2>3 DEF VaultInv
<1>6. ASSUME KillWriter PROVE VaultInv' /\ VaultMoves
    <2>1. VaultType'
        BY <1>6 DEF KillWriter, VaultInv, VaultType
    <2>2. FinalReceipts' /\ VaultMoves
        BY <1>1, <1>6, <2>1 DEF KillWriter
    <2>3. WorkInv'
        BY <1>6 DEF KillWriter, WorkInv
    <2> QED BY <2>1, <2>2, <2>3 DEF VaultInv
<1> QED BY <1>2, <1>3, <1>4, <1>5, <1>6, CopyKeeps, OtherFormKeeps, ReceiptKeeps,
           RemoveOneKeeps DEF Vault

\* The refresh only looks.
LEMMA VaultStays == ASSUME VaultInv, UNCHANGED vault PROVE VaultInv'
<1>1. Done(2)' = Done(2) /\ \A i \in 1..7 : Done(i)' = Done(i)
    BY DEF vault, Done
<1> QED BY <1>1 DEF vault, VaultInv, VaultType, WorkInv, FinalReceipts, FinalForm, Held

-----------------------------------------------------------------------------
(* The refresh: what it has been to, and what that says of what it has.    *)

Visited(d) == \/ pc \in {"read", "write"}
              \/ pc = "walk" /\ \E i \in 1..Len(DirOrder) : i < at /\ DirOrder[i] = d
Processed(d) == \/ pc = "write"
                \/ pc = "read" /\ \E i \in 1..Len(DirOrder) : i < at /\ DirOrder[i] = d

ReaderType ==
    /\ pc \in {"idle", "walk", "read", "write"}
    /\ found \in [Dirs -> [Files -> Forms \cup {Absent}]]
    /\ at \in Nat /\ got \in [Files -> 0..3]
    /\ DOMAIN rows = Tables /\ DOMAIN index = Tables
    /\ \A t \in Tables : \A r \in rows[t] \cup index[t] : r.dir \in Dirs
    /\ whole \in BOOLEAN /\ changed \in BOOLEAN /\ current \in BOOLEAN
    /\ crossed \subseteq Dirs /\ doubt \subseteq Dirs

\* It has receipts of places it has visited and rows of those it has read.
PlaceInv ==
    /\ pc \in {"walk", "read"} => at \in 1..Len(DirOrder)
    /\ pc = "write" => at \in 1..Len(TableOrder)
    /\ pc # "read" => got = NotRead
    /\ \A d \in Dirs : found[d] # NoReceipt => Visited(d) /\ d \notin Hidden
    /\ \A d \in Dirs : \A f \in Files : found[d][f] # Absent =>
         IF d \in Legacy THEN f = "metrics.csv" ELSE f \in Kept
    /\ \A t \in Tables : \A r \in rows[t] : Processed(r.dir)

\* A receipt it has read holds as long as nothing of the run went under it, and
\* if it lists status.json, metrics.csv is the last edition or gone.
FoundInv ==
    /\ pc # "idle" => \A d \in Dirs \ crossed :
         /\ Described(d)
         /\ \A f \in Files : found[d][f] # Absent => stored[d][f][found[d][f]] # 0
    /\ \A d \in Dirs : found[d]["status.json"] # Absent =>
         /\ source[d] = 2 /\ FinalForm(d, found[d])
         /\ \A f \in Kept : found[d][f] # Absent
         /\ d \notin tombs => receipt[d]["status.json"] # Absent

\* The same of the files it has read of the run it is at.
GotInv ==
    pc = "read" => \A f \in Files : got[f] # 0 =>
        /\ found[Here][f] # Absent /\ Here \notin Legacy
        /\ Here \notin crossed => got[f] # 3
        /\ f = "metrics.csv" /\ found[Here]["status.json"] # Absent => got[f] \in {2, 3}

\* A row says that a run has ended only with all its rows beside it, and each
\* run whose receipt says so has such a row.
LooksEnded(d) == found[d]["status.json"] # Absent /\ found[d]["run.json"] # Absent
RowsInv ==
    /\ \A r \in rows["runs"] : r.state = "ended" =>
         /\ LooksEnded(r.dir) /\ r.n_metrics = Cardinality(RowsAt[r.dir][2])
         /\ r.dir \notin crossed =>
              {m \in rows["metrics"] : m.dir = r.dir} = MetricRows(r.dir, 2)
    /\ \A d \in Dirs \ crossed : Processed(d) /\ LooksEnded(d) =>
         \E r \in rows["runs"] : r.dir = d /\ r.state = "ended"

IndexInv ==
    /\ pc = "write" => \A i \in 1..Len(TableOrder) :
         i < at => index[TableOrder[i]] = rows[TableOrder[i]]
    /\ whole => \A r \in index["runs"] : r.state = "ended" /\ r.dir \notin doubt =>
         /\ r.n_metrics = Cardinality(RowsAt[r.dir][2])
         /\ Rows(r.dir) = MetricRows(r.dir, 2)
    /\ \A d \in Dirs \ tombs : ShowsEnded(d) =>
         /\ receipt[d]["status.json"] # Absent
         /\ d \notin Hidden /\ "run.json" \in Kept
         /\ Visited(d) => found[d]["status.json"] # Absent

\* While the vault does not change, what was read is what is there.
Known(d) == Shown(d) /\ (d \in Legacy \/ There(d, "run.json"))
MetricsAgree(metrics, d) ==
    {m \in metrics : m.dir = d} = IF Known(d) THEN MetricsThere(d) ELSE {}
RunsAgree(runs, d) ==
    /\ (\E r \in runs : r.dir = d) <=> Known(d)
    /\ (\E r \in runs : r.dir = d /\ r.state = "ended")
         <=> Known(d) /\ There(d, "status.json")
SameInv ==
    /\ pc # "idle" /\ current => ~changed
    /\ pc # "idle" /\ ~changed =>
         /\ \A d \in Dirs : Visited(d) =>
              found[d] = IF d \in Hidden THEN NoReceipt ELSE receipt[d]
         /\ \A d \in Dirs : Processed(d) =>
              MetricsAgree(rows["metrics"], d) /\ RunsAgree(rows["runs"], d)
    /\ pc = "read" /\ ~changed => \A f \in Files : got[f] # 0 =>
         got[f] = IF stored[Here][f][found[Here][f]] = 0 THEN 3
                  ELSE stored[Here][f][found[Here][f]]
    /\ current => \A d \in Dirs :
         MetricsAgree(index["metrics"], d) /\ RunsAgree(index["runs"], d)

ReaderInv ==
    /\ ReaderType /\ PlaceInv /\ FoundInv /\ GotInv /\ RowsInv /\ IndexInv /\ SameInv

LEMMA Orders ==
    /\ "metrics" \in Tables /\ "runs" \in Tables
    /\ Len(TableOrder) \in Nat \ {0} /\ Len(DirOrder) \in Nat \ {0}
    /\ \A i \in 1..Len(DirOrder) : DirOrder[i] \in Dirs
    /\ \A d \in Dirs : \E i \in 1..Len(DirOrder) : DirOrder[i] = d
    /\ \A i, j \in 1..Len(DirOrder) : DirOrder[i] = DirOrder[j] => i = j
    /\ \A t \in Tables : \E i \in 1..Len(TableOrder) : TableOrder[i] = t
    /\ \A i \in 1..Len(TableOrder) : TableOrder[i] \in Tables
<1>1. DOMAIN DirOrder = 1..Len(DirOrder) /\ Len(DirOrder) \in Nat
    BY IndexAssumption
<1>2. DOMAIN TableOrder = 1..Len(TableOrder) /\ Len(TableOrder) \in Nat
    BY IndexAssumption
<1>3. Len(DirOrder) # 0
    BY IndexAssumption
<1>4. "metrics" \in Tables /\ "runs" \in Tables
    BY IndexAssumption
<1>5. Len(TableOrder) # 0
    BY <1>2, <1>4 DEF Tables
<1> QED BY <1>1, <1>2, <1>3, <1>4, <1>5, IndexAssumption DEF Tables

\* Before a refresh, and after one that gave up, there is nothing to say.
LEMMA IdleHolds ==
    ASSUME pc = "idle", found = [d \in Dirs |-> NoReceipt], got = NotRead, rows = Empty
    PROVE  /\ PlaceInv /\ GotInv /\ RowsInv /\ FoundInv
           /\ \A d : ~Visited(d)
<1>1. \A d \in Dirs : \A f \in Files : found[d][f] = Absent
    BY DEF NoReceipt
<1>2. \A t \in Tables : rows[t] = {}
    BY DEF Empty
<1>3. "status.json" \in Files
    BY FileOrders
<1> QED BY <1>1, <1>2, <1>3, Orders DEF PlaceInv, GotInv, RowsInv, FoundInv, Visited,
           Processed, LooksEnded

LEMMA ReaderInit == Init => ReaderInv
<1> SUFFICES ASSUME Init PROVE ReaderInv
    OBVIOUS
<1>1. /\ pc = "idle" /\ found = [d \in Dirs |-> NoReceipt] /\ got = NotRead /\ rows = Empty
      /\ at = 1 /\ index = Empty /\ whole = FALSE /\ changed = TRUE /\ current = FALSE
      /\ crossed = {} /\ doubt = {}
    BY DEF Init
<1>2. ReaderType
    <2>1. found \in [Dirs -> [Files -> Forms \cup {Absent}]] /\ got \in [Files -> 0..3]
        BY ONLY <1>1 DEF NoReceipt, NotRead
    <2>2. /\ DOMAIN rows = Tables /\ DOMAIN index = Tables
          /\ \A t \in Tables : rows[t] \cup index[t] = {}
        BY ONLY <1>1 DEF Empty
    <2> QED BY ONLY <1>1, <2>1, <2>2 DEF ReaderType
<1>3. \A t \in Tables : index[t] = {}
    BY <1>1 DEF Empty
<1>4. IndexInv /\ SameInv
    BY <1>1, <1>3, Orders DEF IndexInv, SameInv, ShowsEnded
<1> QED BY <1>1, <1>2, <1>4, IdleHolds DEF ReaderInv

\* A step of the vault under the refresh.
LEMMA ReaderUnderVault ==
    ASSUME VaultInv, VaultInv', ReaderInv, VaultMoves PROVE ReaderInv'
<1>1. /\ pc' = pc /\ found' = found /\ at' = at /\ got' = got /\ rows' = rows
      /\ index' = index /\ whole' = whole /\ doubt' = doubt /\ Here' = Here
    BY DEF VaultMoves, Here
<1>2. \A d : /\ Visited(d)' = Visited(d) /\ Processed(d)' = Processed(d)
            /\ ShowsEnded(d)' = ShowsEnded(d) /\ LooksEnded(d)' = LooksEnded(d)
    BY <1>1 DEF Visited, Processed, ShowsEnded, LooksEnded
<1>3. ReaderType'
    <2>1. crossed' \subseteq Dirs
        BY DEF VaultMoves, ReaderInv, ReaderType
    <2>2. changed' \in BOOLEAN /\ current' \in BOOLEAN
        BY DEF VaultMoves, ReaderInv, ReaderType
    <2> QED BY <1>1, <2>1, <2>2 DEF ReaderInv, ReaderType
<1>4. PlaceInv'
    BY <1>1, <1>2 DEF ReaderInv, PlaceInv
<1>5. FoundInv'
    <2>1. ASSUME pc # "idle", NEW d \in Dirs \ crossed'
          PROVE  /\ Described(d)'
                 /\ \A f \in Files : found[d][f] # Absent => stored'[d][f][found[d][f]] # 0
        <3>1. d \notin crossed
            BY DEF VaultMoves
        <3>2. /\ Described(d)
              /\ \A f \in Files : found[d][f] # Absent => stored[d][f][found[d][f]] # 0
            BY <2>1, <3>1 DEF ReaderInv, FoundInv
        <3>3. \A f \in Files : found[d][f] # Absent => found[d][f] \in Forms
            BY DEF ReaderInv, ReaderType
        <3> QED BY <2>1, <3>2, <3>3 DEF VaultMoves
    <2>2. ASSUME NEW d \in Dirs, found[d]["status.json"] # Absent
          PROVE  /\ source'[d] = 2 /\ stored'[d]["metrics.csv"][found[d]["metrics.csv"]] \in {0, 2}
                 /\ \A f \in Kept : found[d][f] # Absent
                 /\ d \notin tombs' => receipt'[d]["status.json"] # Absent
        <3>1. /\ source[d] = 2 /\ FinalForm(d, found[d])
              /\ \A f \in Kept : found[d][f] # Absent
              /\ d \notin tombs => receipt[d]["status.json"] # Absent
            BY <2>2 DEF ReaderInv, FoundInv
        <3>2. found[d]["metrics.csv"] \in Forms
            BY <3>1, IndexAssumption, FileOrders DEF ReaderInv, ReaderType
        <3>3. source'[d] = 2 /\ stored'[d]["metrics.csv"][found[d]["metrics.csv"]] \in {0, 2}
            BY <3>1, <3>2 DEF VaultMoves, FinalForm
        <3>4. "status.json" \in Kept
            BY <2>2, FileOrders DEF ReaderInv, PlaceInv
        <3>5. d \notin tombs' => receipt'[d]["status.json"] # Absent
            BY <3>1, <3>4 DEF VaultMoves
        <3> QED BY <3>1, <3>3, <3>5
    <2> QED BY <1>1, <2>1, <2>2 DEF FoundInv, FinalForm
<1>6. GotInv'
    BY <1>1 DEF ReaderInv, GotInv, VaultMoves
<1>7. RowsInv'
    BY <1>1, <1>2 DEF ReaderInv, RowsInv, VaultMoves
<1>8. IndexInv'
    <2>1. ASSUME NEW d \in Dirs \ tombs', ShowsEnded(d)
          PROVE  receipt'[d]["status.json"] # Absent
        <3>1. receipt[d]["status.json"] # Absent
            BY <2>1 DEF VaultMoves, ReaderInv, IndexInv
        <3>2. "status.json" \in Kept
            BY <3>1, FileOrders DEF VaultInv, FinalReceipts
        <3> QED BY <3>1, <3>2 DEF VaultMoves
    <2>2. \A d \in Dirs \ tombs' : d \in Dirs \ tombs
        BY DEF VaultMoves
    <2>3. \A d : Rows(d)' = Rows(d)
        BY <1>1 DEF Rows
    <2> QED BY <1>1, <1>2, <2>1, <2>2, <2>3 DEF ReaderInv, IndexInv
<1>9. SameInv'
    <2>1. CASE changed' = TRUE /\ current' = FALSE
        BY <1>1, <2>1 DEF SameInv
    <2>2. CASE UNCHANGED <<stored, receipt, changed, current>>
        <3>1. \A d : /\ Known(d)' = Known(d) /\ MetricsThere(d)' = MetricsThere(d)
                    /\ There(d, "status.json")' = There(d, "status.json")
            BY <2>2 DEF Known, Shown, Synced, There, Held, MetricsThere
        <3>2. \A d : /\ MetricsAgree(rows["metrics"], d)' = MetricsAgree(rows["metrics"], d)
                    /\ MetricsAgree(index["metrics"], d)' = MetricsAgree(index["metrics"], d)
                    /\ RunsAgree(rows["runs"], d)' = RunsAgree(rows["runs"], d)
                    /\ RunsAgree(index["runs"], d)' = RunsAgree(index["runs"], d)
            BY <1>1, <3>1 DEF MetricsAgree, RunsAgree
        <3> QED BY <1>1, <1>2, <2>2, <3>2 DEF ReaderInv, SameInv
    <2> QED BY <2>1, <2>2 DEF VaultMoves
<1> QED BY <1>3, <1>4, <1>5, <1>6, <1>7, <1>8, <1>9 DEF ReaderInv

\* What holds where index and vault are left alone.
LEMMA SameVault ==
    ASSUME UNCHANGED vault
    PROVE  /\ \A d : /\ Known(d)' = Known(d) /\ MetricsThere(d)' = MetricsThere(d)
                    /\ There(d, "status.json")' = There(d, "status.json")
                    /\ Described(d)' = Described(d)
           /\ stored' = stored /\ receipt' = receipt /\ source' = source /\ tombs' = tombs
BY DEF vault, Known, Shown, Synced, There, Held, MetricsThere, Described

LEMMA BeginKeeps ==
    ASSUME VaultInv, ReaderInv, BeginRefresh PROVE ReaderInv'
<1>1. /\ pc' = "walk" /\ found' = [d \in Dirs |-> NoReceipt] /\ at' = 1 /\ got' = NotRead
      /\ rows' = Empty /\ changed' = FALSE /\ crossed' = {d \in Dirs : ~Described(d)}
      /\ UNCHANGED vault
      /\ index' = index /\ whole' = whole /\ doubt' = doubt /\ current' = current
    BY DEF BeginRefresh, tables
<1>2. /\ \A d \in Dirs : found'[d] = NoReceipt /\ \A f \in Files : found'[d][f] = Absent
      /\ \A t \in Tables : rows'[t] = {}
      /\ "status.json" \in Files
    BY <1>1, FileOrders DEF NoReceipt, Empty
<1>3. \A d : ~Visited(d)' /\ ~Processed(d)'
    BY <1>1, Orders DEF Visited, Processed
<1>4. ReaderType'
    <2>1. found' \in [Dirs -> [Files -> Forms \cup {Absent}]] /\ got' \in [Files -> 0..3]
        BY ONLY <1>1 DEF NoReceipt, NotRead
    <2>2. /\ DOMAIN rows' = Tables /\ DOMAIN index' = Tables
          /\ \A t \in Tables : \A r \in rows'[t] \cup index'[t] : r.dir \in Dirs
        BY <1>1, <1>2 DEF ReaderInv, ReaderType, Empty
    <2> QED BY <1>1, <2>1, <2>2 DEF ReaderInv, ReaderType
<1>5. PlaceInv'
    BY <1>1, <1>2, Orders DEF PlaceInv
<1>6. FoundInv'
    BY <1>1, <1>2, SameVault DEF FoundInv
<1>7. GotInv' /\ RowsInv'
    BY <1>1, <1>2, <1>3, Orders DEF GotInv, RowsInv
<1>8. IndexInv'
    <2>1. \A d : ShowsEnded(d)' = ShowsEnded(d) /\ Rows(d)' = Rows(d)
        BY <1>1 DEF ShowsEnded, Rows
    <2> QED BY <1>1, <1>3, <2>1, SameVault DEF ReaderInv, IndexInv
<1>9. SameInv'
    <2>1. \A d : /\ MetricsAgree(index["metrics"], d)' = MetricsAgree(index["metrics"], d)
                /\ RunsAgree(index["runs"], d)' = RunsAgree(index["runs"], d)
        BY <1>1, SameVault DEF MetricsAgree, RunsAgree
    <2> QED BY <1>1, <1>3, <2>1 DEF ReaderInv, SameInv
<1> QED BY <1>4, <1>5, <1>6, <1>7, <1>8, <1>9 DEF ReaderInv

LEMMA GivingUpKeeps ==
    ASSUME VaultInv, ReaderInv, GivesUp, UNCHANGED <<vault, tables, changed, current>>
    PROVE  ReaderInv'
<1>1. /\ pc' = "idle" /\ found' = [d \in Dirs |-> NoReceipt] /\ at' = 1 /\ got' = NotRead
      /\ rows' = Empty /\ crossed' = {} /\ UNCHANGED vault
      /\ index' = index /\ whole' = whole /\ doubt' = doubt
      /\ current' = current /\ changed' = changed
    BY DEF GivesUp, tables
<1>2. /\ PlaceInv' /\ GotInv' /\ RowsInv' /\ FoundInv'
      /\ \A d : ~Visited(d)'
    <2>1. \A d \in Dirs : \A f \in Files : found'[d][f] = Absent
        BY <1>1 DEF NoReceipt
    <2>2. \A t \in Tables : rows'[t] = {}
        BY <1>1 DEF Empty
    <2>3. "status.json" \in Files
        BY FileOrders
    <2> QED BY <1>1, <2>1, <2>2, <2>3, Orders DEF PlaceInv, GotInv, RowsInv, FoundInv, Visited,
               Processed, LooksEnded
<1>3. ReaderType'
    <2>1. found' \in [Dirs -> [Files -> Forms \cup {Absent}]] /\ got' \in [Files -> 0..3]
        BY ONLY <1>1 DEF NoReceipt, NotRead
    <2>2. /\ DOMAIN rows' = Tables /\ DOMAIN index' = Tables
          /\ \A t \in Tables : \A r \in rows'[t] \cup index'[t] : r.dir \in Dirs
        BY <1>1 DEF ReaderInv, ReaderType, Empty
    <2> QED BY <1>1, <2>1, <2>2 DEF ReaderInv, ReaderType
<1>4. IndexInv'
    <2>1. \A d : ShowsEnded(d)' = ShowsEnded(d) /\ Rows(d)' = Rows(d)
        BY <1>1 DEF ShowsEnded, Rows
    <2> QED BY <1>1, <1>2, <2>1, SameVault DEF ReaderInv, IndexInv
<1>5. SameInv'
    <2>1. \A d : /\ MetricsAgree(index["metrics"], d)' = MetricsAgree(index["metrics"], d)
                /\ RunsAgree(index["runs"], d)' = RunsAgree(index["runs"], d)
        BY <1>1, SameVault DEF MetricsAgree, RunsAgree
    <2> QED BY <1>1, <2>1 DEF ReaderInv, SameInv
<1> QED BY <1>2, <1>3, <1>4, <1>5 DEF ReaderInv

LEMMA VisitKeeps ==
    ASSUME VaultInv, ReaderInv, VisitDir, NEW h, h = Here PROVE ReaderInv'
<1>1. /\ pc = "walk" /\ at \in 1..Len(DirOrder) /\ h = DirOrder[at] /\ h \in Dirs
      /\ got = NotRead
    BY Orders DEF VisitDir, ReaderInv, PlaceInv, Here
<1>2. /\ found' = IF h \in Hidden THEN found ELSE [found EXCEPT ![h] = receipt[h]]
      /\ \/ at < Len(DirOrder) /\ at' = at + 1 /\ pc' = "walk"
         \/ at = Len(DirOrder) /\ at' = 1 /\ pc' = "read"
      /\ UNCHANGED vault /\ got' = got /\ rows' = rows /\ crossed' = crossed
      /\ index' = index /\ whole' = whole /\ doubt' = doubt
      /\ changed' = changed /\ current' = current
    BY <1>1, Orders DEF VisitDir, Step, tables
<1>3. \A d \in Dirs : /\ Visited(d)' <=> Visited(d) \/ d = h
                      /\ ~Processed(d) /\ ~Processed(d)'
    <2>1. \A d \in Dirs : Visited(d) <=> \E i \in 1..Len(DirOrder) : i < at /\ DirOrder[i] = d
        BY <1>1 DEF Visited
    <2>2. \A d \in Dirs : ~Processed(d) /\ ~Processed(d)'
        BY <1>1, <1>2, Orders DEF Processed
    <2>3. CASE at < Len(DirOrder) /\ at' = at + 1 /\ pc' = "walk"
        <3>1. \A d \in Dirs : Visited(d)' <=>
                \E i \in 1..Len(DirOrder) : i < at + 1 /\ DirOrder[i] = d
            BY <2>3 DEF Visited
        <3>2. \A i \in 1..Len(DirOrder) : i < at + 1 <=> i < at \/ i = at
            BY <1>1, Orders
        <3> QED BY <1>1, <2>1, <2>2, <3>1, <3>2
    <2>4. CASE at = Len(DirOrder) /\ pc' = "read"
        <3>1. \A d \in Dirs : Visited(d)'
            BY <2>4 DEF Visited
        <3>2. \A d \in Dirs : \E i \in 1..Len(DirOrder) : (i < at \/ i = at) /\ DirOrder[i] = d
            BY <2>4, Orders
        <3> QED BY <1>1, <2>1, <2>2, <3>1, <3>2
    <2> QED BY <1>2, <2>2, <2>3, <2>4
<1>4. /\ found \in [Dirs -> [Files -> Forms \cup {Absent}]]
      /\ receipt \in [Dirs -> [Files -> Forms \cup {Absent}]]
    BY DEF ReaderInv, ReaderType, VaultInv, VaultType
<1>5. /\ found' \in [Dirs -> [Files -> Forms \cup {Absent}]]
      /\ \A d \in Dirs : found'[d] = IF d = h /\ h \notin Hidden THEN receipt[d] ELSE found[d]
    BY ONLY <1>1, <1>2, <1>4
<1>6. ReaderType'
    BY <1>1, <1>2, <1>5, Orders DEF ReaderInv, ReaderType
<1>7. \A t \in Tables : rows[t] = {}
    <2>1. \A t \in Tables : \A r \in rows[t] : r.dir \in Dirs /\ Processed(r.dir)
        BY DEF ReaderInv, ReaderType, PlaceInv
    <2> QED BY <1>3, <2>1
<1>8. PlaceInv'
    <2>1. \A d \in Dirs : found'[d] # NoReceipt => Visited(d)' /\ d \notin Hidden
        BY <1>3, <1>5 DEF ReaderInv, PlaceInv
    <2>2. \A d \in Dirs : \A f \in Files : found'[d][f] # Absent =>
            IF d \in Legacy THEN f = "metrics.csv" ELSE f \in Kept
        BY <1>5 DEF ReaderInv, PlaceInv, VaultInv, FinalReceipts
    <2> QED BY <1>1, <1>2, <1>7, <2>1, <2>2, Orders DEF PlaceInv
<1>9. FoundInv'
    <2>1. ASSUME NEW d \in Dirs \ crossed
          PROVE  /\ Described(d)
                 /\ \A f \in Files : found'[d][f] # Absent => stored[d][f][found'[d][f]] # 0
        <3>1. /\ Described(d)
              /\ \A f \in Files : found[d][f] # Absent => stored[d][f][found[d][f]] # 0
            BY <1>1, <2>1 DEF ReaderInv, FoundInv
        <3>2. \A f \in Files : receipt[d][f] # Absent => stored[d][f][receipt[d][f]] # 0
            BY <3>1 DEF Described, Held
        <3> QED BY <1>5, <3>1, <3>2
    <2>2. ASSUME NEW d \in Dirs, found'[d]["status.json"] # Absent
          PROVE  /\ source[d] = 2 /\ FinalForm(d, found'[d])
                 /\ \A f \in Kept : found'[d][f] # Absent
                 /\ d \notin tombs => receipt[d]["status.json"] # Absent
        <3>1. CASE found'[d] = receipt[d]
            BY <2>2, <3>1 DEF VaultInv, FinalReceipts
        <3>2. CASE found'[d] = found[d]
            BY <2>2, <3>2 DEF ReaderInv, FoundInv
        <3> QED BY <1>5, <3>1, <3>2
    <2> QED BY <1>2, <2>1, <2>2, SameVault DEF FoundInv, FinalForm
<1>10. GotInv' /\ RowsInv'
    <2>1. \A f \in Files : got'[f] = 0
        BY <1>1, <1>2 DEF NotRead
    <2> QED BY <1>2, <1>3, <1>6, <1>7, <2>1, Orders DEF GotInv, RowsInv, ReaderType
<1>11. IndexInv'
    <2>1. \A d : ShowsEnded(d)' = ShowsEnded(d) /\ Rows(d)' = Rows(d)
        BY <1>2 DEF ShowsEnded, Rows
    <2>2. \A d \in Dirs \ tombs : ShowsEnded(d) =>
            /\ receipt[d]["status.json"] # Absent
            /\ d \notin Hidden /\ "run.json" \in Kept
            /\ Visited(d)' => found'[d]["status.json"] # Absent
        BY <1>3, <1>5 DEF ReaderInv, IndexInv
    <2> QED BY <1>2, <2>1, <2>2, SameVault DEF ReaderInv, IndexInv
<1>12. SameInv'
    <2>1. \A d : /\ MetricsAgree(index["metrics"], d)' = MetricsAgree(index["metrics"], d)
                /\ RunsAgree(index["runs"], d)' = RunsAgree(index["runs"], d)
        BY <1>2, SameVault DEF MetricsAgree, RunsAgree
    <2>2. ~changed => \A d \in Dirs : Visited(d)' =>
            found'[d] = IF d \in Hidden THEN NoReceipt ELSE receipt[d]
        <3>1. ~changed => \A d \in Dirs : Visited(d) =>
                found[d] = IF d \in Hidden THEN NoReceipt ELSE receipt[d]
            BY <1>1 DEF ReaderInv, SameInv
        <3>2. h \in Hidden => found[h] = NoReceipt
            BY <1>1 DEF ReaderInv, PlaceInv
        <3> QED BY <1>3, <1>5, <3>1, <3>2
    <2>3. \A f \in Files : got'[f] = 0
        BY <1>1, <1>2 DEF NotRead
    <2> QED BY <1>1, <1>2, <1>3, <2>1, <2>2, <2>3, SameVault DEF ReaderInv, SameInv
<1> QED BY <1>6, <1>8, <1>9, <1>10, <1>11, <1>12 DEF ReaderInv

LEMMA ReadKeeps ==
    ASSUME VaultInv, ReaderInv, ReadFile, NEW h, h = Here PROVE ReaderInv'
<1>1. /\ pc = "read" /\ at \in 1..Len(DirOrder) /\ h = DirOrder[at] /\ h \in Dirs
      /\ h \notin Legacy
    BY Orders DEF ReadFile, Reading, ReaderInv, PlaceInv, Here
<1>2. PICK f \in Files :
        /\ found[h][f] # Absent /\ got[f] = 0
        /\ got' = [got EXCEPT ![f] = IF StoredBytes(h, f, found[h]) = 0 THEN 3
                                    ELSE StoredBytes(h, f, found[h])]
    <2> DEFINE i == CHOOSE k \in Unread : \A j \in Unread : k <= j
    <2>1. Unread \subseteq 1..7
        BY FileOrders DEF Unread
    <2>2. i \in Unread
        <3>1. Unread # {}
            BY DEF ReadFile
        <3>2. \E k \in Unread : \A j \in Unread : k <= j
            <4>1. Unread \subseteq Nat
                BY <2>1
            <4> HIDE DEF i
            <4> QED BY <3>1, <4>1, LeastPosition
        <3> QED BY <3>2
    <2>3. got' = [got EXCEPT ![ReadOrder[i]] =
                    IF StoredBytes(h, ReadOrder[i], found[h]) = 0 THEN 3
                    ELSE StoredBytes(h, ReadOrder[i], found[h])]
        BY DEF ReadFile
    <2> HIDE DEF i
    <2>4. ReadOrder[i] \in Files /\ found[h][ReadOrder[i]] # Absent /\ got[ReadOrder[i]] = 0
        BY <2>1, <2>2, FileOrders DEF Unread
    <2> QED BY <2>3, <2>4
<1>3. /\ pc' = pc /\ found' = found /\ at' = at /\ rows' = rows /\ crossed' = crossed
      /\ index' = index /\ whole' = whole /\ doubt' = doubt /\ Here' = Here
      /\ changed' = changed /\ current' = current /\ UNCHANGED vault
    BY DEF ReadFile, tables, Here
<1>4. PICK v \in 1..3 :
        /\ got' = [got EXCEPT ![f] = v] /\ stored[h][f][found[h][f]] \in 0..2
        /\ v = IF stored[h][f][found[h][f]] = 0 THEN 3 ELSE stored[h][f][found[h][f]]
    <2>1. found[h][f] \in Forms
        BY <1>1, <1>2 DEF ReaderInv, ReaderType
    <2>2. stored[h][f][found[h][f]] \in 0..2
        BY <1>1, <2>1 DEF VaultInv, VaultType
    <2>3. StoredBytes(h, f, found[h]) = stored[h][f][found[h][f]]
        BY <1>2 DEF StoredBytes
    <2> DEFINE b == stored[h][f][found[h][f]]
    <2>4. got' = [got EXCEPT ![f] = IF b = 0 THEN 3 ELSE b] /\ b \in 0..2
        BY <1>2, <2>2, <2>3
    <2>5. (IF b = 0 THEN 3 ELSE b) \in 1..3
        BY <2>4
    <2> QED BY <2>4, <2>5
<1>5. /\ got \in [Files -> 0..3] /\ got' \in [Files -> 0..3]
      /\ \A g \in Files : got'[g] = IF g = f THEN v ELSE got[g]
    <2>1. got \in [Files -> 0..3]
        BY DEF ReaderInv, ReaderType
    <2> QED BY ONLY <1>2, <1>4, <2>1
<1>6. ReaderType'
    BY <1>3, <1>5 DEF ReaderInv, ReaderType
<1>7. \A d : /\ Visited(d)' = Visited(d) /\ Processed(d)' = Processed(d)
            /\ ShowsEnded(d)' = ShowsEnded(d) /\ LooksEnded(d)' = LooksEnded(d)
            /\ Rows(d)' = Rows(d)
    BY <1>3 DEF Visited, Processed, ShowsEnded, LooksEnded, Rows
<1>8. PlaceInv'
    BY <1>1, <1>3, <1>7 DEF ReaderInv, PlaceInv
<1>9. FoundInv'
    BY <1>3, SameVault DEF ReaderInv, FoundInv, FinalForm
<1>10. GotInv'
    <2>1. h \notin crossed => v # 3
        BY <1>1, <1>2, <1>4 DEF ReaderInv, FoundInv
    <2>2. f = "metrics.csv" /\ found[h]["status.json"] # Absent => v \in {2, 3}
        BY <1>1, <1>4 DEF ReaderInv, FoundInv, FinalForm
    <2>3. \A g \in Files : got[g] # 0 =>
            /\ found[h][g] # Absent /\ h \notin Legacy
            /\ h \notin crossed => got[g] # 3
            /\ g = "metrics.csv" /\ found[h]["status.json"] # Absent => got[g] \in {2, 3}
        BY <1>1 DEF ReaderInv, GotInv
    <2> QED BY ONLY <1>1, <1>2, <1>3, <1>5, <2>1, <2>2, <2>3, h = Here DEF GotInv
<1>11. RowsInv'
    BY <1>3, <1>7 DEF ReaderInv, RowsInv
<1>12. IndexInv'
    BY <1>3, <1>7, SameVault DEF ReaderInv, IndexInv
<1>13. SameInv'
    <2>1. \A d : /\ MetricsAgree(index["metrics"], d)' = MetricsAgree(index["metrics"], d)
                /\ RunsAgree(index["runs"], d)' = RunsAgree(index["runs"], d)
                /\ MetricsAgree(rows["metrics"], d)' = MetricsAgree(rows["metrics"], d)
                /\ RunsAgree(rows["runs"], d)' = RunsAgree(rows["runs"], d)
        BY <1>3, SameVault DEF MetricsAgree, RunsAgree
    <2>2. stored' = stored /\ receipt' = receipt
        BY <1>3, SameVault
    <2>3. ~changed => \A g \in Files : got'[g] # 0 =>
            got'[g] = IF stored[h][g][found[h][g]] = 0 THEN 3 ELSE stored[h][g][found[h][g]]
        BY <1>1, <1>4, <1>5 DEF ReaderInv, SameInv
    <2> QED BY <1>3, <1>7, <2>1, <2>2, <2>3 DEF ReaderInv, SameInv
<1> QED BY <1>6, <1>8, <1>9, <1>10, <1>11, <1>12, <1>13 DEF ReaderInv

-----------------------------------------------------------------------------
(* The rows of one run.                                                    *)

\* What the invariant asks of the rows that are collected of the run it is at.
GoodRows(new) ==
    /\ \A t \in Tables : \A r \in new[t] : r.dir = Here
    /\ \A r \in new["runs"] : r.state = "ended" =>
         /\ LooksEnded(Here) /\ r.n_metrics = Cardinality(RowsAt[Here][2])
         /\ Here \notin crossed => new["metrics"] = MetricRows(Here, 2)
    /\ Here \notin crossed /\ LooksEnded(Here) => \E r \in new["runs"] : r.state = "ended"
    /\ ~changed => MetricsAgree(new["metrics"], Here) /\ RunsAgree(new["runs"], Here)

LEMMA CollectingKeeps ==
    ASSUME VaultInv, ReaderInv, Reading, NextDir, NEW h, h = Here, NEW new, GoodRows(new),
           DOMAIN rows' = Tables, \A t \in Tables : rows'[t] = rows[t] \cup new[t],
           UNCHANGED <<vault, found, crossed, tables, changed, current>>
    PROVE  ReaderInv'
<1>1. /\ pc = "read" /\ at \in 1..Len(DirOrder) /\ h = DirOrder[at] /\ h \in Dirs
    BY Orders DEF Reading, ReaderInv, PlaceInv, Here
<1>2. /\ \/ at < Len(DirOrder) /\ at' = at + 1 /\ pc' = "read"
         \/ at = Len(DirOrder) /\ at' = 1 /\ pc' = "write"
      /\ UNCHANGED vault /\ got' = NotRead /\ found' = found /\ crossed' = crossed
      /\ index' = index /\ whole' = whole /\ doubt' = doubt
      /\ changed' = changed /\ current' = current
    BY <1>1, Orders DEF NextDir, Step, tables
<1>3. \A d \in Dirs : /\ Processed(d)' <=> Processed(d) \/ d = h
                      /\ Visited(d) /\ Visited(d)' /\ ~Processed(h)
    <2>1. \A d \in Dirs : Processed(d) <=> \E i \in 1..Len(DirOrder) : i < at /\ DirOrder[i] = d
        BY <1>1 DEF Processed
    <2>2. \A d \in Dirs : Visited(d) /\ Visited(d)'
        BY <1>1, <1>2 DEF Visited
    <2>3. ~Processed(h)
        <3>1. \A i \in 1..Len(DirOrder) : DirOrder[i] = h => i = at
            BY <1>1, Orders
        <3> QED BY <1>1, <2>1, <3>1
    <2>4. CASE at < Len(DirOrder) /\ at' = at + 1 /\ pc' = "read"
        <3>1. \A d \in Dirs : Processed(d)' <=>
                \E i \in 1..Len(DirOrder) : i < at + 1 /\ DirOrder[i] = d
            BY <2>4 DEF Processed
        <3>2. \A i \in 1..Len(DirOrder) : i < at + 1 <=> i < at \/ i = at
            BY <1>1, Orders
        <3> QED BY <1>1, <2>1, <2>2, <2>3, <3>1, <3>2
    <2>5. CASE at = Len(DirOrder) /\ pc' = "write"
        <3>1. \A d \in Dirs : Processed(d)'
            BY <2>5 DEF Processed
        <3>2. \A d \in Dirs : \E i \in 1..Len(DirOrder) : (i < at \/ i = at) /\ DirOrder[i] = d
            BY <2>5, Orders
        <3> QED BY <1>1, <2>1, <2>2, <2>3, <3>1, <3>2
    <2> QED BY <1>2, <2>4, <2>5
<1>4. /\ DOMAIN rows' = Tables
      /\ \A t \in Tables : rows'[t] = rows[t] \cup new[t]
      /\ \A t \in Tables : \A r \in new[t] : r.dir = h
      /\ \A t \in Tables : \A r \in rows[t] : r.dir \in Dirs /\ Processed(r.dir) /\ r.dir # h
    BY <1>3 DEF GoodRows, ReaderInv, ReaderType, PlaceInv
<1>5. \A d : d # h => {m \in rows'["metrics"] : m.dir = d} = {m \in rows["metrics"] : m.dir = d}
    BY <1>4, Orders
<1>6. {m \in rows'["metrics"] : m.dir = h} = new["metrics"]
    BY <1>4, Orders
<1>7. ReaderType'
    <2>1. got' \in [Files -> 0..3]
        BY ONLY <1>2 DEF NotRead
    <2>2. \A t \in Tables : \A r \in rows'[t] \cup index'[t] : r.dir \in Dirs
        BY <1>1, <1>2, <1>4 DEF ReaderInv, ReaderType
    <2> QED BY <1>1, <1>2, <1>4, <2>1, <2>2, Orders DEF ReaderInv, ReaderType
<1>8. PlaceInv'
    <2>1. \A t \in Tables : \A r \in rows'[t] : Processed(r.dir)'
        BY <1>1, <1>3, <1>4
    <2>2. \A d \in Dirs : found'[d] # NoReceipt => Visited(d)' /\ d \notin Hidden
        BY <1>2, <1>3 DEF ReaderInv, PlaceInv
    <2>3. /\ pc' \in {"walk", "read"} => at' \in 1..Len(DirOrder)
          /\ pc' = "write" => at' \in 1..Len(TableOrder)
        BY <1>1, <1>2, Orders
    <2> QED BY <1>2, <2>1, <2>2, <2>3 DEF ReaderInv, PlaceInv
<1>9. FoundInv'
    BY <1>1, <1>2, SameVault DEF ReaderInv, FoundInv, FinalForm
<1>10. GotInv'
    BY <1>2 DEF GotInv, NotRead
<1>11. RowsInv'
    <2>1. \A d : LooksEnded(d)' = LooksEnded(d)
        BY <1>2 DEF LooksEnded
    <2>2. ASSUME NEW r \in rows'["runs"], r.state = "ended"
          PROVE  /\ LooksEnded(r.dir) /\ r.n_metrics = Cardinality(RowsAt[r.dir][2])
                 /\ r.dir \notin crossed =>
                      {m \in rows'["metrics"] : m.dir = r.dir} = MetricRows(r.dir, 2)
        <3>1. CASE r \in rows["runs"]
            BY <1>4, <1>5, <2>2, <3>1, Orders DEF ReaderInv, RowsInv
        <3>2. CASE r \in new["runs"]
            BY <1>4, <1>6, <2>2, <3>2, Orders DEF GoodRows
        <3> QED BY <1>4, <2>2, <3>1, <3>2, Orders
    <2>3. ASSUME NEW d \in Dirs \ crossed, Processed(d)', LooksEnded(d)
          PROVE  \E r \in rows'["runs"] : r.dir = d /\ r.state = "ended"
        <3>1. CASE d = h
            BY <1>4, <2>3, <3>1, Orders DEF GoodRows
        <3>2. CASE d # h
            BY <1>3, <1>4, <2>3, <3>2, Orders DEF ReaderInv, RowsInv
        <3> QED BY <3>1, <3>2
    <2> QED BY ONLY <1>2, <2>1, <2>2, <2>3 DEF RowsInv
<1>12. IndexInv'
    <2>1. \A d : ShowsEnded(d)' = ShowsEnded(d) /\ Rows(d)' = Rows(d)
        BY <1>2 DEF ShowsEnded, Rows
    <2>2. pc' = "write" => at' = 1
        BY <1>2
    <2> QED BY <1>2, <1>3, <2>1, <2>2, SameVault DEF ReaderInv, IndexInv
<1>13. SameInv'
    <2>1. \A d : /\ MetricsAgree(index["metrics"], d)' = MetricsAgree(index["metrics"], d)
                /\ RunsAgree(index["runs"], d)' = RunsAgree(index["runs"], d)
        BY <1>2, SameVault DEF MetricsAgree, RunsAgree
    <2>2. ASSUME ~changed, NEW d \in Dirs, Processed(d)'
          PROVE  MetricsAgree(rows["metrics"], d)' /\ RunsAgree(rows["runs"], d)'
        <3>1. CASE d = h
            <4>1. MetricsAgree(new["metrics"], h) /\ RunsAgree(new["runs"], h)
                BY <2>2 DEF GoodRows
            <4>2. {m \in new["metrics"] : m.dir = h} = new["metrics"]
                BY <1>4, Orders
            <4>3. \A r : r \in rows'["runs"] /\ r.dir = h <=> r \in new["runs"] /\ r.dir = h
                BY <1>4, Orders
            <4> QED BY <1>2, <1>6, <3>1, <4>1, <4>2, <4>3, SameVault DEF MetricsAgree, RunsAgree
        <3>2. CASE d # h
            <4>1. MetricsAgree(rows["metrics"], d) /\ RunsAgree(rows["runs"], d)
                BY <1>1, <1>3, <2>2, <3>2 DEF ReaderInv, SameInv
            <4>2. \A r : r \in rows'["runs"] /\ r.dir = d <=> r \in rows["runs"] /\ r.dir = d
                BY <1>4, <3>2, Orders
            <4> QED BY <1>2, <1>5, <3>2, <4>1, <4>2, SameVault DEF MetricsAgree, RunsAgree
        <3> QED BY <3>1, <3>2
    <2>3. \A f \in Files : got'[f] = 0
        BY <1>2 DEF NotRead
    <2>4. ~changed => \A d \in Dirs :
            found[d] = IF d \in Hidden THEN NoReceipt ELSE receipt[d]
        BY <1>1, <1>3 DEF ReaderInv, SameInv
    <2>5. /\ current => ~changed
          /\ current => \A d \in Dirs :
               MetricsAgree(index["metrics"], d) /\ RunsAgree(index["runs"], d)
        BY <1>1 DEF ReaderInv, SameInv
    <2>6. receipt' = receipt
        BY <1>2, SameVault
    <2> QED BY ONLY <1>2, <2>1, <2>2, <2>3, <2>4, <2>5, <2>6 DEF SameInv
<1> QED BY <1>7, <1>8, <1>9, <1>10, <1>11, <1>12, <1>13 DEF ReaderInv

\* A run of which nothing is read.
LEMMA SkipKeeps ==
    ASSUME VaultInv, ReaderInv, SkipDir PROVE ReaderInv'
<1>1. /\ pc = "read" /\ Here \in Dirs /\ found[Here] = NoReceipt
    BY Orders DEF SkipDir, Reading, ReaderInv, PlaceInv, Here
<1>2. \A t \in Tables : Empty[t] = {} /\ rows'[t] = rows[t] \cup Empty[t]
    BY DEF SkipDir, Empty
<1>3. DOMAIN rows' = Tables
    BY DEF SkipDir, ReaderInv, ReaderType
<1>4. ~LooksEnded(Here)
    BY <1>1, FileOrders DEF LooksEnded, NoReceipt
<1>5. ~changed => ~Known(Here)
    <2>1. ~changed => found[Here] = IF Here \in Hidden THEN NoReceipt ELSE receipt[Here]
        BY <1>1 DEF ReaderInv, SameInv, Visited
    <2> QED BY <1>1, <2>1 DEF Known, Shown, Synced
<1>6. GoodRows(Empty)
    BY <1>2, <1>4, <1>5, Orders DEF GoodRows, MetricsAgree, RunsAgree
<1> QED BY <1>2, <1>3, <1>6, CollectingKeeps DEF SkipDir

LEMMA CanonicalKeeps ==
    ASSUME VaultInv, ReaderInv, FlattenCanonical, NEW h, h = Here PROVE ReaderInv'
<1>1. /\ pc = "read" /\ h \in Dirs /\ h \notin Legacy /\ found[h] # NoReceipt
      /\ h \notin Hidden
    BY Orders DEF FlattenCanonical, Reading, ReaderInv, PlaceInv, Here
<1>2. /\ got \in [Files -> 0..3]
      /\ "run.json" \in Files /\ "status.json" \in Files /\ "metrics.csv" \in Files
      /\ "metrics.csv" \in Kept
    BY FileOrders, IndexAssumption DEF ReaderInv, ReaderType
<1>3. \/ got["run.json"] = 3
      \/ \A f \in Files : found[h][f] # Absent => got[f] # 0
    <2>1. Unread = {} => \A f \in Files : found[h][f] # Absent => got[f] # 0
        BY FileOrders DEF Unread
    <2> QED BY <2>1 DEF FlattenCanonical
<1>4. \A f \in Files : got[f] # 0 =>
        /\ found[h][f] # Absent
        /\ h \notin crossed => got[f] # 3
        /\ f = "metrics.csv" /\ found[h]["status.json"] # Absent => got[f] \in {2, 3}
    BY <1>1 DEF ReaderInv, GotInv
<1>5. ~changed => /\ receipt[h] = found[h] /\ Shown(h)
                 /\ \A f \in Files : got[f] # 0 =>
                      /\ got[f] = IF stored[h][f][receipt[h][f]] = 0 THEN 3
                                 ELSE stored[h][f][receipt[h][f]]
                      /\ stored[h][f][receipt[h][f]] \in 0..2
    <2>1. ~changed => receipt[h] = found[h]
        BY <1>1 DEF ReaderInv, SameInv, Visited
    <2>2. ~changed => Shown(h)
        BY <1>1, <2>1 DEF Shown, Synced
    <2>3. ~changed => \A f \in Files : got[f] # 0 =>
            got[f] = IF stored[h][f][found[h][f]] = 0 THEN 3 ELSE stored[h][f][found[h][f]]
        BY <1>1 DEF ReaderInv, SameInv
    <2>4. \A f \in Files : got[f] # 0 => stored[h][f][found[h][f]] \in 0..2
        <3>1. \A f \in Files : got[f] # 0 => found[h][f] \in Forms
            BY <1>1, <1>4 DEF ReaderInv, ReaderType
        <3> QED BY <1>1, <3>1 DEF VaultInv, VaultType
    <2> QED BY <2>1, <2>2, <2>3, <2>4
<1>6. CASE ~IsRead("run.json")
    <2>1. got["run.json"] \in {0, 3}
        BY <1>2, <1>6 DEF IsRead
    <2>2. h \notin crossed => ~LooksEnded(h)
        BY <1>2, <1>3, <1>4, <2>1 DEF LooksEnded
    <2>3. ~changed => ~Known(h)
        BY <1>1, <1>2, <1>3, <1>5, <2>1 DEF Known, There, Held
    <2>4. \A t \in Tables : Empty[t] = {} /\ rows'[t] = rows[t] \cup Empty[t]
        BY <1>6 DEF FlattenCanonical, Empty
    <2>5. DOMAIN rows' = Tables
        BY <1>6 DEF FlattenCanonical, ReaderInv, ReaderType
    <2>6. GoodRows(Empty)
        BY <2>2, <2>3, <2>4, Orders DEF GoodRows, MetricsAgree, RunsAgree
    <2> QED BY <2>4, <2>5, <2>6, CollectingKeeps DEF FlattenCanonical
<1>7. CASE IsRead("run.json")
    <2>1. \A f \in Files : (found[h][f] # Absent <=> got[f] # 0) /\ got[f] \in 0..3
        BY <1>2, <1>3, <1>4, <1>7 DEF IsRead
    <2>2. ~changed => \A f \in Files :
            (IsRead(f) <=> There(h, f)) /\ (IsRead(f) => got[f] = stored[h][f][receipt[h][f]])
        <3> SUFFICES ASSUME ~changed, NEW f \in Files
                     PROVE  (got[f] \in {1, 2} <=> There(h, f))
                            /\ (got[f] \in {1, 2} => got[f] = stored[h][f][receipt[h][f]])
            BY DEF IsRead
        <3>1. CASE got[f] = 0
            BY <1>5, <2>1, <3>1 DEF There
        <3>2. CASE got[f] # 0
            <4>1. /\ got[f] = IF stored[h][f][receipt[h][f]] = 0 THEN 3
                              ELSE stored[h][f][receipt[h][f]]
                  /\ stored[h][f][receipt[h][f]] \in 0..2
                  /\ receipt[h][f] # Absent
                BY <1>5, <2>1, <3>2
            <4> QED BY ONLY <4>1 DEF There, Held
        <3> QED BY <3>1, <3>2
    <2>3. /\ RunRows["runs"] = {RunRow}
          /\ RunRows["metrics"] = IF IsRead("metrics.csv") THEN MetricRows(h, got["metrics.csv"])
                                  ELSE {}
          /\ \A t \in Tables : \A r \in RunRows[t] : r.dir = h
        BY Orders DEF RunRows, RunRow, MetricRows, OtherRows
    <2>4. /\ RunRow.dir = h
          /\ RunRow.state = "ended" <=> IsRead("status.json")
          /\ IsRead("status.json") => RunRow.n_metrics = Cardinality(RowsAt[h][2])
        BY DEF RunRow, Ended, Counted
    <2>5. IsRead("status.json") =>
            /\ LooksEnded(h)
            /\ h \notin crossed => RunRows["metrics"] = MetricRows(h, 2)
        <3> SUFFICES ASSUME IsRead("status.json")
                     PROVE  /\ LooksEnded(h)
                            /\ h \notin crossed => RunRows["metrics"] = MetricRows(h, 2)
            OBVIOUS
        <3>1. LooksEnded(h)
            BY <1>2, <1>7, <2>1 DEF LooksEnded, IsRead
        <3>2. found[h]["metrics.csv"] # Absent
            BY <1>1, <1>2, <3>1 DEF LooksEnded, ReaderInv, FoundInv
        <3>3. h \notin crossed => got["metrics.csv"] = 2 /\ IsRead("metrics.csv")
            <4>1. h \notin crossed => got["metrics.csv"] = 2
                BY <1>2, <1>4, <2>1, <3>1, <3>2 DEF LooksEnded
            <4> QED BY <4>1 DEF IsRead
        <3> QED BY <2>3, <3>1, <3>3
    <2>6. h \notin crossed /\ LooksEnded(h) => IsRead("status.json")
        BY <1>2, <1>4, <2>1 DEF LooksEnded, IsRead
    <2>7. ~changed => /\ MetricsAgree(RunRows["metrics"], h)
                     /\ RunsAgree(RunRows["runs"], h)
        <3> SUFFICES ASSUME ~changed
                     PROVE  MetricsAgree(RunRows["metrics"], h) /\ RunsAgree(RunRows["runs"], h)
            OBVIOUS
        <3>1. Known(h)
            BY <1>2, <1>5, <1>7, <2>2 DEF Known
        <3>2. RunRows["metrics"] = MetricsThere(h)
            BY <1>2, <2>2, <2>3 DEF MetricsThere
        <3>3. {m \in RunRows["metrics"] : m.dir = h} = RunRows["metrics"]
            BY <2>3, Orders
        <3>4. RunRow.state = "ended" <=> There(h, "status.json")
            BY <1>2, <2>2, <2>4
        <3> QED BY ONLY <2>3, <2>4, <3>1, <3>2, <3>3, <3>4 DEF MetricsAgree, RunsAgree
    <2>8. GoodRows(RunRows)
        BY ONLY <2>3, <2>4, <2>5, <2>6, <2>7, h = Here DEF GoodRows
    <2>9. DOMAIN rows' = Tables /\ \A t \in Tables : rows'[t] = rows[t] \cup RunRows[t]
        BY <1>7 DEF FlattenCanonical, Collect
    <2> QED BY <2>8, <2>9, CollectingKeeps DEF FlattenCanonical
<1> QED BY <1>6, <1>7

LEMMA LegacyKeeps ==
    ASSUME VaultInv, ReaderInv, FlattenLegacy, NEW h, h = Here PROVE ReaderInv'
<1>1. /\ pc = "read" /\ h \in Dirs /\ h \in Legacy /\ found[h] # NoReceipt
      /\ h \notin Hidden
    BY Orders DEF FlattenLegacy, Reading, ReaderInv, PlaceInv, Here
<1> DEFINE new == LegacyRows(found[h])
           edition == stored[h]["metrics.csv"][found[h]["metrics.csv"]]
<1>2. /\ \A f \in Files : found[h][f] # Absent => f = "metrics.csv"
      /\ found[h]["metrics.csv"] # Absent /\ found[h]["metrics.csv"] \in Forms
      /\ "metrics.csv" \in Files /\ "status.json" \in Files /\ "status.json" # "metrics.csv"
    <2>1. found[h] \in [Files -> Forms \cup {Absent}]
        BY <1>1 DEF ReaderInv, ReaderType
    <2>2. \A f \in Files : found[h][f] # Absent => f = "metrics.csv"
        BY <1>1 DEF ReaderInv, PlaceInv
    <2>3. "metrics.csv" \in Files /\ "status.json" \in Files
        BY FileOrders
    <2>4. found[h]["metrics.csv"] # Absent
        <3>1. CASE \A f \in Files : found[h][f] = Absent
            <4>1. found[h] = [f \in Files |-> Absent]
                BY <2>1, <3>1
            <4> QED BY <1>1, <4>1 DEF NoReceipt
        <3> QED BY <2>2, <3>1
    <2> QED BY <2>1, <2>2, <2>3, <2>4
<1>3. ~LooksEnded(h)
    BY <1>2 DEF LooksEnded
<1>4. /\ (\E f \in Files : found[h][f] = "zstd") <=> found[h]["metrics.csv"] = "zstd"
      /\ found[h]["metrics.csv"] \in {"none", "zstd"}
    BY <1>2, IndexAssumption DEF Forms
<1>5. /\ \A t \in Tables : \A r \in new[t] : r.dir = h
      /\ new["metrics"] = IF edition = 0 THEN {} ELSE MetricRows(h, edition)
      /\ \E r : new["runs"] = {r} /\ r.dir = h /\ r.state = "legacy"
    <2>1. (IF \E f \in Files : found[h][f] = "zstd"
           THEN StoredBytes(h, "metrics.csv", found[h]) ELSE stored[h]["metrics.csv"]["none"])
            = edition
        BY <1>2, <1>4 DEF StoredBytes
    <2> HIDE DEF edition
    <2>2. new["metrics"] = IF edition = 0 THEN {} ELSE MetricRows(h, edition)
        BY <2>1, Orders DEF LegacyRows
    <2>3. \E r : new["runs"] = {r} /\ r.dir = h /\ r.state = "legacy"
        <3>1. PICK duration, experiment :
                new["runs"] = {[dir |-> h, state |-> "legacy", n_metrics |-> 0,
                                duration |-> duration, experiment |-> experiment]}
            BY Orders DEF LegacyRows
        <3> DEFINE row == [dir |-> h, state |-> "legacy", n_metrics |-> 0,
                           duration |-> duration, experiment |-> experiment]
        <3>2. row.dir = h /\ row.state = "legacy"
            OBVIOUS
        <3> HIDE DEF row, new
        <3> QED BY <3>1, <3>2 DEF row
    <2>4. \A t \in Tables : t \notin {"runs", "metrics"} => new[t] = {}
        BY DEF LegacyRows
    <2> HIDE DEF new
    <2> QED BY <2>2, <2>3, <2>4 DEF MetricRows
<1> HIDE DEF new
<1>6. ~changed => MetricsAgree(new["metrics"], h) /\ RunsAgree(new["runs"], h)
    <2> SUFFICES ASSUME ~changed
                 PROVE  MetricsAgree(new["metrics"], h) /\ RunsAgree(new["runs"], h)
        OBVIOUS
    <2>1. receipt[h] = found[h]
        BY <1>1 DEF ReaderInv, SameInv, Visited
    <2>2. Known(h)
        BY <1>1, <2>1 DEF Known, Shown, Synced
    <2>3. ~There(h, "status.json")
        BY <1>2, <2>1 DEF There
    <2>4. new["metrics"] = MetricsThere(h)
        BY <1>2, <1>5, <2>1 DEF MetricsThere, There, Held
    <2>5. {m \in new["metrics"] : m.dir = h} = new["metrics"]
        BY <1>5, Orders
    <2> QED BY ONLY <1>5, <2>2, <2>3, <2>4, <2>5 DEF MetricsAgree, RunsAgree
<1>7. GoodRows(new)
    BY ONLY <1>3, <1>5, <1>6, h = Here DEF GoodRows
<1>8. DOMAIN rows' = Tables /\ \A t \in Tables : rows'[t] = rows[t] \cup new[t]
    BY DEF FlattenLegacy, Collect, new
<1> QED BY <1>7, <1>8, CollectingKeeps DEF FlattenLegacy

-----------------------------------------------------------------------------
(* The writing of the tables.                                              *)

\* What the write of one table makes of the index.
LEMMA TableWritten ==
    ASSUME ReaderInv, pc = "write",
           index' = [index EXCEPT ![TableOrder[at]] = rows[TableOrder[at]]]
    PROVE  /\ at \in 1..Len(TableOrder) /\ DOMAIN index' = Tables
           /\ \A t \in Tables : index'[t] = IF t = TableOrder[at] THEN rows[t] ELSE index[t]
           /\ \A i \in 1..Len(TableOrder) : i <= at =>
                index'[TableOrder[i]] = rows[TableOrder[i]]
           /\ \A t \in Tables : \A r \in index'[t] : r.dir \in Dirs
<1>1. /\ at \in 1..Len(TableOrder) /\ DOMAIN index = Tables
      /\ \A i \in 1..Len(TableOrder) : i < at => index[TableOrder[i]] = rows[TableOrder[i]]
    BY DEF ReaderInv, ReaderType, PlaceInv, IndexInv
<1>2. \A i \in 1..Len(TableOrder) : TableOrder[i] \in Tables
    BY Orders
<1>3. /\ DOMAIN index' = Tables
      /\ \A t \in Tables : index'[t] = IF t = TableOrder[at] THEN rows[t] ELSE index[t]
    BY <1>1, <1>2
<1>4. \A i \in 1..Len(TableOrder) : i <= at => index'[TableOrder[i]] = rows[TableOrder[i]]
    <2>1. \A i \in 1..Len(TableOrder) : i <= at => i < at \/ i = at
        BY <1>1, Orders
    <2> QED BY <1>1, <1>2, <1>3, <2>1
<1>5. \A t \in Tables : \A r \in index'[t] : r.dir \in Dirs
    BY <1>3 DEF ReaderInv, ReaderType
<1> QED BY <1>1, <1>3, <1>4, <1>5

\* A run the collected rows show as ended has a receipt that says so.
LEMMA CollectedEnded ==
    ASSUME ReaderInv, NEW r \in rows["runs"], r.state = "ended"
    PROVE  /\ r.dir \in Dirs /\ found[r.dir]["status.json"] # Absent
           /\ r.dir \notin tombs => receipt[r.dir]["status.json"] # Absent
           /\ r.dir \notin Hidden /\ "run.json" \in Kept
<1>1. r.dir \in Dirs /\ LooksEnded(r.dir)
    BY Orders DEF ReaderInv, ReaderType, RowsInv
<1>2. /\ "status.json" \in Files /\ "run.json" \in Files
      /\ "status.json" # "metrics.csv" /\ "run.json" # "metrics.csv"
    BY FileOrders
<1>3. /\ found[r.dir]["status.json"] # Absent /\ found[r.dir]["run.json"] # Absent
      /\ found[r.dir] # NoReceipt
    BY <1>1, <1>2 DEF LooksEnded, NoReceipt
<1>4. r.dir \notin Hidden /\ "run.json" \in Kept
    BY <1>1, <1>2, <1>3 DEF ReaderInv, PlaceInv
<1>5. r.dir \notin tombs => receipt[r.dir]["status.json"] # Absent
    BY <1>1, <1>3 DEF ReaderInv, FoundInv
<1> QED BY <1>1, <1>3, <1>4, <1>5

\* What the collected rows and the index say of the runs that have ended.
LEMMA WrittenEnded ==
    ASSUME ReaderInv, pc = "write",
           index' = [index EXCEPT ![TableOrder[at]] = rows[TableOrder[at]]],
           NEW d \in Dirs \ tombs, ShowsEnded(d)'
    PROVE  /\ receipt[d]["status.json"] # Absent /\ d \notin Hidden /\ "run.json" \in Kept
           /\ found[d]["status.json"] # Absent
<1>1. index'["runs"] = rows["runs"] \/ index'["runs"] = index["runs"]
    BY TableWritten, Orders
<1>2. Visited(d)
    BY DEF Visited
<1>3. CASE index'["runs"] = rows["runs"]
    <2>1. PICK r \in rows["runs"] : r.dir = d /\ r.state = "ended"
        BY <1>3 DEF ShowsEnded
    <2> QED BY <2>1, CollectedEnded
<1>4. CASE index'["runs"] = index["runs"]
    <2>1. ShowsEnded(d)
        BY <1>4 DEF ShowsEnded
    <2> QED BY <1>2, <2>1 DEF ReaderInv, IndexInv
<1> QED BY <1>1, <1>3, <1>4

LEMMA WriteKeeps ==
    ASSUME VaultInv, ReaderInv, WriteTable PROVE ReaderInv'
<1>1. /\ pc = "write" /\ pc' = "write" /\ at < Len(TableOrder) /\ at' = at + 1
      /\ index' = [index EXCEPT ![TableOrder[at]] = rows[TableOrder[at]]] /\ whole' = FALSE
      /\ UNCHANGED vault /\ found' = found /\ got' = got /\ rows' = rows
      /\ crossed' = crossed /\ doubt' = doubt /\ changed' = changed /\ current' = current
    BY DEF WriteTable
<1>2. /\ at \in 1..Len(TableOrder) /\ DOMAIN index' = Tables
      /\ \A t \in Tables : index'[t] = IF t = TableOrder[at] THEN rows[t] ELSE index[t]
      /\ \A i \in 1..Len(TableOrder) : i <= at =>
           index'[TableOrder[i]] = rows[TableOrder[i]]
      /\ \A t \in Tables : \A r \in index'[t] : r.dir \in Dirs
    BY <1>1, TableWritten
<1>3. at' \in 1..Len(TableOrder) /\ \A i \in 1..Len(TableOrder) : i < at' => i <= at
    BY <1>1, <1>2, Orders
<1>4. \A d : /\ Visited(d)' /\ Visited(d) /\ Processed(d)' /\ Processed(d)
            /\ LooksEnded(d)' = LooksEnded(d)
    BY <1>1 DEF Visited, Processed, LooksEnded
<1>5. ReaderType'
    <2>1. \A t \in Tables : \A r \in rows'[t] \cup index'[t] : r.dir \in Dirs
        BY <1>1, <1>2 DEF ReaderInv, ReaderType
    <2>2. at' \in Nat
        BY <1>3
    <2> QED BY <1>1, <1>2, <2>1, <2>2 DEF ReaderInv, ReaderType
<1>6. PlaceInv'
    BY <1>1, <1>3, <1>4 DEF ReaderInv, PlaceInv
<1>7. FoundInv'
    BY <1>1, SameVault DEF ReaderInv, FoundInv, FinalForm
<1>8. GotInv' /\ RowsInv'
    BY <1>1, <1>4 DEF ReaderInv, GotInv, RowsInv
<1>9. IndexInv'
    <2>1. \A i \in 1..Len(TableOrder) : i < at' => index'[TableOrder[i]] = rows'[TableOrder[i]]
        BY <1>1, <1>2, <1>3
    <2>2. \A d \in Dirs \ tombs : ShowsEnded(d)' =>
            /\ receipt[d]["status.json"] # Absent /\ d \notin Hidden /\ "run.json" \in Kept
            /\ found[d]["status.json"] # Absent
        BY <1>1, WrittenEnded
    <2> QED BY <1>1, <2>1, <2>2, SameVault DEF IndexInv
<1>10. SameInv'
    <2>1. \A d : /\ MetricsAgree(rows["metrics"], d)' = MetricsAgree(rows["metrics"], d)
                /\ RunsAgree(rows["runs"], d)' = RunsAgree(rows["runs"], d)
        BY <1>1, SameVault DEF MetricsAgree, RunsAgree
    <2>2. ASSUME current, NEW d \in Dirs
          PROVE  MetricsAgree(index["metrics"], d)' /\ RunsAgree(index["runs"], d)'
        <3>1. /\ MetricsAgree(rows["metrics"], d) /\ RunsAgree(rows["runs"], d)
              /\ MetricsAgree(index["metrics"], d) /\ RunsAgree(index["runs"], d)
            BY <1>1, <1>4, <2>2 DEF ReaderInv, SameInv
        <3>2. /\ index'["metrics"] = rows["metrics"] \/ index'["metrics"] = index["metrics"]
              /\ index'["runs"] = rows["runs"] \/ index'["runs"] = index["runs"]
            BY <1>2, Orders
        <3> QED BY <1>1, <3>1, <3>2, SameVault DEF MetricsAgree, RunsAgree
    <2>3. receipt' = receipt
        BY <1>1, SameVault
    <2> QED BY <1>1, <1>4, <2>1, <2>2, <2>3 DEF ReaderInv, SameInv
<1> QED BY <1>5, <1>6, <1>7, <1>8, <1>9, <1>10 DEF ReaderInv

LEMMA WriteLastKeeps ==
    ASSUME VaultInv, ReaderInv, WriteLastTable PROVE ReaderInv'
<1>1. /\ pc = "write" /\ at = Len(TableOrder)
      /\ index' = [index EXCEPT ![TableOrder[at]] = rows[TableOrder[at]]]
      /\ whole' = TRUE /\ doubt' = crossed /\ current' = ~changed /\ changed' = changed
      /\ pc' = "idle" /\ found' = [d \in Dirs |-> NoReceipt] /\ at' = 1 /\ got' = NotRead
      /\ rows' = Empty /\ crossed' = {} /\ UNCHANGED vault
    BY DEF WriteLastTable, GivesUp
<1>2. /\ DOMAIN index' = Tables /\ \A t \in Tables : index'[t] = rows[t]
      /\ \A t \in Tables : \A r \in index'[t] : r.dir \in Dirs
    <2>1. /\ at \in 1..Len(TableOrder) /\ DOMAIN index' = Tables
          /\ \A i \in 1..Len(TableOrder) : i <= at =>
               index'[TableOrder[i]] = rows[TableOrder[i]]
          /\ \A t \in Tables : \A r \in index'[t] : r.dir \in Dirs
        BY <1>1, TableWritten
    <2>2. \A i \in 1..Len(TableOrder) : index'[TableOrder[i]] = rows[TableOrder[i]]
        BY <1>1, <2>1
    <2> QED BY <2>1, <2>2, Orders
<1>3. \A d : Processed(d) /\ ~Visited(d)' /\ ~Processed(d)'
    BY <1>1 DEF Visited, Processed
<1>4. PlaceInv' /\ GotInv' /\ RowsInv' /\ FoundInv'
    <2>1. \A d \in Dirs : \A f \in Files : found'[d][f] = Absent
        BY <1>1 DEF NoReceipt
    <2>2. \A t \in Tables : rows'[t] = {}
        BY <1>1 DEF Empty
    <2>3. "status.json" \in Files
        BY FileOrders
    <2> QED BY <1>1, <2>1, <2>2, <2>3, Orders DEF PlaceInv, GotInv, RowsInv, FoundInv,
               Visited, Processed, LooksEnded
<1>5. ReaderType'
    <2>1. found' \in [Dirs -> [Files -> Forms \cup {Absent}]] /\ got' \in [Files -> 0..3]
        BY ONLY <1>1 DEF NoReceipt, NotRead
    <2>2. /\ DOMAIN rows' = Tables /\ DOMAIN index' = Tables
          /\ \A t \in Tables : \A r \in rows'[t] \cup index'[t] : r.dir \in Dirs
        BY <1>1, <1>2 DEF Empty
    <2>3. changed \in BOOLEAN /\ crossed \subseteq Dirs
        BY DEF ReaderInv, ReaderType
    <2> QED BY ONLY <1>1, <2>1, <2>2, <2>3 DEF ReaderType
<1>6. IndexInv'
    <2>1. ASSUME NEW r \in index'["runs"], r.state = "ended", r.dir \notin doubt'
          PROVE  /\ r.n_metrics = Cardinality(RowsAt[r.dir][2])
                 /\ Rows(r.dir)' = MetricRows(r.dir, 2)
        <3>1. r \in rows["runs"] /\ r.dir \notin crossed
            BY <1>1, <1>2, <2>1, Orders
        <3>2. /\ r.n_metrics = Cardinality(RowsAt[r.dir][2])
              /\ {m \in rows["metrics"] : m.dir = r.dir} = MetricRows(r.dir, 2)
            BY <2>1, <3>1 DEF ReaderInv, RowsInv
        <3> QED BY <1>2, <3>2, Orders DEF Rows
    <2>2. \A d \in Dirs \ tombs : ShowsEnded(d)' =>
            receipt[d]["status.json"] # Absent /\ d \notin Hidden /\ "run.json" \in Kept
        BY <1>1, WrittenEnded
    <2> QED BY <1>1, <1>3, <2>1, <2>2, SameVault DEF IndexInv
<1>7. SameInv'
    <2>1. ASSUME ~changed, NEW d \in Dirs
          PROVE  MetricsAgree(index["metrics"], d)' /\ RunsAgree(index["runs"], d)'
        <3>1. MetricsAgree(rows["metrics"], d) /\ RunsAgree(rows["runs"], d)
            BY <1>1, <1>3, <2>1 DEF ReaderInv, SameInv
        <3>2. index'["metrics"] = rows["metrics"] /\ index'["runs"] = rows["runs"]
            BY <1>2, Orders
        <3> QED BY <1>1, <3>1, <3>2, SameVault DEF MetricsAgree, RunsAgree
    <2>2. current' => ~changed
        BY <1>1
    <2> QED BY <1>1, <2>1, <2>2 DEF SameInv
<1> QED BY <1>4, <1>5, <1>6, <1>7 DEF ReaderInv

-----------------------------------------------------------------------------
(* Every step.                                                             *)

LEMMA ReaderStep == VaultInv /\ VaultInv' /\ ReaderInv /\ [Next]_vars => ReaderInv'
<1> SUFFICES ASSUME VaultInv, VaultInv', ReaderInv, [Next]_vars PROVE ReaderInv'
    OBVIOUS
<1>1. CASE Vault
    BY <1>1, VaultStep, ReaderUnderVault
<1>2. CASE BeginRefresh
    BY <1>2, BeginKeeps
<1>3. CASE VisitDir
    BY <1>3, VisitKeeps
<1>4. CASE SkipDir
    BY <1>4, SkipKeeps
<1>5. CASE ReadFile
    BY <1>5, ReadKeeps
<1>6. CASE FlattenCanonical
    BY <1>6, CanonicalKeeps
<1>7. CASE FlattenLegacy
    BY <1>7, LegacyKeeps
<1>8. CASE LegacyFails
    BY <1>8, GivingUpKeeps DEF LegacyFails
<1>9. CASE RefreshDies
    BY <1>9, GivingUpKeeps DEF RefreshDies
<1>10. CASE WriteTable
    BY <1>10, WriteKeeps
<1>11. CASE WriteLastTable
    BY <1>11, WriteLastKeeps
<1>12. CASE UNCHANGED vars
    <2>1. VaultMoves
        <3>1. \A d : Described(d)' = Described(d)
            BY <1>12, SameVault DEF vars
        <3>2. \A d \in Dirs : receipt[d]["status.json"] # Absent =>
                \A f \in Kept : receipt[d][f] # Absent
            BY DEF VaultInv, FinalReceipts
        <3> QED BY <1>12, <3>1, <3>2 DEF vars, vault, reader, tables, VaultMoves
    <2> QED BY <2>1, ReaderUnderVault
<1> QED BY <1>1, <1>2, <1>3, <1>4, <1>5, <1>6, <1>7, <1>8, <1>9, <1>10, <1>11, <1>12
           DEF Next, Refresh

\* No more of them die than the bound allows.
LEMMA KillsStep == kills \in 0..MaxKills /\ [Next]_vars => kills' \in 0..MaxKills
<1> SUFFICES ASSUME kills \in 0..MaxKills, [Next]_vars PROVE kills' \in 0..MaxKills
    OBVIOUS
<1>1. kills' = kills \/ (kills < MaxKills /\ kills' = kills + 1)
    BY DEF Next, Vault, Refresh, EndRun, PlanSync, BeginDelete, CopyFile, RemoveOtherForm,
       WriteReceipt, RemoveOne, EndDelete, KillWriter, BeginRefresh, VisitDir, SkipDir,
       ReadFile, FlattenCanonical, FlattenLegacy, LegacyFails, WriteTable, WriteLastTable,
       RefreshDies, vars
<1> QED BY <1>1, IndexAssumption

IInv == VaultInv /\ ReaderInv /\ kills \in 0..MaxKills

LEMMA IndexInvariance == Spec => []IInv
<1>1. Init => IInv
    <2>1. Init => kills \in 0..MaxKills
        BY IndexAssumption DEF Init
    <2> QED BY <2>1, VaultInit, ReaderInit DEF IInv
<1>2. IInv /\ [Next]_vars => IInv'
    <2> SUFFICES ASSUME IInv, [Next]_vars PROVE IInv'
        OBVIOUS
    <2>1. VaultInv'
        <3>1. CASE Vault
            BY <3>1, VaultStep DEF IInv
        <3>2. CASE UNCHANGED vault
            BY <3>2, VaultStays DEF IInv
        <3>3. Vault \/ UNCHANGED vault
            BY DEF Next, Refresh, BeginRefresh, VisitDir, SkipDir, ReadFile, FlattenCanonical,
               FlattenLegacy, LegacyFails, WriteTable, WriteLastTable, RefreshDies, vars
        <3> QED BY <3>1, <3>2, <3>3
    <2> QED BY <2>1, ReaderStep, KillsStep DEF IInv
<1> QED BY <1>1, <1>2, PTL DEF Spec

-----------------------------------------------------------------------------
(* What it shows.                                                          *)

\* Type correctness: the vault, the sync or delete at work, the refresh and
\* the tables on disk keep their shape.
THEOREM IndexTypeCorrect == Spec => []TypeOK
<1>1. IInv => TypeOK
    BY FileOrders DEF IInv, VaultInv, VaultType, ReaderInv, ReaderType, TypeOK
<1> QED BY <1>1, IndexInvariance, PTL

\* While nothing has changed since the last complete refresh began, the index
\* is what the vault holds: its runs, their metrics, and which have ended.
THEOREM CurrentIndexMatches == Spec => []CurrentIndexIsTheVault
<1>1. ASSUME IInv, current PROVE CurrentIndexIsTheVault
    <2> DEFINE known == {d \in Dirs : Shown(d) /\ (d \in Legacy \/ There(d, "run.json"))}
    <2>1. /\ \A r \in index["runs"] : r.dir \in Dirs
          /\ \A m \in index["metrics"] : m.dir \in Dirs
        BY <1>1, Orders DEF IInv, ReaderInv, ReaderType
    <2>2. \A d \in Dirs : MetricsAgree(index["metrics"], d) /\ RunsAgree(index["runs"], d)
        BY <1>1 DEF IInv, ReaderInv, SameInv
    <2>3. \A d \in Dirs : d \in known <=> Known(d)
        BY DEF Known
    <2> HIDE DEF known
    <2>4. {r.dir : r \in index["runs"]} = known
        <3>1. \A d \in Dirs : d \in known <=> \E r \in index["runs"] : r.dir = d
            BY <2>2, <2>3 DEF RunsAgree
        <3>2. known \subseteq Dirs
            BY DEF known
        <3> QED BY <2>1, <3>1, <3>2
    <2>5. {r.dir : r \in {s \in index["runs"] : s.state = "ended"}}
            = {d \in known : There(d, "status.json")}
        <3>1. \A d \in Dirs : d \in known /\ There(d, "status.json")
                <=> \E r \in index["runs"] : r.dir = d /\ r.state = "ended"
            BY <2>2, <2>3 DEF RunsAgree
        <3>2. known \subseteq Dirs
            BY DEF known
        <3> QED BY <2>1, <3>1, <3>2
    <2>6. index["metrics"] = UNION {MetricsThere(d) : d \in known}
        <3>1. known \subseteq Dirs
            BY DEF known
        <3>2. \A d \in Dirs : {m \in index["metrics"] : m.dir = d}
                = IF d \in known THEN MetricsThere(d) ELSE {}
            BY <2>2, <2>3 DEF MetricsAgree
        <3>3. \A m \in index["metrics"] : m.dir \in known /\ m \in MetricsThere(m.dir)
            BY <2>1, <3>2
        <3>4. \A d \in known : \A m \in MetricsThere(d) : m \in index["metrics"]
            BY <3>1, <3>2
        <3> QED BY <3>3, <3>4
    <2> QED BY <2>4, <2>5, <2>6 DEF CurrentIndexIsTheVault, known
<1>2. IInv => CurrentIndexIsTheVault
    BY <1>1 DEF CurrentIndexIsTheVault
<1> QED BY <1>2, IndexInvariance, PTL

\* A run's rows are its metrics and the retired ones that became a column.
LEMMA RowsAreCounted ==
    ASSUME NEW d \in Dirs
    PROVE  Cardinality(MetricRows(d, 2)) + Cardinality(MovedOf(d, 2)) = Cardinality(RowsAt[d][2])
<1> DEFINE S == RowsAt[d][2]
           stay == MetricsOf(d, 2)
           row(m) == [dir |-> d, name |-> m.name, step |-> m.step]
           g == [m \in stay |-> row(m)]
<1>1. IsFiniteSet(S) /\ \A m \in S : m = [name |-> m.name, step |-> m.step]
    BY IndexAssumption
<1>2. stay \subseteq S /\ MovedOf(d, 2) = S \ stay
    BY DEF MetricsOf, MovedOf
<1>3. MetricRows(d, 2) = {row(m) : m \in stay}
    BY DEF MetricRows
<1>4. \A m, n \in stay : row(m) = row(n) => m = n
    <2> SUFFICES ASSUME NEW m \in stay, NEW n \in stay, row(m) = row(n) PROVE m = n
        OBVIOUS
    <2>1. m.name = n.name /\ m.step = n.step
        OBVIOUS
    <2> QED BY <1>1, <1>2, <2>1
<1> HIDE DEF S, stay, row
<1>5. g \in Bijection(stay, {row(m) : m \in stay})
    <2>1. g \in Surjection(stay, {row(m) : m \in stay})
        BY DEF Surjection
    <2>2. g \in Injection(stay, {row(m) : m \in stay})
        BY <1>4 DEF Injection, IsInjective
    <2> QED BY <2>1, <2>2 DEF Bijection
<1>6. IsFiniteSet(stay)
    BY <1>1, <1>2, FS_Subset
<1>7. Cardinality(MetricRows(d, 2)) = Cardinality(stay)
    BY <1>3, <1>5, <1>6, FS_Bijection DEF ExistsBijection
<1>8. Cardinality(MovedOf(d, 2)) = Cardinality(S) - Cardinality(stay)
    <2>1. S \cap stay = stay
        BY <1>2
    <2> QED BY <1>1, <1>2, <2>1, FS_Difference
<1>9. Cardinality(S) \in Nat /\ Cardinality(stay) \in Nat
    BY <1>1, <1>6, FS_CardinalityType
<1> QED BY <1>7, <1>8, <1>9 DEF S

\* In the tables of one refresh, a run shown as ended has every row its
\* status.json counts, unless files of it went under that refresh.
THEOREM ShownEndedIsWhole == Spec => []EndedRunIsWhole
<1>1. ASSUME IInv, whole, NEW r \in index["runs"], r.dir \notin doubt PROVE CountHolds(r)
    <2> SUFFICES ASSUME r.state = "ended"
                 PROVE  Cardinality(Rows(r.dir)) + Cardinality(MovedOf(r.dir, 2)) = r.n_metrics
        BY DEF CountHolds
    <2>1. r.dir \in Dirs
        BY <1>1, Orders DEF IInv, ReaderInv, ReaderType
    <2>2. /\ r.n_metrics = Cardinality(RowsAt[r.dir][2])
          /\ Rows(r.dir) = MetricRows(r.dir, 2)
        BY <1>1 DEF IInv, ReaderInv, IndexInv
    <2> QED BY <2>1, <2>2, RowsAreCounted
<1>2. IInv => EndedRunIsWhole
    BY <1>1 DEF EndedRunIsWhole
<1> QED BY <1>2, IndexInvariance, PTL

\* A write of the tables keeps every run shown as ended that is neither deleted
\* nor lost files under the refresh.
THEOREM ShownEndedStays == Spec => EndedStaysEnded
<1>1. ASSUME IInv, [Next]_vars, NEW d \in Dirs \ (tombs \cup crossed), ShowsEnded(d)
      PROVE  ShowsEnded(d)'
    <2>1. CASE index' = index
        BY <1>1, <2>1 DEF ShowsEnded
    <2>2. CASE /\ pc = "write"
               /\ index' = [index EXCEPT ![TableOrder[at]] = rows[TableOrder[at]]]
        <3>1. index'["runs"] = rows["runs"] \/ index'["runs"] = index["runs"]
            BY <1>1, <2>2, TableWritten, Orders DEF IInv
        <3>2. \E r \in rows["runs"] : r.dir = d /\ r.state = "ended"
            <4>1. Visited(d) /\ Processed(d)
                BY <2>2 DEF Visited, Processed
            <4>2. found[d]["status.json"] # Absent /\ "run.json" \in Kept
                BY <1>1, <4>1 DEF IInv, ReaderInv, IndexInv
            <4>3. LooksEnded(d)
                BY <1>1, <4>2 DEF IInv, ReaderInv, FoundInv, LooksEnded
            <4> QED BY <1>1, <4>1, <4>3 DEF IInv, ReaderInv, RowsInv
        <3> QED BY <1>1, <3>1, <3>2 DEF ShowsEnded
    <2>3. \/ index' = index
          \/ /\ pc = "write"
             /\ index' = [index EXCEPT ![TableOrder[at]] = rows[TableOrder[at]]]
        BY <1>1 DEF Next, Vault, Refresh, EndRun, PlanSync, BeginDelete, CopyFile,
           RemoveOtherForm, WriteReceipt, RemoveOne, EndDelete, KillWriter, BeginRefresh,
           VisitDir, SkipDir, ReadFile, FlattenCanonical, FlattenLegacy, LegacyFails,
           WriteTable, WriteLastTable, RefreshDies, vars, tables
    <2> QED BY <2>1, <2>2, <2>3
<1>2. IInv /\ [Next]_vars
        => [\A d \in Dirs \ (tombs \cup crossed) : ShowsEnded(d) => ShowsEnded(d)']_index
    BY <1>1
<1> QED BY <1>2, IndexInvariance, PTL DEF Spec, EndedStaysEnded
=============================================================================

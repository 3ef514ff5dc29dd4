---------------------------- MODULE VaultSyncProofs ----------------------------
(***************************************************************************)
(* Proofs about VaultSync, for any files, any number of syncs and kills:   *)
(* the receipt describes the copy between syncs, and no sync rewrites what *)
(* the vault holds of a guarded file.                                      *)
(*                                                                         *)
(* The guard compares with the form the receipt names, so what it is worth *)
(* depends on the receipt: IInv says that short of a disturbance a file    *)
(* the sync has not reached is as its entry says, and that a sync nobody   *)
(* overlapped leaves every file it planned as it will say itself.          *)
(***************************************************************************)
EXTENDS VaultSync, WellFoundedInduction, TLAPS

Busy(s) == pc[s] # "idle"
Alone(s) == alone = {s} /\ Busy(s)
Calm == disturbed # "open"
Guarded == AppendOnly \cup Immutable

\* The copy has the file in the form and with the content of the entry, and in
\* no other form.
Matches(f, entry) ==
    \A m \in Forms :
        dest[f][m] = IF entry # NoFile /\ entry.form = m THEN entry.stored ELSE NoFile

\* Files do not go while the run is there: what is planned or copied has a source.
SourceIsThere ==
    /\ \A f \in Files : f # "status.json" => source[f] # NoFile
    /\ \A f \in Files : \A m \in Forms : dest[f][m] # NoFile => source[f] # NoFile
    /\ \A s \in Syncers : Busy(s) =>
         \A f \in Files : job[s].forms[f] # NoFile => source[f] # NoFile

\* How far a sync is: the planned files before `at` are written, the others not.
AtFile ==
    \A s \in Syncers :
        /\ pc[s] \in {"guard", "hash", "copy", "settle"} =>
             job[s].at \in DOMAIN FileOrder /\ job[s].forms[File(s)] # NoFile
        /\ pc[s] \in {"copy", "settle"} => job[s].hashed # NoFile
        /\ pc[s] \in {"idle", "read"} => job[s].at = 1
        /\ pc[s] = "receipt" => job[s].at = Len(FileOrder) + 1
        /\ \A k \in DOMAIN FileOrder :
             job[s].written[FileOrder[k]] # NoFile
               <=> k < job[s].at /\ job[s].forms[FileOrder[k]] # NoFile

\* A sync that is alone is the only one, and short of a disturbance each is.
OneSync ==
    /\ \A s, t \in Syncers : alone = {s} /\ Busy(t) => s = t
    /\ Calm => \A s \in Syncers : Busy(s) => alone = {s}

\* What a sync that is alone knows is still so.
AloneKnows ==
    \A s \in Syncers : Alone(s) =>
        /\ pc[s] # "read" => job[s].previous = receipt
        /\ \A f \in Files :
             /\ job[s].written[f] # NoFile => Matches(f, job[s].written[f])
             /\ job[s].forms[f] = NoFile => \A m \in Forms : dest[f][m] = NoFile

\* A file no sync has touched is as the receipt says.
Touched(s, f) == job[s].written[f] # NoFile \/ (pc[s] = "settle" /\ f = File(s))
ReceiptHolds ==
    Calm => \A f \in Files :
        (\A s \in Syncers : Busy(s) => ~Touched(s, f)) => Matches(f, receipt.files[f])

\* What the guard let pass is still allowed when it is copied, and extends what
\* is removed when it is settled.
GuardHolds ==
    Calm => \A s \in Syncers :
        pc[s] \in {"hash", "copy"} /\ Held(s, File(s)) # NoFile =>
            Allows(File(s), Held(s, File(s)), source[File(s)])

SettleExtends ==
    Calm => \A s \in Syncers :
        LET f == File(s)  form == job[s].forms[f]
        IN  pc[s] = "settle" /\ f \in Guarded /\ dest[f][Other(form)] # NoFile =>
                dest[f][form] # NoFile /\ Extends(f, dest[f][Other(form)], dest[f][form])

IInv ==
    /\ TypeOK /\ SourceIsThere /\ AtFile /\ OneSync /\ AloneKnows
    /\ ReceiptHolds /\ GuardHolds /\ SettleExtends
-----------------------------------------------------------------------------
(* Facts about the constants, and about the next file of a plan.           *)

LEMMA FilesAreIndexed ==
    /\ Len(FileOrder) \in Nat /\ DOMAIN FileOrder = 1..Len(FileOrder)
    /\ \A k \in DOMAIN FileOrder : FileOrder[k] \in Files
    /\ \A f \in Files : \E k \in DOMAIN FileOrder : f = FileOrder[k]
    /\ \A i, j \in DOMAIN FileOrder : FileOrder[i] = FileOrder[j] => i = j
BY SyncAssumption DEF Files

LEMMA NoFileIsNothing ==
    /\ \A c \in Contents : c # NoFile
    /\ \A m \in Forms : m # NoFile
    /\ \A e \in Entries : e # NoFile
BY SyncAssumption

LEMMA ContentsArePairs ==
    /\ \A c \in Contents : c[1] \in 0..MaxEdits /\ c[2] \in 1..MaxLength /\ c = <<c[1], c[2]>>
    /\ \A e \in 0..MaxEdits, l \in 1..MaxLength : <<e, l>> \in Contents
BY SyncAssumption DEF Contents

LEMMA LeastPosition ==
    ASSUME NEW S, S \subseteq Nat, S # {}
    PROVE  \E k \in S : \A l \in S : k <= l
<1>1. PICK x \in S : \A y \in S : ~(<<y, x>> \in OpToRel(<, Nat))
    BY NatLessThanWellFounded, WFMin
<1>2. \A y \in S : ~(y < x)
    BY <1>1 DEF OpToRel
<1> QED BY <1>2

\* Onward stops at the first file of the plan, or at the receipt when none is
\* left.
LEMMA OnwardStops ==
    ASSUME NEW s \in Syncers, NEW i \in 1..Len(FileOrder) + 1
    PROVE  LET o == Onward(s, i)
           IN  /\ o.at \in i..Len(FileOrder) + 1
               /\ \A k \in i..Len(FileOrder) :
                    k < o.at => job[s].forms[FileOrder[k]] = NoFile
               /\ \/ o.pc = "receipt" /\ o.at = Len(FileOrder) + 1
                  \/ /\ o.pc = "guard" /\ o.at \in 1..Len(FileOrder)
                     /\ job[s].forms[FileOrder[o.at]] # NoFile
<1> DEFINE left == {k \in i..Len(FileOrder) : job[s].forms[FileOrder[k]] # NoFile}
           o == Onward(s, i)
<1>n. Len(FileOrder) \in Nat
    BY FilesAreIndexed
<1>1. CASE left = {}
    <2>1. o = [at |-> Len(FileOrder) + 1, pc |-> "receipt"]
        BY <1>1 DEF Onward
    <2> QED BY <1>1, <2>1, <1>n
<1>2. CASE left # {}
    <2> DEFINE m == CHOOSE k \in left : \A l \in left : k <= l
    <2>1. left \subseteq Nat
        BY <1>n
    <2>2. m \in left /\ \A l \in left : m <= l
        BY <1>2, <2>1, LeastPosition
    <2>3. o = [at |-> m, pc |-> "guard"]
        BY <1>2 DEF Onward
    <2> HIDE DEF m
    <2> QED BY <2>2, <2>3, <1>n
<1> QED BY <1>1, <1>2
LEMMA OnwardRange ==
    ASSUME NEW s \in Syncers, NEW i \in 1..Len(FileOrder) + 1
    PROVE  /\ Onward(s, i).at \in 1..Len(FileOrder) + 1
           /\ Onward(s, i).pc \in {"guard", "receipt"}
<1> DEFINE a == Onward(s, i).at
           p == Onward(s, i).pc
<1>1. a \in i..Len(FileOrder) + 1 /\ p \in {"guard", "receipt"}
    BY OnwardStops
<1> HIDE DEF a, p
<1>2. Len(FileOrder) \in Nat
    BY FilesAreIndexed
<1>3. a \in 1..Len(FileOrder) + 1 /\ p \in {"guard", "receipt"}
    BY <1>1, <1>2
<1> QED BY <1>3 DEF a, p
-----------------------------------------------------------------------------
(* Type correctness.                                                       *)

LEMMA NothingIsTyped ==
    /\ NoEntries \in [Files -> Entries \cup {NoFile}]
    /\ NoReceipt \in Receipts /\ NoJob \in Jobs
<1>1. NoEntries \in [Files -> Entries \cup {NoFile}] /\ NoEntries \in [Files -> Forms \cup {NoFile}]
    BY DEF NoEntries
<1>2. NoReceipt \in Receipts
    BY <1>1 DEF NoReceipt, Receipts
<1> QED BY <1>1, <1>2, FilesAreIndexed DEF NoJob, Jobs

LEMMA TypeInit == Init => TypeOK
<1> SUFFICES ASSUME Init PROVE TypeOK
    OBVIOUS
<1>1. <<0, 1>> \in Contents
    BY SyncAssumption DEF Contents
<1>2. source \in [Files -> Contents \cup {NoFile}]
    BY <1>1 DEF Init
<1> QED BY <1>2, SyncAssumption, NothingIsTyped DEF Init, TypeOK

\* What a job becomes stays a job.
LEMMA JobUpdates ==
    ASSUME NEW j \in Jobs
    PROVE  /\ \A forms \in [Files -> Forms \cup {NoFile}] : [NoJob EXCEPT !.forms = forms] \in Jobs
           /\ \A r \in Receipts, i \in 1..Len(FileOrder) + 1 :
                [j EXCEPT !.previous = r, !.at = i] \in Jobs
           /\ \A c \in Contents \cup {NoFile} : [j EXCEPT !.hashed = c] \in Jobs
           /\ \A f \in Files, e \in Entries, i \in 1..Len(FileOrder) + 1 :
                [j EXCEPT !.written[f] = e, !.at = i] \in Jobs
BY NothingIsTyped DEF Jobs

LEMMA TypeStep == TypeOK /\ SourceIsThere /\ AtFile /\ [Next]_vars => TypeOK'
<1> SUFFICES ASSUME TypeOK, SourceIsThere, AtFile, [Next]_vars PROVE TypeOK'
    OBVIOUS
<1> USE SyncAssumption DEF TypeOK, destVars, syncVars
<1>1. ASSUME NEW f \in AppendOnly, AppendRows(f) PROVE TypeOK'
    <2>1. f \in Files /\ source[f] \in Contents
        BY DEF SourceIsThere
    <2>2. source[f][1] \in 0..MaxEdits /\ source[f][2] + 1 \in 1..MaxLength
        BY <2>1, <1>1, ContentsArePairs DEF AppendRows
    <2> DEFINE c == <<source[f][1], source[f][2] + 1>>
    <2>3. c \in Contents
        BY <2>2, ContentsArePairs
    <2>4. source' = [source EXCEPT ![f] = c]
        BY <1>1 DEF AppendRows
    <2> HIDE DEF c
    <2> QED BY <2>1, <2>3, <2>4, <1>1 DEF AppendRows
<1>2. CASE EndRun
    BY <1>2, ContentsArePairs DEF EndRun
<1>3. ASSUME NEW f \in Editable, Edit(f) PROVE TypeOK'
    BY <1>3, ContentsArePairs DEF Edit
<1>4. ASSUME NEW s \in Syncers, Sync(s) PROVE TypeOK'
    <2> DEFINE f == File(s)
    <2>0. job[s] \in Jobs
        OBVIOUS
    <2>1. CASE Plan(s)
        <3> DEFINE forms == [g \in Files |-> FormOf(source[g])]
        <3>1. forms \in [Files -> Forms \cup {NoFile}]
            BY DEF FormOf, Forms
        <3>2. job' = [job EXCEPT ![s] = [NoJob EXCEPT !.forms = forms]]
            BY <2>1 DEF Plan
        <3> HIDE DEF forms
        <3>3. job' \in [Syncers -> Jobs]
            BY <3>1, <3>2, JobUpdates, NothingIsTyped
        <3> QED BY <2>1, <3>3 DEF Plan, Goto
    <2>2. CASE ReadReceipt(s)
        <3>1. /\ Onward(s, 1).at \in 1..Len(FileOrder) + 1
              /\ Onward(s, 1).pc \in {"guard", "receipt"}
            <4>1. 1 \in 1..Len(FileOrder) + 1
                BY FilesAreIndexed
            <4> QED BY <4>1, OnwardRange
        <3>2. job' \in [Syncers -> Jobs]
            BY <2>0, <2>2, <3>1, JobUpdates DEF ReadReceipt
        <3> QED BY <2>2, <3>1, <3>2 DEF ReadReceipt
    <2>3. CASE Guard(s)
        BY <2>3 DEF Guard, Goto
    <2>4. CASE GuardRefuses(s)
        BY <2>4, NothingIsTyped DEF GuardRefuses, Goto, Abandon
    <2>f. pc[s] \in {"guard", "hash", "copy", "settle"} =>
              f \in Files /\ job[s].forms[f] \in Forms /\ source[f] \in Contents
        <3>1. SUFFICES ASSUME pc[s] \in {"guard", "hash", "copy", "settle"}
              PROVE f \in Files /\ job[s].forms[f] \in Forms /\ source[f] \in Contents
            OBVIOUS
        <3>2. f \in Files /\ job[s].forms[f] # NoFile
            BY <3>1, FilesAreIndexed DEF AtFile, File
        <3>3. job[s].forms \in [Files -> Forms \cup {NoFile}]
            BY <2>0 DEF Jobs
        <3>4. source[f] # NoFile
            BY <3>1, <3>2 DEF SourceIsThere, Busy
        <3> QED BY <3>2, <3>3, <3>4
    <2>5. CASE HashSource(s)
        <3>1. job' \in [Syncers -> Jobs]
            BY <2>0, <2>f, <2>5, JobUpdates DEF HashSource, Goto
        <3> QED BY <2>5, <3>1 DEF HashSource, Goto
    <2>6. CASE CopyInto(s)
        <3>1. dest' \in [Files -> [Forms -> Contents \cup {NoFile}]]
            BY <2>f, <2>6 DEF CopyInto, Goto
        <3> QED BY <2>6, <3>1 DEF CopyInto, Goto
    <2>7. CASE SettleFile(s)
        <3> DEFINE m == job[s].forms[f]
                   e == [form |-> m, source |-> job[s].hashed, stored |-> dest[f][m]]
        <3>1. pc[s] = "settle" /\ dest[f][m] # NoFile
            BY <2>7 DEF SettleFile
        <3>2. job[s].hashed \in Contents /\ job[s].at \in 1..Len(FileOrder)
            BY <2>0, <3>1, FilesAreIndexed DEF AtFile, Jobs
        <3>3. e \in Entries
            BY <2>f, <3>1, <3>2 DEF Entries
        <3>4. /\ Onward(s, job[s].at + 1).at \in 1..Len(FileOrder) + 1
              /\ Onward(s, job[s].at + 1).pc \in {"guard", "receipt"}
            <4>1. job[s].at + 1 \in 1..Len(FileOrder) + 1
                BY <3>2, FilesAreIndexed
            <4> QED BY <4>1, OnwardRange
        <3>5. job' = [job EXCEPT ![s].written[f] = e, ![s].at = Onward(s, job[s].at + 1).at]
            BY <2>7 DEF SettleFile
        <3>6. dest' = [dest EXCEPT ![f][Other(m)] = NoFile] /\ Other(m) \in Forms
            BY <2>7 DEF SettleFile, Other, Forms
        <3> HIDE DEF e, m
        <3>7. job' \in [Syncers -> Jobs]
            BY <2>0, <2>f, <3>1, <3>3, <3>4, <3>5, JobUpdates
        <3>8. dest' \in [Files -> [Forms -> Contents \cup {NoFile}]]
            BY <2>f, <3>1, <3>6
        <3> QED BY <2>7, <3>4, <3>7, <3>8 DEF SettleFile
    <2>8. CASE SettleFails(s)
        BY <2>8, NothingIsTyped DEF SettleFails, Goto, Abandon
    <2>9. CASE WriteReceipt(s)
        <3>1. receipt' \in Receipts
            BY <2>0, <2>9 DEF WriteReceipt, Receipts, Jobs
        <3> QED BY <2>9, <3>1, NothingIsTyped DEF WriteReceipt, Goto
    <2>10. CASE Kill(s)
        BY <2>10, NothingIsTyped DEF Kill, Abandon
    <2> QED BY <1>4, <2>1, <2>2, <2>3, <2>4, <2>5, <2>6, <2>7, <2>8, <2>9, <2>10 DEF Sync
<1>5. CASE UNCHANGED vars
    BY <1>5 DEF vars
<1> QED BY <1>1, <1>2, <1>3, <1>4, <1>5 DEF Next
-----------------------------------------------------------------------------
(* What a step leaves alone.                                               *)

\* The file a sync is at.
LEMMA FileAtHand ==
    ASSUME TypeOK, SourceIsThere, AtFile, NEW s \in Syncers,
           pc[s] \in {"guard", "hash", "copy", "settle"}
    PROVE  /\ job[s].at \in DOMAIN FileOrder /\ File(s) = FileOrder[job[s].at]
           /\ File(s) \in Files /\ job[s].forms[File(s)] \in Forms
           /\ source[File(s)] \in Contents /\ job[s].written[File(s)] = NoFile
<1>1. job[s].at \in DOMAIN FileOrder /\ File(s) = FileOrder[job[s].at]
    BY DEF AtFile, File
<1>2. File(s) \in Files /\ job[s].forms[File(s)] # NoFile
    BY <1>1, FilesAreIndexed DEF AtFile
<1>3. job[s] \in Jobs
    BY DEF TypeOK
<1>4. job[s].forms[File(s)] \in Forms
    BY <1>2, <1>3 DEF Jobs
<1>5. source[File(s)] \in Contents
    BY <1>2 DEF SourceIsThere, Busy, TypeOK
<1>6. job[s].written[File(s)] = NoFile
    <2>1. ~(job[s].at < job[s].at)
        BY <1>1, FilesAreIndexed
    <2> QED BY <1>1, <2>1 DEF AtFile
<1> QED BY <1>1, <1>2, <1>4, <1>5, <1>6

\* A step of one sync is no step of another, and the source stands still.
LEMMA OthersWait ==
    ASSUME TypeOK, NEW s \in Syncers, Sync(s)
    PROVE  /\ \A t \in Syncers : t # s => pc'[t] = pc[t] /\ job'[t] = job[t]
           /\ source' = source
BY DEF TypeOK, Sync, Plan, ReadReceipt, Guard, GuardRefuses, HashSource, CopyInto, SettleFile,
       SettleFails, WriteReceipt, Kill, Goto, Abandon

\* A step of the source, or none, is no step of a sync.
LEMMA SyncsWait ==
    ASSUME TypeOK, SourceIsThere,
           \/ \E f \in AppendOnly : AppendRows(f)
           \/ EndRun
           \/ \E f \in Editable : Edit(f)
           \/ UNCHANGED vars
    PROVE  /\ UNCHANGED <<dest, receipt, pc, job, planned, alone, disturbed, kills>>
           /\ \A f \in Files : source[f] # NoFile => source'[f] # NoFile
           /\ ~Idle => \A f \in Files : source[f] # NoFile =>
                \/ source'[f] = source[f]
                \/ /\ f \in AppendOnly
                   /\ source'[f][1] = source[f][1] /\ source'[f][2] = source[f][2] + 1
<1>1. ASSUME NEW f \in AppendOnly, AppendRows(f)
      PROVE  /\ UNCHANGED <<dest, receipt, pc, job, planned, alone, disturbed, kills>>
             /\ source' = [source EXCEPT ![f] = <<source[f][1], source[f][2] + 1>>]
             /\ \A g \in Files : source'[g] # NoFile <=> source[g] # NoFile
    <2>1. f \in Files /\ source[f] \in Contents
        BY SyncAssumption DEF SourceIsThere, TypeOK
    <2>2. <<source[f][1], source[f][2] + 1>> \in Contents
        BY <1>1, <2>1, ContentsArePairs, SyncAssumption DEF AppendRows
    <2> QED BY <1>1, <2>1, <2>2, NoFileIsNothing DEF AppendRows, destVars, syncVars, TypeOK
<1>2. CASE EndRun
    <2>1. <<0, 1>> # NoFile
        BY SyncAssumption, ContentsArePairs, NoFileIsNothing
    <2> QED BY <1>2, <2>1, SyncAssumption DEF EndRun, destVars, syncVars, TypeOK
<1>3. ASSUME NEW f \in Editable, Edit(f)
      PROVE  /\ UNCHANGED <<dest, receipt, pc, job, planned, alone, disturbed, kills>>
             /\ \A g \in Files : source[g] # NoFile => source'[g] # NoFile
             /\ Idle
    <2>1. f \in Files /\ source[f] \in Contents
        BY <1>3, SyncAssumption DEF Edit, TypeOK
    <2>2. \A e \in 0..MaxEdits : <<e, source[f][2]>> # NoFile
        BY <2>1, ContentsArePairs, NoFileIsNothing
    <2> QED BY <1>3, <2>1, <2>2 DEF Edit, destVars, syncVars, TypeOK
<1>4. CASE UNCHANGED vars
    BY <1>4 DEF vars
<1>5. CASE \E f \in AppendOnly : AppendRows(f)
    <2>1. PICK f \in AppendOnly : AppendRows(f)
        BY <1>5
    <2>2. source' = [source EXCEPT ![f] = <<source[f][1], source[f][2] + 1>>]
        BY <2>1, <1>1
    <2>3. \A g \in Files : g # f => source'[g] = source[g]
        BY <2>2 DEF TypeOK
    <2>4. source'[f] = <<source[f][1], source[f][2] + 1>>
        BY <2>2, SyncAssumption DEF TypeOK
    <2> QED BY <2>1, <2>3, <2>4, <1>1
<1> QED BY <1>2, <1>3, <1>4, <1>5
-----------------------------------------------------------------------------
(* The inductive step, one lemma per part of the invariant.                *)

LEMMA NextSplits ==
    ASSUME [Next]_vars
    PROVE  \/ \E s \in Syncers : Sync(s)
           \/ \E f \in AppendOnly : AppendRows(f)
           \/ EndRun
           \/ \E f \in Editable : Edit(f)
           \/ UNCHANGED vars
BY DEF Next

\* What a sync does to the copy: nothing, but for one file when it is copied or
\* settled.
LEMMA CopyChanges ==
    ASSUME TypeOK, SourceIsThere, AtFile, NEW s \in Syncers, Sync(s)
    PROVE  \/ dest' = dest /\ ~CopyInto(s) /\ ~SettleFile(s)
           \/ /\ CopyInto(s) /\ pc[s] = "copy" /\ pc'[s] = "settle" /\ job' = job
              /\ dest' = [dest EXCEPT ![File(s)][job[s].forms[File(s)]] = source[File(s)]]
           \/ /\ SettleFile(s) /\ pc[s] = "settle"
              /\ dest' = [dest EXCEPT ![File(s)][Other(job[s].forms[File(s)])] = NoFile]
<1>1. CASE CopyInto(s)
    BY <1>1 DEF CopyInto, Goto, TypeOK
<1>2. CASE SettleFile(s)
    BY <1>2 DEF SettleFile
<1>3. CASE ~CopyInto(s) /\ ~SettleFile(s)
    BY <1>3 DEF Sync, Plan, ReadReceipt, Guard, GuardRefuses, HashSource, SettleFails,
         WriteReceipt, Kill, destVars
<1> QED BY <1>1, <1>2, <1>3

LEMMA SourceKept == TypeOK /\ SourceIsThere /\ AtFile /\ [Next]_vars => SourceIsThere'
<1> SUFFICES ASSUME TypeOK, SourceIsThere, AtFile, [Next]_vars PROVE SourceIsThere'
    OBVIOUS
<1>1. CASE ~\E s \in Syncers : Sync(s)
    BY <1>1, NextSplits, SyncsWait DEF SourceIsThere, Busy
<1>2. ASSUME NEW s \in Syncers, Sync(s) PROVE SourceIsThere'
    <2>1. source' = source /\ \A t \in Syncers : t # s => pc'[t] = pc[t] /\ job'[t] = job[t]
        BY <1>2, OthersWait
    <2>2. ASSUME NEW f \in Files, NEW m \in Forms, dest'[f][m] # NoFile
          PROVE  source[f] # NoFile
        <3>1. CASE dest' = dest
            BY <2>2, <3>1 DEF SourceIsThere
        <3>2. CASE CopyInto(s) /\ pc[s] = "copy"
                   /\ dest' = [dest EXCEPT ![File(s)][job[s].forms[File(s)]] = source[File(s)]]
            <4>1. File(s) \in Files /\ source[File(s)] \in Contents /\ job[s].forms[File(s)] \in Forms
                BY <3>2, FileAtHand
            <4> QED BY <2>2, <3>2, <4>1, NoFileIsNothing DEF TypeOK, SourceIsThere
        <3>3. CASE SettleFile(s) /\ pc[s] = "settle"
                   /\ dest' = [dest EXCEPT ![File(s)][Other(job[s].forms[File(s)])] = NoFile]
            <4>1. File(s) \in Files /\ Other(job[s].forms[File(s)]) \in Forms
                BY <3>3, FileAtHand DEF Other, Forms
            <4> QED BY <2>2, <3>3, <4>1 DEF TypeOK, SourceIsThere
        <3> QED BY <1>2, <3>1, <3>2, <3>3, CopyChanges
    <2>3. ASSUME NEW t \in Syncers, pc'[t] # "idle", NEW f \in Files, job'[t].forms[f] # NoFile
          PROVE  source[f] # NoFile
        <3>1. CASE t # s
            BY <2>1, <2>3, <3>1 DEF SourceIsThere, Busy
        <3>2. CASE t = s /\ Plan(s)
            <4>1. job'[s].forms[f] = FormOf(source[f])
                BY <3>2 DEF Plan, TypeOK, NoJob
            <4> QED BY <2>3, <3>2, <4>1 DEF FormOf
        <3>3. CASE t = s /\ pc[s] # "idle" /\ job'[s].forms = job[s].forms
            BY <2>3, <3>3 DEF SourceIsThere, Busy
        <3>4. Plan(s) \/ pc'[s] = "idle" \/ (pc[s] # "idle" /\ job'[s].forms = job[s].forms)
            <4>1. job[s] \in Jobs /\ job \in [Syncers -> Jobs] /\ pc \in [Syncers -> {"idle",
                    "read", "guard", "hash", "copy", "settle", "receipt"}]
                BY DEF TypeOK
            <4>2. CASE ReadReceipt(s) \/ Guard(s) \/ HashSource(s) \/ CopyInto(s)
                BY <4>1, <4>2 DEF ReadReceipt, Guard, HashSource, CopyInto, Goto, Jobs
            <4>3. CASE SettleFile(s)
                BY <4>1, <4>3 DEF SettleFile, Jobs
            <4>4. CASE GuardRefuses(s) \/ SettleFails(s) \/ WriteReceipt(s) \/ Kill(s)
                BY <4>1, <4>4 DEF GuardRefuses, SettleFails, WriteReceipt, Kill, Goto
            <4> QED BY <1>2, <4>2, <4>3, <4>4 DEF Sync
        <3> QED BY <2>3, <3>1, <3>2, <3>3, <3>4
    <2> QED BY <2>1, <2>2, <2>3 DEF SourceIsThere, Busy
<1> QED BY <1>1, <1>2

\* What settling a file leaves: the entry written describes it.
LEMMA SettledMatches ==
    ASSUME TypeOK, SourceIsThere, AtFile, NEW s \in Syncers, SettleFile(s)
    PROVE  /\ job'[s].written[File(s)] # NoFile
           /\ \A f \in Files : f # File(s) =>
                job'[s].written[f] = job[s].written[f] /\ dest'[f] = dest[f]
           /\ \A m \in Forms :
                dest'[File(s)][m] = IF job'[s].written[File(s)].form = m
                                    THEN job'[s].written[File(s)].stored ELSE NoFile
<1> DEFINE F == File(s)
           form == job[s].forms[F]
           e == [form |-> form, source |-> job[s].hashed, stored |-> dest[F][form]]
<1>1. pc[s] = "settle" /\ dest[F][form] # NoFile
    BY DEF SettleFile
<1>2. F \in Files /\ form \in Forms
    BY <1>1, FileAtHand
<1>3. job[s] \in Jobs /\ job \in [Syncers -> Jobs] /\ job[s].written \in [Files -> Entries \cup {NoFile}]
    BY DEF TypeOK, Jobs
<1>4. job[s].hashed \in Contents /\ dest[F][form] \in Contents
    BY <1>1, <1>2, <1>3 DEF AtFile, Jobs, TypeOK
<1>5. e \in Entries
    BY <1>2, <1>4 DEF Entries
<1>6. /\ job' = [job EXCEPT ![s].written[F] = e, ![s].at = Onward(s, job[s].at + 1).at]
      /\ dest' = [dest EXCEPT ![F][Other(form)] = NoFile]
    BY DEF SettleFile
<1>7. e.form = form /\ e.stored = dest[F][form]
    OBVIOUS
<1>8. Other(form) # form /\ \A m \in Forms : m = form \/ m = Other(form)
    BY <1>2 DEF Other, Forms
<1> HIDE DEF F, form, e
<1>9. job'[s].written = [job[s].written EXCEPT ![F] = e]
    BY <1>3, <1>6 DEF Jobs
<1>10. /\ job'[s].written[F] = e
       /\ \A f \in Files : f # F => job'[s].written[f] = job[s].written[f]
    BY <1>2, <1>3, <1>9
<1>11. /\ \A f \in Files : f # F => dest'[f] = dest[f]
       /\ dest'[F] = [dest[F] EXCEPT ![Other(form)] = NoFile]
    BY <1>2, <1>6 DEF TypeOK
<1>12. \A m \in Forms : dest'[F][m] = IF m = Other(form) THEN NoFile ELSE dest[F][m]
    BY <1>2, <1>11 DEF TypeOK
<1> QED BY <1>2, <1>5, <1>7, <1>8, <1>10, <1>11, <1>12, NoFileIsNothing DEF F

LEMMA AtKept == TypeOK /\ SourceIsThere /\ AtFile /\ [Next]_vars => AtFile'
<1> SUFFICES ASSUME TypeOK, SourceIsThere, AtFile, [Next]_vars PROVE AtFile'
    OBVIOUS
<1>i. /\ Len(FileOrder) \in Nat /\ DOMAIN FileOrder = 1..Len(FileOrder)
      /\ \A k \in DOMAIN FileOrder : FileOrder[k] \in Files
      /\ \A i, j \in DOMAIN FileOrder : FileOrder[i] = FileOrder[j] => i = j
    BY FilesAreIndexed
<1>1. CASE ~\E s \in Syncers : Sync(s)
    BY <1>1, NextSplits, SyncsWait DEF AtFile, File
<1>2. ASSUME NEW s \in Syncers, Sync(s) PROVE AtFile'
    <2> DEFINE P(u) ==
          /\ pc[u] \in {"guard", "hash", "copy", "settle"} =>
               job[u].at \in DOMAIN FileOrder /\ job[u].forms[FileOrder[job[u].at]] # NoFile
          /\ pc[u] \in {"copy", "settle"} => job[u].hashed # NoFile
          /\ pc[u] \in {"idle", "read"} => job[u].at = 1
          /\ pc[u] = "receipt" => job[u].at = Len(FileOrder) + 1
          /\ \A k \in DOMAIN FileOrder :
               job[u].written[FileOrder[k]] # NoFile
                 <=> k < job[u].at /\ job[u].forms[FileOrder[k]] # NoFile
    <2>1. \A t \in Syncers : t # s => pc'[t] = pc[t] /\ job'[t] = job[t]
        BY <1>2, OthersWait
    <2>2. \A t \in Syncers : P(t)
        BY DEF AtFile, File
    <2>3. \A t \in Syncers : t # s => P(t)'
        BY <2>1, <2>2
    <2>4. P(s)'
        <3>1. CASE pc'[s] \in {"idle", "read"} /\ job'[s].at = 1 /\ job'[s].written = NoEntries
            <4>1. \A k \in DOMAIN FileOrder : job'[s].written[FileOrder[k]] = NoFile /\ ~(k < 1)
                BY <3>1, <1>i DEF NoEntries
            <4> QED BY <3>1, <4>1
        <3>2. CASE ReadReceipt(s)
            <4>1. /\ pc[s] = "read"
                  /\ pc'[s] = Onward(s, 1).pc /\ job'[s].at = Onward(s, 1).at
                  /\ job'[s].forms = job[s].forms /\ job'[s].written = job[s].written
                <5>1. job \in [Syncers -> Jobs] /\ job[s] \in Jobs
                    BY DEF TypeOK
                <5> QED BY <3>2, <5>1 DEF ReadReceipt, TypeOK, Jobs
            <4>2. 1 \in 1..Len(FileOrder) + 1
                BY <1>i
            <4>3. /\ \A k \in 1..Len(FileOrder) :
                       k < job'[s].at => job[s].forms[FileOrder[k]] = NoFile
                  /\ \/ pc'[s] = "receipt" /\ job'[s].at = Len(FileOrder) + 1
                     \/ /\ pc'[s] = "guard" /\ job'[s].at \in 1..Len(FileOrder)
                        /\ job[s].forms[FileOrder[job'[s].at]] # NoFile
                BY <4>1, <4>2, OnwardStops
            <4>4. \A k \in DOMAIN FileOrder : job[s].written[FileOrder[k]] = NoFile
                BY <1>i, <2>2, <4>1
            <4> QED BY <1>i, <4>1, <4>3, <4>4
        <3>3. CASE /\ pc[s] \in {"guard", "hash", "copy"} /\ pc'[s] \in {"hash", "copy", "settle"}
                   /\ pc'[s] \in {"copy", "settle"} => job'[s].hashed # NoFile
                   /\ job'[s].at = job[s].at
                   /\ job'[s].forms = job[s].forms /\ job'[s].written = job[s].written
            BY <2>2, <3>3
        <3>4. CASE SettleFile(s) /\ pc[s] = "settle"
            <4> DEFINE a == job[s].at
            <4>1. /\ pc'[s] = Onward(s, job[s].at + 1).pc
                  /\ job'[s].at = Onward(s, job[s].at + 1).at
                  /\ job'[s].forms = job[s].forms
                BY <3>4 DEF SettleFile, TypeOK, Jobs
            <4>2. /\ a \in 1..Len(FileOrder) /\ File(s) = FileOrder[a] /\ File(s) \in Files
                  /\ job[s].forms[File(s)] \in Forms
                BY <3>4, <1>i, FileAtHand
            <4>3. a + 1 \in 1..Len(FileOrder) + 1
                BY <4>2, <1>i
            <4>4. /\ job'[s].at \in a + 1..Len(FileOrder) + 1
                  /\ \A k \in a + 1..Len(FileOrder) :
                       k < job'[s].at => job[s].forms[FileOrder[k]] = NoFile
                  /\ \/ pc'[s] = "receipt" /\ job'[s].at = Len(FileOrder) + 1
                     \/ /\ pc'[s] = "guard" /\ job'[s].at \in 1..Len(FileOrder)
                        /\ job[s].forms[FileOrder[job'[s].at]] # NoFile
                BY <4>1, <4>3, OnwardStops
            <4>6. /\ job'[s].written[File(s)] # NoFile
                  /\ \A f \in Files : f # File(s) => job'[s].written[f] = job[s].written[f]
                BY <3>4, SettledMatches
            <4>7. \A k \in DOMAIN FileOrder : k # a =>
                    job'[s].written[FileOrder[k]] = job[s].written[FileOrder[k]]
                BY <1>i, <4>2, <4>6
            <4>8. \A k \in DOMAIN FileOrder :
                    job[s].written[FileOrder[k]] # NoFile
                      <=> k < a /\ job[s].forms[FileOrder[k]] # NoFile
                BY <2>2
            <4> HIDE DEF a
            <4>9. ASSUME NEW k \in DOMAIN FileOrder
                  PROVE  job'[s].written[FileOrder[k]] # NoFile
                           <=> k < job'[s].at /\ job[s].forms[FileOrder[k]] # NoFile
                <5>1. CASE k < a   BY <5>1, <1>i, <4>2, <4>4, <4>7, <4>8
                <5>2. CASE k = a   BY <5>2, <1>i, <4>2, <4>4, <4>6, NoFileIsNothing
                <5>3. CASE k > a   BY <5>3, <1>i, <4>2, <4>4, <4>7, <4>8
                <5> QED BY <5>1, <5>2, <5>3, <1>i, <4>2
            <4> QED BY <1>i, <4>1, <4>4, <4>9
        <3>5. CASE HashSource(s) \/ CopyInto(s) \/ Guard(s)
            <4>1. job[s] \in Jobs /\ job \in [Syncers -> Jobs]
                BY DEF TypeOK
            <4>2. CASE HashSource(s)
                <5>1. pc[s] = "hash" /\ source[File(s)] # NoFile
                    BY <4>2, FileAtHand, NoFileIsNothing DEF HashSource, Goto
                <5>2. /\ pc'[s] = "copy" /\ job'[s].hashed = source[File(s)]
                      /\ job'[s].at = job[s].at
                      /\ job'[s].forms = job[s].forms /\ job'[s].written = job[s].written
                    BY <4>1, <4>2 DEF HashSource, Goto, TypeOK, Jobs
                <5> QED BY <3>3, <5>1, <5>2
            <4>3. CASE CopyInto(s) \/ Guard(s)
                <5>1. \/ pc[s] = "copy" /\ pc'[s] = "settle" /\ job'[s] = job[s]
                      \/ pc[s] = "guard" /\ pc'[s] = "hash" /\ job'[s] = job[s]
                    BY <4>1, <4>3 DEF CopyInto, Guard, Goto, TypeOK
                <5> QED BY <2>2, <3>3, <5>1
            <4> QED BY <3>5, <4>2, <4>3
        <3>6. \/ pc'[s] \in {"idle", "read"} /\ job'[s].at = 1 /\ job'[s].written = NoEntries
              \/ ReadReceipt(s) \/ (SettleFile(s) /\ pc[s] = "settle")
              \/ HashSource(s) \/ CopyInto(s) \/ Guard(s)
            <4> USE DEF TypeOK
            <4>1. CASE Plan(s)          BY <4>1 DEF Plan, Goto, NoJob
            <4>2. CASE GuardRefuses(s)  BY <4>2 DEF GuardRefuses, Goto, Abandon, NoJob
            <4>3. CASE SettleFails(s)   BY <4>3 DEF SettleFails, Goto, Abandon, NoJob
            <4>4. CASE WriteReceipt(s)  BY <4>4 DEF WriteReceipt, Goto, NoJob
            <4>5. CASE Kill(s)          BY <4>5 DEF Kill, Abandon, NoJob
            <4>6. CASE SettleFile(s)    BY <4>6 DEF SettleFile
            <4> QED BY <1>2, <4>1, <4>2, <4>3, <4>4, <4>5, <4>6 DEF Sync
        <3> HIDE DEF P
        <3> QED BY <3>1, <3>2, <3>4, <3>5, <3>6
    <2>5. AtFile' <=> \A t \in Syncers : P(t)'
        BY DEF AtFile, File
    <2> HIDE DEF P
    <2> QED BY <2>3, <2>4, <2>5
<1> QED BY <1>1, <1>2

\* Who is alone changes when a sync is planned; a disturbance ends with the
\* receipt of a sync that is.
LEMMA AloneChanges ==
    ASSUME TypeOK, NEW s \in Syncers, Sync(s)
    PROVE  \/ /\ Plan(s) /\ pc[s] = "idle" /\ pc'[s] = "read"
              /\ alone' = IF Idle THEN {s} ELSE {}
              /\ disturbed' = IF Idle THEN disturbed ELSE "open"
           \/ /\ ~Plan(s) /\ pc[s] # "idle" /\ alone' = alone
              /\ disturbed' \in {disturbed, "open"} \/ (WriteReceipt(s) /\ alone = {s})
<1>1. CASE Plan(s)
    BY <1>1 DEF Plan, Goto, TypeOK
<1>2. CASE ~Plan(s)
    BY <1>2 DEF Sync, Plan, ReadReceipt, Guard, GuardRefuses, HashSource, CopyInto, SettleFile,
         SettleFails, WriteReceipt, Kill, Goto, Abandon, TypeOK
<1> QED BY <1>1, <1>2

LEMMA OneSyncKept == TypeOK /\ SourceIsThere /\ OneSync /\ [Next]_vars => OneSync'
<1> SUFFICES ASSUME TypeOK, SourceIsThere, OneSync, [Next]_vars PROVE OneSync'
    OBVIOUS
<1>1. CASE ~\E s \in Syncers : Sync(s)
    <2>1. UNCHANGED <<pc, alone, disturbed>>
        BY <1>1, NextSplits, SyncsWait
    <2> QED BY <2>1 DEF OneSync, Busy, Calm
<1>2. ASSUME NEW s \in Syncers, Sync(s) PROVE OneSync'
    <2>1. \A t \in Syncers : t # s => pc'[t] = pc[t]
        BY <1>2, OthersWait
    <2>2. CASE /\ Plan(s) /\ pc[s] = "idle" /\ pc'[s] = "read"
               /\ alone' = (IF Idle THEN {s} ELSE {})
               /\ disturbed' = (IF Idle THEN disturbed ELSE "open")
        BY <2>1, <2>2 DEF OneSync, Busy, Calm, Idle
    <2>3. CASE /\ ~Plan(s) /\ pc[s] # "idle" /\ alone' = alone
               /\ disturbed' \in {disturbed, "open"} \/ (WriteReceipt(s) /\ alone = {s})
        <3>1. WriteReceipt(s) => pc'[s] = "idle"
            BY DEF WriteReceipt, Goto, TypeOK
        <3> QED BY <2>1, <2>3, <3>1 DEF OneSync, Busy, Calm
    <2> QED BY <1>2, <2>2, <2>3, AloneChanges
<1> QED BY <1>1, <1>2

\* Nobody but the sync that steps is busy, when it is alone or nothing is
\* disturbed afterwards.
LEMMA NobodyElse ==
    ASSUME TypeOK, OneSync, NEW s \in Syncers, Sync(s), NEW t \in Syncers, pc'[t] # "idle",
           alone' = {t} \/ disturbed' # "open"
    PROVE  t = s
<1> SUFFICES ASSUME t # s PROVE FALSE
    OBVIOUS
<1>1. pc[t] # "idle"
    BY OthersWait
<1> QED BY <1>1, AloneChanges DEF OneSync, Busy, Calm, Idle

\* The same before the step.
LEMMA NobodyElseIsBusy ==
    ASSUME OneSync, Calm, NEW s \in Syncers, pc[s] # "idle", NEW t \in Syncers, pc[t] # "idle"
    PROVE  t = s
BY DEF OneSync, Calm, Busy

LEMMA AloneKnowsKept ==
    TypeOK /\ SourceIsThere /\ AtFile /\ OneSync /\ AloneKnows /\ [Next]_vars => AloneKnows'
<1> SUFFICES ASSUME TypeOK, SourceIsThere, AtFile, OneSync, AloneKnows, [Next]_vars
             PROVE  AloneKnows'
    OBVIOUS
<1>1. CASE ~\E s \in Syncers : Sync(s)
    <2>1. UNCHANGED <<dest, receipt, pc, job, alone>>
        BY <1>1, NextSplits, SyncsWait
    <2> QED BY <2>1 DEF AloneKnows, Alone, Busy, Matches
<1>2. ASSUME NEW t \in Syncers, Sync(t), NEW s \in Syncers, alone' = {s}, pc'[s] # "idle"
      PROVE  /\ pc'[s] # "read" => job'[s].previous = receipt'
             /\ \A f \in Files :
                  /\ job'[s].written[f] # NoFile => Matches(f, job[s].written[f])'
                  /\ job'[s].forms[f] = NoFile => \A m \in Forms : dest'[f][m] = NoFile
    <2>1. s = t
        BY <1>2, NobodyElse
    <2>j. job \in [Syncers -> Jobs] /\ job[s] \in Jobs
        BY DEF TypeOK
    <2>2. CASE Plan(s)
        <3>1. /\ pc'[s] = "read" /\ dest' = dest
              /\ job'[s].written = NoEntries
              /\ \A f \in Files : job'[s].forms[f] = FormOf(source[f])
            BY <2>2, <2>j DEF Plan, Goto, NoJob, destVars, TypeOK
        <3>2. \A f \in Files : job'[s].written[f] = NoFile
            BY <3>1 DEF NoEntries
        <3>3. \A f \in Files : job'[s].forms[f] = NoFile => source[f] = NoFile
            BY <3>1, NoFileIsNothing DEF FormOf, Forms
        <3> QED BY <3>1, <3>2, <3>3 DEF SourceIsThere
    <2>3. CASE ~Plan(s)
        <3>1. pc[s] # "idle" /\ alone = {s}
            BY <1>2, <2>1, <2>3, AloneChanges
        <3>2. /\ pc[s] # "read" => job[s].previous = receipt
              /\ \A f \in Files :
                   /\ job[s].written[f] # NoFile => Matches(f, job[s].written[f])
                   /\ job[s].forms[f] = NoFile => \A m \in Forms : dest[f][m] = NoFile
            BY <3>1 DEF AloneKnows, Alone, Busy
        <3>3. CASE ReadReceipt(s)
            <4>1. /\ job'[s].previous = receipt /\ receipt' = receipt /\ dest' = dest
                  /\ job'[s].written = job[s].written /\ job'[s].forms = job[s].forms
                BY <3>3, <2>j DEF ReadReceipt, Jobs, destVars
            <4> QED BY <3>2, <4>1 DEF Matches
        <3>4. CASE Guard(s) \/ HashSource(s)
            <4>1. /\ pc[s] # "read" /\ receipt' = receipt /\ dest' = dest
                  /\ job'[s].previous = job[s].previous
                  /\ job'[s].written = job[s].written /\ job'[s].forms = job[s].forms
                BY <3>4, <2>j DEF Guard, HashSource, Goto, Jobs, destVars
            <4> QED BY <3>2, <4>1 DEF Matches
        <3>5. CASE CopyInto(s)
            <4>1. /\ pc[s] = "copy" /\ receipt' = receipt /\ job' = job
                  /\ dest' = [dest EXCEPT ![File(s)][job[s].forms[File(s)]] = source[File(s)]]
                BY <3>5 DEF CopyInto, Goto
            <4>2. /\ File(s) \in Files /\ job[s].written[File(s)] = NoFile
                  /\ job[s].forms[File(s)] \in Forms
                BY <4>1, FileAtHand
            <4>3. \A f \in Files : f # File(s) => dest'[f] = dest[f]
                BY <4>1, <4>2 DEF TypeOK
            <4> QED BY <3>2, <4>1, <4>2, <4>3, NoFileIsNothing DEF Matches
        <3>6. CASE SettleFile(s)
            <4>1. /\ pc[s] = "settle" /\ receipt' = receipt
                  /\ job'[s].previous = job[s].previous /\ job'[s].forms = job[s].forms
                BY <3>6, <2>j DEF SettleFile, Jobs
            <4>2. File(s) \in Files /\ job[s].forms[File(s)] \in Forms
                BY <4>1, FileAtHand
            <4>3. /\ job'[s].written[File(s)] # NoFile
                  /\ \A f \in Files : f # File(s) =>
                       job'[s].written[f] = job[s].written[f] /\ dest'[f] = dest[f]
                  /\ \A m \in Forms :
                       dest'[File(s)][m] = IF job'[s].written[File(s)].form = m
                                           THEN job'[s].written[File(s)].stored ELSE NoFile
                BY <3>6, SettledMatches
            <4> QED BY <3>2, <4>1, <4>2, <4>3, NoFileIsNothing DEF Matches
        <3>7. CASE GuardRefuses(s) \/ SettleFails(s) \/ WriteReceipt(s) \/ Kill(s)
            BY <1>2, <3>7 DEF GuardRefuses, SettleFails, WriteReceipt, Kill, Goto, TypeOK
        <3> QED BY <1>2, <2>1, <2>3, <3>3, <3>4, <3>5, <3>6, <3>7 DEF Sync
    <2> QED BY <2>2, <2>3
<1>3. (\E s \in Syncers : Sync(s)) => AloneKnows'
    BY <1>2 DEF AloneKnows, Alone, Busy
<1> QED BY <1>1, <1>3

LEMMA ReceiptHoldsKept ==
    TypeOK /\ SourceIsThere /\ AtFile /\ OneSync /\ AloneKnows /\ ReceiptHolds /\ [Next]_vars
      => ReceiptHolds'
<1> SUFFICES ASSUME TypeOK, SourceIsThere, AtFile, OneSync, AloneKnows, ReceiptHolds, [Next]_vars
             PROVE  ReceiptHolds'
    OBVIOUS
<1>1. CASE ~\E s \in Syncers : Sync(s)
    <2>1. UNCHANGED <<dest, receipt, pc, job, disturbed>>
        BY <1>1, NextSplits, SyncsWait
    <2> QED BY <2>1 DEF ReceiptHolds, Calm, Busy, Touched, File, Matches
<1>2. ASSUME NEW s \in Syncers, Sync(s), disturbed' # "open", NEW f \in Files,
             \A t \in Syncers : pc'[t] # "idle" => ~Touched(t, f)'
      PROVE  Matches(f, receipt.files[f])'
    <2>o. \A t \in Syncers : t # s => pc'[t] = pc[t] /\ job'[t] = job[t]
        BY <1>2, OthersWait
    <2>j. job \in [Syncers -> Jobs] /\ job[s] \in Jobs
        BY DEF TypeOK
    <2>r. disturbed # "open" /\ (pc[s] # "idle" => ~Touched(s, f)) => Matches(f, receipt.files[f])
        <3>1. ASSUME NEW t \in Syncers, pc[t] # "idle", t # s
              PROVE  ~Touched(t, f)
            BY <1>2, <2>o, <3>1 DEF Touched, File
        <3> QED BY <3>1 DEF ReceiptHolds, Calm, Busy
    <2>1. CASE Plan(s)
        <3>1. pc[s] = "idle" /\ disturbed # "open" /\ dest' = dest /\ receipt' = receipt
            BY <1>2, <2>1 DEF Plan, Goto, destVars
        <3> QED BY <2>r, <3>1 DEF Matches
    <2>2. CASE ReadReceipt(s) \/ Guard(s) \/ HashSource(s)
        <3>1. /\ pc[s] \in {"read", "guard", "hash"} /\ pc'[s] # "idle"
              /\ job'[s].written = job[s].written
              /\ dest' = dest /\ receipt' = receipt /\ disturbed' = disturbed
            <4>1. 1 \in 1..Len(FileOrder) + 1
                BY FilesAreIndexed
            <4>2. Onward(s, 1).pc \in {"guard", "receipt"}
                BY <4>1, OnwardRange
            <4> QED BY <2>2, <2>j, <4>2 DEF ReadReceipt, Guard, HashSource, Goto, Jobs, destVars, TypeOK
        <3>2. ~Touched(s, f)
            BY <1>2, <3>1 DEF Touched
        <3> QED BY <1>2, <2>r, <3>1, <3>2 DEF Matches
    <2>3. CASE CopyInto(s)
        <3>1. /\ pc[s] = "copy" /\ pc'[s] = "settle" /\ receipt' = receipt /\ job' = job
              /\ dest' = [dest EXCEPT ![File(s)][job[s].forms[File(s)]] = source[File(s)]]
              /\ disturbed' = disturbed
            BY <2>3 DEF CopyInto, Goto, TypeOK
        <3>2. f # File(s) /\ job[s].written[f] = NoFile
            BY <1>2, <3>1 DEF Touched, File
        <3>3. ~Touched(s, f)
            BY <3>2 DEF Touched
        <3>4. dest'[f] = dest[f]
            BY <3>1, <3>2 DEF TypeOK
        <3> QED BY <1>2, <2>r, <3>1, <3>3, <3>4 DEF Matches
    <2>4. CASE SettleFile(s)
        <3>1. pc[s] = "settle" /\ receipt' = receipt /\ disturbed' = disturbed
            BY <2>4 DEF SettleFile
        <3>2. pc'[s] # "idle"
            <4>1. job[s].at \in 1..Len(FileOrder)
                BY <3>1, FileAtHand, FilesAreIndexed
            <4>2. job[s].at + 1 \in 1..Len(FileOrder) + 1
                BY <4>1, FilesAreIndexed
            <4> QED BY <2>4, <4>2, OnwardRange DEF SettleFile, TypeOK
        <3>3. job'[s].written[f] = NoFile
            BY <1>2, <3>2 DEF Touched
        <3>4. f # File(s) /\ job[s].written[f] = NoFile /\ dest'[f] = dest[f]
            BY <2>4, <3>3, SettledMatches
        <3>5. ~Touched(s, f)
            BY <3>4 DEF Touched
        <3> QED BY <1>2, <2>r, <3>1, <3>4, <3>5 DEF Matches
    <2>5. CASE GuardRefuses(s) \/ SettleFails(s) \/ Kill(s)
        <3>1. Abandon(s) /\ dest' = dest /\ receipt' = receipt
            BY <2>5 DEF GuardRefuses, SettleFails, Kill, destVars
        <3>2. disturbed' = disturbed /\ pc[s] # "settle" /\ job[s].written[f] = NoFile
            BY <1>2, <3>1 DEF Abandon
        <3> QED BY <1>2, <2>r, <3>1, <3>2 DEF Matches, Touched
    <2>6. CASE WriteReceipt(s)
        <3>1. /\ pc[s] = "receipt" /\ dest' = dest /\ receipt'.files = job[s].written
              /\ disturbed # "open" \/ alone = {s}
            BY <1>2, <2>6 DEF WriteReceipt, Goto
        <3>2. alone = {s}
            BY <3>1 DEF OneSync, Calm, Busy
        <3>3. /\ job[s].written[f] # NoFile => Matches(f, job[s].written[f])
              /\ job[s].forms[f] = NoFile => \A m \in Forms : dest[f][m] = NoFile
            BY <3>1, <3>2 DEF AloneKnows, Alone, Busy
        <3>4. job[s].written[f] = NoFile => job[s].forms[f] = NoFile
            <4>1. PICK k \in DOMAIN FileOrder : f = FileOrder[k]
                BY FilesAreIndexed
            <4>2. job[s].at = Len(FileOrder) + 1 /\ k < job[s].at
                BY <3>1, <4>1, FilesAreIndexed DEF AtFile
            <4> QED BY <4>1, <4>2 DEF AtFile
        <3> QED BY <3>1, <3>3, <3>4 DEF Matches
    <2> QED BY <1>2, <2>1, <2>2, <2>3, <2>4, <2>5, <2>6 DEF Sync
<1>3. (\E s \in Syncers : Sync(s)) => ReceiptHolds'
    BY <1>2 DEF ReceiptHolds, Calm, Busy
<1> QED BY <1>1, <1>3

\* What the guard compares with, when a file is copied, is what the copy has.
LEMMA HeldIsTheCopy ==
    ASSUME TypeOK, SourceIsThere, AtFile, OneSync, AloneKnows, ReceiptHolds, Calm,
           NEW s \in Syncers, pc[s] = "copy", NEW m \in Forms, dest[File(s)][m] # NoFile
    PROVE  Held(s, File(s)) = dest[File(s)][m]
<1> DEFINE F == File(s)
           entry == receipt.files[F]
<1>1. F \in Files /\ job[s].written[F] = NoFile
    BY FileAtHand
<1>2. job[s].previous = receipt
    BY DEF AloneKnows, Alone, OneSync, Busy
<1>3. \A t \in Syncers : Busy(t) => ~Touched(t, F)
    BY <1>1, NobodyElseIsBusy DEF Busy, Touched
<1>4. Matches(F, entry)
    BY <1>1, <1>3 DEF ReceiptHolds
<1>5. entry # NoFile /\ entry.form = m
    BY <1>4 DEF Matches
<1> QED BY <1>2, <1>5 DEF Held

\* What the guard lets pass of a guarded file is its past.
LEMMA AllowsExtends ==
    ASSUME NEW f \in Guarded, NEW old, NEW new, Allows(f, old, new)
    PROVE  Extends(f, old, new)
BY SyncAssumption DEF Guarded, Allows, Extends

LEMMA GuardHoldsKept ==
    TypeOK /\ SourceIsThere /\ AtFile /\ OneSync /\ GuardHolds /\ [Next]_vars => GuardHolds'
<1> SUFFICES ASSUME TypeOK, SourceIsThere, AtFile, OneSync, GuardHolds, [Next]_vars,
                    NEW s \in Syncers, disturbed' # "open", pc'[s] \in {"hash", "copy"},
                    Held(s, File(s))' # NoFile
             PROVE  Allows(File(s), Held(s, File(s)), source[File(s)])'
    BY DEF GuardHolds, Calm
<1>h. disturbed # "open" /\ pc[s] \in {"hash", "copy"} /\ Held(s, File(s)) # NoFile =>
        Allows(File(s), Held(s, File(s)), source[File(s)])
    BY DEF GuardHolds, Calm
<1>1. CASE ~\E t \in Syncers : Sync(t)
    <2>1. /\ UNCHANGED <<dest, receipt, pc, job, disturbed>>
          /\ ~Idle => \A f \in Files : source[f] # NoFile =>
                \/ source'[f] = source[f]
                \/ /\ f \in AppendOnly
                   /\ source'[f][1] = source[f][1] /\ source'[f][2] = source[f][2] + 1
        BY <1>1, NextSplits, SyncsWait
    <2>2. pc[s] \in {"hash", "copy"} /\ ~Idle
        BY <2>1 DEF Idle
    <2>3. File(s) \in Files /\ source[File(s)] \in Contents
        BY <2>2, FileAtHand
    <2>4. File(s)' = File(s) /\ Held(s, File(s))' = Held(s, File(s))
        BY <2>1 DEF File, Held
    <2>5. Allows(File(s), Held(s, File(s)), source[File(s)])
        BY <1>h, <2>1, <2>2, <2>4
    <2>6. CASE source'[File(s)] = source[File(s)]
        BY <2>4, <2>5, <2>6 DEF Allows
    <2>7. CASE /\ File(s) \in AppendOnly
               /\ source'[File(s)][1] = source[File(s)][1]
               /\ source'[File(s)][2] = source[File(s)][2] + 1
        <3>1. Held(s, File(s)) \in Contents
            <4>1. job[s] \in Jobs /\ job[s].previous \in Receipts
                BY DEF TypeOK, Jobs
            <4>2. job[s].previous.files[File(s)] \in Entries \cup {NoFile}
                BY <2>3, <4>1 DEF Receipts
            <4> QED BY <2>1, <2>3, <2>4, <4>2 DEF Held, TypeOK, Entries
        <3>2. Held(s, File(s))[2] \in Nat /\ source[File(s)][2] \in Nat
            BY <2>3, <3>1, ContentsArePairs
        <3>3. Held(s, File(s))[1] = source[File(s)][1] /\ Held(s, File(s))[2] <= source[File(s)][2]
            BY <2>5, <2>7, SyncAssumption DEF Allows
        <3> QED BY <2>4, <2>7, <3>2, <3>3 DEF Allows
    <2> QED BY <2>1, <2>2, <2>3, <2>6, <2>7, NoFileIsNothing
<1>2. ASSUME NEW t \in Syncers, Sync(t) PROVE Allows(File(s), Held(s, File(s)), source[File(s)])'
    <2>1. s = t
        BY <1>2, NobodyElse
    <2>2. source' = source /\ job \in [Syncers -> Jobs] /\ job[s] \in Jobs
        BY <1>2, OthersWait DEF TypeOK
    <2>3. CASE Guard(s)
        BY <2>3 DEF Guard, Goto, File, Held, Allows, destVars
    <2>4. CASE HashSource(s)
        <3>1. /\ pc[s] = "hash" /\ disturbed' = disturbed /\ dest' = dest
              /\ job'[s].at = job[s].at /\ job'[s].previous = job[s].previous
            BY <2>2, <2>4 DEF HashSource, Goto, Jobs, destVars
        <3>2. File(s)' = File(s)
            BY <3>1 DEF File
        <3>3. Held(s, File(s))' = Held(s, File(s))
            BY <3>1, <3>2 DEF Held
        <3> QED BY <1>h, <2>2, <3>1, <3>2, <3>3 DEF Allows
    <2>5. Guard(s) \/ HashSource(s)
        <3>1. ~ReadReceipt(s)
            <4>1. 1 \in 1..Len(FileOrder) + 1
                BY FilesAreIndexed
            <4>2. Onward(s, 1).pc \in {"guard", "receipt"}
                BY <4>1, OnwardRange
            <4> QED BY <4>2 DEF ReadReceipt, TypeOK
        <3>2. ~SettleFile(s)
            <4>1. ASSUME pc[s] = "settle" PROVE job[s].at + 1 \in 1..Len(FileOrder) + 1
                BY <4>1, FileAtHand, FilesAreIndexed
            <4>2. ASSUME pc[s] = "settle"
                  PROVE  Onward(s, job[s].at + 1).pc \in {"guard", "receipt"}
                BY <4>1, <4>2, OnwardRange
            <4> QED BY <4>2 DEF SettleFile, TypeOK
        <3>3. ~(Plan(s) \/ GuardRefuses(s) \/ CopyInto(s) \/ SettleFails(s) \/ WriteReceipt(s) \/ Kill(s))
            BY DEF Plan, GuardRefuses, CopyInto, SettleFails, WriteReceipt, Kill, Goto, TypeOK
        <3> QED BY <1>2, <2>1, <3>1, <3>2, <3>3 DEF Sync
    <2> QED BY <2>3, <2>4, <2>5
<1> QED BY <1>1, <1>2

LEMMA SettleExtendsKept ==
    IInv /\ [Next]_vars => SettleExtends'
<1> SUFFICES ASSUME IInv, [Next]_vars,
                    NEW s \in Syncers, disturbed' # "open", pc'[s] = "settle", File(s)' \in Guarded,
                    dest'[File(s)'][Other(job'[s].forms[File(s)'])] # NoFile
             PROVE  /\ dest'[File(s)'][job'[s].forms[File(s)']] # NoFile
                    /\ Extends(File(s)', dest'[File(s)'][Other(job'[s].forms[File(s)'])],
                               dest'[File(s)'][job'[s].forms[File(s)']])
    BY DEF SettleExtends, Calm, Extends, Other, Guarded
<1> USE DEF IInv
<1>1. CASE ~\E t \in Syncers : Sync(t)
    <2>1. UNCHANGED <<dest, receipt, pc, job, disturbed>>
        BY <1>1, NextSplits, SyncsWait
    <2>2. File(s)' = File(s)
        BY <2>1 DEF File
    <2> QED BY <2>1, <2>2 DEF SettleExtends, Calm
<1>2. ASSUME NEW t \in Syncers, Sync(t)
      PROVE  /\ dest'[File(s)'][job'[s].forms[File(s)']] # NoFile
             /\ Extends(File(s)', dest'[File(s)'][Other(job'[s].forms[File(s)'])],
                        dest'[File(s)'][job'[s].forms[File(s)']])
    <2>1. s = t
        BY <1>2, NobodyElse
    <2>2. CopyInto(s)
        <3>1. ~ReadReceipt(s)
            <4>1. 1 \in 1..Len(FileOrder) + 1
                BY FilesAreIndexed
            <4>2. Onward(s, 1).pc \in {"guard", "receipt"}
                BY <4>1, OnwardRange
            <4> QED BY <4>2 DEF ReadReceipt, TypeOK
        <3>2. ~SettleFile(s)
            <4>1. ASSUME pc[s] = "settle" PROVE job[s].at + 1 \in 1..Len(FileOrder) + 1
                BY <4>1, FileAtHand, FilesAreIndexed
            <4>2. ASSUME pc[s] = "settle"
                  PROVE  Onward(s, job[s].at + 1).pc \in {"guard", "receipt"}
                BY <4>1, <4>2, OnwardRange
            <4> QED BY <4>2 DEF SettleFile, TypeOK
        <3>3. ~(Plan(s) \/ Guard(s) \/ GuardRefuses(s) \/ HashSource(s) \/ SettleFails(s)
                \/ WriteReceipt(s) \/ Kill(s))
            BY DEF Plan, Guard, GuardRefuses, HashSource, SettleFails, WriteReceipt, Kill, Goto, TypeOK
        <3> QED BY <1>2, <2>1, <3>1, <3>2, <3>3 DEF Sync
    <2> DEFINE F == File(s)
               form == job[s].forms[F]
    <2>3. /\ pc[s] = "copy" /\ job' = job /\ disturbed' = disturbed
          /\ dest' = [dest EXCEPT ![F][form] = source[F]]
        BY <2>2 DEF CopyInto, Goto
    <2>4. File(s)' = F
        BY <2>3 DEF File
    <2>5. F \in Files /\ form \in Forms /\ source[F] \in Contents
        BY <2>3, FileAtHand
    <2>6. Other(form) \in Forms /\ Other(form) # form
        BY <2>5 DEF Other, Forms
    <2> HIDE DEF F, form
    <2>7. dest'[F][form] = source[F] /\ dest'[F][Other(form)] = dest[F][Other(form)]
        BY <2>3, <2>5, <2>6 DEF TypeOK
    <2>8. dest[F][Other(form)] # NoFile
        BY <2>3, <2>4, <2>7 DEF form
    <2>9. Held(s, F) = dest[F][Other(form)]
        BY <2>3, <2>6, <2>8, HeldIsTheCopy DEF F, Calm
    <2>10. Allows(F, Held(s, F), source[F])
        BY <2>3, <2>8, <2>9 DEF GuardHolds, Calm, F
    <2>11. Extends(F, dest[F][Other(form)], source[F])
        BY <2>4, <2>9, <2>10, AllowsExtends
    <2> QED BY <2>3, <2>4, <2>5, <2>7, <2>11, NoFileIsNothing DEF form
<1> QED BY <1>1, <1>2
-----------------------------------------------------------------------------
(* The theorems.                                                           *)

LEMMA Initially == Init => IInv
<1> SUFFICES ASSUME Init PROVE IInv
    OBVIOUS
<1>1. TypeOK
    BY TypeInit
<1>2. SourceIsThere /\ OneSync /\ AloneKnows /\ GuardHolds /\ SettleExtends
    BY NoFileIsNothing, ContentsArePairs, SyncAssumption
       DEF Init, SourceIsThere, OneSync, AloneKnows, GuardHolds, SettleExtends, Busy, Alone, Calm
<1>3. AtFile
    <2>1. \A s \in Syncers : job[s].at = 1 /\ job[s].written = NoEntries
        BY DEF Init, NoJob
    <2>2. \A k \in DOMAIN FileOrder : ~(k < 1) /\ NoEntries[FileOrder[k]] = NoFile
        BY FilesAreIndexed DEF NoEntries
    <2>3. \A s \in Syncers : pc[s] = "idle"
        BY DEF Init
    <2> QED BY <2>1, <2>2, <2>3 DEF AtFile
<1>4. ReceiptHolds
    BY DEF Init, ReceiptHolds, Matches, NoReceipt, NoEntries
<1> QED BY <1>1, <1>2, <1>3, <1>4 DEF IInv

LEMMA Invariant == Spec => []IInv
<1>1. IInv /\ [Next]_vars => IInv'
    BY TypeStep, SourceKept, AtKept, OneSyncKept, AloneKnowsKept, ReceiptHoldsKept, GuardHoldsKept,
       SettleExtendsKept DEF IInv
<1> QED BY Initially, <1>1, PTL DEF Spec

\* The types of everything a sync reads and writes, for any plan.
THEOREM SyncTypeCorrect == Spec => []TypeOK
BY Invariant, PTL DEF IInv

\* Between two syncs the receipt describes the copy: each entry's file is there,
\* in the form and with the content the entry states and in no other, whatever
\* was killed or refused before the last sync to complete alone.
THEOREM ReceiptDescribes == Spec => []ReceiptDescribesCopy
<1>1. IInv => ReceiptDescribesCopy
    <2> SUFFICES ASSUME IInv, Idle, disturbed # "open", NEW f \in Files, receipt.files[f] # NoFile
                 PROVE  /\ dest[f][receipt.files[f].form] = receipt.files[f].stored
                        /\ dest[f][Other(receipt.files[f].form)] = NoFile
        BY DEF ReceiptDescribesCopy
    <2>1. Matches(f, receipt.files[f])
        BY DEF IInv, ReceiptHolds, Calm, Busy, Idle
    <2>2. receipt.files[f] \in Entries
        BY DEF IInv, TypeOK, Receipts
    <2>3. /\ receipt.files[f].form \in Forms /\ Other(receipt.files[f].form) \in Forms
          /\ receipt.files[f].form # Other(receipt.files[f].form)
        BY <2>2 DEF Entries, Forms, Other
    <2> QED BY <2>1, <2>3 DEF Matches
<1> QED BY Invariant, <1>1, PTL

\* No sync rewrites what the vault holds of an append-only or immutable file:
\* what the guard compared with is what the copy has, in whichever form.
THEOREM HistoryStands == Spec => HistoryKept
<1>1. IInv /\ [Next]_vars => (disturbed # "open" => KeepsHistory)
    <2> SUFFICES ASSUME IInv, [Next]_vars, disturbed # "open", NEW f \in Guarded, NEW m \in Forms,
                        dest[f][m] # NoFile
                 PROVE  \E n \in Forms : dest'[f][n] # NoFile /\ Extends(f, dest[f][m], dest'[f][n])
        BY DEF KeepsHistory, Guarded
    <2> USE DEF IInv
    <2>1. f \in Files /\ dest[f][m] \in Contents
        BY SyncAssumption DEF Guarded, TypeOK
    <2>2. Extends(f, dest[f][m], dest[f][m])
        BY <2>1, ContentsArePairs DEF Extends
    <2>3. CASE dest'[f][m] = dest[f][m]
        BY <2>2, <2>3
    <2>4. ASSUME NEW s \in Syncers, CopyInto(s), dest'[f][m] # dest[f][m]
          PROVE  dest'[f][m] # NoFile /\ Extends(f, dest[f][m], dest'[f][m])
        <3>1. pc[s] = "copy" /\ dest' = [dest EXCEPT ![File(s)][job[s].forms[File(s)]] = source[File(s)]]
            BY <2>4 DEF CopyInto, Goto
        <3>2. File(s) \in Files /\ job[s].forms[File(s)] \in Forms /\ source[File(s)] \in Contents
            BY <3>1, FileAtHand
        <3>3. f = File(s) /\ m = job[s].forms[File(s)] /\ dest'[f][m] = source[f]
            BY <2>1, <2>4, <3>1, <3>2 DEF TypeOK
        <3>4. Held(s, f) = dest[f][m]
            BY <3>1, <3>3, HeldIsTheCopy DEF Calm
        <3>5. Allows(f, Held(s, f), source[f])
            BY <3>1, <3>3, <3>4 DEF GuardHolds, Calm
        <3> QED BY <3>2, <3>3, <3>4, <3>5, AllowsExtends, NoFileIsNothing
    <2>5. ASSUME NEW s \in Syncers, SettleFile(s), dest'[f][m] # dest[f][m]
          PROVE  \E n \in Forms : dest'[f][n] # NoFile /\ Extends(f, dest[f][m], dest'[f][n])
        <3> DEFINE form == job[s].forms[File(s)]
        <3>1. pc[s] = "settle" /\ dest' = [dest EXCEPT ![File(s)][Other(form)] = NoFile]
            BY <2>5 DEF SettleFile
        <3>2. File(s) \in Files /\ form \in Forms
            BY <3>1, FileAtHand
        <3>3. Other(form) \in Forms /\ Other(form) # form
            BY <3>2 DEF Other, Forms
        <3> HIDE DEF form
        <3>4. f = File(s) /\ m = Other(form) /\ dest'[f][form] = dest[f][form]
            BY <2>1, <2>5, <3>1, <3>2, <3>3 DEF TypeOK
        <3>5. dest[f][form] # NoFile /\ Extends(f, dest[f][m], dest[f][form])
            BY <3>1, <3>4 DEF SettleExtends, Calm, form
        <3> QED BY <3>2, <3>4, <3>5
    <2>6. CASE ~\E s \in Syncers : Sync(s)
        <3>1. dest' = dest
            BY <2>6, NextSplits, SyncsWait
        <3> QED BY <2>3, <3>1
    <2>7. ASSUME NEW s \in Syncers, Sync(s)
          PROVE  dest' = dest \/ CopyInto(s) \/ SettleFile(s)
        BY <2>7, CopyChanges
    <2> QED BY <2>3, <2>4, <2>5, <2>6, <2>7
<1>2. IInv /\ [Next]_vars => [disturbed # "open" => KeepsHistory]_vars
    BY <1>1
<1> QED BY Invariant, <1>2, PTL DEF Spec, HistoryKept
=============================================================================

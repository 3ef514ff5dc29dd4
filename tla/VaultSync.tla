------------------------------ MODULE VaultSync ------------------------------
(***************************************************************************)
(* `runvault sync` of one run, file by file: what it plans, what its guard *)
(* refuses, in which form it stores a file, and the receipt through which  *)
(* the next sync, the index and `delete` find the copy.  The run may be    *)
(* live while it is copied, and someone may edit the source.               *)
(*                                                                         *)
(* A content is <<edition, length>>: appending lengthens it, rewriting past *)
(* rows makes another edition.                                             *)
(***************************************************************************)
EXTENDS Naturals, Sequences, FiniteSets

CONSTANTS
    Syncers,          \* sync processes
    FileOrder,        \* the files of the run, in the order they are copied
    AppendOnly,       \* is_append_only
    Immutable,        \* is_immutable
    Editable,         \* files whose past someone may rewrite
    NoFile,           \* no such file, no receipt
    CompressOver,     \* a longer content is stored compressed
    MaxLength,        \* bound: appends
    MaxEdits,         \* bound: rewrites of the source
    MaxKills,         \* bound: syncs killed
    MaxSyncs          \* bound: syncs planned

Files == {FileOrder[i] : i \in DOMAIN FileOrder}
Contents == (0..MaxEdits) \X (1..MaxLength)
Forms == {"none", "zstd"}
Entries == [form : Forms, source : Contents, stored : Contents]

ASSUME SyncAssumption ==
    /\ FileOrder \in Seq(STRING)
    /\ \A i, j \in DOMAIN FileOrder : FileOrder[i] = FileOrder[j] => i = j
    /\ "status.json" \in Files \ AppendOnly
    /\ AppendOnly \subseteq Files /\ Immutable \subseteq Files /\ Editable \subseteq Files
    /\ AppendOnly \cap Immutable = {}
    /\ NoFile \notin Contents \cup Forms \cup Entries
    /\ {CompressOver, MaxLength, MaxEdits, MaxKills, MaxSyncs} \subseteq Nat
    /\ MaxLength > 0

VARIABLES
    source,     \* the run's files
    edits,      \* rewrites so far
    dest,       \* the copy: each file in each form
    receipt,    \* sync.json: the generation and, per file, what was sent
    pc,         \* each sync
    job,        \* what it planned, read, hashed and wrote
    planned,    \* syncs begun
    alone,      \* the sync in flight, if no other has overlapped it
    disturbed,  \* history: whether a sync was overlapped, or left the copy half done
    kills

vars == <<source, edits, dest, receipt, pc, job, planned, alone, disturbed, kills>>

NoEntries == [f \in Files |-> NoFile]
NoReceipt == [generation |-> 0, files |-> NoEntries]
NoJob == [forms |-> NoEntries, at |-> 1, previous |-> NoReceipt,
          hashed |-> NoFile, written |-> NoEntries]

Receipts == [generation : Nat, files : [Files -> Entries \cup {NoFile}]]
Jobs == [forms : [Files -> Forms \cup {NoFile}], at : 1..Len(FileOrder) + 1,
         previous : Receipts, hashed : Contents \cup {NoFile},
         written : [Files -> Entries \cup {NoFile}]]

TypeOK ==
    /\ source \in [Files -> Contents \cup {NoFile}]
    /\ edits \in 0..MaxEdits
    /\ dest \in [Files -> [Forms -> Contents \cup {NoFile}]]
    /\ receipt \in Receipts
    /\ pc \in [Syncers -> {"idle", "read", "guard", "hash", "copy", "settle", "receipt"}]
    /\ job \in [Syncers -> Jobs]
    /\ planned \in 0..MaxSyncs
    /\ alone \in SUBSET Syncers
    /\ disturbed \in {"no", "open", "past"} /\ kills \in 0..MaxKills

\* A live run: every file but status.json.
Init ==
    /\ source = [f \in Files |-> IF f = "status.json" THEN NoFile ELSE <<0, 1>>]
    /\ edits = 0
    /\ dest = [f \in Files |-> [m \in Forms |-> NoFile]]
    /\ receipt = NoReceipt
    /\ pc = [s \in Syncers |-> "idle"] /\ job = [s \in Syncers |-> NoJob]
    /\ planned = 0 /\ alone = {} /\ disturbed = "no" /\ kills = 0

destVars == <<dest, receipt>>
syncVars == <<pc, job, planned, alone, disturbed, kills>>

Idle == \A s \in Syncers : pc[s] = "idle"
-----------------------------------------------------------------------------
(* The source.                                                             *)

AppendRows(f) ==
    /\ source["status.json"] = NoFile
    /\ source[f][2] < MaxLength
    /\ source' = [source EXCEPT ![f] = <<@[1], @[2] + 1>>]
    /\ UNCHANGED <<edits, destVars, syncVars>>

EndRun ==
    /\ source["status.json"] = NoFile
    /\ source' = [source EXCEPT !["status.json"] = <<0, 1>>]
    /\ UNCHANGED <<edits, destVars, syncVars>>

\* Someone rewrites a file's past, while nothing is being copied; a second
\* rewrite may restore what was there.
Edit(f) ==
    /\ Idle /\ source[f] # NoFile
    /\ edits < MaxEdits
    /\ edits' = edits + 1
    /\ \E e \in 0..MaxEdits \ {source[f][1]} : source' = [source EXCEPT ![f] = <<e, @[2]>>]
    /\ UNCHANGED <<destVars, syncVars>>
-----------------------------------------------------------------------------
(* sync                                                                    *)

File(s) == FileOrder[job[s].at]
Other(form) == IF form = "zstd" THEN "none" ELSE "zstd"

Goto(s, from, to) == pc[s] = from /\ pc' = [pc EXCEPT ![s] = to]

\* The next file that is planned, or the receipt.
Onward(s, i) ==
    LET left == {k \in i..Len(FileOrder) : job[s].forms[FileOrder[k]] # NoFile}
    IN  IF left = {} THEN [at |-> Len(FileOrder) + 1, pc |-> "receipt"]
        ELSE [at |-> CHOOSE k \in left : \A l \in left : k <= l, pc |-> "guard"]

\* planned_file: what there is, and the form its size asks for.
FormOf(c) == IF c = NoFile THEN NoFile ELSE IF c[2] > CompressOver THEN "zstd" ELSE "none"

Plan(s) ==
    /\ Goto(s, "idle", "read") /\ planned < MaxSyncs
    /\ planned' = planned + 1
    /\ alone' = IF Idle THEN {s} ELSE {}
    /\ disturbed' = IF Idle THEN disturbed ELSE "open"
    /\ job' = [job EXCEPT ![s] = [NoJob EXCEPT !.forms = [f \in Files |-> FormOf(source[f])]]]
    /\ UNCHANGED <<source, edits, destVars, kills>>

\* A sync that ends before its receipt leaves what it has copied.
Abandon(s) ==
    /\ job' = [job EXCEPT ![s] = NoJob]
    /\ disturbed' = IF pc[s] = "settle" \/ \E f \in Files : job[s].written[f] # NoFile
                    THEN "open" ELSE disturbed

\* execute reads the receipt of the sync before.
ReadReceipt(s) ==
    /\ pc[s] = "read"
    /\ pc' = [pc EXCEPT ![s] = Onward(s, 1).pc]
    /\ job' = [job EXCEPT ![s].previous = receipt, ![s].at = Onward(s, 1).at]
    /\ UNCHANGED <<source, edits, destVars, planned, alone, disturbed, kills>>

MutComparesSizes(f, old, new) ==
    \/ f \in AppendOnly /\ old[2] <= new[2]
    \/ f \in Immutable /\ old = new
    \/ f \notin AppendOnly \cup Immutable

\* guard_rewrite: an append-only file may only grow, an immutable one not
\* change, any other is replaced.
Allows(f, old, new) ==
    \/ f \in AppendOnly /\ old[1] = new[1] /\ old[2] <= new[2]
    \/ f \in Immutable /\ old = new
    \/ f \notin AppendOnly \cup Immutable

\* What the receipt says was stored, if the file is still there.
Held(s, f) == LET entry == job[s].previous.files[f]
              IN  IF entry = NoFile THEN NoFile ELSE dest[f][entry.form]

Guard(s) ==
    /\ Goto(s, "guard", "hash")
    /\ Held(s, File(s)) # NoFile => Allows(File(s), Held(s, File(s)), source[File(s)])
    /\ UNCHANGED <<source, edits, destVars, job, planned, alone, disturbed, kills>>

\* The error leaves the files copied so far, and the old receipt.
GuardRefuses(s) ==
    /\ Goto(s, "guard", "idle")
    /\ Held(s, File(s)) # NoFile /\ ~Allows(File(s), Held(s, File(s)), source[File(s)])
    /\ Abandon(s)
    /\ UNCHANGED <<source, edits, destVars, planned, alone, kills>>

\* digest_file reads the source once,
HashSource(s) ==
    /\ Goto(s, "hash", "copy")
    /\ job' = [job EXCEPT ![s].hashed = source[File(s)]]
    /\ UNCHANGED <<source, edits, destVars, planned, alone, disturbed, kills>>

\* copy_into reads it again, and renames the copy into place.
CopyInto(s) ==
    /\ Goto(s, "copy", "settle")
    /\ dest' = [dest EXCEPT ![File(s)][job[s].forms[File(s)]] = source[File(s)]]
    /\ UNCHANGED <<source, edits, receipt, job, planned, alone, disturbed, kills>>

\* The stored copy is hashed and remove_other_form leaves one form.
SettleFile(s) ==
    LET f == File(s)  form == job[s].forms[f]  next == Onward(s, job[s].at + 1)
    IN  /\ pc[s] = "settle" /\ pc' = [pc EXCEPT ![s] = next.pc]
        /\ dest[f][form] # NoFile
        /\ job' = [job EXCEPT
             ![s].written[f] = [form |-> form, source |-> job[s].hashed, stored |-> dest[f][form]],
             ![s].at = next.at]
        /\ dest' = [dest EXCEPT ![f][Other(form)] = NoFile]
        /\ UNCHANGED <<source, edits, receipt, planned, alone, disturbed, kills>>

\* The copy it has just made is not there any more: digest_file fails.
SettleFails(s) ==
    /\ Goto(s, "settle", "idle")
    /\ dest[File(s)][job[s].forms[File(s)]] = NoFile
    /\ Abandon(s)
    /\ UNCHANGED <<source, edits, destVars, planned, alone, kills>>

MutReceiptWithPlannedForm(s) ==
    /\ Goto(s, "receipt", "idle")
    /\ receipt' = [generation |-> job[s].previous.generation + 1,
                   files |-> [f \in Files |->
                      IF job[s].written[f] = NoFile THEN NoFile
                      ELSE [job[s].written[f] EXCEPT !.form = "none"]]]
    /\ job' = [job EXCEPT ![s] = NoJob]
    /\ disturbed' = IF disturbed = "open" /\ alone = {s} THEN "past" ELSE disturbed
    /\ UNCHANGED <<source, edits, dest, planned, alone, kills>>

\* sync.json is written last, atomically.
WriteReceipt(s) ==
    /\ Goto(s, "receipt", "idle")
    /\ receipt' = [generation |-> job[s].previous.generation + 1, files |-> job[s].written]
    /\ job' = [job EXCEPT ![s] = NoJob]
    /\ disturbed' = IF disturbed = "open" /\ alone = {s} THEN "past" ELSE disturbed
    /\ UNCHANGED <<source, edits, dest, planned, alone, kills>>

Kill(s) ==
    /\ pc[s] # "idle" /\ kills < MaxKills
    /\ pc' = [pc EXCEPT ![s] = "idle"] /\ Abandon(s)
    /\ kills' = kills + 1
    /\ UNCHANGED <<source, edits, destVars, planned, alone>>

Sync(s) ==
    \/ Plan(s) \/ ReadReceipt(s) \/ Guard(s) \/ GuardRefuses(s) \/ HashSource(s)
    \/ CopyInto(s) \/ SettleFile(s) \/ SettleFails(s) \/ WriteReceipt(s) \/ Kill(s)

Next ==
    \/ \E f \in AppendOnly : AppendRows(f)
    \/ EndRun
    \/ \E f \in Editable : Edit(f)
    \/ \E s \in Syncers : Sync(s)

Spec == Init /\ [][Next]_vars
-----------------------------------------------------------------------------
(* Properties.                                                             *)

\* One content is the other's past, or the same.
Extends(f, old, new) ==
    IF f \in AppendOnly THEN old[1] = new[1] /\ old[2] <= new[2] ELSE old = new

KeepsHistory ==
    \A f \in AppendOnly \cup Immutable : \A m \in Forms :
        dest[f][m] # NoFile =>
            \E n \in Forms : dest'[f][n] # NoFile /\ Extends(f, dest[f][m], dest'[f][n])

\* What the vault holds of a guarded file survives every step in one form or
\* the other: a sync never rewrites history, whatever the source has become --
\* unless a sync was overlapped or left the copy half done, and until the next
\* one to complete alone.
HistoryKept == [][disturbed # "open" => KeepsHistory]_vars

\* The same without the condition (sync.rs, the comment on guard_rewrite).
RewritesRefused == [][KeepsHistory]_vars

\* Between two syncs every file the receipt lists is there, in the form and
\* with the content it states, and in no other form: readers go through the
\* receipt alone, and of two forms they would not know which is canonical.
\* Whatever kills, refusals and overlaps have left behind, the first sync to
\* complete alone repairs it.
ReceiptDescribesCopy ==
    Idle /\ disturbed # "open" =>
        \A f \in Files : LET entry == receipt.files[f]
                         IN  entry # NoFile => /\ dest[f][entry.form] = entry.stored
                                               /\ dest[f][Other(entry.form)] = NoFile
=============================================================================

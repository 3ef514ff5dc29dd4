---------------------------- MODULE LineageProofs ----------------------------
(***************************************************************************)
(* For any number of runs and whatever their files say: the search accepts *)
(* nothing circular, finds a circle only where the files hold one and      *)
(* whenever they do (unless a run is deleted under it), and what Run::start *)
(* took of a run is not refused for its shape at the end of the work; and  *)
(* a lineage that was accepted once is accepted from then on.              *)
(*                                                                         *)
(* The argument: a run on the path has one entry on the stack to leave it, *)
(* above which lies what is still to be followed from it (StackInv); a run *)
(* that was left has only references that were left earlier (DoneInv), so  *)
(* that the numbers of the runs left fall along every reference and no     *)
(* circle is among them; and each entry was put on the stack by the        *)
(* nearest entry below it that is to be left, so that a run met again on   *)
(* the path closes a circle (TrailInv).                                    *)
(***************************************************************************)
EXTENDS Lineage, SequenceTheorems, WellFoundedInduction, TLAPS

\* What is left only refers to what was left before.
DoneInv ==
    /\ pc = "resumed" => \A u \in Runs : marks[u] = "none"
    /\ \A u \in Runs : rank[u] <= left
    /\ \A u \in Runs : marks[u] = "done" =>
         \A v \in Follow(seen, u) : marks[v] = "done" /\ rank[v] < rank[u]

Leaves(i) == stack[i].visit = "leave"

\* The path and the stack agree, and nothing that was read is forgotten.
StackInv ==
    pc = "search" =>
      /\ marks[subject] = "done" \/ \E j \in DOMAIN stack : stack[j].uid = subject
      /\ \A i \in DOMAIN stack : Leaves(i) => marks[stack[i].uid] = "path"
      /\ \A u \in Runs : marks[u] = "path" =>
           \E i \in DOMAIN stack : Leaves(i) /\ stack[i].uid = u
      /\ \A i, j \in DOMAIN stack : Leaves(i) /\ Leaves(j) /\ stack[i].uid = stack[j].uid => i = j
      /\ \A i \in DOMAIN stack : Leaves(i) =>
           \A v \in Follow(seen, stack[i].uid) :
             marks[v] = "done" \/ \E j \in DOMAIN stack : j > i /\ stack[j].uid = v

\* The entry below i that put it on the stack.
PutBy(i, j) ==
    /\ j < i /\ Leaves(j)
    /\ stack[i].uid \in Follow(seen, stack[j].uid)
    /\ \A k \in DOMAIN stack : j < k /\ k < i => ~Leaves(k)

TrailInv ==
    pc = "search" =>
      \A i \in DOMAIN stack : /\ stack[i].uid \in Reach(AsRecorded, subject)
                              /\ i > 1 => \E j \in DOMAIN stack : PutBy(i, j)

\* What was read is what the files say, unless a run was deleted meanwhile.
SeenInv ==
    \A u \in Runs : /\ Follow(seen, u) \subseteq Follow(AsRecorded, u)
                    /\ marks[u] # "none" /\ removed = "no"
                         => Follow(seen, u) = Follow(AsRecorded, u)

SiblingInv ==
    /\ pc = "idle" => siblings = {} /\ removed = "no"
    /\ \A q \in siblings : life[q] # "unborn"
    /\ removed = "no" => \A q \in siblings : Readable(q)
    /\ pc # "idle" => subject \in siblings

\* Why a verification ended as it did.
VerdictInv ==
    /\ verdict = "none" <=> pc # "ended"
    /\ verdict = "ok" => marks[subject] = "done"
    /\ verdict = "cycle" => Circular(AsRecorded, subject)
    /\ verdict = "shape" => ~CheckLineageShape(lineage[subject])
    /\ verdict = "self" => Names(lineage[subject], subject)

\* Runs that were started have a lawful shape and form no circle: of any of
\* them, one names none of the others.
StartedInv ==
    /\ \A r \in started : life[r] # "unborn" /\ CheckLineageShape(lineage[r])
    /\ \A C \in SUBSET started :
         C # {} => \E p \in C : \A q \in C : ~Names(lineage[p], q)

Inv ==
    /\ TypeOK /\ DoneInv /\ StackInv /\ TrailInv /\ SeenInv /\ SiblingInv /\ VerdictInv /\ StartedInv
-----------------------------------------------------------------------------
(* Lineages and their references.                                           *)

LEMMA LineageOfType ==
    ASSUME NEW o \in Requests
    PROVE  LineageOf(o) \in Lineages
<1> DEFINE sweep == IF o.sweep_parent THEN [o.lineage EXCEPT !.sweep_id = OwnSlug] ELSE o.lineage
<1>1. o.lineage \in Lineages /\ o.sweep_point \in (Nat \X Nat) \cup {None}
    BY DEF Requests
<1>2. sweep \in Lineages
    BY <1>1, LineageAssumption DEF Lineages
<1> HIDE DEF sweep
<1>3. CASE o.sweep_point = None
    BY <1>2, <1>3 DEF LineageOf, sweep
<1>4. CASE o.sweep_point \in Nat \X Nat /\ o.sweep_point # None
    <2>1. o.sweep_point[1] \in Nat /\ o.sweep_point[2] \in Nat
        BY <1>4
    <2>2. [sweep EXCEPT !.sweep_index = o.sweep_point[1], !.sweep_total = o.sweep_point[2]] \in Lineages
        BY <1>2, <2>1 DEF Lineages
    <2> QED BY <1>4, <2>2 DEF LineageOf, sweep
<1> QED BY <1>1, <1>3, <1>4

LEMMA StartableType == Startable \subseteq Lineages
BY LineageOfType, LineageAssumption DEF Startable

\* What Run::start takes has a lawful shape once the sweep parent and the point
\* are written into it: finish() has nothing to say about it that start did not.
THEOREM RequireImpliesShape ==
    ASSUME NEW o \in Options, Require(o)
    PROVE  CheckLineageShape(LineageOf(o))
<1> DEFINE l == o.lineage
           sweep == IF o.sweep_parent THEN [l EXCEPT !.sweep_id = OwnSlug] ELSE l
<1>1. l \in Lineages /\ o.sweep_point \in (Nat \X Nat) \cup {None}
    BY LineageAssumption DEF Requests
<1>2. CheckLineageShape(l)
    BY DEF Require
<1>3. sweep \in Lineages /\ CheckLineageShape(sweep)
    <2>1. CASE o.sweep_parent
        <3>1. sweep = [l EXCEPT !.sweep_id = OwnSlug]
            BY <2>1
        <3>2. sweep \in Lineages
            BY <1>1, <3>1, LineageAssumption DEF Lineages
        <3>3. /\ sweep.parent_run_uid = l.parent_run_uid /\ sweep.sweep_id = OwnSlug
              /\ sweep.resumed_from = l.resumed_from /\ sweep.derived_from = l.derived_from
              /\ sweep.sweep_index = l.sweep_index /\ sweep.sweep_total = l.sweep_total
            BY <1>1, <3>1 DEF Lineages
        <3>4. OwnSlug # None
            BY LineageAssumption
        <3> QED BY <1>2, <3>2, <3>3, <3>4 DEF CheckLineageShape
    <2>2. CASE ~o.sweep_parent
        BY <1>1, <1>2, <2>2
    <2> QED BY <2>1, <2>2
<1>4. o.sweep_point # None => sweep.sweep_id # None
    <2>1. CASE o.sweep_parent
        <3>1. sweep.sweep_id = OwnSlug
            BY <1>1, <2>1 DEF Lineages
        <3> QED BY <3>1, LineageAssumption
    <2>2. CASE ~o.sweep_parent
        BY <2>2 DEF Require
    <2> QED BY <2>1, <2>2
<1>5. LineageOf(o) = IF o.sweep_point = None THEN sweep
                     ELSE [sweep EXCEPT !.sweep_index = o.sweep_point[1],
                                        !.sweep_total = o.sweep_point[2]]
    BY DEF LineageOf
<1> HIDE DEF sweep, l
<1>6. CASE o.sweep_point = None
    BY <1>3, <1>5, <1>6
<1>7. CASE o.sweep_point # None
    <2>1. /\ LineageOf(o).parent_run_uid = sweep.parent_run_uid
          /\ LineageOf(o).sweep_id = sweep.sweep_id
          /\ LineageOf(o).resumed_from = sweep.resumed_from
          /\ LineageOf(o).derived_from = sweep.derived_from
          /\ LineageOf(o).sweep_index = o.sweep_point[1]
          /\ LineageOf(o).sweep_total = o.sweep_point[2]
        BY <1>3, <1>5, <1>7 DEF Lineages
    <2>2. o.sweep_point[1] < o.sweep_point[2]
        BY <1>7 DEF Require
    <2>3. o.sweep_point[1] \in Nat /\ None \notin Nat
        BY <1>1, <1>7, LineageAssumption
    <2> QED BY <1>3, <1>4, <1>7, <2>1, <2>2, <2>3 DEF CheckLineageShape
<1> QED BY <1>6, <1>7

LEMMA EdgesType ==
    ASSUME NEW l \in Lineages
    PROVE  EdgesOf(l) \in Seq(Runs)
<1>1. \A r \in Refs : One(r) \in Seq(Runs)
    BY DEF One, Refs
<1>2. /\ One(l.parent_run_uid) \in Seq(Runs) /\ One(l.resumed_from) \in Seq(Runs)
      /\ One(l.derived_from) \in Seq(Runs)
    BY <1>1 DEF Lineages
<1>3. One(l.parent_run_uid) \o One(l.resumed_from) \in Seq(Runs)
    BY <1>2, ConcatProperties
<1> QED BY <1>2, <1>3, ConcatProperties DEF EdgesOf

\* A reference is named, or followed.
LEMMA NamesAreEdges ==
    ASSUME NEW l \in Lineages, NEW r
    PROVE  Names(l, r) <=> r \in {EdgesOf(l)[i] : i \in DOMAIN EdgesOf(l)}
BY DEF Names

LEMMA NothingNamed == EdgesOf(NoLineage) = <<>> /\ DOMAIN (<<>>) = {}
<1>1. One(NoRun) = <<>>
    BY DEF One
<1>2. <<>> \o <<>> = <<>>
    BY EmptySeq, ConcatEmptySeq
<1>3. DOMAIN (<<>>) = {}
    OBVIOUS
<1> QED BY <1>1, <1>2, <1>3 DEF EdgesOf, NoLineage

\* What is read of a run is a sequence of runs.
LEMMA ReadEdgesType ==
    ASSUME TypeOK, NEW u \in Runs
    PROVE  /\ ReadEdges(u) \in Seq(Runs)
           /\ ReadEdges(u) = EdgesOf(lineage[u]) \/ ReadEdges(u) = <<>>
<1>1. lineage[u] \in Lineages
    BY DEF TypeOK
<1>2. <<>> \in Seq(Runs)
    BY EmptySeq
<1> QED BY <1>1, <1>2, EdgesType DEF ReadEdges

-----------------------------------------------------------------------------
(* The stack.                                                               *)

LEMMA TopOfStack ==
    ASSUME NEW s \in Seq(Entries), s # <<>>
    PROVE  /\ Len(s) \in Nat \ {0} /\ DOMAIN s = 1..Len(s)
           /\ \A i \in DOMAIN s : s[i] \in Entries
           /\ Len(s) \in DOMAIN s
<1>1. Len(s) \in Nat \ {0} /\ DOMAIN s = 1..Len(s)
    BY EmptySeq, LenProperties
<1>2. \A i \in 1..Len(s) : s[i] \in Entries
    BY ElementOfSeq
<1> QED BY <1>1, <1>2

LEMMA Prefix ==
    ASSUME NEW s, NEW n \in Int, \A i \in 1..n : s[i] \in Entries
    PROVE  /\ SubSeq(s, 1, n) \in Seq(Entries)
           /\ Len(SubSeq(s, 1, n)) = IF 1 <= n THEN n - 1 + 1 ELSE 0
           /\ \A i \in 1..n - 1 + 1 : SubSeq(s, 1, n)[i] = s[1 + i - 1]
BY SubSeqProperties

\* The stack without its top.
LEMMA BelowTop ==
    ASSUME NEW s \in Seq(Entries), s # <<>>
    PROVE  LET b == SubSeq(s, 1, Len(s) - 1)
           IN  /\ b \in Seq(Entries) /\ Len(b) = Len(s) - 1
               /\ DOMAIN b = 1..Len(s) - 1
               /\ \A i \in 1..Len(s) - 1 : b[i] = s[i]
<1> DEFINE b == SubSeq(s, 1, Len(s) - 1)
           n == Len(s) - 1
<1>1. Len(s) \in Nat \ {0} /\ DOMAIN s = 1..Len(s) /\ \A i \in DOMAIN s : s[i] \in Entries
    BY TopOfStack
<1>2. 1 \in Int /\ n \in Int /\ \A i \in 1..n : s[i] \in Entries
    BY <1>1
<1>3. /\ b \in Seq(Entries) /\ Len(b) = IF 1 <= n THEN n - 1 + 1 ELSE 0
      /\ \A i \in 1..n - 1 + 1 : b[i] = s[1 + i - 1]
    BY <1>2, Prefix
<1>4. Len(b) = n
    BY <1>1, <1>3
<1>5. \A i \in 1..n : b[i] = s[i]
    BY <1>1, <1>3
<1>6. DOMAIN b = 1..n
    BY <1>3, <1>4, LenProperties
<1> QED BY <1>3, <1>4, <1>5, <1>6

LEMMA Concatenation ==
    ASSUME NEW c \in Seq(Entries), NEW t \in Seq(Entries), NEW p, p = c \o t
    PROVE  /\ p \in Seq(Entries) /\ Len(p) = Len(c) + Len(t)
           /\ \A i \in 1..Len(c) + Len(t) : p[i] = IF i <= Len(c) THEN c[i] ELSE t[i - Len(c)]
BY ConcatProperties

ToEnter(e) == [i \in DOMAIN e |-> [uid |-> e[i], visit |-> "enter"]]

\* A run that is entered stays on the stack, with what it refers to above it.
IsPushed(p, b, x, e) ==
    /\ DOMAIN p = 1..Len(b) + 1 + Len(e)
    /\ \A i \in 1..Len(b) : p[i] = b[i]
    /\ p[Len(b) + 1] = x
    /\ \A i \in 1..Len(e) : p[Len(b) + 1 + i] = [uid |-> e[i], visit |-> "enter"]

LEMMA Pushed ==
    ASSUME NEW b \in Seq(Entries), NEW x \in Entries, NEW e \in Seq(Runs),
           NEW p, p = b \o <<x>> \o ToEnter(e)
    PROVE  p \in Seq(Entries) /\ IsPushed(p, b, x, e)
<1> SUFFICES ASSUME NEW n, n = Len(b) + 1
             PROVE  /\ p \in Seq(Entries) /\ DOMAIN p = 1..n + Len(e)
                    /\ \A i \in 1..Len(b) : p[i] = b[i]
                    /\ p[n] = x
                    /\ \A i \in 1..Len(e) : p[n + i] = [uid |-> e[i], visit |-> "enter"]
    BY DEF IsPushed
<1> DEFINE c == b \o <<x>>
           t == ToEnter(e)
<1>1. Len(b) \in Nat /\ Len(e) \in Nat /\ DOMAIN e = 1..Len(e)
    BY LenProperties
<1>2. /\ t \in Seq(Entries) /\ Len(t) = Len(e)
      /\ \A i \in 1..Len(e) : t[i] = [uid |-> e[i], visit |-> "enter"]
    <2>1. \A i \in 1..Len(e) : e[i] \in Runs
        BY ElementOfSeq
    <2>2. t \in [1..Len(e) -> Entries]
        BY <1>1, <2>1 DEF ToEnter, Entries
    <2>3. t \in Seq(Entries)
        BY <1>1, <2>2, SeqDef
    <2>4. Len(t) = Len(e)
        BY <1>1, <2>2, <2>3, LenProperties
    <2> QED BY <1>1, <2>3, <2>4 DEF ToEnter
<1>3. <<x>> \in Seq(Entries) /\ Len(<<x>>) = 1 /\ <<x>>[1] = x
    OBVIOUS
<1>4. /\ c \in Seq(Entries) /\ Len(c) = n
      /\ \A i \in 1..n : c[i] = IF i <= Len(b) THEN b[i] ELSE <<x>>[i - Len(b)]
    BY <1>1, <1>3, ConcatProperties
<1>5. \A i \in 1..Len(b) : c[i] = b[i]
    BY <1>1, <1>4
<1>6. c[n] = x
    BY <1>1, <1>3, <1>4
<1>12. p = c \o t
    OBVIOUS
<1> HIDE DEF c, t
<1>7. /\ p \in Seq(Entries) /\ Len(p) = Len(c) + Len(t)
      /\ \A i \in 1..Len(c) + Len(t) : p[i] = IF i <= Len(c) THEN c[i] ELSE t[i - Len(c)]
    <2>1. c \in Seq(Entries) /\ t \in Seq(Entries)
        BY <1>2, <1>4
    <2> QED BY <2>1, <1>12, Concatenation, ZenonT(30)
<1>8. DOMAIN p = 1..n + Len(e)
    BY <1>2, <1>4, <1>7, LenProperties
<1>9. \A i \in 1..Len(b) : p[i] = b[i]
    BY <1>1, <1>2, <1>4, <1>5, <1>7
<1>10. p[n] = x
    BY <1>1, <1>2, <1>4, <1>6, <1>7
<1>11. \A i \in 1..Len(e) : p[n + i] = [uid |-> e[i], visit |-> "enter"]
    BY <1>1, <1>2, <1>4, <1>7
<1> QED BY <1>7, <1>8, <1>9, <1>10, <1>11

LEMMA PushedType ==
    ASSUME NEW b \in Seq(Entries), NEW x \in Entries, NEW e \in Seq(Runs)
    PROVE  b \o <<x>> \o ToEnter(e) \in Seq(Entries)
BY Pushed, ZenonT(30)

-----------------------------------------------------------------------------
(* The state has its types.                                                 *)

LEMMA InitTypeOK == Init => TypeOK
<1> SUFFICES ASSUME Init PROVE TypeOK
    OBVIOUS
<1>1. NoLineage \in Lineages
    BY DEF NoLineage, Lineages, Refs
<1>2. lineage \in [Runs -> Lineages]
    BY <1>1, LineageAssumption DEF Init
<1>3. stack \in Seq(Entries) /\ seen \in [Runs -> Seq(Runs)]
    BY EmptySeq DEF Init, Blank
<1>4. marks \in [Runs -> {"none", "path", "done"}] /\ rank \in [Runs -> Nat]
    BY DEF Init, Blank
<1>5. life \in [Runs -> {"unborn", "running", "killed", "failed", "finished", "gone"}]
    BY DEF Init
<1>6. finishing \in BOOLEAN /\ removed = "no" /\ subject \in Refs /\ pc = "idle"
    BY DEF Init, Refs
<1>7. /\ started = {} /\ accepted = {} /\ siblings = {} /\ left = 0 /\ verdict = "none"
      /\ changes \in 0..MaxChanges
    BY LineageAssumption DEF Init
<1> QED BY <1>2, <1>3, <1>4, <1>5, <1>6, <1>7 DEF TypeOK

LEMMA BlankTypes ==
    ASSUME NothingRead
    PROVE  /\ stack' \in Seq(Entries) /\ marks' \in [Runs -> {"none", "path", "done"}]
           /\ seen' \in [Runs -> Seq(Runs)] /\ rank' \in [Runs -> Nat] /\ left' \in Nat
BY EmptySeq DEF NothingRead, Blank

LEMMA EndTypes ==
    ASSUME EndCheck
    PROVE  /\ pc' = "idle" /\ subject' \in Refs /\ finishing' \in BOOLEAN
           /\ siblings' \subseteq Runs /\ verdict' = "none" /\ removed' = "no"
           /\ stack' \in Seq(Entries) /\ marks' \in [Runs -> {"none", "path", "done"}]
           /\ seen' \in [Runs -> Seq(Runs)] /\ rank' \in [Runs -> Nat] /\ left' \in Nat
<1>1. NothingRead
    BY DEF EndCheck
<1> QED BY <1>1, BlankTypes DEF EndCheck, Refs

LEMMA StepTypeOK == TypeOK /\ [Next]_vars => TypeOK'
<1> SUFFICES ASSUME TypeOK, [Next]_vars PROVE TypeOK'
    OBVIOUS
<1> USE DEF TypeOK
<1>1. ASSUME NEW r \in Runs, NEW l \in Startable, Start(r, l) PROVE TypeOK'
    BY <1>1, StartableType, LineageAssumption DEF Start, Change, Becomes, check
<1>2. ASSUME NEW r \in Runs, KillRun(r) PROVE TypeOK'
    <2>1. CASE EndCheck
        <3>1. /\ UNCHANGED <<lineage, started, accepted>>
              /\ changes' \in 0..MaxChanges
              /\ life' \in [Runs -> {"unborn", "running", "killed", "failed", "finished", "gone"}]
            BY <1>2, LineageAssumption DEF KillRun, Change, Becomes
        <3> QED BY <2>1, <3>1, EndTypes
    <2>2. CASE UNCHANGED check
        BY <1>2, <2>2, LineageAssumption DEF KillRun, Change, Becomes, check
    <2> QED BY <1>2, <2>1, <2>2 DEF KillRun
<1>3. ASSUME NEW r \in Runs, GcRecords(r) PROVE TypeOK'
    BY <1>3, LineageAssumption DEF GcRecords, Change, Becomes, check
<1>4. ASSUME NEW r \in Runs, FailRun(r) PROVE TypeOK'
    BY <1>4, LineageAssumption DEF FailRun, Change, Becomes, check
<1>5. ASSUME NEW r \in Runs, DeleteRun(r) PROVE TypeOK'
    BY <1>5, LineageAssumption DEF DeleteRun, Change, Becomes
<1>6. ASSUME NEW r \in Runs, BeginCheck(r) PROVE TypeOK'
    <2>1. finishing' \in BOOLEAN
        BY <1>6 DEF BeginCheck
    <2>2. pc' \in {"resumed", "ended"} /\ verdict' \in {"none", "shape", "self"}
        BY <1>6 DEF BeginCheck, Ended
    <2>3. NothingRead
        BY <1>6 DEF BeginCheck
    <2> QED BY <1>6, <2>1, <2>2, <2>3, BlankTypes DEF BeginCheck, Refs
<1>7. CASE CheckResumed
    <2>1. <<[uid |-> subject, visit |-> "enter"]>> \in Seq(Entries)
        BY <1>7 DEF CheckResumed, Entries
    <2> QED BY <1>7, <2>1 DEF CheckResumed, Ended
<1>8. CASE Conclude
    <2>1. EndCheck /\ pc = "ended" /\ UNCHANGED <<lineage, started, changes>>
        BY <1>8 DEF Conclude
    <2>2. life' \in [Runs -> {"unborn", "running", "killed", "failed", "finished", "gone"}]
        BY <1>8 DEF Conclude
    <2>3. accepted' \subseteq Runs
        BY <1>8 DEF Conclude
    <2> QED BY <2>1, <2>2, <2>3, EndTypes
<1>9. CASE Search
    <2>1. ASSUME stack # <<>>
          PROVE  Below \in Seq(Entries) /\ Top \in Entries /\ Top.uid \in Runs
        <3>1. Top \in Entries
            BY <2>1, TopOfStack DEF Top
        <3> QED BY <2>1, <3>1, BelowTop DEF Below, Entries
    <2>2. CASE LeaveRun
        BY <2>1, <2>2 DEF LeaveRun, Searching
    <2>3. CASE MeetPath
        BY <2>1, <2>3 DEF MeetPath, Searching, Ended
    <2>4. CASE MeetDone
        BY <2>1, <2>4 DEF MeetDone, Searching
    <2>5. CASE VisitRun
        <3>1. stack # <<>> /\ [uid |-> Top.uid, visit |-> "leave"] \in Entries
            BY <2>1, <2>5 DEF VisitRun, Searching, Entries
        <3>2. ReadEdges(Top.uid) \in Seq(Runs)
            BY <2>1, <3>1, ReadEdgesType
        <3>3. stack' = Below \o <<[uid |-> Top.uid, visit |-> "leave"]>> \o ToEnter(ReadEdges(Top.uid))
            BY <2>5 DEF VisitRun, ToEnter
        <3>4. stack' \in Seq(Entries)
            BY <2>1, <3>1, <3>2, <3>3, PushedType, Zenon
        <3>5. seen' \in [Runs -> Seq(Runs)] /\ marks' \in [Runs -> {"none", "path", "done"}]
            BY <2>1, <2>5, <3>1, <3>2 DEF VisitRun
        <3> QED BY <2>5, <3>4, <3>5 DEF VisitRun, Searching
    <2>6. CASE SearchEnds
        BY <2>6 DEF SearchEnds, Ended
    <2> QED BY <1>9, <2>2, <2>3, <2>4, <2>5, <2>6 DEF Search
<1>10. CASE UNCHANGED vars
    BY <1>10 DEF vars, check
<1> QED BY <1>1, <1>2, <1>3, <1>4, <1>5, <1>6, <1>7, <1>8, <1>9, <1>10 DEF Next

-----------------------------------------------------------------------------
(* Circles.                                                                 *)

LEMMA ReachItself ==
    ASSUME NEW e, NEW s \in Runs
    PROVE  s \in Reach(e, s)
BY DEF Reach

LEMMA ReachOnward ==
    ASSUME NEW e, NEW s, NEW u \in Reach(e, s), NEW v \in Follow(e, u), v \in Runs
    PROVE  v \in Reach(e, s)
<1>1. SUFFICES ASSUME NEW S \in SUBSET Runs, s \in S, ClosedUnder(e, S)
               PROVE  v \in S
    BY DEF Reach
<1>2. u \in S
    BY <1>1 DEF Reach
<1> QED BY <1>1, <1>2 DEF ClosedUnder

\* Numbers that fall along every reference leave no room for a circle.
LEMMA RankedIsAcyclic ==
    ASSUME NEW e, NEW s, NEW D \in SUBSET Runs, s \in D,
           rank \in [Runs -> Nat],
           \A u \in D : \A v \in Follow(e, u) : v \in D /\ rank[v] < rank[u]
    PROVE  ~Circular(e, s)
<1>1. ClosedUnder(e, D)
    BY DEF ClosedUnder
<1>2. Reach(e, s) \subseteq D
    BY <1>1 DEF Reach
<1>3. SUFFICES ASSUME NEW C \in SUBSET Reach(e, s), C # {},
                      \A p \in C : Follow(e, p) \cap C # {}
               PROVE  FALSE
    BY DEF Circular
<1> DEFINE R == {rank[p] : p \in C}
<1>4. R \subseteq Nat /\ R # {}
    BY <1>2, <1>3
<1>5. PICK x \in R : \A y \in R : ~(<<y, x>> \in OpToRel(<, Nat))
    <2> HIDE DEF R
    <2> QED BY <1>4, NatLessThanWellFounded, WFMin
<1>6. \A y \in R : ~(y < x)
    BY <1>4, <1>5 DEF OpToRel
<1>7. PICK p \in C : rank[p] = x
    BY <1>5
<1>8. PICK q \in C : q \in Follow(e, p)
    BY <1>3, <1>7
<1>9. rank[q] < rank[p] /\ rank[q] \in R
    BY <1>2, <1>8
<1> QED BY <1>6, <1>7, <1>9

\* A run on the path that is met again closes a circle: each entry that is to be
\* left was read to refer to the next such entry above it.
LEMMA PathClosesCircle ==
    ASSUME TypeOK, StackInv, TrailInv, SeenInv, MeetPath
    PROVE  Circular(AsRecorded, subject)
<1> DEFINE n == Len(stack)
<1>1. pc = "search" /\ stack # <<>> /\ stack[n].visit = "enter" /\ marks[stack[n].uid] = "path"
    BY DEF MeetPath, Searching, Top
<1>2. /\ n \in Nat \ {0} /\ DOMAIN stack = 1..n /\ n \in DOMAIN stack
      /\ \A i \in DOMAIN stack : stack[i].uid \in Runs
    BY <1>1, TopOfStack DEF TypeOK, Entries
<1> HIDE DEF n
<1>3. PICK o \in DOMAIN stack : Leaves(o) /\ stack[o].uid = stack[n].uid
    BY <1>1, <1>2 DEF StackInv
<1> DEFINE open == {k \in DOMAIN stack : k >= o /\ Leaves(k)}
           C == {stack[k].uid : k \in open}
<1>4. C \subseteq Reach(AsRecorded, subject) /\ C # {}
    BY <1>1, <1>2, <1>3 DEF TrailInv
<1>5. ASSUME NEW k \in open
      PROVE  Follow(AsRecorded, stack[k].uid) \cap C # {}
    <2> DEFINE I == {i \in DOMAIN stack : i > k /\ (Leaves(i) \/ i = n)}
    <2>1. k < n
        BY <1>1, <1>2 DEF Leaves
    <2>2. n \in I /\ I \subseteq Nat
        BY <1>2, <2>1
    <2>3. PICK m \in I : \A y \in I : ~(<<y, m>> \in OpToRel(<, Nat))
        <3> HIDE DEF I
        <3> QED BY <2>2, NatLessThanWellFounded, WFMin
    <2>4. \A y \in I : ~(y < m)
        BY <2>2, <2>3 DEF OpToRel
    <2>5. m \in DOMAIN stack /\ m > 1
        BY <1>2
    <2>6. PICK j \in DOMAIN stack : PutBy(m, j)
        BY <1>1, <2>5 DEF TrailInv
    <2>7. j = k
        <3>1. ~(j < k)
            BY <1>2, <2>6 DEF PutBy
        <3>2. ~(k < j)
            BY <1>2, <2>4, <2>6 DEF PutBy
        <3> QED BY <1>2, <3>1, <3>2
    <2>8. stack[m].uid \in Follow(AsRecorded, stack[k].uid)
        BY <1>2, <2>6, <2>7 DEF PutBy, SeenInv
    <2>9. stack[m].uid \in C
        <3>1. CASE Leaves(m)
            BY <1>2, <3>1
        <3>2. CASE m = n
            BY <1>2, <1>3, <3>2
        <3> QED BY <3>1, <3>2
    <2> QED BY <2>8, <2>9
<1>6. \A p \in C : Follow(AsRecorded, p) \cap C # {}
    BY <1>5
<1> HIDE DEF C
<1> QED BY <1>4, <1>6 DEF Circular

-----------------------------------------------------------------------------
(* What the life of the runs does to a verification: nothing, but for the   *)
(* deletion it notes.                                                       *)

SearchInv == DoneInv /\ StackInv /\ TrailInv /\ SeenInv /\ SiblingInv /\ VerdictInv

World ==
    /\ UNCHANGED <<pc, subject, siblings, stack, marks, seen, rank, left, verdict>>
    /\ \A q \in siblings : lineage'[q] = lineage[q]
    /\ \A q \in siblings : life[q] # "unborn" => life'[q] # "unborn"
    /\ removed' = "no" => removed = "no" /\ \A q \in siblings : Readable(q) => Readable(q)'
    /\ pc = "idle" => removed' = "no"

LEMMA LifeIsWorld ==
    ASSUME TypeOK, SiblingInv, NEW r \in Runs, NEW to \in {"running", "killed", "failed", "finished"},
           life[r] # "unborn" \/ r \notin siblings,
           life' = [life EXCEPT ![r] = to]
    PROVE  \A q \in siblings : /\ life[q] # "unborn" => life'[q] # "unborn"
                               /\ Readable(q) => Readable(q)'
BY DEF TypeOK, Readable

LEMMA WorldSteps ==
    ASSUME TypeOK, SiblingInv, NEW r \in Runs,
           \/ \E l \in Startable : Start(r, l)
           \/ KillRun(r) /\ UNCHANGED check
           \/ GcRecords(r) \/ FailRun(r) \/ DeleteRun(r)
    PROVE  World
<1>1. ASSUME NEW l \in Startable, Start(r, l) PROVE World
    <2>1. life[r] = "unborn" /\ life' = [life EXCEPT ![r] = "running"] /\ UNCHANGED check
        BY <1>1 DEF Start, Becomes
    <2>2. r \notin siblings
        BY <2>1 DEF SiblingInv
    <2>3. \A q \in siblings : lineage'[q] = lineage[q]
        BY <1>1, <2>2 DEF Start, TypeOK
    <2>4. \A q \in siblings : /\ life[q] # "unborn" => life'[q] # "unborn"
                              /\ Readable(q) => Readable(q)'
        BY <2>1, <2>2, LifeIsWorld
    <2> QED BY <2>1, <2>3, <2>4 DEF World, check, SiblingInv
<1>2. CASE KillRun(r) /\ UNCHANGED check
    <2>1. life[r] = "running" /\ life' = [life EXCEPT ![r] = "killed"] /\ UNCHANGED <<lineage, check>>
        BY <1>2 DEF KillRun, Becomes
    <2>2. \A q \in siblings : /\ life[q] # "unborn" => life'[q] # "unborn"
                              /\ Readable(q) => Readable(q)'
        BY <2>1, LifeIsWorld
    <2> QED BY <2>1, <2>2 DEF World, check, SiblingInv
<1>3. CASE GcRecords(r)
    <2>1. life[r] = "killed" /\ life' = [life EXCEPT ![r] = "failed"] /\ UNCHANGED <<lineage, check>>
        BY <1>3 DEF GcRecords, Becomes
    <2>2. \A q \in siblings : /\ life[q] # "unborn" => life'[q] # "unborn"
                              /\ Readable(q) => Readable(q)'
        BY <2>1, LifeIsWorld
    <2> QED BY <2>1, <2>2 DEF World, check, SiblingInv
<1>4. CASE FailRun(r)
    <2>1. life[r] = "running" /\ life' = [life EXCEPT ![r] = "failed"] /\ UNCHANGED <<lineage, check>>
        BY <1>4 DEF FailRun, Becomes
    <2>2. \A q \in siblings : /\ life[q] # "unborn" => life'[q] # "unborn"
                              /\ Readable(q) => Readable(q)'
        BY <2>1, LifeIsWorld
    <2> QED BY <2>1, <2>2 DEF World, check, SiblingInv
<1>5. CASE DeleteRun(r)
    <2>1. /\ life' = [life EXCEPT ![r] = "gone"]
          /\ removed' = IF pc = "idle" THEN "no" ELSE "yes"
          /\ UNCHANGED <<lineage, pc, subject, siblings, stack, marks, seen, rank, left, verdict>>
        BY <1>5 DEF DeleteRun, Becomes
    <2>2. \A q \in siblings : life[q] # "unborn" => life'[q] # "unborn"
        BY <2>1 DEF TypeOK
    <2>3. removed' = "no" => removed = "no" /\ siblings = {}
        BY <2>1 DEF SiblingInv
    <2> QED BY <2>1, <2>2, <2>3 DEF World
<1> QED BY <1>1, <1>2, <1>3, <1>4, <1>5

LEMMA SameRecords ==
    ASSUME UNCHANGED siblings, \A q \in siblings : lineage'[q] = lineage[q]
    PROVE  AsRecorded' = AsRecorded
BY DEF AsRecorded

LEMMA WorldKeepsSearch ==
    ASSUME TypeOK, SearchInv, World
    PROVE  SearchInv'
<1>1. AsRecorded' = AsRecorded
    BY SameRecords DEF World
<1>2. UNCHANGED <<pc, subject, siblings, stack, marks, seen, rank, left, verdict>>
    BY DEF World
<1>3. DoneInv'
    BY <1>2 DEF SearchInv, DoneInv
<1>4. StackInv'
    BY <1>2 DEF SearchInv, StackInv, Leaves
<1>5. TrailInv'
    BY <1>1, <1>2 DEF SearchInv, TrailInv, PutBy, Leaves
<1>6. SeenInv'
    BY <1>1, <1>2 DEF SearchInv, SeenInv, World
<1>7. SiblingInv'
    <2>1. SiblingInv /\ World
        BY DEF SearchInv
    <2>2. \A q \in siblings' : life'[q] # "unborn"
        BY <1>2, <2>1 DEF SiblingInv, World
    <2>3. removed' = "no" => \A q \in siblings' : Readable(q)'
        BY <1>2, <2>1 DEF SiblingInv, World
    <2> QED BY <1>2, <2>1, <2>2, <2>3 DEF SiblingInv, World
<1>8. VerdictInv'
    <2>1. lineage'[subject] = lineage[subject] \/ pc = "idle"
        BY DEF SearchInv, SiblingInv, World
    <2> QED BY <1>1, <1>2, <2>1 DEF SearchInv, VerdictInv
<1> QED BY <1>3, <1>4, <1>5, <1>6, <1>7, <1>8 DEF SearchInv

-----------------------------------------------------------------------------
(* The steps of the verification.                                           *)

LEMMA NothingReadInv ==
    ASSUME NothingRead
    PROVE  /\ DoneInv' /\ SeenInv'
           /\ \A u \in Runs : marks'[u] = "none" /\ Follow(seen', u) = {}
<1>1. /\ \A u \in Runs : marks'[u] = "none" /\ rank'[u] = 0 /\ seen'[u] = <<>>
      /\ left' = 0
    BY DEF NothingRead, Blank
<1>2. \A u \in Runs : Follow(seen', u) = {}
    BY <1>1 DEF Follow
<1>3. DoneInv'
    BY <1>1 DEF DoneInv
<1>4. SeenInv'
    BY <1>1, <1>2 DEF SeenInv
<1> QED BY <1>1, <1>2, <1>3, <1>4

LEMMA EndCheckInv ==
    ASSUME EndCheck
    PROVE  SearchInv'
<1>1. NothingRead /\ pc' = "idle" /\ siblings' = {} /\ verdict' = "none" /\ removed' = "no"
    BY DEF EndCheck
<1>2. DoneInv' /\ SeenInv'
    BY <1>1, NothingReadInv
<1>3. StackInv' /\ TrailInv' /\ SiblingInv' /\ VerdictInv'
    BY <1>1 DEF StackInv, TrailInv, SiblingInv, VerdictInv
<1> QED BY <1>2, <1>3 DEF SearchInv

LEMMA BeginCheckInv ==
    ASSUME TypeOK, NEW r \in Runs, BeginCheck(r)
    PROVE  SearchInv'
<1>1. /\ NothingRead /\ pc' \in {"resumed", "ended"} /\ removed' = "no"
      /\ siblings' = {q \in Runs : Readable(q)} /\ subject' = r
      /\ UNCHANGED <<life, lineage>>
    BY DEF BeginCheck, Ended
<1>2. DoneInv' /\ SeenInv'
    BY <1>1, NothingReadInv
<1>3. StackInv' /\ TrailInv'
    BY <1>1 DEF StackInv, TrailInv
<1>4. SiblingInv'
    <2>1. r \in siblings'
        BY <1>1 DEF BeginCheck, Readable, Recorded
    <2>2. \A q \in siblings' : life'[q] # "unborn" /\ Readable(q)'
        BY <1>1 DEF Readable
    <2> QED BY <1>1, <2>1, <2>2 DEF SiblingInv
<1>5. VerdictInv'
    <2>1. CASE ~CheckLineageShape(lineage[r])
        BY <1>1, <2>1 DEF BeginCheck, Ended, VerdictInv
    <2>2. CASE CheckLineageShape(lineage[r]) /\ Names(lineage[r], r)
        BY <1>1, <2>2 DEF BeginCheck, Ended, VerdictInv
    <2>3. CASE CheckLineageShape(lineage[r]) /\ ~Names(lineage[r], r)
        BY <1>1, <2>3 DEF BeginCheck, Ended, VerdictInv
    <2> QED BY <2>1, <2>2, <2>3
<1> QED BY <1>2, <1>3, <1>4, <1>5 DEF SearchInv

\* A step of the search itself reads files and writes none.
LEMMA CheckStepKeeps ==
    ASSUME SearchInv, UNCHANGED <<life, lineage, subject, siblings, removed>>,
           pc # "idle", pc' # "idle"
    PROVE  AsRecorded' = AsRecorded /\ SiblingInv'
<1>1. AsRecorded' = AsRecorded
    BY SameRecords
<1>2. SiblingInv'
    BY DEF SearchInv, SiblingInv, Readable
<1> QED BY <1>1, <1>2

LEMMA CheckResumedInv ==
    ASSUME TypeOK, SearchInv, CheckResumed
    PROVE  SearchInv'
<1>1. /\ pc = "resumed" /\ pc' \in {"search", "ended"} /\ verdict = "none"
      /\ UNCHANGED <<life, lineage, subject, siblings, removed, marks, seen, rank, left>>
      /\ subject \in Runs
    BY DEF CheckResumed, Ended, SearchInv, VerdictInv, TypeOK
<1>2. AsRecorded' = AsRecorded /\ SiblingInv'
    BY <1>1, CheckStepKeeps
<1>3. DoneInv' /\ SeenInv'
    BY <1>1, <1>2 DEF SearchInv, DoneInv, SeenInv
<1>4. CASE pc' = "ended"
    <2>1. verdict' = "resumed"
        BY <1>4 DEF CheckResumed, Ended
    <2>2. StackInv' /\ TrailInv' /\ VerdictInv'
        BY <1>4, <2>1 DEF StackInv, TrailInv, VerdictInv
    <2> QED BY <1>2, <1>3, <2>2 DEF SearchInv
<1>5. CASE pc' = "search"
    <2>1. stack' = <<[uid |-> subject, visit |-> "enter"]>> /\ verdict' = "none"
        BY <1>1, <1>5 DEF CheckResumed, Ended
    <2>2. DOMAIN stack' = {1} /\ stack'[1].uid = subject /\ stack'[1].visit = "enter"
        BY <2>1
    <2>3. \A u \in Runs : marks[u] = "none"
        BY <1>1 DEF SearchInv, DoneInv
    <2>4. StackInv'
        BY <1>1, <2>2, <2>3 DEF StackInv, Leaves
    <2>5. TrailInv'
        BY <1>1, <1>2, <2>2, ReachItself DEF TrailInv
    <2>6. VerdictInv'
        BY <1>5, <2>1 DEF VerdictInv
    <2> QED BY <1>2, <1>3, <2>4, <2>5, <2>6 DEF SearchInv
<1> QED BY <1>1, <1>4, <1>5

LEMMA SearchEndsInv ==
    ASSUME TypeOK, SearchInv, SearchEnds
    PROVE  SearchInv'
<1>1. /\ pc = "search" /\ pc' = "ended" /\ verdict' = "ok" /\ stack = <<>>
      /\ UNCHANGED <<life, lineage, subject, siblings, removed, marks, seen, rank, left>>
    BY DEF SearchEnds, Ended
<1>2. AsRecorded' = AsRecorded /\ SiblingInv'
    BY <1>1, CheckStepKeeps
<1>3. DoneInv' /\ SeenInv'
    BY <1>1, <1>2 DEF SearchInv, DoneInv, SeenInv
<1>4. StackInv' /\ TrailInv'
    BY <1>1 DEF StackInv, TrailInv
<1>5. marks[subject] = "done"
    BY <1>1 DEF SearchInv, StackInv
<1>6. VerdictInv'
    BY <1>1, <1>5 DEF VerdictInv
<1> QED BY <1>2, <1>3, <1>4, <1>6 DEF SearchInv

LEMMA MeetPathInv ==
    ASSUME TypeOK, SearchInv, MeetPath
    PROVE  SearchInv'
<1>1. /\ pc = "search" /\ pc' = "ended" /\ verdict' = "cycle"
      /\ UNCHANGED <<life, lineage, subject, siblings, removed, marks, seen, rank, left>>
    BY DEF MeetPath, Searching, Ended
<1>2. AsRecorded' = AsRecorded /\ SiblingInv'
    BY <1>1, CheckStepKeeps
<1>3. DoneInv' /\ SeenInv'
    BY <1>1, <1>2 DEF SearchInv, DoneInv, SeenInv
<1>4. StackInv' /\ TrailInv'
    BY <1>1 DEF StackInv, TrailInv
<1>5. Circular(AsRecorded, subject)
    BY PathClosesCircle DEF SearchInv
<1>6. VerdictInv'
    BY <1>1, <1>2, <1>5 DEF VerdictInv
<1> QED BY <1>2, <1>3, <1>4, <1>6 DEF SearchInv

\* The entry on top, and the stack without it.
LEMMA TopFacts ==
    ASSUME TypeOK, Searching, NEW n, n = Len(stack)
    PROVE  /\ n \in Nat \ {0} /\ DOMAIN stack = 1..n /\ Top = stack[n] /\ Top.uid \in Runs
           /\ \A i \in DOMAIN stack : stack[i].uid \in Runs
           /\ Below \in Seq(Entries) /\ Len(Below) = n - 1 /\ DOMAIN Below = 1..n - 1
           /\ \A i \in 1..n - 1 : Below[i] = stack[i]
<1>1. stack \in Seq(Entries) /\ stack # <<>>
    BY DEF TypeOK, Searching
<1>2. /\ n \in Nat \ {0} /\ DOMAIN stack = 1..n
      /\ \A i \in DOMAIN stack : stack[i] \in Entries
    BY <1>1, TopOfStack
<1>3. /\ Below \in Seq(Entries) /\ Len(Below) = n - 1 /\ DOMAIN Below = 1..n - 1
      /\ \A i \in 1..n - 1 : Below[i] = stack[i]
    BY <1>1, BelowTop DEF Below
<1>4. Top = stack[n] /\ n \in DOMAIN stack
    BY <1>2 DEF Top
<1> QED BY <1>2, <1>3, <1>4 DEF Entries

\* Taking the top away leaves the trail of the other entries.
LEMMA TrailBelow ==
    ASSUME TypeOK, SearchInv, Searching, stack' = Below,
           UNCHANGED <<life, lineage, subject, siblings, removed, seen, pc>>
    PROVE  TrailInv'
<1> DEFINE n == Len(stack)
<1>1. /\ n \in Nat \ {0} /\ DOMAIN stack = 1..n /\ DOMAIN stack' = 1..n - 1
      /\ \A i \in 1..n - 1 : stack'[i] = stack[i]
    BY TopFacts
<1> HIDE DEF n
<1>2. AsRecorded' = AsRecorded
    BY SameRecords
<1>3. SUFFICES ASSUME NEW i \in DOMAIN stack'
               PROVE  /\ stack'[i].uid \in Reach(AsRecorded, subject)
                      /\ i > 1 => \E j \in DOMAIN stack' : PutBy(i, j)'
    BY <1>2 DEF TrailInv
<1>4. i \in DOMAIN stack /\ stack'[i] = stack[i]
    BY <1>1
<1>5. stack[i].uid \in Reach(AsRecorded, subject)
    BY <1>4 DEF SearchInv, TrailInv, Searching
<1>6. ASSUME i > 1 PROVE \E j \in DOMAIN stack' : PutBy(i, j)'
    <2>1. PICK j \in DOMAIN stack : PutBy(i, j)
        BY <1>4, <1>6 DEF SearchInv, TrailInv, Searching
    <2>2. j < i /\ j \in DOMAIN stack' /\ stack'[j] = stack[j]
        BY <1>1, <1>3, <2>1 DEF PutBy
    <2>3. \A k \in DOMAIN stack' : k \in DOMAIN stack /\ stack'[k] = stack[k]
        BY <1>1
    <2>4. PutBy(i, j)'
        BY <1>4, <2>1, <2>2, <2>3 DEF PutBy, Leaves
    <2> QED BY <2>2, <2>4
<1> QED BY <1>4, <1>5, <1>6

LEMMA MeetDoneInv ==
    ASSUME TypeOK, SearchInv, MeetDone
    PROVE  SearchInv'
<1> DEFINE n == Len(stack)
<1>1. /\ Searching /\ pc = "search" /\ stack' = Below
      /\ Top.visit = "enter" /\ marks[Top.uid] = "done"
      /\ UNCHANGED <<pc, verdict, life, lineage, subject, siblings, removed, marks, seen, rank, left>>
    BY DEF MeetDone, Searching
<1>2. AsRecorded' = AsRecorded /\ SiblingInv'
    BY <1>1, CheckStepKeeps
<1>3. DoneInv' /\ SeenInv' /\ VerdictInv'
    BY <1>1, <1>2 DEF SearchInv, DoneInv, SeenInv, VerdictInv
<1>4. TrailInv'
    BY <1>1, TrailBelow
<1>5. /\ n \in Nat \ {0} /\ DOMAIN stack = 1..n /\ DOMAIN stack' = 1..n - 1 /\ Top = stack[n]
      /\ \A i \in 1..n - 1 : stack'[i] = stack[i]
    BY <1>1, TopFacts
<1> HIDE DEF n
<1>6. \A i \in DOMAIN stack' : i \in DOMAIN stack /\ stack'[i] = stack[i] /\ i # n
    BY <1>5
<1>7. \A i \in DOMAIN stack : i \in DOMAIN stack' \/ i = n
    BY <1>5
<1>8. StackInv
    BY DEF SearchInv
<1>9. StackInv'
    <2>1. marks[subject] = "done" \/ \E j \in DOMAIN stack' : stack'[j].uid = subject
        BY <1>1, <1>5, <1>6, <1>7, <1>8 DEF StackInv
    <2>2. \A u \in Runs : marks[u] = "path" =>
             \E i \in DOMAIN stack' : Leaves(i)' /\ stack'[i].uid = u
        BY <1>1, <1>5, <1>6, <1>7, <1>8 DEF StackInv, Leaves
    <2>3. \A i \in DOMAIN stack' : Leaves(i)' =>
            \A v \in Follow(seen, stack'[i].uid) :
              marks[v] = "done" \/ \E j \in DOMAIN stack' : j > i /\ stack'[j].uid = v
        BY <1>1, <1>5, <1>6, <1>7, <1>8 DEF StackInv, Leaves
    <2>4. \A i \in DOMAIN stack' : Leaves(i)' => marks[stack'[i].uid] = "path"
        BY <1>1, <1>6, <1>8 DEF StackInv, Leaves
    <2>5. \A i, j \in DOMAIN stack' :
            Leaves(i)' /\ Leaves(j)' /\ stack'[i].uid = stack'[j].uid => i = j
        BY <1>1, <1>6, <1>8 DEF StackInv, Leaves
    <2> QED BY <1>1, <2>1, <2>2, <2>3, <2>4, <2>5 DEF StackInv
<1> QED BY <1>2, <1>3, <1>4, <1>9 DEF SearchInv

\* A run is left when all it refers to has been left.
LEMMA LeaveRunInv ==
    ASSUME TypeOK, SearchInv, LeaveRun
    PROVE  SearchInv'
<1> DEFINE n == Len(stack)
           t == Top.uid
<1>1. /\ Searching /\ pc = "search" /\ stack' = Below /\ Top.visit = "leave"
      /\ marks' = [marks EXCEPT ![t] = "done"]
      /\ left' = left + 1 /\ rank' = [rank EXCEPT ![t] = left + 1]
      /\ UNCHANGED <<pc, verdict, life, lineage, subject, siblings, removed, seen>>
    BY DEF LeaveRun, Searching
<1>2. AsRecorded' = AsRecorded /\ SiblingInv'
    BY <1>1, CheckStepKeeps
<1>3. TrailInv'
    BY <1>1, TrailBelow
<1>4. /\ n \in Nat \ {0} /\ DOMAIN stack = 1..n /\ DOMAIN stack' = 1..n - 1 /\ Top = stack[n]
      /\ \A i \in 1..n - 1 : stack'[i] = stack[i]
      /\ t \in Runs /\ \A i \in DOMAIN stack : stack[i].uid \in Runs
    BY <1>1, TopFacts
<1>5. n \in DOMAIN stack /\ Leaves(n) /\ stack[n].uid = t
    BY <1>1, <1>4 DEF Leaves
<1> HIDE DEF n, t
<1>6. StackInv /\ DoneInv /\ SeenInv /\ VerdictInv
    BY DEF SearchInv
<1>7. /\ marks \in [Runs -> {"none", "path", "done"}] /\ rank \in [Runs -> Nat] /\ left \in Nat
      /\ \A u \in Runs : Follow(seen, u) \subseteq Runs
    <2>1. \A u \in Runs : seen[u] \in Seq(Runs)
        BY DEF TypeOK
    <2>2. \A u \in Runs : \A i \in DOMAIN seen[u] : seen[u][i] \in Runs
        BY <2>1, LenProperties, ElementOfSeq
    <2> QED BY <2>2 DEF TypeOK, Follow
<1>8. \A v \in Follow(seen, t) : marks[v] = "done"
    BY <1>1, <1>4, <1>5, <1>6 DEF StackInv
<1>9. marks[t] = "path"
    BY <1>1, <1>5, <1>6 DEF StackInv
<1>10. \A u \in Runs : /\ marks'[u] = IF u = t THEN "done" ELSE marks[u]
                       /\ rank'[u] = IF u = t THEN left + 1 ELSE rank[u]
    BY <1>1, <1>4, <1>7
<1>11. DoneInv'
    <2>1. \A u \in Runs : rank'[u] <= left'
        BY <1>1, <1>6, <1>7, <1>10 DEF DoneInv
    <2>2. ASSUME NEW u \in Runs, marks'[u] = "done", NEW v \in Follow(seen, u)
          PROVE  marks'[v] = "done" /\ rank'[v] < rank'[u]
        <3>1. v \in Runs
            BY <1>7
        <3>2. CASE u = t
            BY <1>6, <1>7, <1>8, <1>9, <1>10, <2>2, <3>1, <3>2 DEF DoneInv
        <3>3. CASE u # t
            BY <1>6, <1>7, <1>9, <1>10, <2>2, <3>1, <3>3 DEF DoneInv
        <3> QED BY <3>2, <3>3
    <2> QED BY <1>1, <2>1, <2>2 DEF DoneInv
<1>12. SeenInv' /\ VerdictInv'
    <2>1. SeenInv'
        BY <1>1, <1>2, <1>6, <1>9, <1>10 DEF SeenInv
    <2>2. VerdictInv'
        BY <1>1, <1>2, <1>6 DEF VerdictInv
    <2> QED BY <2>1, <2>2
<1>13. \A i \in DOMAIN stack' : i \in DOMAIN stack /\ stack'[i] = stack[i] /\ i # n
    BY <1>4
<1>14. \A i \in DOMAIN stack : i \in DOMAIN stack' \/ i = n
    BY <1>4
<1>15. \A i \in DOMAIN stack' : Leaves(i)' => stack[i].uid # t /\ stack[i].uid \in Runs
    BY <1>1, <1>4, <1>5, <1>6, <1>13 DEF StackInv, Leaves
<1>16. StackInv'
    <2>1. marks'[subject] = "done" \/ \E j \in DOMAIN stack' : stack'[j].uid = subject
        BY <1>1, <1>4, <1>5, <1>6, <1>7, <1>10, <1>13, <1>14 DEF StackInv
    <2>2. \A u \in Runs : marks'[u] = "path" =>
             \E i \in DOMAIN stack' : Leaves(i)' /\ stack'[i].uid = u
        BY <1>1, <1>5, <1>6, <1>10, <1>13, <1>14 DEF StackInv, Leaves
    <2>3. ASSUME NEW i \in DOMAIN stack', Leaves(i)', NEW v \in Follow(seen, stack'[i].uid)
          PROVE  marks'[v] = "done" \/ \E j \in DOMAIN stack' : j > i /\ stack'[j].uid = v
        <3>1. v \in Runs /\ stack'[i].uid = stack[i].uid /\ Leaves(i) /\ i \in DOMAIN stack
            BY <1>7, <1>13, <1>15, <2>3 DEF Leaves
        <3>2. marks[v] = "done" \/ \E j \in DOMAIN stack : j > i /\ stack[j].uid = v
            BY <1>1, <1>6, <2>3, <3>1 DEF StackInv
        <3> QED BY <1>5, <1>10, <1>13, <1>14, <3>1, <3>2
    <2>4. \A i \in DOMAIN stack' : Leaves(i)' => marks'[stack'[i].uid] = "path"
        BY <1>1, <1>6, <1>10, <1>13, <1>15 DEF StackInv, Leaves
    <2>5. \A i, j \in DOMAIN stack' :
            Leaves(i)' /\ Leaves(j)' /\ stack'[i].uid = stack'[j].uid => i = j
        BY <1>1, <1>6, <1>13 DEF StackInv, Leaves
    <2> QED BY <1>1, <2>1, <2>2, <2>3, <2>4, <2>5 DEF StackInv
<1> QED BY <1>2, <1>3, <1>11, <1>12, <1>16 DEF SearchInv

\* A run is entered: it goes on the path, and all it refers to above it.
LEMMA VisitRunInv ==
    ASSUME TypeOK, SearchInv, VisitRun
    PROVE  SearchInv'
<1> SUFFICES ASSUME NEW n, n = Len(stack), NEW t, t = Top.uid,
                    NEW e, e = ReadEdges(t), NEW m, m = Len(e)
             PROVE  SearchInv'
    OBVIOUS
<1>1. /\ Searching /\ pc = "search" /\ Top.visit = "enter" /\ marks[t] = "none"
      /\ marks' = [marks EXCEPT ![t] = "path"]
      /\ seen' = [seen EXCEPT ![t] = e]
      /\ stack' = Below \o <<[uid |-> t, visit |-> "leave"]>> \o ToEnter(e)
      /\ UNCHANGED <<pc, verdict, life, lineage, subject, siblings, removed, rank, left>>
    BY DEF VisitRun, Searching, ToEnter
<1>2. AsRecorded' = AsRecorded /\ SiblingInv'
    BY <1>1, CheckStepKeeps
<1>3. /\ n \in Nat \ {0} /\ DOMAIN stack = 1..n /\ Top = stack[n] /\ t \in Runs
      /\ \A i \in DOMAIN stack : stack[i].uid \in Runs
      /\ Below \in Seq(Entries) /\ Len(Below) = n - 1
      /\ \A i \in 1..n - 1 : Below[i] = stack[i]
    BY <1>1, TopFacts
<1>4. e \in Seq(Runs) /\ (e = EdgesOf(lineage[t]) \/ e = <<>>)
    BY <1>3, ReadEdgesType
<1>5. m \in Nat /\ DOMAIN e = 1..m /\ \A k \in 1..m : e[k] \in Runs
    BY <1>4, LenProperties, ElementOfSeq
<1>6. [uid |-> t, visit |-> "leave"] \in Entries
    BY <1>3 DEF Entries
<1>7. n = Len(Below) + 1
    BY <1>3
<1>21. t = stack[n].uid
    BY <1>3
<1>8. /\ DOMAIN stack' = 1..n + m
      /\ \A i \in 1..Len(Below) : stack'[i] = Below[i]
      /\ stack'[n] = [uid |-> t, visit |-> "leave"]
      /\ \A i \in 1..m : stack'[n + i] = [uid |-> e[i], visit |-> "enter"]
    <2>1. /\ Below \in Seq(Entries) /\ e \in Seq(Runs)
          /\ stack' = Below \o <<[uid |-> t, visit |-> "leave"]>> \o ToEnter(e)
        BY <1>1, <1>3, <1>4
    <2>2. IsPushed(stack', Below, [uid |-> t, visit |-> "leave"], e)
        BY <1>6, <2>1, Pushed, ZenonT(30)
    <2> QED BY <1>7, <2>2 DEF IsPushed
<1>22. 1..n \subseteq DOMAIN stack' /\ n \in DOMAIN stack' /\ n \in DOMAIN stack
    BY <1>3, <1>5, <1>8
<1>23. \A k \in 1..m : /\ n + k \in DOMAIN stack' /\ n + k > n
                        /\ stack'[n + k].uid = e[k] /\ stack'[n + k].visit = "enter"
    <2>1. ASSUME NEW k \in 1..m
          PROVE  /\ n + k \in DOMAIN stack' /\ n + k > n
                 /\ stack'[n + k].uid = e[k] /\ stack'[n + k].visit = "enter"
        <3>1. n + k \in 1..n + m /\ n + k > n
            BY <1>3, <1>5
        <3>2. stack'[n + k] = [uid |-> e[k], visit |-> "enter"]
            BY <1>8
        <3>3. DOMAIN stack' = 1..n + m
            BY <1>8
        <3> QED BY <3>1, <3>2, <3>3
    <2> QED BY <2>1
<1>24. stack'[n].uid = t /\ stack'[n].visit = "leave"
    <2>1. stack'[n] = [uid |-> t, visit |-> "leave"]
        BY <1>8
    <2> QED BY <2>1
<1>10. \A i \in 1..n - 1 : stack'[i] = stack[i]
    BY <1>3, <1>7, <1>8
<1>11. /\ \A i \in 1..n : stack'[i].uid = stack[i].uid
       /\ \A i \in DOMAIN stack' : Leaves(i)' => i \in 1..n
       /\ \A i \in DOMAIN stack : Leaves(i) => i \in 1..n - 1 /\ Leaves(i)'
       /\ \A i \in 1..n - 1 : Leaves(i)' => Leaves(i)
       /\ Leaves(n)' /\ stack'[n].uid = t
    <2>1. stack[n].visit = "enter" /\ stack[n].uid = t
        BY <1>1, <1>3, <1>21
    <2>2. \A i \in DOMAIN stack' : i \in 1..n \/ \E k \in 1..m : i = n + k
        <3>1. SUFFICES ASSUME NEW i \in 1..n + m, ~(i \in 1..n)
                       PROVE  \E k \in 1..m : i = n + k
            BY <1>8
        <3>2. i - n \in 1..m /\ i = n + (i - n)
            BY <1>3, <1>5, <3>1
        <3> QED BY <3>2
    <2>3. \A k \in 1..m : stack'[n + k].visit = "enter"
        BY <1>23
    <2>4. \A i \in DOMAIN stack' : Leaves(i)' => i \in 1..n
        BY <2>2, <2>3 DEF Leaves
    <2>5. \A i \in 1..n : stack'[i].uid = stack[i].uid
        BY <1>3, <1>10, <1>24, <2>1
    <2>6. \A i \in DOMAIN stack : Leaves(i) => i \in 1..n - 1 /\ Leaves(i)'
        BY <1>3, <1>10, <2>1 DEF Leaves
    <2>7. \A i \in 1..n - 1 : Leaves(i)' => Leaves(i)
        BY <1>10 DEF Leaves
    <2>8. Leaves(n)' /\ stack'[n].uid = t
        BY <1>24 DEF Leaves
    <2> QED BY <2>4, <2>5, <2>6, <2>7, <2>8
<1>12. /\ DoneInv /\ StackInv /\ TrailInv /\ SeenInv /\ SiblingInv /\ VerdictInv
       /\ marks \in [Runs -> {"none", "path", "done"}]
       /\ seen \in [Runs -> Seq(Runs)] /\ subject \in Runs
    BY <1>1 DEF SearchInv, TypeOK
<1>13. /\ \A u \in Runs : marks'[u] = IF u = t THEN "path" ELSE marks[u]
       /\ Follow(seen', t) = {e[k] : k \in 1..m}
       /\ \A u \in Runs : u # t => Follow(seen', u) = Follow(seen, u)
    BY <1>1, <1>3, <1>5, <1>12 DEF Follow
<1>14. \A u \in Runs : Follow(seen, u) \subseteq Runs
    <2>1. \A u \in Runs : seen[u] \in Seq(Runs)
        BY <1>12
    <2>2. \A u \in Runs : \A i \in DOMAIN seen[u] : seen[u][i] \in Runs
        BY <2>1, LenProperties, ElementOfSeq
    <2> QED BY <2>2 DEF Follow
<1>15. DoneInv'
    <2>1. ASSUME NEW u \in Runs, marks'[u] = "done", NEW v \in Follow(seen', u)
          PROVE  marks'[v] = "done" /\ rank[v] < rank[u]
        <3>1. u # t /\ marks[u] = "done" /\ v \in Follow(seen, u) /\ v \in Runs
            BY <1>13, <1>14, <2>1
        <3> QED BY <1>1, <1>12, <1>13, <3>1 DEF DoneInv
    <2> QED BY <1>1, <1>12, <2>1 DEF DoneInv
<1>16. SeenInv'
    <2>1. /\ Follow(seen', t) \subseteq Follow(AsRecorded, t)
          /\ removed = "no" => Follow(seen', t) = Follow(AsRecorded, t)
        <3>1. Follow(AsRecorded, t) =
                IF t \in siblings THEN {EdgesOf(lineage[t])[i] : i \in DOMAIN EdgesOf(lineage[t])}
                ELSE {}
            <4>1. AsRecorded[t] = IF t \in siblings THEN EdgesOf(lineage[t]) ELSE <<>>
                BY <1>3 DEF AsRecorded
            <4>2. \A q : q = <<>> => {q[i] : i \in DOMAIN q} = {}
                OBVIOUS
            <4>3. Follow(AsRecorded, t) = {AsRecorded[t][i] : i \in DOMAIN AsRecorded[t]}
                BY DEF Follow
            <4>4. CASE t \in siblings
                BY <4>1, <4>3, <4>4
            <4>5. CASE t \notin siblings
                BY <4>1, <4>2, <4>3, <4>5
            <4> QED BY <4>4, <4>5
        <3>2. Follow(seen', t) = {e[i] : i \in DOMAIN e}
            BY <1>5, <1>13
        <3>3. CASE t \in siblings
            <4>1. e = <<>> => Follow(seen', t) = {}
                BY <3>2
            <4>2. removed = "no" => e = EdgesOf(lineage[t])
                BY <1>12, <3>3 DEF ReadEdges, SiblingInv
            <4> QED BY <1>4, <3>1, <3>2, <3>3, <4>1, <4>2
        <3>4. CASE t \notin siblings
            <4>1. t # subject
                BY <1>1, <1>12, <3>4 DEF SiblingInv
            <4>2. e = <<>>
                BY <3>4, <4>1 DEF ReadEdges
            <4>3. Follow(seen', t) = {}
                BY <3>2, <4>2
            <4> QED BY <3>1, <3>4, <4>3
        <3> QED BY <3>3, <3>4
    <2>2. \A u \in Runs : u # t => marks'[u] = marks[u] /\ Follow(seen', u) = Follow(seen, u)
        BY <1>13
    <2> QED BY <1>1, <1>2, <1>12, <2>1, <2>2 DEF SeenInv
<1>17. VerdictInv'
    BY <1>1, <1>2, <1>12 DEF VerdictInv
<1>18. \A i \in DOMAIN stack : Leaves(i) =>
          stack[i].uid # t /\ Follow(seen', stack[i].uid) = Follow(seen, stack[i].uid)
    BY <1>1, <1>3, <1>12, <1>13 DEF StackInv
<1>19. StackInv'
    <2>1. marks'[subject] = "done" \/ \E j \in DOMAIN stack' : stack'[j].uid = subject
        <3>1. CASE marks[subject] = "done"
            BY <1>1, <1>12, <1>13, <3>1
        <3>2. CASE marks[subject] # "done"
            <4>1. PICK j \in DOMAIN stack : stack[j].uid = subject
                BY <1>1, <1>12, <3>2 DEF StackInv
            <4> QED BY <1>3, <1>11, <1>22, <4>1
        <3> QED BY <3>1, <3>2
    <2>2. ASSUME NEW i \in DOMAIN stack', Leaves(i)'
          PROVE  marks'[stack'[i].uid] = "path"
        <3>1. CASE i = n
            BY <1>3, <1>11, <1>13, <3>1
        <3>2. CASE i # n
            <4>1. i \in 1..n - 1 /\ Leaves(i) /\ i \in DOMAIN stack /\ stack'[i].uid = stack[i].uid
                BY <1>3, <1>11, <2>2, <3>2
            <4> QED BY <1>1, <1>3, <1>12, <1>13, <1>18, <4>1 DEF StackInv
        <3> QED BY <3>1, <3>2
    <2>3. ASSUME NEW u \in Runs, marks'[u] = "path"
          PROVE  \E i \in DOMAIN stack' : Leaves(i)' /\ stack'[i].uid = u
        <3>1. CASE u = t
            BY <1>11, <1>22, <3>1
        <3>2. CASE u # t
            <4>1. PICK i \in DOMAIN stack : Leaves(i) /\ stack[i].uid = u
                BY <1>1, <1>12, <1>13, <2>3, <3>2 DEF StackInv
            <4> QED BY <1>3, <1>11, <1>22, <4>1
        <3> QED BY <3>1, <3>2
    <2>4. ASSUME NEW i \in DOMAIN stack', NEW j \in DOMAIN stack', Leaves(i)', Leaves(j)',
                 stack'[i].uid = stack'[j].uid
          PROVE  i = j
        <3>1. i \in 1..n /\ j \in 1..n /\ stack[i].uid = stack[j].uid
            BY <1>11, <2>4
        <3>2. CASE i \in 1..n - 1 /\ j \in 1..n - 1
            BY <1>1, <1>3, <1>11, <1>12, <2>4, <3>1, <3>2 DEF StackInv
        <3>3. \A k \in 1..n - 1 : Leaves(k)' => stack'[k].uid # t
            BY <1>3, <1>11, <1>18
        <3>4. CASE i = n /\ j \in 1..n - 1
            BY <1>11, <2>4, <3>3, <3>4
        <3>5. CASE j = n /\ i \in 1..n - 1
            BY <1>11, <2>4, <3>3, <3>5
        <3> QED BY <1>3, <3>1, <3>2, <3>4, <3>5
    <2>5. ASSUME NEW i \in DOMAIN stack', Leaves(i)', NEW v \in Follow(seen', stack'[i].uid)
          PROVE  marks'[v] = "done" \/ \E j \in DOMAIN stack' : j > i /\ stack'[j].uid = v
        <3>1. CASE i = n
            <4>1. PICK k \in 1..m : v = e[k]
                BY <1>11, <1>13, <2>5, <3>1
            <4>2. n + k \in DOMAIN stack' /\ n + k > i /\ stack'[n + k].uid = v
                BY <1>23, <3>1, <4>1
            <4> QED BY <4>2
        <3>2. CASE i # n
            <4>1. i \in 1..n - 1 /\ Leaves(i) /\ i \in DOMAIN stack /\ stack'[i].uid = stack[i].uid
                BY <1>3, <1>11, <2>5, <3>2
            <4>2. v \in Follow(seen, stack[i].uid) /\ v \in Runs
                BY <1>3, <1>14, <1>18, <2>5, <4>1
            <4>3. CASE marks[v] = "done"
                BY <1>1, <1>13, <4>2, <4>3
            <4>4. CASE \E j \in DOMAIN stack : j > i /\ stack[j].uid = v
                <5>1. PICK j \in DOMAIN stack : j > i /\ stack[j].uid = v
                    BY <4>4
                <5>2. j \in DOMAIN stack' /\ stack'[j].uid = v
                    BY <1>3, <1>11, <1>22, <5>1
                <5> QED BY <5>1, <5>2
            <4>5. marks[v] = "done" \/ \E j \in DOMAIN stack : j > i /\ stack[j].uid = v
                BY <1>1, <1>12, <4>1, <4>2 DEF StackInv
            <4> QED BY <4>3, <4>4, <4>5
        <3> QED BY <3>1, <3>2
    <2>6. subject' = subject
        BY <1>1
    <2> QED BY <2>1, <2>2, <2>3, <2>4, <2>5, <2>6 DEF StackInv
<1>20. TrailInv'
    <2>1. SUFFICES ASSUME NEW i \in DOMAIN stack'
                   PROVE  /\ stack'[i].uid \in Reach(AsRecorded, subject)
                          /\ i > 1 => \E j \in DOMAIN stack' : PutBy(i, j)'
        BY <1>1, <1>2 DEF TrailInv
    <2>2. CASE i \in 1..n
        <3>1. i \in DOMAIN stack /\ stack'[i].uid = stack[i].uid
            BY <1>3, <1>11, <2>2
        <3>2. stack[i].uid \in Reach(AsRecorded, subject)
            BY <1>1, <1>12, <3>1 DEF TrailInv
        <3>3. ASSUME i > 1 PROVE \E j \in DOMAIN stack' : PutBy(i, j)'
            <4>1. PICK j \in DOMAIN stack : PutBy(i, j)
                BY <1>1, <1>12, <3>1, <3>3 DEF TrailInv
            <4>2. j \in 1..n - 1 /\ Leaves(j)' /\ stack'[j].uid = stack[j].uid /\ j \in DOMAIN stack'
                BY <1>3, <1>5, <1>8, <1>11, <4>1 DEF PutBy
            <4>3. Follow(seen', stack'[j].uid) = Follow(seen, stack[j].uid)
                BY <1>18, <4>1, <4>2 DEF PutBy
            <4>4. ASSUME NEW k \in DOMAIN stack', j < k, k < i PROVE ~Leaves(k)'
                <5>1. k \in 1..n - 1 /\ k \in DOMAIN stack
                    BY <1>3, <1>8, <2>2, <4>4
                <5> QED BY <1>11, <4>1, <4>4, <5>1 DEF PutBy
            <4>5. PutBy(i, j)'
                BY <3>1, <4>1, <4>2, <4>3, <4>4 DEF PutBy
            <4> QED BY <4>2, <4>5
        <3> QED BY <3>1, <3>2, <3>3
    <2>3. CASE i \notin 1..n
        <3>1. i - n \in 1..m /\ i = n + (i - n)
            BY <1>3, <1>5, <1>8, <2>1, <2>3
        <3>2. PICK k \in 1..m : i = n + k
            BY <3>1
        <3>3. stack'[i].uid = e[k] /\ e[k] \in Runs /\ e[k] \in Follow(seen', t)
            BY <1>5, <1>13, <1>23, <3>2
        <3>4. t \in Reach(AsRecorded, subject)
            BY <1>1, <1>12, <1>21, <1>22 DEF TrailInv
        <3>5. e[k] \in Follow(AsRecorded, t)
            BY <1>2, <1>3, <1>16, <3>3 DEF SeenInv
        <3>6. e[k] \in Reach(AsRecorded, subject)
            BY <3>3, <3>4, <3>5, ReachOnward
        <3>7. \A q \in DOMAIN stack' : n < q /\ q < i => ~Leaves(q)'
            BY <1>3, <1>8, <1>11
        <3>8. PutBy(i, n)' /\ n \in DOMAIN stack'
            BY <1>11, <1>22, <1>23, <3>2, <3>3, <3>7 DEF PutBy
        <3> QED BY <3>3, <3>6, <3>8
    <2> QED BY <2>2, <2>3
<1> QED BY <1>2, <1>15, <1>16, <1>17, <1>19, <1>20 DEF SearchInv

-----------------------------------------------------------------------------
(* The runs that were started.                                              *)

LEMMA StartedStays ==
    ASSUME TypeOK, StartedInv, UNCHANGED <<lineage, started>>,
           \A q \in Runs : life[q] # "unborn" => life'[q] # "unborn"
    PROVE  StartedInv'
<1>1. started' = started /\ lineage' = lineage /\ started \subseteq Runs
    BY DEF TypeOK
<1>2. \A r \in started' : life'[r] # "unborn" /\ CheckLineageShape(lineage'[r])
    BY <1>1 DEF StartedInv
<1>3. \A C \in SUBSET started' : C # {} => \E p \in C : \A q \in C : ~Names(lineage'[p], q)
    BY <1>1 DEF StartedInv
<1> QED BY <1>2, <1>3 DEF StartedInv

\* A new run is named by nobody, and so is on no circle.
LEMMA StartInv ==
    ASSUME TypeOK, StartedInv, NEW r \in Runs, NEW l \in Startable, Start(r, l)
    PROVE  StartedInv'
<1>1. /\ life[r] = "unborn" /\ life' = [life EXCEPT ![r] = "running"]
      /\ lineage' = [lineage EXCEPT ![r] = l] /\ started' = started \cup {r}
      /\ ~Names(l, r) /\ \A q \in Runs : ~Names(lineage[q], r)
      /\ started \subseteq Runs
    BY DEF Start, Becomes, TypeOK
<1>2. r \notin started
    BY <1>1 DEF StartedInv
<1>3. CheckLineageShape(l)
    BY RequireImpliesShape DEF Startable
<1>4. \A q \in Runs : lineage'[q] = IF q = r THEN l ELSE lineage[q]
    BY <1>1 DEF TypeOK
<1>5. \A q \in started' : life'[q] # "unborn" /\ CheckLineageShape(lineage'[q])
    <2>1. ASSUME NEW q \in started, q # r
          PROVE  life'[q] # "unborn" /\ CheckLineageShape(lineage'[q])
        BY <1>1, <1>4, <2>1 DEF StartedInv, TypeOK
    <2>2. life'[r] # "unborn" /\ lineage'[r] = l
        BY <1>1, <1>4 DEF TypeOK
    <2> QED BY <1>1, <1>2, <1>3, <2>1, <2>2
<1>6. ASSUME NEW C \in SUBSET started', C # {}
      PROVE  \E p \in C : \A q \in C : ~Names(lineage'[p], q)
    <2>1. CASE C \subseteq {r}
        BY <1>1, <1>4, <1>6, <2>1
    <2>2. CASE ~(C \subseteq {r})
        <3>1. C \ {r} \in SUBSET started /\ C \ {r} # {}
            BY <1>1, <2>2
        <3>2. PICK p \in C \ {r} : \A q \in C \ {r} : ~Names(lineage[p], q)
            BY <3>1 DEF StartedInv
        <3>3. p \in Runs /\ lineage'[p] = lineage[p] /\ ~Names(lineage[p], r)
            BY <1>1, <1>4, <3>1, <3>2
        <3> QED BY <3>2, <3>3
    <2> QED BY <2>1, <2>2
<1> QED BY <1>5, <1>6 DEF StartedInv

-----------------------------------------------------------------------------
LEMMA InitInv == Init => Inv
<1> SUFFICES ASSUME Init PROVE Inv
    OBVIOUS
<1>1. /\ pc = "idle" /\ siblings = {} /\ removed = "no" /\ verdict = "none" /\ started = {}
      /\ left = 0
      /\ \A u \in Runs : marks[u] = "none" /\ rank[u] = 0 /\ seen[u] = <<>>
    BY DEF Init, Blank
<1>2. \A u \in Runs : Follow(seen, u) = {}
    BY <1>1 DEF Follow
<1>3. DoneInv /\ SeenInv
    BY <1>1, <1>2 DEF DoneInv, SeenInv
<1>4. StackInv /\ TrailInv /\ SiblingInv /\ VerdictInv
    BY <1>1 DEF StackInv, TrailInv, SiblingInv, VerdictInv
<1>5. StartedInv
    BY <1>1 DEF StartedInv
<1> QED BY <1>3, <1>4, <1>5, InitTypeOK DEF Inv

\* Init, and each step, one action at a time.
LEMMA StepInv == Inv /\ [Next]_vars => Inv'
<1> SUFFICES ASSUME Inv, [Next]_vars PROVE Inv'
    OBVIOUS
<1>1. TypeOK /\ SearchInv /\ SiblingInv /\ StartedInv
    BY DEF Inv, SearchInv
<1>2. TypeOK'
    BY <1>1, StepTypeOK
<1>3. SUFFICES SearchInv' /\ StartedInv'
    BY <1>2 DEF Inv, SearchInv
<1>4. ASSUME NEW r \in Runs, NEW l \in Startable, Start(r, l)
      PROVE  SearchInv' /\ StartedInv'
    BY <1>1, <1>4, WorldSteps, WorldKeepsSearch, StartInv
<1>5. ASSUME NEW r \in Runs, KillRun(r)
      PROVE  SearchInv' /\ StartedInv'
    <2>1. UNCHANGED <<lineage, started>> /\ life' = [life EXCEPT ![r] = "killed"]
        BY <1>5 DEF KillRun, Becomes
    <2>2. StartedInv'
        BY <1>1, <2>1, StartedStays DEF TypeOK
    <2>3. CASE EndCheck
        BY <2>2, <2>3, EndCheckInv
    <2>4. CASE UNCHANGED check
        BY <1>1, <1>5, <2>2, <2>4, WorldSteps, WorldKeepsSearch
    <2> QED BY <1>5, <2>3, <2>4 DEF KillRun
<1>6. ASSUME NEW r \in Runs, GcRecords(r) \/ FailRun(r) \/ DeleteRun(r)
      PROVE  SearchInv' /\ StartedInv'
    <2>1. PICK to \in {"failed", "gone"} :
             UNCHANGED <<lineage, started>> /\ life' = [life EXCEPT ![r] = to]
        BY <1>6 DEF GcRecords, FailRun, DeleteRun, Becomes
    <2>2. StartedInv'
        BY <1>1, <2>1, StartedStays DEF TypeOK
    <2> QED BY <1>1, <1>6, <2>2, WorldSteps, WorldKeepsSearch
<1>7. ASSUME NEW r \in Runs, BeginCheck(r)
      PROVE  SearchInv' /\ StartedInv'
    <2>1. UNCHANGED <<life, lineage, started>>
        BY <1>7 DEF BeginCheck
    <2> QED BY <1>1, <1>7, <2>1, BeginCheckInv, StartedStays
<1>8. CASE CheckResumed \/ Search
    <2>1. UNCHANGED <<life, lineage, started>>
        BY <1>8 DEF CheckResumed, Search, LeaveRun, MeetPath, MeetDone, VisitRun, SearchEnds
    <2>2. StartedInv'
        BY <1>1, <2>1, StartedStays
    <2> QED BY <1>1, <1>8, <2>2, CheckResumedInv, LeaveRunInv, MeetPathInv, MeetDoneInv,
               VisitRunInv, SearchEndsInv DEF Search
<1>9. CASE Conclude
    <2>1. EndCheck /\ UNCHANGED <<lineage, started>>
        BY <1>9 DEF Conclude
    <2>2. \A q \in Runs : life[q] # "unborn" => life'[q] # "unborn"
        <3>1. life' = life \/ life' = [life EXCEPT ![subject] = "finished"]
                           \/ life' = [life EXCEPT ![subject] = "failed"]
            BY <1>9 DEF Conclude
        <3> QED BY <1>1, <3>1 DEF TypeOK
    <2> QED BY <1>1, <2>1, <2>2, EndCheckInv, StartedStays
<1>10. CASE UNCHANGED vars
    <2>1. World /\ UNCHANGED <<life, lineage, started>>
        BY <1>1, <1>10 DEF vars, check, World, SiblingInv, Readable
    <2> QED BY <1>1, <2>1, WorldKeepsSearch, StartedStays
<1> QED BY <1>4, <1>5, <1>6, <1>7, <1>8, <1>9, <1>10 DEF Next

LEMMA InvHolds == Spec => []Inv
BY InitInv, StepInv, PTL DEF Spec

\* The variables keep their types, whatever runs are started, end and go.
THEOREM LineageTypes == Spec => []TypeOK
<1>1. Inv => TypeOK
    BY DEF Inv
<1> QED BY <1>1, InvHolds, PTL

LEMMA OkIsAcyclic ==
    ASSUME Inv, verdict = "ok", NEW e, \A u \in Runs : marks[u] = "done" => Follow(e, u) = Follow(seen, u)
    PROVE  ~Circular(e, subject)
<1> DEFINE D == {u \in Runs : marks[u] = "done"}
<1>1. marks[subject] = "done" /\ pc = "ended"
    BY DEF Inv, VerdictInv
<1>2. subject \in D /\ rank \in [Runs -> Nat]
    BY <1>1 DEF Inv, TypeOK
<1>3. \A u \in Runs : Follow(seen, u) \subseteq Runs
    <2>1. \A u \in Runs : seen[u] \in Seq(Runs)
        BY DEF Inv, TypeOK
    <2>2. \A u \in Runs : \A i \in DOMAIN seen[u] : seen[u][i] \in Runs
        BY <2>1, LenProperties, ElementOfSeq
    <2> QED BY <2>2 DEF Follow
<1>4. \A u \in D : \A v \in Follow(e, u) : v \in D /\ rank[v] < rank[u]
    BY <1>3 DEF Inv, DoneInv
<1> HIDE DEF D
<1>5. D \in SUBSET Runs
    BY DEF D
<1> QED BY <1>2, <1>4, <1>5, RankedIsAcyclic

\* No lineage with a circle in what the search read of it is accepted, for any
\* number of runs and whatever happens to them while the search goes on.
THEOREM SearchAcceptsNoCircle == Spec => []AcceptedIsAcyclic
<1>1. Inv => AcceptedIsAcyclic
    BY OkIsAcyclic DEF AcceptedIsAcyclic
<1> QED BY <1>1, InvHolds, PTL

\* A circle that is reported is one the files hold, and one they hold is
\* reported, unless a run was deleted under the search.
THEOREM SearchFindsTheCircles == Spec => []CycleIsFound
<1>1. ASSUME Inv PROVE CycleIsFound
    <2>1. verdict = "cycle" => Circular(AsRecorded, subject)
        BY <1>1 DEF Inv, VerdictInv
    <2>2. ASSUME verdict = "ok", removed = "no" PROVE ~Circular(AsRecorded, subject)
        <3>1. \A u \in Runs : marks[u] = "done" => Follow(AsRecorded, u) = Follow(seen, u)
            BY <1>1, <2>2 DEF Inv, SeenInv
        <3> QED BY <1>1, <2>2, <3>1, OkIsAcyclic
    <2> QED BY <2>1, <2>2 DEF CycleIsFound
<1> QED BY <1>1, InvHolds, PTL

\* The end of a run does not refuse what its start accepted: of a run whose
\* ancestors were all started by the library the shape and the references are
\* lawful, and there is no circle among them.
THEOREM StartLeavesNothingToRefuse == Spec => []StartSettlesTheShape
<1>1. ASSUME Inv PROVE StartSettlesTheShape
    <2>1. SUFFICES ASSUME pc = "ended", Reach(AsRecorded, subject) \subseteq started
                   PROVE  verdict \in {"ok", "resumed"}
        BY DEF StartSettlesTheShape
    <2>2. subject \in Runs /\ started \subseteq Runs
        BY <1>1, <2>1 DEF Inv, TypeOK
    <2>3. subject \in started
        BY <2>1, <2>2, ReachItself
    <2>4. verdict # "shape"
        BY <1>1, <2>3 DEF Inv, VerdictInv, StartedInv
    <2>5. verdict # "self"
        <3>1. {subject} \in SUBSET started /\ {subject} # {}
            BY <2>3
        <3>2. \E p \in {subject} : \A q \in {subject} : ~Names(lineage[p], q)
            BY <1>1, <3>1 DEF Inv, StartedInv
        <3> QED BY <1>1, <3>2 DEF Inv, VerdictInv
    <2>6. verdict # "cycle"
        <3>1. SUFFICES ASSUME verdict = "cycle" PROVE FALSE
            OBVIOUS
        <3>2. PICK C \in SUBSET Reach(AsRecorded, subject) :
                C # {} /\ \A p \in C : Follow(AsRecorded, p) \cap C # {}
            BY <1>1, <3>1 DEF Inv, VerdictInv, Circular
        <3>3. PICK p \in C : \A q \in C : ~Names(lineage[p], q)
            BY <1>1, <2>1, <3>2 DEF Inv, StartedInv
        <3>4. PICK q \in C : q \in Follow(AsRecorded, p)
            BY <3>2
        <3>5. p \in Runs /\ (AsRecorded[p] = EdgesOf(lineage[p]) \/ AsRecorded[p] = <<>>)
            BY <2>1, <2>2, <3>2 DEF AsRecorded
        <3>6. Names(lineage[p], q)
            <4>1. PICK i \in DOMAIN AsRecorded[p] : AsRecorded[p][i] = q
                BY <3>4 DEF Follow
            <4>2. AsRecorded[p] # <<>>
                BY <4>1
            <4> QED BY <3>5, <4>1, <4>2 DEF Names
        <3> QED BY <3>3, <3>6
    <2>7. verdict # "none"
        BY <1>1, <2>1 DEF Inv, VerdictInv
    <2> QED BY <1>1, <2>4, <2>5, <2>6, <2>7 DEF Inv, TypeOK
<1> QED BY <1>1, InvHolds, PTL

-----------------------------------------------------------------------------
(* What was accepted stays accepted.  The files that can be read only get   *)
(* fewer along the references of an accepted run: its ancestors go, and who *)
(* starts is named by none of them.                                         *)

\* The references of the runs that are here to be read.
Present == [r \in Runs |-> IF Readable(r) THEN EdgesOf(lineage[r]) ELSE <<>>]

\* What the check asks of a run by itself, and of the run it resumes: once that
\* is failed it can only go, and what was never here is not started any more.
Lawful(r) == CheckLineageShape(lineage[r]) /\ ~Names(lineage[r], r)
ResumesFailed(r) ==
    lineage[r].resumed_from # NoRun =>
        life[lineage[r].resumed_from] \in {"unborn", "failed", "gone"}

\* What makes a run acceptable for good.
Kept(r) == life[r] # "unborn" /\ Lawful(r) /\ ResumesFailed(r) /\ ~Circular(Present, r)

\* What was read of a run that is still here is what its file says.
ReadInv ==
    \A u \in siblings : marks[u] # "none" /\ Readable(u) => Follow(seen, u) = Follow(Present, u)

\* A run that was started under the check is named by none that was here before.
LateInv ==
    pc # "idle" =>
      \A u \in Runs : Readable(u) /\ u \notin siblings => \A q \in siblings : ~Names(lineage[q], u)

\* finish() checks its run while it runs.
FinishingInv == pc # "idle" /\ finishing => life[subject] = "running"

\* What the check has seen so far of the run's own lineage.
PassedInv ==
    /\ pc \in {"resumed", "search"} \/ verdict = "ok" => Lawful(subject)
    /\ pc = "search" \/ verdict = "ok" => ResumesFailed(subject)

KeptInv == \A r \in accepted : Kept(r)

\* Of an accepted run only a deletion under the check takes the resumed run away.
ResumedInv == verdict = "resumed" /\ subject \in accepted => removed = "yes"

AcceptInv == ReadInv /\ LateInv /\ FinishingInv /\ PassedInv /\ KeptInv /\ ResumedInv

\* One step of the lives of the runs, whatever takes it.
NobodyNames(r) == \A q \in Runs : ~Names(lineage[q], r)

Moves ==
    /\ \A r \in Runs : life[r] # "unborn" => life'[r] # "unborn" /\ lineage'[r] = lineage[r]
    /\ \A r \in Runs : life[r] = "failed" => life'[r] \in {"failed", "gone"}
    /\ \A r \in Runs : life[r] = "gone" => life'[r] = "gone"
    /\ \A r \in Runs : life[r] = "unborn" /\ life'[r] # "unborn" => NobodyNames(r)'

\* References that are fewer along what a run reaches make no new circle.
LEMMA CircleWasThere ==
    ASSUME NEW e, NEW f, NEW s \in Runs, NEW D \in SUBSET Runs, s \in D,
           \A u \in D : Follow(f, u) \subseteq Follow(e, u) \cap D,
           Circular(f, s)
    PROVE  Circular(e, s)
<1>1. Reach(f, s) \subseteq D
    BY DEF Reach, ClosedUnder
<1>2. Reach(f, s) \subseteq Reach(e, s)
    <2>1. SUFFICES ASSUME NEW q \in Reach(f, s), NEW S \in SUBSET Runs, s \in S, ClosedUnder(e, S)
                   PROVE  q \in S
        BY DEF Reach
    <2>2. S \cap D \in SUBSET Runs /\ s \in S \cap D
        BY <2>1
    <2>3. ClosedUnder(f, S \cap D)
        BY <2>1 DEF ClosedUnder
    <2> QED BY <2>2, <2>3 DEF Reach
<1>3. PICK C \in SUBSET Reach(f, s) : C # {} /\ \A p \in C : Follow(f, p) \cap C # {}
    BY DEF Circular
<1>4. \A p \in C : Follow(e, p) \cap C # {}
    BY <1>1, <1>3
<1>5. C \in SUBSET Reach(e, s)
    BY <1>2
<1> QED BY <1>3, <1>4, <1>5 DEF Circular

\* Who is resumed is named.
LEMMA ResumedIsNamed ==
    ASSUME NEW l \in Lineages, l.resumed_from # NoRun
    PROVE  l.resumed_from \in Runs /\ Names(l, l.resumed_from)
<1> DEFINE a == One(l.parent_run_uid)
           b == One(l.resumed_from)
           c == One(l.derived_from)
<1>1. l.resumed_from \in Runs /\ b = <<l.resumed_from>>
    BY DEF One, Lineages, Refs
<1>2. a \in Seq(Runs) /\ b \in Seq(Runs) /\ c \in Seq(Runs)
    BY DEF One, Lineages, Refs
<1>3. Len(b) = 1 /\ b[1] = l.resumed_from
    BY <1>1
<1> HIDE DEF a, b, c
<1>4. Len(a) \in Nat /\ Len(c) \in Nat
    BY <1>2, LenProperties
<1>5. /\ a \o b \in Seq(Runs) /\ Len(a \o b) = Len(a) + 1
      /\ (a \o b)[Len(a) + 1] = b[1]
    <2>1. /\ a \o b \in Seq(Runs) /\ Len(a \o b) = Len(a) + Len(b)
          /\ \A i \in 1..(Len(a) + Len(b)) :
                (a \o b)[i] = IF i <= Len(a) THEN a[i] ELSE b[i - Len(a)]
        BY <1>2, ConcatProperties
    <2>2. Len(a) + 1 \in 1..(Len(a) + Len(b)) /\ ~(Len(a) + 1 <= Len(a)) /\ (Len(a) + 1) - Len(a) = 1
        BY <1>3, <1>4
    <2> QED BY <1>3, <2>1, <2>2
<1>6. /\ (a \o b) \o c \in Seq(Runs) /\ Len((a \o b) \o c) = Len(a) + 1 + Len(c)
      /\ ((a \o b) \o c)[Len(a) + 1] = (a \o b)[Len(a) + 1]
    <2> DEFINE p == a \o b
    <2> HIDE DEF p
    <2>1. p \in Seq(Runs) /\ Len(p) = Len(a) + 1
        BY <1>5 DEF p
    <2>2. /\ p \o c \in Seq(Runs) /\ Len(p \o c) = Len(p) + Len(c)
          /\ \A i \in 1..(Len(p) + Len(c)) :
                (p \o c)[i] = IF i <= Len(p) THEN p[i] ELSE c[i - Len(p)]
        BY <1>2, <2>1, ConcatProperties
    <2>3. Len(a) + 1 \in 1..(Len(p) + Len(c)) /\ Len(a) + 1 <= Len(p)
        BY <1>4, <2>1
    <2>4. (p \o c)[Len(a) + 1] = p[Len(a) + 1]
        BY <2>2, <2>3
    <2> QED BY <2>1, <2>2, <2>4 DEF p
<1>7. Len(a) + 1 \in DOMAIN ((a \o b) \o c)
    BY <1>4, <1>6, LenProperties
<1>8. EdgesOf(l) = (a \o b) \o c
    BY DEF EdgesOf, a, b, c
<1> QED BY <1>1, <1>3, <1>5, <1>6, <1>7, <1>8 DEF Names

\* What the references of a run that is here lead to.
LEMMA FollowPresent ==
    ASSUME TypeOK, NEW u \in Runs
    PROVE  /\ Readable(u) => \A v : v \in Follow(Present, u) <=> Names(lineage[u], v)
           /\ ~Readable(u) => Follow(Present, u) = {}
           /\ Follow(Present, u) \subseteq Runs
<1>1. EdgesOf(lineage[u]) \in Seq(Runs)
    BY EdgesType DEF TypeOK
<1>2. \A i \in DOMAIN EdgesOf(lineage[u]) : EdgesOf(lineage[u])[i] \in Runs
    BY <1>1, LenProperties, ElementOfSeq
<1>3. Present[u] = IF Readable(u) THEN EdgesOf(lineage[u]) ELSE <<>>
    BY DEF Present
<1> QED BY <1>2, <1>3 DEF Follow, Names

\* The life of a run goes one way, and who starts is named by nobody.
LEMMA LivesMove ==
    ASSUME TypeOK, FinishingInv, [Next]_vars
    PROVE  Moves
<1>1. ASSUME NEW r \in Runs, NEW l \in Startable, Start(r, l) PROVE Moves
    <2>1. /\ life[r] = "unborn" /\ life' = [life EXCEPT ![r] = "running"]
          /\ lineage' = [lineage EXCEPT ![r] = l]
          /\ ~Names(l, r) /\ \A q \in Runs : ~Names(lineage[q], r)
        BY <1>1 DEF Start, Becomes
    <2>2. \A q \in Runs : /\ life'[q] = IF q = r THEN "running" ELSE life[q]
                          /\ lineage'[q] = IF q = r THEN l ELSE lineage[q]
        BY <2>1 DEF TypeOK
    <2>3. NobodyNames(r)'
        BY <2>1, <2>2 DEF NobodyNames
    <2> QED BY <2>1, <2>2, <2>3 DEF Moves
<1>2. ASSUME NEW r \in Runs, NEW to \in {"killed", "failed", "finished", "gone"},
             life[r] \in {"running", "killed"} \/ (to = "gone" /\ life[r] \in {"failed", "finished"}),
             life' = [life EXCEPT ![r] = to], UNCHANGED lineage
      PROVE  Moves
    <2>1. \A q \in Runs : life'[q] = IF q = r THEN to ELSE life[q]
        BY <1>2 DEF TypeOK
    <2> QED BY <1>2, <2>1 DEF Moves
<1>3. ASSUME UNCHANGED <<life, lineage>> PROVE Moves
    BY <1>3 DEF Moves
<1>4. ASSUME NEW r \in Runs, KillRun(r) \/ GcRecords(r) \/ FailRun(r) \/ DeleteRun(r) PROVE Moves
    BY <1>2, <1>4 DEF KillRun, GcRecords, FailRun, DeleteRun, Becomes
<1>5. ASSUME NEW r \in Runs, BeginCheck(r) PROVE Moves
    BY <1>3, <1>5 DEF BeginCheck
<1>6. CASE CheckResumed \/ Search
    BY <1>3, <1>6 DEF CheckResumed, Search, LeaveRun, MeetPath, MeetDone, VisitRun, SearchEnds
<1>7. CASE Conclude
    <2>1. UNCHANGED lineage /\ pc = "ended"
        BY <1>7 DEF Conclude
    <2>2. CASE ~finishing
        BY <1>3, <1>7, <2>1, <2>2 DEF Conclude
    <2>3. CASE finishing
        <3>1. subject \in Runs /\ life[subject] = "running"
            BY <2>1, <2>3 DEF TypeOK, FinishingInv
        <3>2. \E to \in {"finished", "failed"} : life' = [life EXCEPT ![subject] = to]
            BY <1>7, <2>3 DEF Conclude
        <3> QED BY <1>2, <2>1, <3>1, <3>2
    <2> QED BY <2>2, <2>3 DEF TypeOK
<1>8. CASE UNCHANGED vars
    BY <1>3, <1>8 DEF vars
<1> QED BY <1>1, <1>4, <1>5, <1>6, <1>7, <1>8 DEF Next

\* What a step can make readable is named by nobody.
LEMMA MovesRead ==
    ASSUME TypeOK, Moves, TypeOK', NEW u \in Runs, Readable(u)'
    PROVE  (Readable(u) /\ lineage'[u] = lineage[u]) \/ NobodyNames(u)'
BY DEF Moves, Readable, TypeOK

\* An acceptable run stays acceptable.
LEMMA MovesResume ==
    ASSUME TypeOK, TypeOK', Moves, NEW r \in Runs, life[r] # "unborn", ResumesFailed(r)
    PROVE  ResumesFailed(r)'
<1>1. lineage'[r] = lineage[r] /\ lineage[r] \in Lineages
    BY DEF Moves, TypeOK
<1> DEFINE f == lineage[r].resumed_from
<1>2. SUFFICES ASSUME f # NoRun PROVE life'[f] \in {"unborn", "failed", "gone"}
    BY <1>1 DEF ResumesFailed
<1>3. f \in Runs /\ Names(lineage'[r], f)
    BY <1>1, <1>2, ResumedIsNamed
<1>4. life[f] \in {"unborn", "failed", "gone"}
    BY <1>2 DEF ResumesFailed
<1> HIDE DEF f
<1> QED BY <1>3, <1>4 DEF Moves, NobodyNames

LEMMA MovesKeep ==
    ASSUME TypeOK, TypeOK', Moves, NEW r \in Runs, Kept(r)
    PROVE  Kept(r)'
<1>1. life'[r] # "unborn" /\ lineage'[r] = lineage[r] /\ Lawful(r)'
    BY DEF Moves, Kept, Lawful
<1>2. ResumesFailed(r)'
    BY MovesResume DEF Kept
<1>3. ASSUME Circular(Present', r) PROVE FALSE
    <2> DEFINE D == {u \in Runs : life[u] # "unborn" \/ life'[u] = "unborn"}
    <2>1. r \in D /\ D \in SUBSET Runs
        BY DEF Kept
    <2>2. ASSUME NEW u \in D, NEW v \in Follow(Present', u)
          PROVE  v \in Follow(Present, u) /\ v \in D
        <3>1. u \in Runs /\ Readable(u)' /\ Names(lineage'[u], v) /\ v \in Runs
            <4>1. Present'[u] = IF Readable(u)' THEN EdgesOf(lineage'[u]) ELSE <<>>
                BY <2>2 DEF Present
            <4>2. PICK i \in DOMAIN Present'[u] : Present'[u][i] = v
                BY <2>2 DEF Follow
            <4>3. Readable(u)' /\ Present'[u] = EdgesOf(lineage'[u])
                BY <4>1, <4>2
            <4>4. EdgesOf(lineage'[u]) \in Seq(Runs)
                BY <2>2, EdgesType DEF TypeOK
            <4>5. v \in Runs
                BY <4>2, <4>3, <4>4, LenProperties, ElementOfSeq
            <4> QED BY <2>2, <4>2, <4>3, <4>5 DEF Names
        <3>2. Readable(u) /\ lineage'[u] = lineage[u]
            BY <2>2, <3>1 DEF Moves, Readable, TypeOK
        <3>3. v \in Follow(Present, u)
            BY <3>1, <3>2, FollowPresent
        <3>4. v \in D
            BY <3>1 DEF Moves, NobodyNames
        <3> QED BY <3>3, <3>4
    <2> HIDE DEF D
    <2>3. Circular(Present, r)
        BY <1>3, <2>1, <2>2, CircleWasThere
    <2> QED BY <2>3 DEF Kept
<1> QED BY <1>1, <1>2, <1>3 DEF Kept

\* Moves under a check leave what it has seen, and what it goes by.
LEMMA WorldKeepsAccepted ==
    ASSUME TypeOK, TypeOK', SearchInv, AcceptInv, World, Moves,
           UNCHANGED <<accepted, finishing>>,
           pc # "idle" /\ finishing => life'[subject] = life[subject]
    PROVE  AcceptInv'
<1>1. /\ UNCHANGED <<pc, subject, siblings, stack, marks, seen, rank, left, verdict>>
      /\ SiblingInv
    BY DEF World, SearchInv
<1>2. pc # "idle" => subject \in Runs /\ subject \in siblings /\ life[subject] # "unborn"
    BY <1>1 DEF SiblingInv, TypeOK
<1>3. ReadInv'
    <2>1. SUFFICES ASSUME NEW u \in siblings, marks[u] # "none", Readable(u)'
                   PROVE  Follow(seen, u) = Follow(Present', u)
        BY <1>1 DEF ReadInv
    <2>2. u \in Runs /\ Readable(u) /\ lineage'[u] = lineage[u]
        BY <1>1, <2>1 DEF SiblingInv, Moves, Readable, TypeOK
    <2>3. Present'[u] = Present[u]
        BY <2>1, <2>2 DEF Present
    <2>4. Follow(seen, u) = Follow(Present, u)
        BY <2>1, <2>2 DEF AcceptInv, ReadInv
    <2> QED BY <2>3, <2>4 DEF Follow
<1>4. LateInv'
    <2>1. SUFFICES ASSUME pc # "idle", NEW u \in Runs, Readable(u)', u \notin siblings, NEW q \in siblings
                   PROVE  ~Names(lineage'[q], u)
        BY <1>1 DEF LateInv
    <2>2. q \in Runs /\ lineage'[q] = lineage[q]
        BY <1>1, <2>1 DEF SiblingInv, Moves, TypeOK
    <2>3. CASE Readable(u)
        BY <2>1, <2>2, <2>3 DEF AcceptInv, LateInv
    <2>4. CASE ~Readable(u)
        <3>1. NobodyNames(u)'
            BY <2>1, <2>4, MovesRead
        <3> QED BY <2>2, <3>1 DEF NobodyNames
    <2> QED BY <2>3, <2>4
<1>5. FinishingInv'
    BY <1>1 DEF AcceptInv, FinishingInv
<1>6. PassedInv'
    <2>1. pc \in {"resumed", "search"} \/ verdict = "ok" => pc # "idle"
        BY DEF SearchInv, VerdictInv
    <2>2. pc # "idle" => (Lawful(subject) => Lawful(subject)')
        BY <1>1, <1>2 DEF Moves, Lawful
    <2>3. pc # "idle" => (ResumesFailed(subject) => ResumesFailed(subject)')
        <3>1. SUFFICES ASSUME pc # "idle", ResumesFailed(subject) PROVE ResumesFailed(subject)'
            OBVIOUS
        <3>2. \A r \in Runs : life[r] # "unborn" /\ ResumesFailed(r) => ResumesFailed(r)'
            BY MovesResume
        <3> QED BY <1>1, <1>2, <3>1, <3>2 DEF ResumesFailed
    <2> QED BY <1>1, <2>1, <2>2, <2>3 DEF AcceptInv, PassedInv
<1>7. KeptInv'
    BY MovesKeep DEF AcceptInv, KeptInv, TypeOK
<1>8. ResumedInv'
    <2>1. removed' = "no" => removed = "no"
        BY DEF World
    <2>2. removed' \in {"no", "yes"}
        BY DEF TypeOK
    <2> QED BY <1>1, <2>1, <2>2 DEF AcceptInv, ResumedInv
<1> QED BY <1>3, <1>4, <1>5, <1>6, <1>7, <1>8 DEF AcceptInv

\* A verification that ends, or one that begins, holds nothing of its own.
LEMMA NoCheckAccepted ==
    ASSUME TypeOK, TypeOK', Moves, NothingRead, \A r \in accepted' : Kept(r),
           pc' = "idle" \/ siblings' = {q \in Runs : Readable(q)'},
           pc' # "idle" /\ finishing' => life'[subject'] = "running",
           pc' # "search" /\ verdict' \notin {"ok", "resumed"},
           pc' = "resumed" => Lawful(subject)'
    PROVE  AcceptInv'
<1>1. ReadInv'
    BY NothingReadInv DEF ReadInv, TypeOK
<1>2. LateInv' /\ FinishingInv' /\ PassedInv' /\ ResumedInv'
    BY DEF LateInv, FinishingInv, PassedInv, ResumedInv
<1>3. KeptInv'
    BY MovesKeep DEF KeptInv, TypeOK
<1> QED BY <1>1, <1>2, <1>3 DEF AcceptInv

\* An accepted lineage has no circle in the files that are here to be read: what
\* was read was read of them, and they lead to no run that was not listed.
LEMMA OkIsKept ==
    ASSUME Inv, AcceptInv, verdict = "ok"
    PROVE  Kept(subject)
<1>1. pc = "ended" /\ marks[subject] = "done" /\ subject \in Runs /\ subject \in siblings
    BY DEF Inv, VerdictInv, SiblingInv, TypeOK
<1>2. life[subject] # "unborn" /\ Lawful(subject) /\ ResumesFailed(subject)
    BY <1>1 DEF Inv, SiblingInv, AcceptInv, PassedInv
<1>3. ~Circular(seen, subject)
    BY OkIsAcyclic
<1> DEFINE D == {u \in Runs : marks[u] = "done" /\ (Readable(u) => u \in siblings)}
<1>4. ASSUME NEW u \in D, NEW v \in Follow(Present, u)
      PROVE  v \in Follow(seen, u) /\ v \in D
    <2>1. TypeOK /\ u \in Runs /\ marks[u] = "done"
        BY DEF Inv
    <2>2. Readable(u) /\ Names(lineage[u], v) /\ v \in Runs /\ u \in siblings
        BY <2>1, FollowPresent
    <2>3. v \in Follow(seen, u)
        BY <2>1, <2>2 DEF AcceptInv, ReadInv
    <2>4. marks[v] = "done"
        BY <2>1, <2>3 DEF Inv, DoneInv
    <2>5. Readable(v) => v \in siblings
        BY <1>1, <2>2 DEF AcceptInv, LateInv
    <2> QED BY <2>2, <2>3, <2>4, <2>5
<1>5. subject \in D /\ D \in SUBSET Runs
    BY <1>1
<1> HIDE DEF D
<1>6. Circular(Present, subject) => Circular(seen, subject)
    BY <1>1, <1>4, <1>5, CircleWasThere
<1> QED BY <1>2, <1>3, <1>6 DEF Kept

\* The resumed run: an accepted run does not name one that runs or finished.
LEMMA CheckResumedAccepted ==
    ASSUME TypeOK, SearchInv, AcceptInv, CheckResumed
    PROVE  PassedInv' /\ ResumedInv'
<1> DEFINE f == lineage[subject].resumed_from
<1>1. /\ pc = "resumed" /\ subject \in Runs /\ subject \in siblings /\ SiblingInv
      /\ lineage[subject] \in Lineages
      /\ UNCHANGED <<life, lineage, subject, siblings, removed, accepted>>
      /\ pc' \in {"search", "ended"}
    BY DEF CheckResumed, Ended, SearchInv, SiblingInv, TypeOK
<1>2. Lawful(subject) /\ Lawful(subject)'
    BY <1>1 DEF AcceptInv, PassedInv, Lawful
<1>3. f # NoRun => f \in Runs /\ Names(lineage[subject], f)
    BY <1>1, ResumedIsNamed
<1>4. CASE f \in siblings /\ life[f] # "failed"
    <2>1. pc' = "ended" /\ verdict' = "resumed"
        BY <1>4 DEF CheckResumed, Ended
    <2>2. ASSUME subject \in accepted PROVE removed = "yes"
        <3>1. f # NoRun /\ f \in Runs
            BY <1>4, LineageAssumption DEF TypeOK
        <3>2. life[f] \in {"unborn", "failed", "gone"}
            BY <2>2, <3>1 DEF AcceptInv, KeptInv, Kept, ResumesFailed
        <3>3. ~Readable(f)
            BY <1>4, <3>2 DEF Readable
        <3> QED BY <1>1, <1>4, <3>3 DEF SiblingInv, TypeOK
    <2> QED BY <1>1, <2>1, <2>2 DEF PassedInv, ResumedInv
<1>5. CASE ~(f \in siblings /\ life[f] # "failed")
    <2>1. pc' = "search" /\ verdict' = verdict /\ verdict = "none"
        BY <1>1, <1>5 DEF CheckResumed, Ended, SearchInv, VerdictInv
    <2>2. ASSUME f # NoRun PROVE life[f] \in {"unborn", "failed", "gone"}
        <3>1. CASE life[f] = "failed"
            BY <3>1
        <3>2. CASE f \notin siblings
            <4>1. ~Readable(f)
                BY <1>1, <1>3, <2>2, <3>2 DEF AcceptInv, LateInv
            <4> QED BY <4>1 DEF Readable
        <3> QED BY <1>5, <3>1, <3>2
    <2>3. ResumesFailed(subject)'
        BY <1>1, <2>2 DEF ResumesFailed
    <2> QED BY <1>2, <2>1, <2>3 DEF PassedInv, ResumedInv
<1> QED BY <1>4, <1>5

\* The steps of the search, which read and do not write.
LEMMA SearchAccepted ==
    ASSUME TypeOK, TypeOK', SearchInv, AcceptInv, Search
    PROVE  AcceptInv'
<1>1. /\ pc = "search" /\ pc' \in {"search", "ended"} /\ SiblingInv /\ verdict = "none"
      /\ UNCHANGED <<life, lineage, accepted, subject, finishing, siblings, removed>>
    BY DEF Search, LeaveRun, MeetPath, MeetDone, VisitRun, SearchEnds, Searching, Ended,
           SearchInv, VerdictInv
<1>2. /\ LateInv' /\ FinishingInv'
    BY <1>1 DEF AcceptInv, LateInv, FinishingInv, Readable
<1>3. verdict' \in {"none", "ok", "cycle"}
    BY <1>1 DEF Search, LeaveRun, MeetPath, MeetDone, VisitRun, SearchEnds, Ended
<1>4. PassedInv' /\ ResumedInv'
    BY <1>1, <1>3 DEF AcceptInv, PassedInv, ResumedInv, Lawful, ResumesFailed
<1>5. Present' = Present
    BY <1>1 DEF Present, Readable
<1>6. KeptInv'
    BY <1>1, <1>5 DEF AcceptInv, KeptInv, Kept, Lawful, ResumesFailed
<1>7. ReadInv'
    <2>1. SUFFICES ASSUME NEW u \in siblings, marks'[u] # "none", Readable(u)
                   PROVE  Follow(seen', u) = Follow(Present, u)
        BY <1>1, <1>5 DEF ReadInv, Readable
    <2>2. u \in Runs
        BY DEF TypeOK
    <2>3. CASE MeetPath \/ MeetDone \/ SearchEnds
        BY <2>1, <2>3 DEF MeetPath, MeetDone, SearchEnds, AcceptInv, ReadInv
    <2>4. CASE LeaveRun
        <3>1. /\ Searching /\ Top.visit = "leave" /\ seen' = seen
              /\ marks' = [marks EXCEPT ![Top.uid] = "done"]
            BY <2>4 DEF LeaveRun
        <3>2. Len(stack) \in DOMAIN stack /\ Top = stack[Len(stack)]
            BY <3>1, TopFacts
        <3>3. marks[Top.uid] = "path"
            BY <1>1, <3>1, <3>2 DEF SearchInv, StackInv, Leaves
        <3>4. marks[u] # "none"
            BY <2>1, <2>2, <3>1, <3>3 DEF TypeOK
        <3> QED BY <2>1, <3>1, <3>4 DEF AcceptInv, ReadInv
    <2>5. CASE VisitRun
        <3>1. /\ Searching /\ seen' = [seen EXCEPT ![Top.uid] = ReadEdges(Top.uid)]
              /\ marks' = [marks EXCEPT ![Top.uid] = "path"]
            BY <2>5 DEF VisitRun
        <3>2. CASE u = Top.uid
            <4>1. seen'[u] = EdgesOf(lineage[u]) /\ Present[u] = EdgesOf(lineage[u])
                BY <2>1, <2>2, <3>1, <3>2 DEF ReadEdges, Present, TypeOK
            <4> QED BY <4>1 DEF Follow
        <3>3. CASE u # Top.uid
            <4>1. marks[u] # "none" /\ seen'[u] = seen[u]
                BY <2>1, <2>2, <3>1, <3>3 DEF TypeOK
            <4>2. Follow(seen, u) = Follow(Present, u)
                BY <2>1, <4>1 DEF AcceptInv, ReadInv
            <4> QED BY <4>1, <4>2 DEF Follow
        <3> QED BY <3>2, <3>3
    <2> QED BY <2>3, <2>4, <2>5 DEF Search
<1> QED BY <1>2, <1>4, <1>6, <1>7 DEF AcceptInv

LEMMA AcceptInit == Init => AcceptInv
<1> SUFFICES ASSUME Init PROVE AcceptInv
    OBVIOUS
<1>1. pc = "idle" /\ siblings = {} /\ accepted = {} /\ verdict = "none"
    BY DEF Init
<1> QED BY <1>1 DEF AcceptInv, ReadInv, LateInv, FinishingInv, PassedInv, KeptInv, ResumedInv

LEMMA AcceptStep ==
    ASSUME Inv, Inv', AcceptInv, [Next]_vars
    PROVE  AcceptInv'
<1>1. TypeOK /\ TypeOK' /\ SearchInv /\ SiblingInv
    BY DEF Inv, SearchInv
<1>2. Moves
    BY <1>1, LivesMove DEF AcceptInv
<1>3. ASSUME NEW r \in Runs,
             \/ \E l \in Startable : Start(r, l)
             \/ KillRun(r) /\ UNCHANGED check
             \/ GcRecords(r) \/ FailRun(r) \/ DeleteRun(r)
      PROVE  AcceptInv'
    <2>1. World
        BY <1>1, <1>3, WorldSteps
    <2>2. UNCHANGED <<accepted, finishing>>
        BY <1>3 DEF Start, KillRun, GcRecords, FailRun, DeleteRun, check
    <2>3. ASSUME pc # "idle", finishing PROVE life'[subject] = life[subject]
        <3>1. subject \in Runs /\ life[subject] = "running"
            BY <1>1, <2>3 DEF AcceptInv, FinishingInv, TypeOK
        <3>2. CASE r = subject
            <4>1. KillRun(r) /\ UNCHANGED check
                BY <1>3, <2>3, <3>1, <3>2 DEF Start, GcRecords, FailRun, DeleteRun, Becomes
            <4>2. pc' = pc
                BY <4>1 DEF check
            <4>3. CASE EndCheck
                BY <2>3, <4>2, <4>3 DEF EndCheck
            <4>4. CASE ~EndCheck
                BY <2>3, <3>2, <4>1, <4>4 DEF KillRun
            <4> QED BY <4>3, <4>4
        <3>3. CASE r # subject
            <4>1. \E to : life' = [life EXCEPT ![r] = to]
                BY <1>3 DEF Start, KillRun, GcRecords, FailRun, DeleteRun, Becomes
            <4> QED BY <1>1, <3>1, <3>3, <4>1 DEF TypeOK
        <3> QED BY <3>2, <3>3
    <2> QED BY <1>1, <1>2, <2>1, <2>2, <2>3, WorldKeepsAccepted
<1>4. ASSUME EndCheck, accepted' = accepted PROVE AcceptInv'
    <2>1. NothingRead /\ pc' = "idle" /\ verdict' = "none"
        BY <1>4 DEF EndCheck
    <2>2. \A r \in accepted' : Kept(r)
        BY <1>4 DEF AcceptInv, KeptInv
    <2> QED BY <1>1, <1>2, <2>1, <2>2, NoCheckAccepted
<1>5. ASSUME NEW r \in Runs, KillRun(r) PROVE AcceptInv'
    <2>1. EndCheck \/ UNCHANGED check
        BY <1>5 DEF KillRun
    <2>2. accepted' = accepted
        BY <1>5 DEF KillRun
    <2> QED BY <1>3, <1>4, <1>5, <2>1, <2>2
<1>6. ASSUME NEW r \in Runs, BeginCheck(r) PROVE AcceptInv'
    <2>1. /\ NothingRead /\ subject' = r /\ finishing' = (life[r] = "running")
          /\ siblings' = {q \in Runs : Readable(q)} /\ UNCHANGED <<life, lineage, accepted>>
          /\ pc' \in {"resumed", "ended"} /\ verdict' \in {"none", "shape", "self"}
          /\ pc' = "resumed" => Lawful(r)
        BY <1>6 DEF BeginCheck, Ended, Lawful
    <2>2. siblings' = {q \in Runs : Readable(q)'}
        BY <2>1 DEF Readable
    <2>3. pc' # "idle" /\ finishing' => life'[subject'] = "running"
        BY <2>1
    <2>4. pc' = "resumed" => Lawful(subject)'
        BY <2>1 DEF Lawful
    <2>5. \A q \in accepted' : Kept(q)
        BY <2>1 DEF AcceptInv, KeptInv
    <2>6. pc' # "search" /\ verdict' \notin {"ok", "resumed"}
        BY <2>1
    <2> QED BY <1>1, <1>2, <2>1, <2>2, <2>3, <2>4, <2>5, <2>6, NoCheckAccepted
<1>7. CASE CheckResumed
    <2>1. /\ UNCHANGED <<life, lineage, accepted, subject, finishing, siblings, removed, marks, seen>>
          /\ pc = "resumed"
        BY <1>7 DEF CheckResumed
    <2>2. PassedInv' /\ ResumedInv'
        BY <1>1, <1>7, CheckResumedAccepted
    <2>3. Present' = Present
        BY <2>1 DEF Present, Readable
    <2>4. ReadInv'
        BY <2>1, <2>3 DEF AcceptInv, ReadInv, Readable
    <2>5. LateInv' /\ FinishingInv'
        BY <2>1 DEF AcceptInv, LateInv, FinishingInv, Readable
    <2>6. KeptInv'
        BY <2>1, <2>3 DEF AcceptInv, KeptInv, Kept, Lawful, ResumesFailed
    <2> QED BY <2>2, <2>4, <2>5, <2>6 DEF AcceptInv
<1>8. CASE Search
    BY <1>1, <1>8, SearchAccepted
<1>9. CASE Conclude
    <2>1. NothingRead /\ pc' = "idle" /\ verdict' = "none"
        BY <1>9 DEF Conclude, EndCheck
    <2>2. verdict = "ok" => Kept(subject)
        BY OkIsKept
    <2>3. \A r \in accepted' : Kept(r)
        BY <1>9, <2>2 DEF Conclude, AcceptInv, KeptInv
    <2> QED BY <1>1, <1>2, <2>1, <2>3, NoCheckAccepted
<1>10. CASE UNCHANGED vars
    <2>1. World /\ UNCHANGED <<life, accepted, finishing, subject>>
        BY <1>1, <1>10 DEF vars, check, World, SiblingInv, Readable
    <2> QED BY <1>1, <1>2, <2>1, WorldKeepsAccepted
<1> QED BY <1>3, <1>5, <1>6, <1>7, <1>8, <1>9, <1>10 DEF Next

LEMMA AcceptHolds == Spec => [](Inv /\ AcceptInv)
<1>1. Inv /\ Inv' /\ AcceptInv /\ [Next]_vars => AcceptInv'
    BY AcceptStep
<1> QED BY InvHolds, AcceptInit, <1>1, PTL DEF Spec

\* A lineage that was accepted once is refused by no later verification, for any
\* number of runs and whatever ends, is collected or deleted in between; only a
\* run deleted under the verification itself can make it refuse one.
THEOREM AcceptedForGood == Spec => []AcceptedStaysAccepted
<1>1. ASSUME Inv, AcceptInv PROVE AcceptedStaysAccepted
    <2>1. SUFFICES ASSUME pc = "ended", subject \in accepted, verdict # "ok", removed # "yes"
                   PROVE  FALSE
        BY DEF AcceptedStaysAccepted
    <2>2. TypeOK /\ SiblingInv /\ VerdictInv /\ subject \in Runs /\ removed = "no"
        BY <1>1, <2>1 DEF Inv, TypeOK
    <2>3. Kept(subject)
        BY <1>1, <2>1 DEF AcceptInv, KeptInv
    <2>4. verdict \notin {"none", "shape", "self", "resumed"}
        BY <1>1, <2>1, <2>2, <2>3 DEF VerdictInv, Kept, Lawful, AcceptInv, ResumedInv
    <2>5. Circular(AsRecorded, subject)
        BY <2>1, <2>2, <2>4 DEF TypeOK, VerdictInv
    <2>6. ASSUME NEW u \in Runs PROVE Follow(AsRecorded, u) \subseteq Follow(Present, u) \cap Runs
        <3>1. CASE u \in siblings
            <4>1. Readable(u)
                BY <2>2, <3>1 DEF SiblingInv
            <4>2. AsRecorded[u] = Present[u]
                BY <3>1, <4>1 DEF AsRecorded, Present
            <4> QED BY <2>2, <4>2, FollowPresent DEF Follow
        <3>2. CASE u \notin siblings
            <4>1. AsRecorded[u] = <<>>
                BY <3>2 DEF AsRecorded
            <4> QED BY <4>1 DEF Follow
        <3> QED BY <3>1, <3>2
    <2>7. Circular(Present, subject)
        BY <2>2, <2>5, <2>6, CircleWasThere
    <2> QED BY <2>3, <2>7 DEF Kept
<1> QED BY <1>1, AcceptHolds, PTL

=============================================================================

---------------------------- MODULE EventLogProofs ----------------------------
(***************************************************************************)
(* Proofs about EventLog, for any payloads, any number of calls and any    *)
(* I/O errors: no acknowledged event is lost, doubled or out of order, a   *)
(* lawful run passes the deep check, a finished one has all its events.    *)
(*                                                                         *)
(* The lines of the file and those still in the buffer are one log: every  *)
(* flush, however it fails, moves the border between the two and changes   *)
(* nothing else but what is glued.                                         *)
(***************************************************************************)
EXTENDS EventLog, FiniteSetTheorems, TLAPS

\* The lines of a file and of a buffer, as one sequence.
Size(f, b) == Len(f) + Len(b)
At(f, b, i) == IF i <= Len(f) THEN f[i] ELSE b[i - Len(f)]

NextCall == Cardinality(acked) + faults + 1
Sure == {a[2] : a \in acked}
Known == Sure \cup doubtful

\* Each line is a call's, in the order of the calls, each call has one at most.
Rises(f, b, next) ==
    /\ \A i, j \in 1..Size(f, b) : i < j => At(f, b, i).call < At(f, b, j).call
    /\ \A i \in 1..Size(f, b) : At(f, b, i).call < next

\* No line is anything but what was called for.
Answers(f, b, A, D) ==
    \A i \in 1..Size(f, b) :
        <<At(f, b, i).call, At(f, b, i).event>> \in A \/ At(f, b, i).event \in D

Glued(f, b) == \E i \in 1..Size(f, b) : At(f, b, i).glued

AckedIsInFile ==
    /\ IsFiniteSet(acked) /\ counts = Cardinality(acked)
    /\ \A a \in acked :
         /\ a[1] < NextCall
         /\ \E i \in 1..Len(file) : file[i].call = a[1] /\ file[i].event = a[2]

\* Only what is left of a long line stays without its end while the run works.
LongIsToBlame ==
    Glued(file, buffer) \/ (tail = "lost" /\ pc = "working") => \E e \in doubtful : e.long

About(e, o) == e.fields["unit_id"] = o.fields["unit_id"]

\* What a lawful program has said, in the file or not.
TimesAgree ==
    lawful =>
        /\ \A o \in Known : o.kind = "observation" => HasUnit(o) /\ HasNumber(o, "t")
        /\ \A e \in Known : e.kind = "terminal" =>
             /\ HasUnit(e) /\ HasNumber(e, "t") /\ HasNumber(e, "budget")
             /\ e.fields["censored"] \in BOOLEAN
             /\ e.fields["censored"] => e.fields["t"] = e.fields["budget"]
             /\ \E o \in Sure :
                  o.kind = "observation" /\ About(e, o) /\ o.fields["t"] = e.fields["t"]
             /\ \A o \in Known :
                  o.kind = "observation" /\ About(e, o) => o.fields["t"] <= e.fields["t"]

FinishedIsRead == pc = "finished" => Readable(file, tail) /\ buffer = <<>>

IInv ==
    /\ TypeOK /\ Rises(file, buffer, NextCall) /\ Answers(file, buffer, acked, doubtful)
    /\ AckedIsInFile /\ LongIsToBlame /\ TimesAgree /\ FinishedIsRead
-----------------------------------------------------------------------------
(* Flushes.                                                                *)

\* Nothing is changed but the border, with `lines` for the buffer, and what
\* follows a lost fragment.
Carries(lines) ==
    /\ file' \in Seq(Lines) /\ buffer' \in Seq(Lines)
    /\ Len(file) <= Len(file') /\ \A i \in 1..Len(file) : file'[i] = file[i]
    /\ Size(file', buffer') = Size(file, lines)
    /\ \A i \in 1..Size(file, lines) :
         /\ At(file', buffer', i).call = At(file, lines, i).call
         /\ At(file', buffer', i).event = At(file, lines, i).event
         /\ At(file', buffer', i).glued => At(file, lines, i).glued \/ tail = "lost"

\* A flush leaves no fragment without its end.
TailKept == tail' \in {"whole", "pending", "lost"} /\ (tail' = "lost" => tail = "lost")

LEMMA Joined ==
    ASSUME NEW s \in Seq(Lines), NEW t \in Seq(Lines)
    PROVE  /\ s \o t \in Seq(Lines) /\ Len(s \o t) = Len(s) + Len(t)
           /\ Len(s) \in Nat /\ Len(t) \in Nat
           /\ \A i \in 1..Len(s) : (s \o t)[i] = s[i]
           /\ \A i \in 1..Len(t) : (s \o t)[Len(s) + i] = t[i]
OBVIOUS

LEMMA GlueKeeps ==
    ASSUME TypeOK, NEW lines \in Seq(Lines)
    PROVE  /\ Glue(lines) \in Seq(Lines) /\ Len(Glue(lines)) = Len(lines)
           /\ \A i \in 1..Len(lines) :
                /\ Glue(lines)[i].call = lines[i].call /\ Glue(lines)[i].event = lines[i].event
                /\ Glue(lines)[i].glued => lines[i].glued \/ tail = "lost"
<1>1. CASE tail = "lost" /\ lines # <<>>
    <2> DEFINE g == [lines EXCEPT ![1].glued = TRUE]
    <2>1. Len(lines) \in Nat /\ Len(lines) # 0 /\ DOMAIN lines = 1..Len(lines) /\ 1 \in 1..Len(lines)
        BY <1>1
    <2>2. \A i \in 1..Len(lines) : lines[i] \in Lines
        BY <2>1
    <2>3. /\ g[1] = [lines[1] EXCEPT !.glued = TRUE]
          /\ \A i \in 1..Len(lines) : i # 1 => g[i] = lines[i]
        BY <2>1
    <2>4. /\ g[1] \in Lines /\ g[1].call = lines[1].call /\ g[1].event = lines[1].event
        BY <2>1, <2>2, <2>3 DEF Lines
    <2>5. g \in Seq(Lines) /\ Len(g) = Len(lines)
        BY <2>1, <2>2, <2>3, <2>4
    <2> HIDE DEF g
    <2>6. Glue(lines) = g
        BY <1>1 DEF Glue, g
    <2> QED BY <1>1, <2>3, <2>4, <2>5, <2>6
<1>2. CASE ~(tail = "lost" /\ lines # <<>>)
    BY <1>2 DEF Glue
<1> QED BY <1>1, <1>2

LEMMA SizeStays ==
    ASSUME NEW f \in Seq(Lines), NEW lines \in Seq(Lines), NEW g \in Seq(Lines), NEW r \in Seq(Lines),
           NEW k \in Nat, Len(g) = Len(f) + k, k + Len(r) = Len(lines)
    PROVE  Size(g, r) = Size(f, lines)
<1>1. Len(f) \in Nat /\ Len(g) \in Nat /\ Len(r) \in Nat /\ Len(lines) \in Nat
    OBVIOUS
<1> QED BY <1>1 DEF Size

\* What moves from the buffer into the file.
LEMMA MovedCarries ==
    ASSUME TypeOK, NEW lines \in Seq(Lines), NEW g \in Seq(Lines),
           buffer' \in Seq(Lines), Len(g) + Len(buffer') = Len(lines),
           \A i \in 1..Len(g) :
                /\ g[i].call = lines[i].call /\ g[i].event = lines[i].event
                /\ g[i].glued => lines[i].glued \/ tail = "lost",
           \A i \in 1..Len(buffer') : buffer'[i] = lines[Len(g) + i],
           file' \in Seq(Lines), Len(file') = Len(file) + Len(g),
           \A i \in 1..Len(file) : file'[i] = file[i],
           \A i \in 1..Len(g) : file'[Len(file) + i] = g[i]
    PROVE  Carries(lines)
<1>1. file \in Seq(Lines)
    BY DEF TypeOK
<1>2. /\ Len(file) \in Nat /\ Len(g) \in Nat /\ Len(buffer') \in Nat /\ Len(lines) \in Nat
      /\ Len(file') = Len(file) + Len(g)
    BY <1>1
<1> DEFINE n == Len(file)
           k == Len(g)
<1>3. Size(file', buffer') = Size(file, lines) /\ Size(file, lines) = n + Len(lines)
    <2>1. Size(file', buffer') = Size(file, lines)
        BY <1>1, <1>2, SizeStays
    <2> QED BY <2>1 DEF Size
<1>4. ASSUME NEW i \in 1..n + Len(lines)
      PROVE  /\ At(file', buffer', i).call = At(file, lines, i).call
             /\ At(file', buffer', i).event = At(file, lines, i).event
             /\ At(file', buffer', i).glued => At(file, lines, i).glued \/ tail = "lost"
    <2>1. CASE i <= n
        <3>1. At(file', buffer', i) = file[i] /\ At(file, lines, i) = file[i]
            BY <1>2, <2>1 DEF At
        <3> QED BY <3>1
    <2>2. CASE ~(i <= n) /\ i <= n + k
        <3>1. i - n \in 1..k /\ n + (i - n) = i
            BY <1>2, <2>2
        <3>2. At(file', buffer', i) = g[i - n]
            <4>1. file'[n + (i - n)] = g[i - n]
                BY <1>2, <3>1
            <4> QED BY <1>2, <2>2, <3>1, <4>1 DEF At
        <3>3. At(file, lines, i) = lines[i - n]
            BY <2>2 DEF At
        <3> QED BY <3>1, <3>2, <3>3
    <2>3. CASE ~(i <= n + k)
        <3>1. i - (n + k) \in 1..Len(buffer') /\ k + (i - (n + k)) = i - n /\ ~(i <= n)
            BY <1>2, <2>3
        <3>2. At(file', buffer', i) = buffer'[i - (n + k)]
            BY <1>2, <2>3 DEF At
        <3>3. buffer'[i - (n + k)] = lines[i - n]
            BY <3>1
        <3>4. At(file, lines, i) = lines[i - n]
            BY <3>1 DEF At
        <3> QED BY <3>2, <3>3, <3>4
    <2> QED BY <2>1, <2>2, <2>3
<1>5. Len(file) <= Len(file')
    BY <1>2
<1> QED BY <1>3, <1>4, <1>5 DEF Carries

LEMMA FlushAllCarries ==
    ASSUME TypeOK, NEW lines \in Seq(Lines), FlushAll(lines)
    PROVE  Carries(lines) /\ TailKept /\ buffer' = <<>>
<1> DEFINE g == Glue(lines)
<1>1. /\ g \in Seq(Lines) /\ Len(g) = Len(lines)
      /\ \A i \in 1..Len(lines) :
           /\ g[i].call = lines[i].call /\ g[i].event = lines[i].event
           /\ g[i].glued => lines[i].glued \/ tail = "lost"
    BY GlueKeeps
<1>2. file' = file \o g /\ buffer' = <<>> /\ TailKept
    BY DEF FlushAll, TypeOK, TailKept
<1>3. /\ buffer' \in Seq(Lines) /\ Len(lines) \in Nat
      /\ Len(g) + Len(buffer') = Len(lines)
      /\ \A i \in 1..Len(buffer') : buffer'[i] = lines[Len(g) + i]
    BY <1>1, <1>2
<1> HIDE DEF g
<1>6. file \in Seq(Lines)
    BY DEF TypeOK
<1>7. /\ file' \in Seq(Lines) /\ Len(file') = Len(file) + Len(g)
      /\ \A i \in 1..Len(file) : file'[i] = file[i]
      /\ \A i \in 1..Len(g) : file'[Len(file) + i] = g[i]
    BY <1>1, <1>2, <1>6, Joined
<1> QED BY <1>1, <1>2, <1>3, <1>7, MovedCarries

LEMMA FlushSomeCarries ==
    ASSUME TypeOK, NEW lines \in Seq(Lines), NEW k \in Nat, FlushSome(lines, k)
    PROVE  Carries(lines) /\ TailKept
<1>0. /\ file \in Seq(Lines) /\ tail \in {"whole", "pending", "lost"} /\ k < Len(lines)
      /\ Len(file) \in Nat /\ Len(lines) \in Nat
    BY DEF TypeOK, FlushSome
<1>1. CASE k = 0 /\ buffer' = lines /\ UNCHANGED <<file, tail>>
    BY <1>0, <1>1 DEF Carries, At, Size, TailKept
<1>2. CASE k = 0 /\ buffer' = Glue(lines) /\ tail' = "pending" /\ UNCHANGED file
    <2>1. /\ buffer' \in Seq(Lines) /\ Len(buffer') = Len(lines)
          /\ \A i \in 1..Len(lines) :
               /\ buffer'[i].call = lines[i].call /\ buffer'[i].event = lines[i].event
               /\ buffer'[i].glued => lines[i].glued \/ tail = "lost"
        BY <1>2, GlueKeeps
    <2>2. \A i \in 1..Len(file) + Len(lines) : ~(i <= Len(file)) => i - Len(file) \in 1..Len(lines)
        BY <1>0
    <2>3. Size(file', buffer') = Len(file) + Len(lines) /\ Size(file, lines) = Len(file) + Len(lines)
        BY <1>2, <2>1 DEF Size
    <2>4. \A i \in 1..Len(file) + Len(lines) :
            \/ At(file', buffer', i) = file[i] /\ At(file, lines, i) = file[i]
            \/ /\ i - Len(file) \in 1..Len(lines)
               /\ At(file', buffer', i) = buffer'[i - Len(file)]
               /\ At(file, lines, i) = lines[i - Len(file)]
        BY <1>2, <2>2 DEF At
    <2> QED BY <1>0, <1>2, <2>1, <2>3, <2>4 DEF Carries, TailKept
<1>3. CASE /\ k > 0
           /\ file' = file \o Glue(SubSeq(lines, 1, k))
           /\ buffer' = SubSeq(lines, k + 1, Len(lines))
           /\ tail' \in {"whole", "pending"}
    <2> DEFINE h == SubSeq(lines, 1, k)
               r == SubSeq(lines, k + 1, Len(lines))
               g == Glue(h)
    <2>1. /\ h \in Seq(Lines) /\ Len(h) = k /\ \A i \in 1..k : h[i] = lines[i]
          /\ r \in Seq(Lines) /\ Len(r) = Len(lines) - k
          /\ \A i \in 1..Len(lines) - k : r[i] = lines[k + i]
        BY <1>0, <1>3
    <2>2. file' = file \o g /\ buffer' = r
        BY <1>3
    <2> HIDE DEF h, r
    <2>3. /\ g \in Seq(Lines) /\ Len(g) = k
          /\ \A i \in 1..k :
               /\ g[i].call = lines[i].call /\ g[i].event = lines[i].event
               /\ g[i].glued => lines[i].glued \/ tail = "lost"
        <3>1. /\ g \in Seq(Lines) /\ Len(g) = Len(h)
              /\ \A i \in 1..Len(h) :
                   /\ g[i].call = h[i].call /\ g[i].event = h[i].event
                   /\ g[i].glued => h[i].glued \/ tail = "lost"
            BY <2>1, GlueKeeps
        <3> QED BY <2>1, <3>1
    <2>4. TailKept
        BY <1>3 DEF TailKept
    <2> HIDE DEF g
    <2>5. Len(g) + Len(r) = Len(lines) /\ \A i \in 1..Len(r) : r[i] = lines[Len(g) + i]
        BY <1>0, <2>1, <2>3
    <2>6. /\ buffer' \in Seq(Lines) /\ Len(g) + Len(buffer') = Len(lines)
          /\ \A i \in 1..Len(buffer') : buffer'[i] = lines[Len(g) + i]
        BY <2>1, <2>2, <2>5
    <2>7. /\ file' \in Seq(Lines) /\ Len(file') = Len(file) + Len(g)
          /\ \A i \in 1..Len(file) : file'[i] = file[i]
          /\ \A i \in 1..Len(g) : file'[Len(file) + i] = g[i]
        BY <1>0, <2>2, <2>3, Joined
    <2> QED BY <2>1, <2>2, <2>3, <2>4, <2>6, <2>7, MovedCarries
<1> QED BY <1>1, <1>2, <1>3 DEF FlushSome
-----------------------------------------------------------------------------
(* What a flush keeps, and what a line adds.                               *)

LEMMA CarriesKeeps ==
    ASSUME NEW lines \in Seq(Lines), Carries(lines)
    PROVE  /\ \A n \in Nat : Rises(file, lines, n) => Rises(file', buffer', n)
           /\ \A A, D : Answers(file, lines, A, D) => Answers(file', buffer', A, D)
           /\ Glued(file', buffer') => Glued(file, lines) \/ tail = "lost"
BY DEF Carries, Rises, Answers, Glued

LEMMA LinesAreNumbered ==
    ASSUME TypeOK
    PROVE  \A i \in 1..Size(file, buffer) :
               At(file, buffer, i) \in Lines /\ At(file, buffer, i).call \in Nat
<1>1. /\ file \in Seq(Lines) /\ buffer \in Seq(Lines)
      /\ Len(file) \in Nat /\ Len(buffer) \in Nat
    BY DEF TypeOK
<1>2. \A i \in 1..Size(file, buffer) : ~(i <= Len(file)) => i - Len(file) \in 1..Len(buffer)
    BY <1>1 DEF Size
<1>3. \A i \in 1..Size(file, buffer) : At(file, buffer, i) \in Lines
    BY <1>1, <1>2 DEF At
<1>4. MaxCalls \in Nat
    BY EventLogAssumption
<1> QED BY <1>3, <1>4 DEF Lines

LEMMA LineAdds ==
    ASSUME TypeOK, NEW line \in Lines, NEW n \in Nat
    PROVE  LET lines == Append(buffer, line)
           IN  /\ lines \in Seq(Lines) /\ Size(file, lines) = Size(file, buffer) + 1
               /\ Size(file, buffer) \in Nat
               /\ \A i \in 1..Size(file, buffer) : At(file, lines, i) = At(file, buffer, i)
               /\ At(file, lines, Size(file, buffer) + 1) = line
<1>1. /\ file \in Seq(Lines) /\ buffer \in Seq(Lines)
      /\ Len(file) \in Nat /\ Len(buffer) \in Nat
    BY DEF TypeOK
<1> DEFINE lines == Append(buffer, line)
<1>2. /\ lines \in Seq(Lines) /\ Len(lines) = Len(buffer) + 1
      /\ \A i \in 1..Len(buffer) : lines[i] = buffer[i]
      /\ lines[Len(buffer) + 1] = line
    BY <1>1
<1> HIDE DEF lines
<1>3. Size(file, lines) = Size(file, buffer) + 1 /\ Size(file, buffer) \in Nat
    BY <1>1, <1>2 DEF Size
<1>4. ASSUME NEW i \in 1..Size(file, buffer) PROVE At(file, lines, i) = At(file, buffer, i)
    <2>1. ~(i <= Len(file)) => i - Len(file) \in 1..Len(buffer)
        BY <1>1 DEF Size
    <2> QED BY <1>2, <2>1 DEF At
<1>5. At(file, lines, Size(file, buffer) + 1) = line
    <2> DEFINE k == Size(file, buffer) + 1
    <2>1. ~(k <= Len(file)) /\ k - Len(file) = Len(buffer) + 1
        BY <1>1 DEF Size
    <2> HIDE DEF k
    <2>2. At(file, lines, k) = lines[k - Len(file)]
        BY <2>1 DEF At
    <2>3. At(file, lines, k) = line
        BY <1>2, <2>1, <2>2
    <2> QED BY <2>3 DEF k
<1> QED BY <1>2, <1>3, <1>4, <1>5 DEF lines

LEMMA LineKeeps ==
    ASSUME TypeOK, NEW line \in Lines, NEW n \in Nat, line.call = n, ~line.glued
    PROVE  LET lines == Append(buffer, line)
           IN  /\ Rises(file, buffer, n) => Rises(file, lines, n + 1)
               /\ \A A, D : Answers(file, buffer, A, D) =>
                    /\ Answers(file, lines, A \cup {<<n, line.event>>}, D)
                    /\ Answers(file, lines, A, D \cup {line.event})
               /\ Glued(file, lines) => Glued(file, buffer)
<1> DEFINE lines == Append(buffer, line)
           m == Size(file, buffer)
<1>1. /\ Size(file, lines) = m + 1 /\ m \in Nat
      /\ \A i \in 1..m : At(file, lines, i) = At(file, buffer, i)
      /\ At(file, lines, m + 1) = line
    BY LineAdds
<1> HIDE DEF lines, m
<1>2. \A i \in 1..m + 1 : i \in 1..m \/ i = m + 1
    BY <1>1
<1>3. ASSUME Rises(file, buffer, n) PROVE Rises(file, lines, n + 1)
    <2>1. \A i \in 1..m : At(file, lines, i).call < n /\ At(file, buffer, i).call \in Nat
        <3>3. \A i \in 1..m : At(file, buffer, i).call \in Nat
            BY LinesAreNumbered DEF m
        <3>4. \A i \in 1..m : At(file, buffer, i).call < n
            BY <1>3 DEF Rises, m
        <3> QED BY <1>1, <3>3, <3>4
    <2>2. \A i, j \in 1..m + 1 : i < j => At(file, lines, i).call < At(file, lines, j).call
        <3>1. ASSUME NEW i \in 1..m + 1, NEW j \in 1..m + 1, i < j
              PROVE  At(file, lines, i).call < At(file, lines, j).call
            <4>1. i \in 1..m
                BY <1>1, <3>1
            <4>2. CASE j \in 1..m
                BY <1>1, <1>3, <3>1, <4>1, <4>2 DEF Rises, m
            <4>3. CASE j = m + 1
                BY <1>1, <2>1, <4>1, <4>3
            <4> QED BY <1>2, <4>2, <4>3
        <3> QED BY <3>1
    <2>3. \A i \in 1..m + 1 : At(file, lines, i).call < n + 1
        BY <1>1, <1>2, <2>1
    <2> QED BY <1>1, <2>2, <2>3 DEF Rises
<1>4. ASSUME NEW A, NEW D, Answers(file, buffer, A, D)
      PROVE  /\ Answers(file, lines, A \cup {<<n, line.event>>}, D)
             /\ Answers(file, lines, A, D \cup {line.event})
    BY <1>1, <1>2, <1>4 DEF Answers, m
<1>5. Glued(file, lines) => Glued(file, buffer)
    BY <1>1, <1>2 DEF Glued, m
<1> QED BY <1>3, <1>4, <1>5 DEF lines
-----------------------------------------------------------------------------
(* The calls.                                                              *)

LEMMA LineIsALine ==
    ASSUME TypeOK, AckedIsInFile, NEW event \in Payloads, Called(event)
    PROVE  /\ NextCall \in 1..MaxCalls /\ Cardinality(acked) \in Nat /\ faults \in Nat
           /\ Line(event) \in Lines /\ Line(event).call = NextCall
           /\ Line(event).event = event /\ ~Line(event).glued
           /\ pc = "working" /\ pc' = "working"
<1>1. Cardinality(acked) \in Nat /\ faults \in Nat /\ MaxCalls \in Nat
    BY FS_CardinalityType, EventLogAssumption DEF AckedIsInFile, TypeOK
<1>2. NextCall \in 1..MaxCalls
    BY <1>1 DEF Called, NextCall
<1> QED BY <1>1, <1>2 DEF Line, Lines, NextCall, Called

LEMMA LaterRises ==
    ASSUME TypeOK, NEW n \in Nat, NEW m \in Nat, n <= m, Rises(file, buffer, n)
    PROVE  Rises(file, buffer, m)
BY LinesAreNumbered DEF Rises

\* A call or an end of the run that acknowledges nothing.
LEMMA NothingAcked ==
    ASSUME TypeOK, AckedIsInFile, LongIsToBlame, pc = "working",
           NEW lines \in Seq(Lines), Carries(lines),
           acked' = acked, counts' = counts, faults \in Nat, faults' \in Nat, faults <= faults',
           doubtful \subseteq doubtful',
           Rises(file, lines, NextCall'), Answers(file, lines, acked', doubtful'),
           Glued(file, lines) => Glued(file, buffer),
           TailKept \/ \E e \in doubtful' : e.long
    PROVE  /\ Rises(file, buffer, NextCall)' /\ Answers(file, buffer, acked, doubtful)'
           /\ AckedIsInFile' /\ LongIsToBlame'
<1>1. Cardinality(acked) \in Nat
    BY FS_CardinalityType DEF AckedIsInFile
<1>2. NextCall' \in Nat /\ NextCall \in Nat /\ NextCall <= NextCall'
    BY <1>1 DEF NextCall
<1>3. Rises(file', buffer', NextCall') /\ Answers(file', buffer', acked', doubtful')
    BY <1>2, CarriesKeeps
<1>4. AckedIsInFile'
    <2>1. ASSUME NEW a \in acked
          PROVE  a[1] < NextCall' /\ \E i \in 1..Len(file') : file'[i].call = a[1] /\ file'[i].event = a[2]
        <3>1. a[1] \in Nat /\ a[1] < NextCall
            BY EventLogAssumption DEF AckedIsInFile, TypeOK
        <3>2. PICK i \in 1..Len(file) : file[i].call = a[1] /\ file[i].event = a[2]
            BY DEF AckedIsInFile
        <3>3. i \in 1..Len(file') /\ file'[i] = file[i]
            <4>1. file \in Seq(Lines) /\ file' \in Seq(Lines)
                BY DEF TypeOK, Carries
            <4>2. Len(file) \in Nat /\ Len(file') \in Nat
                BY <4>1
            <4>3. Len(file) <= Len(file') /\ file'[i] = file[i]
                BY DEF Carries
            <4> QED BY <4>2, <4>3
        <3>4. a[1] < NextCall'
            BY <1>2, <3>1
        <3> QED BY <3>2, <3>3, <3>4
    <2> QED BY <2>1 DEF AckedIsInFile
<1>5. LongIsToBlame'
    <2>1. Glued(file', buffer') => Glued(file, buffer) \/ tail = "lost"
        BY CarriesKeeps
    <2> QED BY <2>1 DEF LongIsToBlame, TailKept
<1> QED BY <1>3, <1>4, <1>5

\* A call that is acknowledged.
LEMMA AckedKept ==
    ASSUME IInv, NEW event \in Payloads, LogEvent(event)
    PROVE  /\ Rises(file, buffer, NextCall)' /\ Answers(file, buffer, acked, doubtful)'
           /\ AckedIsInFile' /\ LongIsToBlame'
           /\ Carries(Append(buffer, Line(event))) /\ TailKept
<1> USE DEF IInv
<1> DEFINE line == Line(event)
           lines == Append(buffer, line)
           n == NextCall
           a == <<n, event>>
<1>1. /\ n \in 1..MaxCalls /\ Cardinality(acked) \in Nat /\ faults \in Nat
      /\ line \in Lines /\ line.call = n /\ line.event = event /\ ~line.glued
      /\ pc = "working" /\ pc' = "working" /\ n \in Nat
    BY LineIsALine, EventLogAssumption DEF LogEvent
<1>2. /\ FlushAll(lines) /\ acked' = acked \cup {a} /\ counts' = counts + 1
      /\ UNCHANGED <<doubtful, faults>>
    BY <1>1 DEF LogEvent
<1> HIDE DEF line, n
<1>3. /\ lines \in Seq(Lines) /\ Size(file, lines) = Size(file, buffer) + 1
      /\ Size(file, buffer) \in Nat
      /\ At(file, lines, Size(file, buffer) + 1) = line
    BY <1>1, LineAdds
<1>4. /\ Rises(file, lines, n + 1)
      /\ Answers(file, lines, acked \cup {a}, doubtful)
      /\ Glued(file, lines) => Glued(file, buffer)
    <2>1. Rises(file, buffer, n) /\ Answers(file, buffer, acked, doubtful)
        BY DEF n
    <2> QED BY <1>1, <2>1, LineKeeps
<1> HIDE DEF lines, a
<1>5. Carries(lines) /\ TailKept /\ buffer' = <<>>
    BY <1>2, <1>3, FlushAllCarries
<1>6. NextCall' = n + 1 /\ IsFiniteSet(acked') /\ counts' = Cardinality(acked')
    <2>1. a \notin acked
        <3>1. \A b \in acked : b[1] < n /\ b[1] \in Nat
            BY EventLogAssumption DEF AckedIsInFile, TypeOK, n
        <3> QED BY <1>1, <3>1 DEF a
    <2>2. IsFiniteSet(acked') /\ Cardinality(acked') = Cardinality(acked) + 1
        BY <1>2, <2>1, FS_AddElement DEF AckedIsInFile
    <2> QED BY <1>1, <1>2, <2>2 DEF NextCall, AckedIsInFile, n
<1>7. Rises(file', buffer', NextCall') /\ Answers(file', buffer', acked', doubtful')
    BY <1>1, <1>2, <1>3, <1>4, <1>5, <1>6, CarriesKeeps
<1>8. LongIsToBlame'
    <2>1. Glued(file', buffer') => Glued(file, lines) \/ tail = "lost"
        BY <1>3, <1>5, CarriesKeeps
    <2> QED BY <1>1, <1>2, <1>4, <1>5, <2>1 DEF LongIsToBlame, TailKept
<1>9. ASSUME NEW b \in acked'
      PROVE  b[1] < NextCall' /\ \E i \in 1..Len(file') : file'[i].call = b[1] /\ file'[i].event = b[2]
    <2>1. /\ file \in Seq(Lines) /\ file' \in Seq(Lines) /\ Len(file) \in Nat /\ Len(file') \in Nat
          /\ Len(file) <= Len(file') /\ \A i \in 1..Len(file) : file'[i] = file[i]
        <3>1. file \in Seq(Lines) /\ file' \in Seq(Lines)
            BY <1>5 DEF TypeOK, Carries
        <3> QED BY <1>5, <3>1 DEF Carries
    <2>2. CASE b \in acked
        <3>1. b[1] < n /\ b[1] \in Nat
            BY <2>2, EventLogAssumption DEF AckedIsInFile, TypeOK, n
        <3>2. PICK i \in 1..Len(file) : file[i].call = b[1] /\ file[i].event = b[2]
            BY <2>2 DEF AckedIsInFile
        <3>3. i \in 1..Len(file') /\ file'[i] = file[i]
            BY <2>1
        <3> QED BY <1>1, <1>6, <3>1, <3>2, <3>3
    <2>3. CASE b = a
        <3> DEFINE k == Len(file')
        <3>1. Size(file', buffer') = k
            BY <1>5, <2>1 DEF Size
        <3>2. k = Size(file, buffer) + 1 /\ Size(file, lines) = k
            BY <1>3, <1>5, <3>1 DEF Carries
        <3>3. k \in 1..k
            BY <1>3, <3>2
        <3>4. At(file', buffer', k) = file'[k]
            BY <2>1 DEF At
        <3>5. file'[k].call = n /\ file'[k].event = event
            BY <1>1, <1>3, <1>5, <3>2, <3>3, <3>4 DEF Carries
        <3>6. b[1] = n /\ b[2] = event
            BY <2>3 DEF a
        <3> QED BY <1>1, <1>6, <3>3, <3>5, <3>6
    <2> QED BY <1>2, <1>9, <2>2, <2>3
<1>10. AckedIsInFile'
    BY <1>6, <1>9 DEF AckedIsInFile
<1> QED BY <1>5, <1>7, <1>8, <1>10 DEF lines, line

LEMMA StillCarries ==
    ASSUME TypeOK, UNCHANGED <<file, buffer>>
    PROVE  Carries(buffer)
<1>1. file \in Seq(Lines) /\ buffer \in Seq(Lines) /\ Len(file) \in Nat
    BY DEF TypeOK
<1> QED BY <1>1 DEF Carries

\* A long line that is cut: the buffer before it is in the file.
LEMMA CutCarries ==
    ASSUME TypeOK, file' = file \o Glue(buffer), buffer' = <<>>
    PROVE  Carries(buffer)
<1> DEFINE g == Glue(buffer)
<1>1. file \in Seq(Lines) /\ buffer \in Seq(Lines)
    BY DEF TypeOK
<1>2. /\ g \in Seq(Lines) /\ Len(g) = Len(buffer)
      /\ \A i \in 1..Len(buffer) :
           /\ g[i].call = buffer[i].call /\ g[i].event = buffer[i].event
           /\ g[i].glued => buffer[i].glued \/ tail = "lost"
    BY <1>1, GlueKeeps
<1>3. /\ buffer' \in Seq(Lines) /\ Len(g) + Len(buffer') = Len(buffer)
      /\ \A i \in 1..Len(buffer') : buffer'[i] = buffer[Len(g) + i]
    BY <1>1, <1>2
<1> HIDE DEF g
<1>4. /\ file' \in Seq(Lines) /\ Len(file') = Len(file) + Len(g)
      /\ \A i \in 1..Len(file) : file'[i] = file[i]
      /\ \A i \in 1..Len(g) : file'[Len(file) + i] = g[i]
    BY <1>1, <1>2, Joined DEF g
<1> QED BY <1>1, <1>2, <1>3, <1>4, MovedCarries

\* What every step but an acknowledged call keeps of the log.
LEMMA UnackedKept ==
    ASSUME IInv, Next, ~\E event \in Payloads : LogEvent(event)
    PROVE  /\ Rises(file, buffer, NextCall)' /\ Answers(file, buffer, acked, doubtful)'
           /\ AckedIsInFile' /\ LongIsToBlame'
           /\ file' \in Seq(Lines) /\ buffer' \in Seq(Lines) /\ tail' \in {"whole", "pending", "lost"}
<1> USE DEF IInv
<1> DEFINE Kept == /\ Rises(file, buffer, NextCall)' /\ Answers(file, buffer, acked, doubtful)'
                   /\ AckedIsInFile' /\ LongIsToBlame'
                   /\ file' \in Seq(Lines) /\ buffer' \in Seq(Lines)
                   /\ tail' \in {"whole", "pending", "lost"}
<1>0. /\ buffer \in Seq(Lines) /\ faults \in Nat /\ Cardinality(acked) \in Nat /\ NextCall \in Nat
    BY FS_CardinalityType, EventLogAssumption DEF TypeOK, AckedIsInFile, NextCall
<1>1. ASSUME NEW event \in Payloads,
             LogOpenFails(event) \/ LogFlushFails(event) \/ LogLongRefused(event) \/ LogLongCut(event)
      PROVE  Kept
    <2> DEFINE line == Line(event)
               lines == Append(buffer, line)
    <2>1. /\ Called(event) /\ faults' = faults + 1
          /\ doubtful' = doubtful \cup {event} /\ acked' = acked /\ counts' = counts
        BY <1>1 DEF LogOpenFails, LogFlushFails, LogLongRefused, LogLongCut, Fault
    <2>2. NextCall' = NextCall + 1
        BY <1>0, <2>1 DEF NextCall
    <2>3. /\ line \in Lines /\ line.call = NextCall /\ line.event = event /\ ~line.glued
          /\ pc = "working"
        BY <2>1, LineIsALine
    <2> HIDE DEF line
    <2>4. lines \in Seq(Lines)
        BY <1>0, <2>3, LineAdds
    <2>5. /\ Rises(file, lines, NextCall') /\ Answers(file, lines, acked', doubtful')
          /\ Glued(file, lines) => Glued(file, buffer)
        BY <1>0, <2>1, <2>2, <2>3, LineKeeps
    <2> HIDE DEF lines
    <2>6. Rises(file, buffer, NextCall') /\ Answers(file, buffer, acked', doubtful')
        <3>1. NextCall' \in Nat /\ NextCall <= NextCall'
            BY <1>0, <2>2
        <3> QED BY <1>0, <2>1, <3>1, LaterRises DEF Answers
    <2>n. faults' \in Nat /\ faults <= faults' /\ doubtful \subseteq doubtful'
        BY <1>0, <2>1
    <2>7. CASE LogOpenFails(event)
        <3>1. UNCHANGED <<file, buffer>> /\ TailKept
            BY <2>7 DEF LogOpenFails, TailKept, TypeOK
        <3>2. Carries(buffer)
            BY <3>1, StillCarries
        <3> QED BY <1>0, <2>1, <2>3, <2>6, <2>n, <3>1, <3>2, NothingAcked DEF Carries, TailKept
    <2>8. CASE LogFlushFails(event)
        <3>1. PICK k \in 0..Len(buffer) : FlushSome(lines, k)
            BY <2>8 DEF LogFlushFails, lines, line
        <3>2. k \in Nat
            BY <1>0
        <3>3. Carries(lines) /\ TailKept
            BY <2>4, <3>1, <3>2, FlushSomeCarries
        <3> QED BY <1>0, <2>1, <2>3, <2>4, <2>5, <2>n, <3>3, NothingAcked DEF Carries, TailKept
    <2>9. CASE LogLongRefused(event)
        <3>1. PICK k \in 0..Len(buffer) - 1 : FlushSome(buffer, k)
            BY <2>9 DEF LogLongRefused
        <3>2. k \in Nat
            BY <1>0
        <3>3. Carries(buffer) /\ TailKept
            BY <1>0, <3>1, <3>2, FlushSomeCarries
        <3> QED BY <1>0, <2>1, <2>3, <2>6, <2>n, <3>3, NothingAcked DEF Carries, TailKept
    <2>10. CASE LogLongCut(event)
        <3>1. /\ file' = file \o Glue(buffer) /\ buffer' = <<>> /\ tail' = "lost" /\ event.long
            BY <2>10 DEF LogLongCut
        <3>2. Carries(buffer)
            BY <3>1, CutCarries
        <3>3. \E e \in doubtful' : e.long
            BY <2>1, <3>1
        <3> QED BY <1>0, <2>1, <2>3, <2>6, <2>n, <3>1, <3>2, <3>3, NothingAcked DEF Carries
    <2> QED BY <1>1, <2>7, <2>8, <2>9, <2>10
<1>2. CASE Finish \/ FinishFails \/ Fail
    <2>1. /\ pc = "working" /\ UNCHANGED <<acked, counts, doubtful>>
          /\ faults' = faults \/ faults' = faults + 1
          /\ FlushAll(buffer) \/ \E k \in 0..Len(buffer) : FlushSome(buffer, k)
        BY <1>2 DEF Finish, FinishFails, Fail, DropWriter, Fault
    <2>2. Carries(buffer) /\ TailKept
        <3>1. CASE FlushAll(buffer)
            BY <1>0, <3>1, FlushAllCarries
        <3>2. CASE \E k \in 0..Len(buffer) : FlushSome(buffer, k)
            <4>1. PICK k \in 0..Len(buffer) : FlushSome(buffer, k)
                BY <3>2
            <4>2. k \in Nat
                BY <1>0
            <4> QED BY <1>0, <4>1, <4>2, FlushSomeCarries
        <3> QED BY <2>1, <3>1, <3>2
    <2>3. faults' \in Nat /\ faults <= faults' /\ NextCall' \in Nat /\ NextCall <= NextCall'
        BY <1>0, <2>1 DEF NextCall
    <2>4. Rises(file, buffer, NextCall') /\ Answers(file, buffer, acked', doubtful')
        BY <1>0, <2>1, <2>3, LaterRises
    <2> QED BY <1>0, <2>1, <2>2, <2>3, <2>4, NothingAcked DEF Carries, TailKept
<1>3. CASE Kill
    <2>1. /\ buffer' = <<>> /\ pc' = "killed" /\ UNCHANGED <<file, counts, acked, doubtful, faults>>
          /\ tail' \in {"whole", "pending", "lost"} /\ pc = "working"
        BY <1>3 DEF Kill, TypeOK
    <2>2. /\ file \in Seq(Lines) /\ Len(file) \in Nat /\ Len(buffer) \in Nat /\ Len(<<>>) = 0
        BY DEF TypeOK
    <2>3. /\ Size(file, <<>>) = Len(file) /\ \A i \in 1..Len(file) : i \in 1..Size(file, buffer)
          /\ \A i \in 1..Len(file) : At(file, <<>>, i) = At(file, buffer, i)
        BY <2>2 DEF Size, At
    <2>4. /\ Rises(file, <<>>, NextCall) /\ Answers(file, <<>>, acked, doubtful)
          /\ Glued(file, <<>>) => Glued(file, buffer)
        BY <2>3 DEF Rises, Answers, Glued
    <2>5. NextCall' = NextCall
        BY <2>1 DEF NextCall
    <2>6. AckedIsInFile'
        BY <2>1, <2>5 DEF AckedIsInFile
    <2>7. LongIsToBlame'
        BY <2>1, <2>4 DEF LongIsToBlame
    <2> QED BY <1>0, <2>1, <2>2, <2>4, <2>5, <2>6, <2>7
<1> QED BY <1>1, <1>2, <1>3 DEF Next
-----------------------------------------------------------------------------
(* What a lawful program says.                                             *)

LEMMA TimesKept ==
    ASSUME TimesAgree, NEW event \in Payloads, Called(event),
           Sure \subseteq Sure', Known' = Known \cup {event}
    PROVE  TimesAgree'
<1> SUFFICES ASSUME lawful'
             PROVE  /\ \A o \in Known' : o.kind = "observation" => HasUnit(o) /\ HasNumber(o, "t")
                    /\ \A e \in Known' : e.kind = "terminal" =>
                         /\ HasUnit(e) /\ HasNumber(e, "t") /\ HasNumber(e, "budget")
                         /\ e.fields["censored"] \in BOOLEAN
                         /\ e.fields["censored"] => e.fields["t"] = e.fields["budget"]
                         /\ \E o \in Sure' :
                              o.kind = "observation" /\ About(e, o) /\ o.fields["t"] = e.fields["t"]
                         /\ \A o \in Known' :
                              o.kind = "observation" /\ About(e, o) => o.fields["t"] <= e.fields["t"]
    BY DEF TimesAgree, About, HasUnit, HasNumber
<1>1. lawful /\ Lawful(event) /\ Accepts(event)
    BY DEF Called
<1>2. /\ event.kind \in {"observation", "terminal"} => HasUnit(event) /\ HasNumber(event, "t")
      /\ event.kind = "terminal" =>
           /\ event.fields["censored"] \in BOOLEAN /\ HasNumber(event, "budget")
           /\ \E o \in Sure : /\ o.kind = "observation" /\ About(event, o)
                              /\ o.fields["t"] = event.fields["t"]
           /\ \A o \in Known : o.kind = "observation" /\ HasUnit(o) /\ About(event, o) =>
                                   o.fields["t"] <= event.fields["t"]
      /\ event.kind = "observation" =>
           \A e \in Known : e.kind = "terminal" /\ HasUnit(e) /\ About(e, event) =>
                                event.fields["t"] <= e.fields["t"]
    BY <1>1 DEF Lawful, Sure, Known, About
<1>3. event.kind = "terminal" =>
        (event.fields["censored"] => event.fields["t"] = event.fields["budget"])
    BY <1>1, <1>2 DEF Accepts, CheckEventReserved, CheckTerminalConsistency
<1>4. ASSUME NEW o \in Known', o.kind = "observation"
      PROVE  HasUnit(o) /\ HasNumber(o, "t")
    BY <1>1, <1>2, <1>4 DEF TimesAgree
<1>5. ASSUME NEW e \in Known', e.kind = "terminal"
      PROVE  /\ HasUnit(e) /\ HasNumber(e, "t") /\ HasNumber(e, "budget")
             /\ e.fields["censored"] \in BOOLEAN
             /\ e.fields["censored"] => e.fields["t"] = e.fields["budget"]
             /\ \E o \in Sure' :
                  o.kind = "observation" /\ About(e, o) /\ o.fields["t"] = e.fields["t"]
    BY <1>1, <1>2, <1>3, <1>5 DEF TimesAgree
<1>6. ASSUME NEW e \in Known', e.kind = "terminal", NEW o \in Known', o.kind = "observation",
             About(e, o)
      PROVE  o.fields["t"] <= e.fields["t"]
    <2>1. e # o /\ HasUnit(o) /\ HasUnit(e)
        BY <1>4, <1>5, <1>6
    <2>2. CASE e \in Known /\ o \in Known
        BY <1>1, <1>6, <2>2 DEF TimesAgree
    <2>3. CASE e = event /\ o \in Known
        BY <1>2, <1>6, <2>1, <2>3
    <2>4. CASE o = event /\ e \in Known
        BY <1>2, <1>6, <2>1, <2>4
    <2> QED BY <1>6, <2>1, <2>2, <2>3, <2>4
<1> QED BY <1>4, <1>5, <1>6
-----------------------------------------------------------------------------
(* The theorems.                                                           *)

LEMMA Initially == Init => IInv
<1> SUFFICES ASSUME Init PROVE IInv
    OBVIOUS
<1> USE DEF Init
<1>1. TypeOK
    <2>1. file \in Seq(Lines) /\ buffer \in Seq(Lines)
        OBVIOUS
    <2>2. opened \in BOOLEAN /\ lawful \in BOOLEAN
        OBVIOUS
    <2>3. counts \in 0..MaxCalls /\ faults \in 0..MaxFaults
        BY EventLogAssumption
    <2> QED BY <2>1, <2>2, <2>3 DEF TypeOK
<1>2. IsFiniteSet(acked) /\ counts = Cardinality(acked) /\ NextCall = 1
    BY FS_EmptySet DEF NextCall
<1>3. Size(file, buffer) = 0
    BY DEF Size
<1>4. /\ Rises(file, buffer, NextCall) /\ Answers(file, buffer, acked, doubtful)
      /\ ~Glued(file, buffer)
    BY <1>3 DEF Rises, Answers, Glued
<1>5. AckedIsInFile /\ LongIsToBlame
    BY <1>2, <1>4 DEF AckedIsInFile, LongIsToBlame
<1>6. TimesAgree /\ FinishedIsRead
    BY DEF TimesAgree, Known, Sure, FinishedIsRead
<1> QED BY <1>1, <1>4, <1>5, <1>6 DEF IInv

LEMMA LogStep ==
    IInv /\ Next =>
        /\ Rises(file, buffer, NextCall)' /\ Answers(file, buffer, acked, doubtful)'
        /\ AckedIsInFile' /\ LongIsToBlame'
        /\ file' \in Seq(Lines) /\ buffer' \in Seq(Lines) /\ tail' \in {"whole", "pending", "lost"}
BY AckedKept, UnackedKept DEF Carries, TailKept

LEMMA TypeStep == IInv /\ Next => TypeOK'
<1> SUFFICES ASSUME IInv, Next PROVE TypeOK'
    OBVIOUS
<1> USE DEF IInv
<1>1. /\ file' \in Seq(Lines) /\ buffer' \in Seq(Lines) /\ tail' \in {"whole", "pending", "lost"}
    BY LogStep
<1>2. ASSUME NEW event \in Payloads, LogEvent(event) PROVE TypeOK'
    <2>1. /\ NextCall \in 1..MaxCalls /\ Cardinality(acked) \in Nat /\ faults \in Nat
          /\ Line(event).call = NextCall
        BY <1>2, LineIsALine DEF LogEvent
    <2>2. counts' \in 0..MaxCalls
        BY <1>2, <2>1, EventLogAssumption DEF LogEvent, AckedIsInFile, NextCall
    <2> QED BY <1>1, <1>2, <2>1, <2>2 DEF LogEvent, Called, Lawful, TypeOK
<1>3. ASSUME NEW event \in Payloads,
             LogOpenFails(event) \/ LogFlushFails(event) \/ LogLongRefused(event) \/ LogLongCut(event)
      PROVE  TypeOK'
    <2>1. Called(event) /\ Fault /\ acked' = acked /\ counts' = counts
        BY <1>3 DEF LogOpenFails, LogFlushFails, LogLongRefused, LogLongCut
    <2>2. doubtful' = doubtful \cup {event} /\ (opened' = TRUE \/ opened' = opened)
        BY <1>3 DEF LogOpenFails, LogFlushFails, LogLongRefused, LogLongCut
    <2>3. lawful' \in BOOLEAN /\ pc' = pc
        BY <2>1 DEF Called
    <2>4. opened' \in BOOLEAN /\ doubtful' \subseteq Payloads
        BY <2>2 DEF TypeOK
    <2>5. faults' \in 0..MaxFaults
        BY <2>1, EventLogAssumption DEF Fault, TypeOK
    <2> QED BY <1>1, <2>1, <2>3, <2>4, <2>5 DEF TypeOK
<1>4. CASE Finish \/ FinishFails \/ Fail \/ Kill
    BY <1>1, <1>4, EventLogAssumption DEF Finish, FinishFails, Fail, DropWriter, Kill, Fault, TypeOK
<1> QED BY <1>2, <1>3, <1>4 DEF Next

LEMMA TimesStep == IInv /\ Next => TimesAgree'
<1> SUFFICES ASSUME IInv, Next PROVE TimesAgree'
    OBVIOUS
<1> USE DEF IInv
<1>1. ASSUME NEW event \in Payloads,
             LogEvent(event) \/ LogOpenFails(event) \/ LogFlushFails(event)
             \/ LogLongRefused(event) \/ LogLongCut(event)
      PROVE  TimesAgree'
    <2>1. Called(event)
        BY <1>1 DEF LogEvent, LogOpenFails, LogFlushFails, LogLongRefused, LogLongCut
    <2>2. \/ \E n : acked' = acked \cup {<<n, event>>} /\ doubtful' = doubtful
          \/ acked' = acked /\ doubtful' = doubtful \cup {event}
        BY <1>1 DEF LogEvent, LogOpenFails, LogFlushFails, LogLongRefused, LogLongCut
    <2>3. CASE acked' = acked /\ doubtful' = doubtful \cup {event}
        <3>1. Sure' = Sure /\ Known' = Known \cup {event}
            BY <2>3 DEF Sure, Known
        <3> QED BY <2>1, <3>1, TimesKept
    <2>4. CASE \E n : acked' = acked \cup {<<n, event>>} /\ doubtful' = doubtful
        <3>1. PICK n : acked' = acked \cup {<<n, event>>} /\ doubtful' = doubtful
            BY <2>4
        <3>2. Sure' = Sure \cup {event}
            <4>1. Sure' = {a[2] : a \in acked \cup {<<n, event>>}}
                BY <3>1 DEF Sure
            <4>2. <<n, event>>[2] = event
                OBVIOUS
            <4> QED BY <4>1, <4>2 DEF Sure
        <3>3. Known' = Known \cup {event}
            BY <3>1, <3>2 DEF Known
        <3> QED BY <2>1, <3>2, <3>3, TimesKept
    <2> QED BY <2>2, <2>3, <2>4
<1>2. CASE Finish \/ FinishFails \/ Fail \/ Kill
    <2>1. UNCHANGED <<acked, doubtful, lawful>>
        BY <1>2 DEF Finish, FinishFails, Fail, Kill
    <2> QED BY <2>1 DEF TimesAgree, Sure, Known, About, HasUnit, HasNumber
<1> QED BY <1>1, <1>2 DEF Next

LEMMA FinishedStep == IInv /\ Next => FinishedIsRead'
<1> SUFFICES ASSUME IInv, Next, pc' = "finished" PROVE Readable(file', tail') /\ buffer' = <<>>
    BY DEF FinishedIsRead, Readable
<1>1. Finish
    BY DEF Next, LogEvent, LogOpenFails, LogFlushFails, LogLongRefused, LogLongCut, Called,
           FinishFails, Fail, Kill
<1> QED BY <1>1 DEF Finish, FlushAll

LEMMA Invariant == Spec => []IInv
<1>1. IInv /\ [Next]_vars => IInv'
    <2>1. IInv /\ Next => IInv'
        BY LogStep, TypeStep, TimesStep, FinishedStep DEF IInv
    <2>2. IInv /\ UNCHANGED vars => IInv'
        BY DEF IInv, vars, TypeOK, Rises, Answers, AckedIsInFile, LongIsToBlame, TimesAgree,
               FinishedIsRead, NextCall, Known, Sure, Glued, Size, At
    <2> QED BY <2>1, <2>2
<1> QED BY Initially, <1>1, PTL DEF Spec

\* The types of the log and of what the program was told, for any payloads.
THEOREM EventTypeCorrect == Spec => []TypeOK
BY Invariant, PTL DEF IInv

\* An event whose call returned Ok is in the file from then on, once, in the
\* order of the calls, whatever fails afterwards and however the run ends.
THEOREM NothingIsLost == Spec => []AcknowledgedIsWritten
<1>1. IInv => AcknowledgedIsWritten
    <2> SUFFICES ASSUME IInv PROVE AcknowledgedIsWritten
        OBVIOUS
    <2> USE DEF IInv
    <2>1. /\ file \in Seq(Lines) /\ Len(file) \in Nat /\ Len(buffer) \in Nat
          /\ DOMAIN file = 1..Len(file)
        BY DEF TypeOK
    <2>2. \A i \in 1..Len(file) : i \in 1..Size(file, buffer) /\ At(file, buffer, i) = file[i]
        BY <2>1 DEF Size, At
    <2>3. \A i, j \in DOMAIN file : i < j => file[i].call < file[j].call
        BY <2>1, <2>2 DEF Rises
    <2>4. \A i \in DOMAIN file : file[i].glued => \E e \in doubtful : e.long
        BY <2>1, <2>2 DEF LongIsToBlame, Glued
    <2> QED BY <2>1, <2>3, <2>4 DEF AcknowledgedIsWritten, AckedIsInFile
<1> QED BY Invariant, <1>1, PTL

\* The deep check has nothing to say of a program that logs what terminal
\* means, in whatever order its units end and whichever calls failed.
THEOREM LawfulPasses == Spec => []LawfulRunPassesDeep
<1>1. IInv => LawfulRunPassesDeep
    <2> SUFFICES ASSUME IInv, lawful PROVE CheckTerminalEvents(file)
        BY DEF LawfulRunPassesDeep
    <2> USE DEF IInv
    <2>1. /\ file \in Seq(Lines) /\ Len(file) \in Nat /\ Len(buffer) \in Nat
          /\ DOMAIN file = 1..Len(file)
        BY DEF TypeOK
    <2>2. \A i \in 1..Len(file) : i \in 1..Size(file, buffer) /\ At(file, buffer, i) = file[i]
        BY <2>1 DEF Size, At
    <2>3. \A i \in DOMAIN file : file[i].event \in Known
        <3>1. ASSUME NEW i \in DOMAIN file, <<file[i].call, file[i].event>> \in acked
              PROVE  file[i].event \in Sure
            BY <3>1 DEF Sure
        <3> QED BY <2>1, <2>2, <3>1 DEF Answers, Known
    <2>4. \A o \in Sure : \E i \in DOMAIN file : file[i].event = o
        BY <2>1 DEF AckedIsInFile, Sure
    <2>5. \A o \in EventsOf(file, "observation") : o \in Known /\ o.kind = "observation"
        BY <2>3 DEF EventsOf
    <2>6. \A e \in EventsOf(file, "terminal") : e \in Known /\ e.kind = "terminal"
        BY <2>3 DEF EventsOf
    <2>7. \A o \in Sure : o.kind = "observation" => o \in EventsOf(file, "observation")
        BY <2>4 DEF EventsOf
    <2>8. \A o \in EventsOf(file, "observation") : HasUnit(o) /\ HasNumber(o, "t")
        BY <2>5 DEF TimesAgree
    <2>9. ASSUME NEW e \in EventsOf(file, "terminal")
          PROVE  /\ HasUnit(e) /\ HasNumber(e, "t") /\ e.fields["censored"] \in BOOLEAN
                 /\ e.fields["t"] \in LastObserved(file, e.fields["unit_id"])
                 /\ \A t \in LastObserved(file, e.fields["unit_id"]) : t <= e.fields["t"]
                 /\ e.fields["censored"] =>
                      HasNumber(e, "budget") /\ e.fields["budget"] = e.fields["t"]
        <3>1. e \in Known /\ e.kind = "terminal"
            BY <2>6
        <3>2. /\ HasUnit(e) /\ HasNumber(e, "t") /\ HasNumber(e, "budget")
              /\ e.fields["censored"] \in BOOLEAN
              /\ e.fields["censored"] => e.fields["t"] = e.fields["budget"]
            BY <3>1 DEF TimesAgree
        <3>3. e.fields["t"] \in LastObserved(file, e.fields["unit_id"])
            <4>1. PICK o \in Sure :
                    o.kind = "observation" /\ About(e, o) /\ o.fields["t"] = e.fields["t"]
                BY <3>1 DEF TimesAgree
            <4> QED BY <2>7, <4>1 DEF LastObserved, About
        <3>4. \A t \in LastObserved(file, e.fields["unit_id"]) : t <= e.fields["t"]
            BY <2>5, <3>1 DEF LastObserved, TimesAgree, About
        <3> QED BY <3>2, <3>3, <3>4
    <2> QED BY <2>8, <2>9 DEF CheckTerminalEvents
<1> QED BY Invariant, <1>1, PTL

\* A finished run has every event it counts, readable, and nothing else but
\* lines of calls that reported an error.
THEOREM FinishedIsWhole == Spec => []FinishedEventsAreWhole
<1>1. IInv => FinishedEventsAreWhole
    <2> SUFFICES ASSUME IInv, pc = "finished" PROVE
            /\ Readable(file, tail) /\ buffer = <<>> /\ counts = Cardinality(acked)
            /\ \A i \in DOMAIN file :
                 (\E a \in acked : a[1] = file[i].call) \/ file[i].event \in doubtful
        BY DEF FinishedEventsAreWhole
    <2> USE DEF IInv
    <2>1. /\ file \in Seq(Lines) /\ Len(file) \in Nat /\ Len(buffer) \in Nat
          /\ DOMAIN file = 1..Len(file)
        BY DEF TypeOK
    <2>2. \A i \in 1..Len(file) : i \in 1..Size(file, buffer) /\ At(file, buffer, i) = file[i]
        BY <2>1 DEF Size, At
    <2>3. \A i \in DOMAIN file :
            <<file[i].call, file[i].event>> \in acked \/ file[i].event \in doubtful
        BY <2>1, <2>2 DEF Answers
    <2>4. ASSUME NEW i \in DOMAIN file, <<file[i].call, file[i].event>> \in acked
          PROVE  \E a \in acked : a[1] = file[i].call
        <3> WITNESS <<file[i].call, file[i].event>> \in acked
        <3> QED OBVIOUS
    <2> QED BY <2>3, <2>4 DEF FinishedIsRead, AckedIsInFile
<1> QED BY Invariant, <1>1, PTL
=============================================================================

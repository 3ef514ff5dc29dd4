------------------------------ MODULE EventLog ------------------------------
(***************************************************************************)
(* events.jsonl of one run: log_event appends one line to a BufWriter and  *)
(* flushes it, the end of the run flushes once more, and the deep check    *)
(* reads the lines together, which no single call does.                    *)
(*                                                                         *)
(* A write can fail after any part of the pending bytes.  What is left of  *)
(* a short line stays in the buffer and is written by the next flush; what *)
(* is left of a line longer than the buffer is gone, and the next line     *)
(* follows its fragment on the same line of the file.                      *)
(***************************************************************************)
EXTENDS Naturals, Sequences, FiniteSets

CONSTANTS
    Payloads,    \* what the program logs: [kind, long, fields]
    Units,       \* the observation units
    OwnKinds,    \* kinds of the form x.<repo_id>.<name>
    Null,        \* JSON null
    MaxCalls,    \* bound: accepted calls
    MaxFaults    \* bound: I/O errors

ASSUME EventLogAssumption == MaxCalls \in Nat /\ MaxFaults \in Nat

VARIABLES
    pc,        \* "working", "finished", "failed" or "killed"
    opened,    \* the writer exists
    file,      \* the lines of the file, each with the call that made it
    tail,      \* a part of a line at the end: "whole" (none), "pending", "lost"
    buffer,    \* lines not yet in the file; the first may be there in part
    counts,    \* counts.events
    acked,     \* calls that returned Ok, with their event
    doubtful,  \* events of the calls that returned an I/O error
    lawful,    \* the program kept to the meaning of terminal (see Lawful)
    faults

vars == <<pc, opened, file, tail, buffer, counts, acked, doubtful, lawful, faults>>

Lines == [call : 1..MaxCalls, event : Payloads, glued : BOOLEAN]

TypeOK ==
    /\ pc \in {"working", "finished", "failed", "killed"}
    /\ opened \in BOOLEAN /\ lawful \in BOOLEAN
    /\ file \in Seq(Lines) /\ buffer \in Seq(Lines)
    /\ tail \in {"whole", "pending", "lost"}
    /\ counts \in 0..MaxCalls /\ faults \in 0..MaxFaults
    /\ acked \subseteq (1..MaxCalls) \X Payloads /\ doubtful \subseteq Payloads

Init ==
    /\ pc = "working" /\ opened = FALSE
    /\ file = <<>> /\ buffer = <<>> /\ tail = "whole"
    /\ counts = 0 /\ acked = {} /\ doubtful = {} /\ lawful = TRUE /\ faults = 0
-----------------------------------------------------------------------------
(* What log_event asks of one event.                                       *)

CoreKinds == {"observation", "terminal", "note"}

ReservedKeys(kind) ==
    CASE kind = "observation" -> {"unit_id", "t", "t_unit"}
      [] kind = "terminal" -> {"unit_id", "t", "t_unit", "outcome", "censored", "budget"}
      [] OTHER -> {}

Has(event, key) == key \in DOMAIN event.fields /\ event.fields[key] # Null
HasNumber(event, key) == key \in DOMAIN event.fields /\ event.fields[key] \in Nat
HasUnit(event) == "unit_id" \in DOMAIN event.fields /\ event.fields["unit_id"] \in Units

\* Says nothing of a line whose t or budget is no number.
CheckTerminalConsistency(event) ==
    HasNumber(event, "t") /\ HasNumber(event, "budget") =>
        /\ event.fields["t"] <= event.fields["budget"]
        /\ event.fields["censored"] = TRUE => event.fields["t"] = event.fields["budget"]

CheckEventReserved(event) ==
    /\ \A key \in ReservedKeys(event.kind) : Has(event, key)
    /\ event.kind = "terminal" => CheckTerminalConsistency(event)

CheckEventKind(kind) == kind \in CoreKinds \cup OwnKinds

Accepts(event) == CheckEventKind(event.kind) /\ CheckEventReserved(event)
-----------------------------------------------------------------------------
(* What check_terminal_events asks of all of them.                         *)

Readable(lines, end) == end = "whole" /\ \A i \in DOMAIN lines : ~lines[i].glued

EventsOf(lines, kind) == {lines[i].event : i \in {j \in DOMAIN lines : lines[j].event.kind = kind}}

LastObserved(lines, unit) ==
    {o.fields["t"] : o \in {e \in EventsOf(lines, "observation") : e.fields["unit_id"] = unit}}

MutLatestLine(lines) ==
    /\ \A o \in EventsOf(lines, "observation") : HasUnit(o) /\ HasNumber(o, "t")
    /\ \A e \in EventsOf(lines, "terminal") :
          /\ HasUnit(e) /\ HasNumber(e, "t") /\ e.fields["censored"] \in BOOLEAN
          /\ \E i \in DOMAIN lines :
                /\ lines[i].event.kind = "observation"
                /\ lines[i].event.fields["unit_id"] = e.fields["unit_id"]
                /\ lines[i].event.fields["t"] = e.fields["t"]
                /\ \A j \in i+1..Len(lines) : lines[j].event.kind # "observation"

CheckTerminalEvents(lines) ==
    /\ \A o \in EventsOf(lines, "observation") : HasUnit(o) /\ HasNumber(o, "t")
    /\ \A e \in EventsOf(lines, "terminal") :
          /\ HasUnit(e) /\ HasNumber(e, "t") /\ e.fields["censored"] \in BOOLEAN
          /\ LET observed == LastObserved(lines, e.fields["unit_id"])
             IN  e.fields["t"] \in observed /\ \A t \in observed : t <= e.fields["t"]
          /\ e.fields["censored"] => HasNumber(e, "budget") /\ e.fields["budget"] = e.fields["t"]
-----------------------------------------------------------------------------
(* Writing.                                                                *)

\* The first line written after a lost fragment is glued to it.
Glue(lines) ==
    IF tail = "lost" /\ lines # <<>> THEN [lines EXCEPT ![1].glued = TRUE] ELSE lines

\* A flush that writes all,
FlushAll(lines) ==
    /\ file' = file \o Glue(lines) /\ buffer' = <<>>
    /\ tail' = IF lines = <<>> THEN tail ELSE "whole"

\* and one that fails after k whole lines and perhaps a part of the next.
FlushSome(lines, k) ==
    /\ k < Len(lines)
    /\ \/ k = 0 /\ buffer' = lines /\ UNCHANGED <<file, tail>>
       \/ k = 0 /\ buffer' = Glue(lines) /\ tail' = "pending" /\ UNCHANGED file
       \/ /\ k > 0
          /\ file' = file \o Glue(SubSeq(lines, 1, k))
          /\ buffer' = SubSeq(lines, k + 1, Len(lines))
          /\ tail' \in {"whole", "pending"}

\* The program logs a terminal event once the unit's observations are in, for
\* the last of them, and takes a call that returned an error for one that may
\* or may not have been written.
Lawful(event) ==
    LET sure == {a[2] : a \in acked}
        about(S, kind) == {e \in S : e.kind = kind /\ HasUnit(e)
                                     /\ e.fields["unit_id"] = event.fields["unit_id"]}
    IN  /\ event.kind \in {"observation", "terminal"} => HasUnit(event) /\ HasNumber(event, "t")
        /\ event.kind = "terminal" =>
              /\ event.fields["censored"] \in BOOLEAN /\ HasNumber(event, "budget")
              /\ \E o \in about(sure, "observation") : o.fields["t"] = event.fields["t"]
              /\ \A o \in about(sure \cup doubtful, "observation") :
                    o.fields["t"] <= event.fields["t"]
        /\ event.kind = "observation" =>
              \A e \in about(sure \cup doubtful, "terminal") :
                    event.fields["t"] <= e.fields["t"]

Line(event) ==
    [call |-> Cardinality(acked) + faults + 1, event |-> event, glued |-> FALSE]

Called(event) ==
    /\ pc = "working" /\ Accepts(event)
    /\ Cardinality(acked) + faults < MaxCalls
    /\ lawful' = (lawful /\ Lawful(event))
    /\ UNCHANGED pc

MutNoFlush(event) ==
    /\ Called(event)
    /\ buffer' = Append(buffer, Line(event))
    /\ opened' = TRUE /\ counts' = counts + 1
    /\ acked' = acked \cup {<<Line(event).call, event>>}
    /\ UNCHANGED <<file, tail, doubtful, faults>>

\* Run::log_event; a call that Accepts refuses changes nothing.
LogEvent(event) ==
    /\ Called(event)
    /\ FlushAll(Append(buffer, Line(event)))
    /\ opened' = TRUE /\ counts' = counts + 1
    /\ acked' = acked \cup {<<Line(event).call, event>>}
    /\ UNCHANGED <<doubtful, faults>>

Fault == faults < MaxFaults /\ faults' = faults + 1

\* The file cannot be opened: there is still no writer.
LogOpenFails(event) ==
    /\ Called(event) /\ Fault /\ ~opened
    /\ doubtful' = doubtful \cup {event}
    /\ UNCHANGED <<opened, file, tail, buffer, counts, acked>>

\* The line is in the buffer, and the flush fails.
LogFlushFails(event) ==
    /\ Called(event) /\ Fault /\ ~event.long
    /\ \E k \in 0..Len(buffer) : FlushSome(Append(buffer, Line(event)), k)
    /\ opened' = TRUE /\ doubtful' = doubtful \cup {event}
    /\ UNCHANGED <<counts, acked>>

\* A long line goes to the file directly once the buffer is empty.  The flush
\* of the buffer fails and the line is nowhere,
LogLongRefused(event) ==
    /\ Called(event) /\ Fault /\ event.long /\ buffer # <<>>
    /\ \E k \in 0..Len(buffer) - 1 : FlushSome(buffer, k)
    /\ opened' = TRUE /\ doubtful' = doubtful \cup {event}
    /\ UNCHANGED <<counts, acked>>

\* or the line itself is cut.
LogLongCut(event) ==
    /\ Called(event) /\ Fault /\ event.long
    /\ file' = file \o Glue(buffer) /\ buffer' = <<>> /\ tail' = "lost"
    /\ opened' = TRUE /\ doubtful' = doubtful \cup {event}
    /\ UNCHANGED <<counts, acked>>
-----------------------------------------------------------------------------
(* The end of the run.                                                     *)

MutFinishUnchecked ==
    /\ pc = "working"
    /\ FlushAll(buffer) /\ pc' = "finished"
    /\ UNCHANGED <<opened, counts, acked, doubtful, lawful, faults>>

\* finish: flush_writers, and check_events among the shallow checks.
Finish ==
    /\ pc = "working"
    /\ FlushAll(buffer)
    /\ pc' = IF Readable(file', tail') THEN "finished" ELSE "failed"
    /\ UNCHANGED <<opened, counts, acked, doubtful, lawful, faults>>

\* The writer dropped with the run flushes what it has and ignores an error.
DropWriter ==
    \/ FlushAll(buffer) /\ UNCHANGED faults
    \/ Fault /\ \E k \in 0..Len(buffer) : FlushSome(buffer, k)

\* flush_writers fails, finish returns, Drop records the run as failed.
FinishFails ==
    /\ pc = "working" /\ buffer # <<>> /\ pc' = "failed"
    /\ Fault
    /\ \/ FlushAll(buffer)
       \/ \E k \in 0..Len(buffer) : FlushSome(buffer, k)
    /\ UNCHANGED <<opened, counts, acked, doubtful, lawful>>

\* Run::fail, or a run dropped while it works.
Fail ==
    /\ pc = "working" /\ pc' = "failed"
    /\ DropWriter
    /\ UNCHANGED <<opened, counts, acked, doubtful, lawful>>

Kill ==
    /\ pc = "working" /\ pc' = "killed"
    /\ buffer' = <<>>
    /\ tail' = IF tail = "pending" THEN "lost" ELSE tail
    /\ UNCHANGED <<opened, file, counts, acked, doubtful, lawful, faults>>

Next ==
    \/ \E event \in Payloads :
          LogEvent(event) \/ LogOpenFails(event) \/ LogFlushFails(event)
          \/ LogLongRefused(event) \/ LogLongCut(event)
    \/ Finish \/ FinishFails \/ Fail \/ Kill

Spec == Init /\ [][Next]_vars
-----------------------------------------------------------------------------
(* Properties.                                                             *)

Whole(i) == ~file[i].glued

\* An event whose call returned Ok is a line of the file, whatever happens to
\* the run afterwards, no event is there twice, and the lines are in the order
\* of the calls.  It may have become unreadable only behind a long line that
\* was cut (log_event flushes each line before it counts it).
AcknowledgedIsWritten ==
    /\ \A i, j \in DOMAIN file : i < j => file[i].call < file[j].call
    /\ \A a \in acked : \E i \in DOMAIN file :
          file[i].call = a[1] /\ file[i].event = a[2]
          /\ (file[i].glued => \E e \in doubtful : e.long)

\* A run whose program logs what terminal means passes the deep check at
\* every moment its file can be read: whatever order the units are in, whatever
\* call failed and was written by a later one, however the run ended.
LawfulRunPassesDeep == lawful /\ Readable(file, tail) => CheckTerminalEvents(file)

\* A finished run's events can be read, none is missing, and what exceeds the
\* count in status.json are lines of calls that reported an error.
FinishedEventsAreWhole ==
    pc = "finished" =>
        /\ Readable(file, tail) /\ buffer = <<>>
        /\ counts = Cardinality(acked)
        /\ \A i \in DOMAIN file :
              (\E a \in acked : a[1] = file[i].call) \/ file[i].event \in doubtful

\* A terminal line cannot be terminal in name only (docs/run-directory.md):
\* each one in the file says what the deep check reads from it.
TerminalLinesAreTerminal ==
    \A e \in EventsOf(file, "terminal") :
        HasUnit(e) /\ HasNumber(e, "t") /\ e.fields["censored"] \in BOOLEAN
=============================================================================

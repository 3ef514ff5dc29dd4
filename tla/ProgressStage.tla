---------------------------- MODULE ProgressStage ----------------------------
(***************************************************************************)
(* One stage of progress.rs: when a condition that finishes makes a line.  *)
(* A counted stage reports each time it crosses a multiple of its step,    *)
(* and any stage when REPORT_INTERVAL has passed since its last line.      *)
(* Costs and estimates only shape the text of a line and are left out;     *)
(* RunSeal models where the lines go.                                      *)
(***************************************************************************)
EXTENDS Naturals

CONSTANTS
    Totals,           \* how many conditions a counted stage may have
    ReportInterval,   \* REPORT_INTERVAL, in units of the clock
    MaxTicks,         \* bound: conditions that finish
    MaxQuiet          \* bound: the clock stops this long after a line

ASSUME StageAssumption ==
    /\ Totals \subseteq Nat
    /\ ReportInterval \in Nat \ {0}
    /\ MaxTicks \in Nat /\ MaxQuiet \in Nat

VARIABLES
    phase,       \* "unopened", "open", "closed", or "dropped" without close()
    kind,     \* "counted" or "unbounded"
    total,    \* conditions announced, 0 if unbounded
    done,     \* conditions finished
    next,     \* the count that makes the next line, if counted
    said,     \* the count in the last line
    quiet     \* time since the last line

progressVars == <<phase, kind, total, done, next, said, quiet>>

StageTypeOK ==
    /\ phase \in {"unopened", "open", "closed", "dropped"}
    /\ kind \in {"counted", "unbounded"}
    /\ total \in Nat /\ done \in 0..MaxTicks
    /\ next \in Nat /\ said \in 0..done
    /\ quiet \in 0..MaxQuiet

StageInit ==
    /\ phase = "unopened" /\ kind = "unbounded" /\ total = 0
    /\ done = 0 /\ next = 0 /\ said = 0 /\ quiet = 0

\* step_for: five per cent of the total, rounded up, and at least one.  The
\* product in f64 rounds up where this does for every total below 5 million.
StepFor(n) == IF n = 0 THEN 1 ELSE (n + 19) \div 20

step == StepFor(total)

\* open_stage: the first line carries a count of zero.
Open(k, n) ==
    /\ phase = "unopened"
    /\ phase' = "open" /\ kind' = k /\ total' = n
    /\ next' = StepFor(n)
    /\ UNCHANGED <<done, said, quiet>>

MutAdvanceFromTick(d) == IF kind = "unbounded" THEN next ELSE d + step

MutAdvanceTwice(d) == IF kind = "unbounded" \/ next > d THEN next ELSE next + 2 * step

\* `while next <= done { next += step }`; an unbounded stage has no step to
\* cross and keeps next at usize::MAX.
Advance(d) ==
    IF kind = "unbounded" \/ next > d THEN next
    ELSE next + step * ((d - next) \div step + 1)

\* The last condition is left to close(), and so is every one after it.
IsLast(d) == kind = "counted" /\ d >= total

Crosses(d) == kind = "counted" /\ d >= next

Tick ==
    /\ phase = "open" /\ done < MaxTicks
    /\ done' = done + 1
    /\ IF ~IsLast(done + 1) /\ (Crosses(done + 1) \/ quiet >= ReportInterval)
       THEN /\ said' = done + 1 /\ quiet' = 0
            /\ next' = Advance(done + 1)
       ELSE UNCHANGED <<next, said, quiet>>
    /\ UNCHANGED <<phase, kind, total>>

\* close() consumes the stage and reports the final count.
Close ==
    /\ phase = "open"
    /\ phase' = "closed"
    /\ said' = done /\ quiet' = 0
    /\ UNCHANGED <<kind, total, done, next>>

\* A stage that goes out of scope says nothing: there is no Drop.
DropStage ==
    /\ phase = "open"
    /\ phase' = "dropped"
    /\ UNCHANGED <<kind, total, done, next, said, quiet>>

\* The clock.
Pass ==
    /\ phase = "open" /\ quiet < MaxQuiet
    /\ quiet' = quiet + 1
    /\ UNCHANGED <<phase, kind, total, done, next, said>>

StageNext ==
    \/ \E n \in Totals : Open("counted", n)
    \/ Open("unbounded", 0)
    \/ Tick \/ Close \/ DropStage \/ Pass

StageSpec == StageInit /\ [][StageNext]_progressVars
-----------------------------------------------------------------------------
(* Properties.                                                             *)

Reporting == phase = "open" /\ kind = "counted" /\ done < total

\* Lines keep coming at the rate of the work: fewer than a step's worth of
\* conditions have finished since the last line, also when timed lines fell
\* between two steps.
BoundedSilence == Reporting => done < said + step

\* Lines are due on multiples of the step, not on the tick that happened to
\* cross one or the line a timer made (progress.rs, the comment in tick).
ReportsOnTheGrid == kind = "counted" /\ phase # "unopened" => next % step = 0

\* A count that reaches the total is said once, by close(): no tick makes a
\* hundred-per-cent line.
FinalCountIsClosing == phase = "open" /\ kind = "counted" /\ total > 0 => said < total
=============================================================================

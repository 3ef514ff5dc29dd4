----------------------------- MODULE MCEventLog -----------------------------
(* Two units, observations at 1 and 2, terminals that agree and disagree    *)
(* with them, values of the wrong type, a long line.                        *)
EXTENDS EventLog
CONSTANTS Odd, u, v

Note(kind, length) == [kind |-> kind, long |-> length, fields |-> [text |-> Odd]]
Observation(unit, t) ==
    [kind |-> "observation", long |-> FALSE,
     fields |-> [unit_id |-> unit, t |-> t, t_unit |-> Odd]]
Terminal(unit, t, censored, budget) ==
    [kind |-> "terminal", long |-> FALSE,
     fields |-> [unit_id |-> unit, t |-> t, t_unit |-> Odd, outcome |-> Odd,
                 censored |-> censored, budget |-> budget]]

Logged ==
    {Observation(u, 1), Observation(u, 2), Observation(v, 1), Observation(v, Odd),
     Terminal(u, 1, FALSE, 2), Terminal(u, 2, TRUE, 2), Terminal(u, 1, TRUE, 2),
     Terminal(u, 2, FALSE, 1), Terminal(v, Odd, TRUE, 2), Terminal(v, 1, FALSE, Null),
     Note("note", TRUE), Note("x.repo.flow", FALSE), Note("flow", FALSE)}
=============================================================================

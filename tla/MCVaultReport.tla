---------------------------- MODULE MCVaultReport ----------------------------
(* Two runs of one experiment and a legacy run grouped with them: one name is *)
(* mostly a series, one is reserved, and both may fill the budget.           *)
EXTENDS VaultReport

CONSTANTS a, b, l

Exp == <<"exp">>
Days == {"20250701"}
Hours == {"120000"}
Units == [n \in {<<"t">>, <<"epoch">>} |-> IF n = <<"t">> THEN "step" ELSE "epoch"]
Pairs == [n \in {<<"name">>, <<"metric">>} |->
            IF n = <<"name">> THEN <<"name_value">> ELSE <<"metric_value">>]

Number(v) == [kind |-> "number", of |-> v]
Count(v) == [kind |-> "integer", of |-> v]
Text(v) == [kind |-> "text", of |-> v]

\* metrics.csv of one row, a summary of the same name, a panel, a long file.
Final == [stem |-> "metrics", header |-> <<<<"loss">>, <<"note">>>>,
          rows |-> <<<<Number("v1"), Text("ok")>>>>]
Summary == [stem |-> "x_summary", header |-> <<<<"loss">>>>, rows |-> <<<<Number("v2")>>>>]
Firms == [stem |-> "firm_metrics", header |-> <<<<"t">>, <<"firm">>, <<"loss">>>>,
          rows |-> <<<<Count(1), Text("f"), Number("v1")>>, <<Count(1), Text("g"), Number("v2")>>>>]
Long == [stem |-> "y_metrics", header |-> <<<<"epoch">>, <<"metric">>, <<"scope">>, <<"value">>>>,
         rows |-> <<<<Count(1), Text(<<"loss">>), Text(""), Number("v1")>>,
                    <<Count(1), Text(<<"loss">>), Text("trial"), Number("v2")>>>>]

Metric(name, step) ==
    [name |-> <<name>>, step |-> step, unit |-> IF step = Absent THEN Absent ELSE "step",
     scope |-> "run", value |-> "v1", source |-> "metrics"]

Paths == [r \in {l} |-> <<Exp, <<"sweep", "20250701", "120000">>>>]
LegacyFiles == [r \in {l} |-> {{Final, Summary}, {Firms, Long, Summary}}]
Experiments == [r \in {a, b} |-> <<Exp>>]
Recorded ==
    [r \in {a, b} |->
        IF r = a THEN {{Metric("n_units", Absent)},
                       {Metric("curve", 1), Metric("curve", 2), Metric("n_units", Absent)}}
        ELSE {{Metric("loss", Absent), Metric("n_units", Absent)}}]
Issues == [r \in {a, b, l} |-> IF r = l THEN {} ELSE {"I1"}]
Docs ==
    [r \in {a, b, l} |->
        CASE r = a -> {[name |-> <<"loss">>, meaning |-> "first"]}
          [] r = b -> {[name |-> <<"loss">>, meaning |-> "second"]}
          [] OTHER -> {}]
Names == <<<<"curve">>, <<"firm_metrics", "loss">>, <<"loss">>, <<"n_units">>,
           <<"x_summary", "loss">>, <<"y_metrics", "loss">>>>
ReservedNames == {<<"n_units">>}
=============================================================================

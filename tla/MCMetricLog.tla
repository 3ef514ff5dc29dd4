----------------------------- MODULE MCMetricLog -----------------------------
(* MetricLog for TLC: a named metric, a reserved one, and a member of two    *)
(* families, the wider of which matches the reserved name too.              *)
EXTENDS MetricLog, TLC

FamilyNames == ("wide" :> {"member", "n_units"}) @@ ("narrow" :> {"member"})

Declared(docs, families, demand) == [docs |-> docs, families |-> families, demand |-> demand]

\* No file; a full declaration; the same repository after an edit, which no
\* longer asks.
ThreeDeclarations ==
    {Declared({}, <<>>, "described"),
     Declared({"rate"}, <<"narrow", "wide">>, "described"),
     Declared({"rate", "n_units"}, <<>>, "anything")}
=============================================================================

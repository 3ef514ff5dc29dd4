------------------------------ MODULE MCLineage ------------------------------
(* Three runs.  A found run may name a sweep parent, or a parent and another  *)
(* run it derives from; the options ask for all references, and for all        *)
(* fields of a sweep.                                                          *)
EXTENDS Lineage, TLC

RunSymmetry == Permutations(Runs)

Names3(parent, resumed, derived, sweep, index, total) ==
    [parent_run_uid |-> parent, resumed_from |-> resumed, derived_from |-> derived,
     sweep_id |-> sweep, sweep_index |-> index, sweep_total |-> total]

FoundLineages ==
    {Names3(p, NoRun, NoRun, "sweep", None, None) : p \in Refs}
    \cup {Names3(e[1], NoRun, e[2], "sweep", None, None) : e \in {x \in Runs \X Runs : x[1] # x[2]}}

Asked(l, parent, point) == [lineage |-> l, sweep_parent |-> parent, sweep_point |-> point]

AllOptions ==
    {Asked(Names3(p, f, d, w, None, None), s, None) :
        p \in Refs, f \in Refs, d \in Refs, w \in {None, "sweep"}, s \in BOOLEAN}
    \cup {Asked(Names3(NoRun, NoRun, NoRun, w, i, t), s, x) :
            w \in {None, "sweep"}, i \in {None, 0, 1}, t \in {None, 1},
            s \in BOOLEAN, x \in {None, <<0, 0>>, <<0, 1>>, <<1, 1>>}}
=============================================================================

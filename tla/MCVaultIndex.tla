---------------------------- MODULE MCVaultIndex ----------------------------
(* A canonical run, a legacy run that has been in the vault from the         *)
(* beginning, and one whose name is no date.                                 *)
EXTENDS VaultIndex

CONSTANTS c, l, x

Row(name, step) == [name |-> name, step |-> step]

RunRowsAt ==
    [d \in Dirs |->
        <<{Row("curve", 1), Row("wall_sec", 0)},
          {Row("curve", 1), Row("curve", 2), Row("final", 0), Row("wall_sec", 0)}>>]
Groups == [d \in Dirs |-> "exp"]
Order == <<x, c, l>>
LargeFiles == {<<c, "metrics.csv">>}
TablesInOrder == <<"metrics", "runs">>
=============================================================================

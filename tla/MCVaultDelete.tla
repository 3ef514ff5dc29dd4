---------------------------- MODULE MCVaultDelete ----------------------------
(* VaultDelete for TLC.                                                      *)
EXTENDS VaultDelete

-----------------------------------------------------------------------------
(* What docs/preservation.md says of `delete`, and TLC shows is not so where *)
(* a removal of a directory was torn.                                        *)

\* "Repeating the command safely completes work left after an interruption":
\* where a delete is on record and was interrupted, it is not refused when it is
\* run again.
NeverRefused ==
    tomb = "written" /\ ~Syncing =>
        \A m \in Machines : plan[m] # {} /\ dpc[m] = "idle" => ~Refuses(m)

\* The tombstone "prevents a remaining source copy on another machine from being
\* sent again": what remains of the run is not sent, under whatever name.
TombstonedNotSent == tomb = "written" => fragment = "none"
=============================================================================

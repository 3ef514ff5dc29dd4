---------------------------- MODULE LatestFinished ----------------------------
(***************************************************************************)
(* The `latest_finished` link of one experiment directory, moved by every  *)
(* run that finishes, under a mutex made of a file that only one creator   *)
(* can win (paths.rs).  Runs are killed anywhere; a mutex that looks       *)
(* abandoned is taken over.  Instants are numbers: finished_at is compared *)
(* after parsing, so its UTC offset does not matter here.                  *)
(***************************************************************************)
EXTENDS Naturals, FiniteSets

CONSTANTS
    Runs,           \* the runs of the experiment
    NoRun,          \* no link, no mutex
    FinishedAt,     \* the instant in each run's status.json
    SlowHolders,    \* a live holder may keep the mutex past MUTEX_STALE_AFTER
    LongWaits,      \* a waiter may reach its own deadline
    MaxKills        \* bound: processes killed while they update the link

ASSUME LinkAssumption ==
    /\ NoRun \notin Runs
    /\ FinishedAt \in [Runs -> Nat]
    /\ SlowHolders \in BOOLEAN /\ LongWaits \in BOOLEAN
    /\ MaxKills \in Nat

VARIABLES
    place,         \* where each run is in update_latest_finished
    mutex,      \* the run that created .latest_finished.mutex, or NoRun
    link,       \* the run the link points at, or NoRun
    errored,    \* runs whose update returned an error
    deleted,    \* runs whose directory `runvault delete` removed
    stolen,     \* history: whether a run lost the mutex before it let it go
    kills       \* processes killed so far

linkVars == <<place, mutex, link, errored, deleted, stolen, kills>>

Steps == {"running", "acquire", "takeover", "compare", "swap", "release",
          "done", "dead"}

LinkTypeOK ==
    /\ place \in [Runs -> Steps]
    /\ mutex \in Runs \cup {NoRun}
    /\ link \in Runs \cup {NoRun}
    /\ errored \in SUBSET Runs /\ deleted \in SUBSET Runs
    /\ stolen \in {"no", "yes"}
    /\ kills \in 0..MaxKills

LinkInit ==
    /\ place = [r \in Runs |-> "running"]
    /\ mutex = NoRun /\ link = NoRun
    /\ errored = {} /\ deleted = {} /\ stolen = "no" /\ kills = 0

\* Between creating the mutex and dropping it.
Holding(r) == place[r] \in {"compare", "swap"}

Moves(r, from, to) == place[r] = from /\ place' = [place EXCEPT ![r] = to]

\* finish_inner has written the status and calls update_latest_finished.
Finish(r) ==
    /\ Moves(r, "running", "acquire")
    /\ UNCHANGED <<mutex, link, errored, deleted, stolen, kills>>

MutCreateWithoutExclusive(r) ==
    /\ Moves(r, "acquire", "compare")
    /\ mutex' = r
    /\ UNCHANGED <<link, errored, deleted, stolen, kills>>

\* LinkMutex::acquire: create_new wins.
Acquire(r) ==
    /\ Moves(r, "acquire", "compare")
    /\ mutex = NoRun
    /\ mutex' = r
    /\ UNCHANGED <<link, errored, deleted, stolen, kills>>

\* The directory or the file cannot be made, for another reason than that the
\* file is there: the error is returned without the mutex.
AcquireFails(r) ==
    /\ Moves(r, "acquire", "done")
    /\ errored' = errored \cup {r}
    /\ UNCHANGED <<mutex, link, deleted, stolen, kills>>

MutNeverStale == FALSE

\* The file is there and looks abandoned: it is older than
\* MUTEX_STALE_AFTER, or the waiter has waited that long itself.
LooksAbandoned == place[mutex] = "dead" \/ SlowHolders \/ LongWaits

JudgeAbandoned(r) ==
    /\ Moves(r, "acquire", "takeover")
    /\ mutex # NoRun /\ LooksAbandoned
    /\ UNCHANGED <<mutex, link, errored, deleted, stolen, kills>>

\* remove_file takes whatever mutex is there by now.
TakeOver(r) ==
    /\ Moves(r, "takeover", "acquire")
    /\ mutex' = NoRun
    /\ stolen' = IF mutex # NoRun /\ place[mutex] # "dead" THEN "yes" ELSE stolen
    /\ UNCHANGED <<link, errored, deleted, kills>>

MutCompareBackwards(r) == link \in deleted \cup {NoRun} \/ FinishedAt[link] > FinishedAt[r]

\* Whether r finished later than the run the link points at, if that run
\* still has a status to compare with.
Later(r) == link \in deleted \cup {NoRun} \/ FinishedAt[link] < FinishedAt[r]

Compare(r) ==
    /\ Moves(r, "compare", IF Later(r) THEN "swap" ELSE "release")
    /\ UNCHANGED <<mutex, link, errored, deleted, stolen, kills>>

\* A new symlink is renamed over the old one.
Swap(r) ==
    /\ Moves(r, "swap", "release")
    /\ link' = r
    /\ UNCHANGED <<mutex, errored, deleted, stolen, kills>>

\* A status that does not parse, or a link that cannot be made: `?` returns
\* the error, and the guard is dropped.
UpdateFails(r) ==
    /\ Holding(r)
    /\ place' = [place EXCEPT ![r] = "release"]
    /\ errored' = errored \cup {r}
    /\ UNCHANGED <<mutex, link, deleted, stolen, kills>>

\* Drop for LinkMutex: the file goes, whoever made it.
Release(r) ==
    /\ Moves(r, "release", "done")
    /\ mutex' = NoRun
    /\ UNCHANGED <<link, errored, deleted, stolen, kills>>

\* `runvault delete` removes the directory of a run that has its status, also
\* while finish() still moves the link or after it was killed there, and leaves
\* the link.
DeleteRun(r) ==
    /\ place[r] # "running" /\ r \notin deleted
    /\ deleted' = deleted \cup {r}
    /\ UNCHANGED <<place, mutex, link, errored, stolen, kills>>

Kill(r) ==
    /\ kills < MaxKills
    /\ place[r] \notin {"running", "done", "dead"}
    /\ place' = [place EXCEPT ![r] = "dead"]
    /\ kills' = kills + 1
    /\ UNCHANGED <<mutex, link, errored, deleted, stolen>>

Proceed(r) ==
    \/ Acquire(r) \/ JudgeAbandoned(r) \/ TakeOver(r) \/ Compare(r) \/ Swap(r)
    \/ UpdateFails(r) \/ Release(r)

LinkNext ==
    \E r \in Runs :
        Finish(r) \/ AcquireFails(r) \/ Proceed(r) \/ DeleteRun(r) \/ Kill(r)

LinkSpec == LinkInit /\ [][LinkNext]_linkVars

\* A process inside update_latest_finished keeps going: it polls the mutex
\* every 10 ms.  Finitely many runs hold it once each, so weak fairness is
\* enough.  That the file cannot be made is never counted on.
FairLinkSpec == LinkSpec /\ \A r \in Runs : WF_linkVars(Proceed(r))
-----------------------------------------------------------------------------
(* Properties.                                                             *)

\* No run has lost the mutex while it was still under way.  Taking over the
\* mutex of a dead run is fine; the takeover of one that is slow, or of one
\* made since the waiter judged, is what the properties below exclude.
NoTheft == stolen = "no"

\* Reading the current link and replacing it are one step (paths.rs, the
\* comment in update_latest_finished): two runs are never between the two.
OneUpdateAtATime ==
    NoTheft => \A r, s \in Runs : Holding(r) /\ Holding(s) => r = s

\* The link never walks backwards: it only moves to a run that finished later
\* than the one it leaves, unless that one has been deleted.
LinkMovesForward ==
    [][NoTheft /\ link' # link =>
         link \in deleted \cup {NoRun} \/ FinishedAt[link] < FinishedAt[link']]_linkVars

\* When every run has had its turn, and none was deleted, the link points at
\* the last to finish among those whose update ended without an error.
LinkIsLatest ==
    (NoTheft /\ deleted = {} /\ \A r \in Runs : place[r] \in {"done", "dead"}) =>
        \A r \in Runs \ errored : place[r] = "done" =>
            link # NoRun /\ FinishedAt[r] <= FinishedAt[link]

\* A run that finishes and is not killed gets through, even if the holder of
\* the mutex was killed with it: nobody waits forever.
EveryFinishReturns ==
    \A r \in Runs : place[r] = "acquire" ~> place[r] \in {"done", "dead"}
===============================================================================

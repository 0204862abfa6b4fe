----------------------------- MODULE SiteLedger -----------------------------
(***************************************************************************)
(* What bucket and column of SiteStorage say about each other, whoever     *)
(* overlaps and whatever fails.  Nothing in the code keeps two requests,   *)
(* or a request and the worker, off one app, so the promises hold up to    *)
(* named causes.  Two history variables, which the code does not have,     *)
(* remember where such a cause has been at work.                           *)
(***************************************************************************)
EXTENDS SiteStorage

VARIABLES
    unsure,  \* history: apps on which requests or runs overlapped, or a
             \* request was cut off, since their column was last exact
    crossed  \* history: apps whose deletion overlapped an upload or deploy,
             \* or had keys kept by R2

ledgerVars == <<deleted, used, objects, call, job, faults, unsure, crossed>>

WorksOn(r, a) == call[r] # IdleCall /\ call[r].app = a

(* The run has measured the app and not yet committed what it found.       *)
Holds(t, a) == HasWritten(t, a) \/ (job[t].pc = "write" /\ job[t].app = a)

Attended(a) == (\E r \in Request : WorksOn(r, a)) \/ (\E t \in Task : Holds(t, a))

(* A handler is at work beside another one, or beside such a run.          *)
Crowded(a) ==
    \E r \in Request :
        /\ WorksOn(r, a)
        /\ \/ \E s \in Request \ {r} : WorksOn(s, a)
           \/ \E t \in Task : Holds(t, a)

(* The step is a fault that hits a handler at work on the app.             *)
Struck(a) ==
    \E r \in Request : WorksOn(r, a) /\ faults' # faults /\ call'[r] # call[r]

Exact(a) == ~Attended(a) /\ used[a] = Usage(a)

RecordDoubt ==
    unsure' = {a \in App : ~Exact(a)' /\ (a \in unsure \/ Crowded(a)' \/ Struck(a))}

Puts(r, a) == WorksOn(r, a) /\ call[r].pc \in {"put_file", "put_entries"}

Deletes(r, a) ==
    WorksOn(r, a) /\ call[r].pc \in {"list_prefix", "delete_batch", "commit_delete"}

Crossing(a) == \E r, s \in Request : Deletes(r, a) /\ Puts(s, a)

(* A deletion goes on although R2 has kept some keys.                      *)
KeptKeys(a) ==
    \E r \in Request :
        Deletes(r, a) /\ faults' # faults /\ call'[r] # call[r] /\ call'[r] # IdleCall

RecordCrossing ==
    crossed' = {a \in App : a \in crossed \/ Crossing(a)' \/ KeptKeys(a)}

LedgerInit == Init /\ unsure = {} /\ crossed = {}

LedgerNext == Next /\ RecordDoubt /\ RecordCrossing

LedgerSpec == LedgerInit /\ [][LedgerNext]_ledgerVars

LedgerLiveSpec == LedgerSpec /\ Fairness

-----------------------------------------------------------------------------
(* Properties.                                                             *)

(* Between requests the column is never less than what the bucket holds:   *)
(* it may count an overwritten file twice, but it hides nothing.  It can   *)
(* fall short only by requests that overlapped each other or a run of      *)
(* recalc_quota on that app, each writing what it computed from a column   *)
(* or a listing of before, or by a request that was cut off between bucket *)
(* and column; and only until the column is exact again.                   *)
ShortOnlyByRace ==
    \A a \in App \ unsure :
        (\A r \in Request : ~WorksOn(r, a)) => Usage(a) <= used[a]

(* No request takes a site beyond its plan, although the check compares    *)
(* with the column and not with the bucket, and well before the PUTs: a    *)
(* site that grows to more than the plan allows does so only while its     *)
(* column is not to be relied on.                                          *)
OverrunOnlyByRace ==
    [][\A a \in App :
          Usage(a)' > Usage(a) /\ Usage(a)' > Quota => a \in unsure]_ledgerVars

(* Nothing is left in the bucket of a deleted app, which no handler and no *)
(* nightly run looks at again, unless an upload or a deploy was in flight  *)
(* together with the deletion or R2 has kept keys it was to delete.        *)
OrphansOnlyByOverlap == \A a \in App \ crossed : deleted[a] => Usage(a) = 0
=============================================================================

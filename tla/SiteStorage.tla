----------------------------- MODULE SiteStorage -----------------------------
(***************************************************************************)
(* The files of an app: objects in the bucket under the app's prefix, the  *)
(* column storage_bytes_used that accounts for them, the API handlers that *)
(* change both (upload, zip deploy, file delete, app delete), and the runs *)
(* of the worker's recalc_quota.                                           *)
(*                                                                         *)
(* Bucket and table are two systems: a handler talks to them in separate   *)
(* awaited calls, keeps in memory the column it loaded at its beginning    *)
(* (call[r].seen), and writes an absolute value at its end.  Sizes are in  *)
(* units; requests that are refused change nothing and are the guards.     *)
(*                                                                         *)
(* Definitions with a longer name beside another one are the same code     *)
(* with a plausible mistake, for the mutation runs of PROJECT.json.        *)
(***************************************************************************)
EXTENDS Integers, FiniteSets, Functions, FiniteSetsExt

CONSTANTS
    App,        \* apps, all created before the run
    Path,       \* sanitized names with a permitted extension
    Size,       \* sizes of files
    Quota,      \* storage limit of the plan
    Archive,    \* what a zip may hold: sets of files, all entries valid
    BatchSize,  \* keys in one batch delete
    Request,    \* API handlers that may run at once
    Task,       \* runs of recalc_quota that may be under way
    Nightly,    \* the one that cron starts; the others are for one app each
    MaxBusy,    \* bound on the handlers and the runs in flight together
    MaxFaults,  \* bound on crashes, timeouts and errors of R2 or Postgres
    NoWrite     \* no pending UPDATE

File == [path: Path, size: Size]

(* Names and archives are bounded in length, so a site has finitely many   *)
(* possible keys and an archive finitely many entries.                     *)
ASSUME SizeAssumption == Size \subseteq Nat \ {0} /\ Quota \in Nat /\ NoWrite \notin Nat
ASSUME PathAssumption == IsFiniteSet(Path)
ASSUME ArchiveAssumption ==
    Archive \subseteq (SUBSET File) \ {{}} /\ \A files \in Archive : IsFiniteSet(files)
ASSUME BatchAssumption == BatchSize \in Nat \ {0}
ASSUME TaskAssumption == Nightly \in Task
ASSUME BoundAssumption == MaxBusy \in Nat /\ MaxFaults \in Nat

VARIABLES
    deleted, \* App |-> status = DELETED
    used,    \* App |-> storage_bytes_used
    objects, \* App |-> Path |-> size of the object, 0 where there is none
    call,    \* Request |-> the handler it runs
    job,     \* Task |-> the worker's run of recalc_quota
    faults   \* how many have happened

vars == <<deleted, used, objects, call, job, faults>>

Usage(a) == SumFunction(objects[a])

IdleCall == [pc |-> "idle"]

Call ==
    {IdleCall}
    \cup [pc: {"put_file"}, app: App, seen: Nat, file: File]
    \cup [pc: {"put_entries"}, app: App, seen: Nat, todo: SUBSET File]
    \cup [pc: {"delete_file"}, app: App, seen: Nat, path: Path]
    \cup [pc: {"measure", "list_prefix", "commit_delete"}, app: App, seen: Nat]
    \cup [pc: {"delete_batch"}, app: App, seen: Nat, keys: SUBSET Path]
    \cup [pc: {"commit_used"}, app: App, seen: Nat, want: Nat]

(* todo: the apps still to measure; seen: the column when they were read;  *)
(* found: what the bucket holds, of the app measured last; written: the    *)
(* UPDATEs executed and not committed, whose rows are locked.              *)
IdleJob == [pc |-> "idle"]

Job ==
    {IdleJob}
    \cup [pc: {"measure"}, todo: SUBSET App, seen: [App -> Nat],
          written: [App -> Nat \cup {NoWrite}]]
    \cup [pc: {"write"}, todo: SUBSET App, seen: [App -> Nat],
          written: [App -> Nat \cup {NoWrite}], app: App, found: Nat]

TypeOK ==
    /\ deleted \in [App -> BOOLEAN]
    /\ used \in [App -> Nat]
    /\ objects \in [App -> [Path -> Size \cup {0}]]
    /\ call \in [Request -> Call]
    /\ job \in [Task -> Job]
    /\ faults \in 0..MaxFaults

-----------------------------------------------------------------------------
Busy == Cardinality({r \in Request : call[r] # IdleCall})
        + Cardinality({t \in Task : job[t] # IdleJob})

(* get_app: a deleted app is not found.                                    *)
Begin(r, a, c) ==
    /\ call[r] = IdleCall
    /\ Busy < MaxBusy
    /\ ~deleted[a]
    /\ call' = [call EXCEPT ![r] = c]
    /\ UNCHANGED <<deleted, used, objects, job, faults>>

Goto(r, c) == call' = [call EXCEPT ![r] = c]

(* verify_storage_quota compares with the column as it was loaded.         *)
FitsLoosely(a, size) == used[a] <= Quota

FitsQuota(a, size) == used[a] + size <= Quota

TotalOf(files) == MapThenSumSet(LAMBDA f : f.size, files)

(* The row of an app that a run has updated is locked until it commits.    *)
HasWritten(t, a) == job[t] # IdleJob /\ job[t].written[a] # NoWrite

Locked(a) == \E t \in Task : HasWritten(t, a)

(* The UPDATE names the column only when its value differs from the loaded *)
(* one, and then it writes the value, not the difference.                  *)
WriteUsed(a, seen, want) == used' = IF want = seen THEN used ELSE [used EXCEPT ![a] = want]

(* put_object: a new object, or the old one replaced.                      *)
PutObject(a, f) == objects' = [objects EXCEPT ![a][f.path] = f.size]

-----------------------------------------------------------------------------
(* upload_single_file: quota check, PUT, increment, commit.                *)

BeginUpload(r, a, f) ==
    /\ FitsQuota(a, f.size)
    /\ Begin(r, a, [pc |-> "put_file", app |-> a, seen |-> used[a], file |-> f])

PutFileForgetting(r) ==
    /\ call[r].pc = "put_file"
    /\ LET c == call[r] IN
       /\ PutObject(c.app, c.file)
       /\ Goto(r, IdleCall)
    /\ UNCHANGED <<deleted, used, job, faults>>

PutFile(r) ==
    /\ call[r].pc = "put_file"
    /\ LET c == call[r] IN
       /\ PutObject(c.app, c.file)
       /\ Goto(r, [pc |-> "commit_used", app |-> c.app, seen |-> c.seen,
                   want |-> c.seen + c.file.size])
    /\ UNCHANGED <<deleted, used, job, faults>>

CommitUsed(r) ==
    /\ call[r].pc = "commit_used"
    /\ LET c == call[r] IN
       /\ ~Locked(c.app)
       /\ WriteUsed(c.app, c.seen, c.want)
    /\ Goto(r, IdleCall)
    /\ UNCHANGED <<deleted, objects, job, faults>>

-----------------------------------------------------------------------------
(* deploy_zip_archive: quota check on the sum of the entries, one PUT per  *)
(* entry in archive order (any order here), then the whole prefix is       *)
(* measured and its size committed.                                        *)

BeginDeploy(r, a, files) ==
    /\ FitsQuota(a, TotalOf(files))
    /\ Begin(r, a, [pc |-> "put_entries", app |-> a, seen |-> used[a], todo |-> files])

PutEntry(r) ==
    /\ call[r].pc = "put_entries"
    /\ \E f \in call[r].todo :
          LET c == call[r]  rest == c.todo \ {f} IN
          /\ PutObject(c.app, f)
          /\ Goto(r, IF rest # {} THEN [c EXCEPT !.todo = rest]
                     ELSE [pc |-> "measure", app |-> c.app, seen |-> c.seen])
    /\ UNCHANGED <<deleted, used, job, faults>>

(* calculate_prefix_size: a listing that fits in one page.                 *)
Measure(r) ==
    /\ call[r].pc = "measure"
    /\ LET c == call[r] IN
       Goto(r, [pc |-> "commit_used", app |-> c.app, seen |-> c.seen, want |-> Usage(c.app)])
    /\ UNCHANGED <<deleted, used, objects, job, faults>>

-----------------------------------------------------------------------------
(* delete_app_file: DELETE (R2 does not tell whether there was an object), *)
(* then measure and commit.  An error of R2 is reported as "not deleted".  *)

BeginDeleteFile(r, a, p) ==
    Begin(r, a, [pc |-> "delete_file", app |-> a, seen |-> used[a], path |-> p])

DeleteFile(r) ==
    /\ call[r].pc = "delete_file"
    /\ LET c == call[r] IN
       /\ objects' = [objects EXCEPT ![c.app][c.path] = 0]
       /\ Goto(r, [pc |-> "measure", app |-> c.app, seen |-> c.seen])
    /\ UNCHANGED <<deleted, used, job, faults>>

-----------------------------------------------------------------------------
(* delete_app: list the prefix, delete what was listed, set the status and *)
(* the column, commit.                                                     *)

BeginDeleteApp(r, a) ==
    Begin(r, a, [pc |-> "list_prefix", app |-> a, seen |-> used[a]])

ListPrefix(r) ==
    /\ call[r].pc = "list_prefix"
    /\ LET c == call[r] IN
       Goto(r, [pc |-> "delete_batch", app |-> c.app, seen |-> c.seen,
                keys |-> {p \in Path : objects[c.app][p] # 0}])
    /\ UNCHANGED <<deleted, used, objects, job, faults>>

Emptied(site, keys) == [p \in Path |-> IF p \in keys THEN 0 ELSE site[p]]

(* The listed keys go in batches; a last or only batch may be smaller.     *)
Batches(keys) == IF Cardinality(keys) <= BatchSize THEN {keys} ELSE kSubset(BatchSize, keys)

(* R2 reports keys it could not delete in its answer, which nobody reads:  *)
(* as a fault, some of them stay.                                          *)
SendBatch(a, batch) ==
    \/ /\ objects' = [objects EXCEPT ![a] = Emptied(@, batch)]
       /\ UNCHANGED faults
    \/ \E gone \in SUBSET batch :
          /\ gone # batch /\ faults < MaxFaults
          /\ objects' = [objects EXCEPT ![a] = Emptied(@, gone)]
          /\ faults' = faults + 1

FirstBatchOnly(r) ==
    /\ call[r].pc = "delete_batch"
    /\ LET c == call[r] IN
       /\ \E batch \in Batches(c.keys) : SendBatch(c.app, batch)
       /\ Goto(r, [pc |-> "commit_delete", app |-> c.app, seen |-> c.seen])
    /\ UNCHANGED <<deleted, used, job>>

DeleteBatch(r) ==
    /\ call[r].pc = "delete_batch"
    /\ LET c == call[r] IN
       \E batch \in Batches(c.keys) :
          LET rest == c.keys \ batch IN
          /\ SendBatch(c.app, batch)
          /\ Goto(r, IF rest # {} THEN [c EXCEPT !.keys = rest]
                     ELSE [pc |-> "commit_delete", app |-> c.app, seen |-> c.seen])
    /\ UNCHANGED <<deleted, used, job>>

CommitDelete(r) ==
    /\ call[r].pc = "commit_delete"
    /\ LET c == call[r] IN
       /\ ~Locked(c.app)
       /\ deleted' = [deleted EXCEPT ![c.app] = TRUE]
       /\ WriteUsed(c.app, c.seen, 0)
    /\ Goto(r, IdleCall)
    /\ UNCHANGED <<objects, job, faults>>

(* A crash, or R2 or Postgres raises: the handler ends where it is.        *)
AbortCall(r) ==
    /\ call[r] # IdleCall
    /\ faults < MaxFaults
    /\ faults' = faults + 1
    /\ Goto(r, IdleCall)
    /\ UNCHANGED <<deleted, used, objects, job>>

-----------------------------------------------------------------------------
(* recalc_quota: the cron run takes all apps that are not deleted, a run   *)
(* with an app_id that app, deleted or not.  arq starts the job of a night *)
(* once and ends it within its timeout, so no two cron runs overlap.       *)

LiveApps == {a \in App : ~deleted[a]}

StartTask(t, apps) ==
    /\ job[t] = IdleJob
    /\ Busy < MaxBusy
    /\ job' = [job EXCEPT ![t] = [pc |-> "measure", todo |-> apps, seen |-> used,
                                  written |-> [a \in App |-> NoWrite]]]
    /\ UNCHANGED <<deleted, used, objects, call, faults>>

StartJob == StartTask(Nightly, LiveApps)

StartJobFor(t, a) == t # Nightly /\ StartTask(t, {a})

Proceed(t, j) ==
    /\ job' = [job EXCEPT ![t] = j]
    /\ UNCHANGED <<deleted, used, objects, call, faults>>

(* An app whose column was right when the run read it needs no UPDATE.     *)
ToWrite(t, a) ==
    [pc |-> "write", todo |-> job[t].todo \ {a}, seen |-> job[t].seen,
     written |-> job[t].written, app |-> a, found |-> Usage(a)]

JobMeasureGrowthOnly(t, a) ==
    /\ job[t].pc = "measure" /\ a \in job[t].todo
    /\ Proceed(t, IF Usage(a) <= job[t].seen[a] THEN [job[t] EXCEPT !.todo = @ \ {a}]
                  ELSE ToWrite(t, a))

JobMeasure(t, a) ==
    /\ job[t].pc = "measure" /\ a \in job[t].todo
    /\ Proceed(t, IF Usage(a) = job[t].seen[a] THEN [job[t] EXCEPT !.todo = @ \ {a}]
                  ELSE ToWrite(t, a))

(* The UPDATE waits while another run has the row locked.                  *)
JobWrite(t) ==
    /\ job[t].pc = "write"
    /\ LET j == job[t] IN
       /\ \A u \in Task \ {t} : ~HasWritten(u, j.app)
       /\ Proceed(t, [pc |-> "measure", todo |-> j.todo, seen |-> j.seen,
                      written |-> [j.written EXCEPT ![j.app] = j.found]])

JobCommitAll(t) ==
    /\ job[t].pc = "measure" /\ job[t].todo = {}
    /\ used' = job[t].written
    /\ job' = [job EXCEPT ![t] = IdleJob]
    /\ UNCHANGED <<deleted, objects, call, faults>>

JobCommit(t) ==
    /\ job[t].pc = "measure" /\ job[t].todo = {}
    /\ used' = [a \in App |-> IF HasWritten(t, a) THEN job[t].written[a] ELSE used[a]]
    /\ job' = [job EXCEPT ![t] = IdleJob]
    /\ UNCHANGED <<deleted, objects, call, faults>>

(* A crash, an error of R2 or arq's job timeout: everything is rolled back. *)
AbortJob(t) ==
    /\ job[t] # IdleJob
    /\ faults < MaxFaults
    /\ faults' = faults + 1
    /\ job' = [job EXCEPT ![t] = IdleJob]
    /\ UNCHANGED <<deleted, used, objects, call>>

-----------------------------------------------------------------------------
Init ==
    /\ deleted = [a \in App |-> FALSE]
    /\ used = [a \in App |-> 0]
    /\ objects = [a \in App |-> [p \in Path |-> 0]]
    /\ call = [r \in Request |-> IdleCall]
    /\ job = [t \in Task |-> IdleJob]
    /\ faults = 0

HandlerStep(r) ==
    \/ \E a \in App, f \in File : BeginUpload(r, a, f)
    \/ PutFile(r)
    \/ CommitUsed(r)
    \/ \E a \in App, files \in Archive : BeginDeploy(r, a, files)
    \/ PutEntry(r)
    \/ Measure(r)
    \/ \E a \in App, p \in Path : BeginDeleteFile(r, a, p)
    \/ DeleteFile(r)
    \/ \E a \in App : BeginDeleteApp(r, a)
    \/ ListPrefix(r)
    \/ DeleteBatch(r)
    \/ CommitDelete(r)
    \/ AbortCall(r)

JobRun(t) == (\E a \in App : JobMeasure(t, a)) \/ JobWrite(t) \/ JobCommit(t)

JobStep ==
    \/ StartJob
    \/ \E t \in Task :
          \/ \E a \in App : StartJobFor(t, a)
          \/ JobRun(t)
          \/ AbortJob(t)

Next == (\E r \in Request : HandlerStep(r)) \/ JobStep

Spec == Init /\ [][Next]_vars

(* arq starts the cron job every night, whatever other jobs ran before     *)
(* (strong fairness), and a run that does not fail goes on to its commit;  *)
(* PostgreSQL hands a row lock to those that wait for it in their order.   *)
(* No handler of the API is assumed to finish.                             *)
Fairness == SF_vars(StartJob) /\ \A t \in Task : SF_vars(JobRun(t))

LiveSpec == Spec /\ Fairness

-----------------------------------------------------------------------------
(* Properties.  Those of bucket and column together, whoever overlaps, are *)
(* in SiteLedger.                                                          *)

CallsIdle == \A r \in Request : call[r] = IdleCall

(* "Delete app and its R2 storage files": once the app is deleted and no   *)
(* handler is in flight, the bucket holds nothing of it.                   *)
DeletedSiteEmpty == CallsIdle => \A a \in App : deleted[a] => Usage(a) = 0

(* Whatever races, partial deploys and lost commits did to the column, the *)
(* nightly job repairs it once the API is quiet: for every live app it     *)
(* comes to say what the bucket holds, and stays so.                       *)
EventuallyReconciled ==
    <>[]CallsIdle => <>[](\A a \in App : ~deleted[a] => used[a] = Usage(a))
=============================================================================

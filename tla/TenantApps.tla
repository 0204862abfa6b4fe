----------------------------- MODULE TenantApps -----------------------------
(***************************************************************************)
(* Tenant apps: the create, update and delete handlers of the API, the     *)
(* "apps" table they write, and the Redis cache through which the app      *)
(* runtime resolves a subdomain.                                           *)
(*                                                                         *)
(* Every await of a handler is a point where another handler may run, so a *)
(* handler is one action per database statement or Redis command, and      *)
(* call[r] holds what the handler keeps in its local variables between     *)
(* them.  A request that is refused changes no state: refusals are the     *)
(* guards.                                                                 *)
(*                                                                         *)
(* Beside a definition there may be a second one with a longer name, such  *)
(* as CanLoadDeleted or ExpirePositive: the same code with a plausible     *)
(* mistake in it.  Nothing uses it but the mutation runs of PROJECT.json,  *)
(* which show that the properties would notice that mistake.               *)
(***************************************************************************)
EXTENDS Integers, FiniteSets

CONSTANTS
    User,         \* accounts that send requests
    Admin,        \* those of them with role ADMIN
    AppId,        \* the uuids create_app may draw
    Subdomain,    \* names that pass validate_subdomain
    Config,       \* values of an editable column (custom_index, spa_fallback)
    DefaultConfig,\* what create_app stores in it
    Plan,         \* rows of the plans table
    FreePlan,     \* the cheapest of them
    AppLimit,     \* plan |-> app_limit
    NoPlan,       \* a create request without a plan_id
    MissingPlan,  \* a plan_id that is in no row
    Request,      \* API handlers that may run at once
    Lookup,       \* runtime resolutions that may run at once
    MaxBusy,      \* bound on the handlers and resolutions in flight together
    PatchStatus,  \* the statuses that PATCH requests ask for
    FaultsAllowed,\* may Redis commands fail and processes crash?
    NoRow,        \* apps[id] before the insert
    Keep,         \* a column a PATCH leaves out
    Miss,         \* no key in Redis
    NotFound      \* the negative entry, and the empty query result

Status == {"provisioning", "active", "suspended", "deleting", "deleted", "failed"}

(* A row of "apps", the columns the handlers here read or write.           *)
Row == [owner: User, sub: Subdomain, status: Status, config: Config]

(* What the resolver selects from a row and stores in Redis.               *)
Entry == [id: AppId, status: Status, config: Config]

(* The columns an update may write.                                        *)
Columns == [status: Status, config: Config]

PlanChoice == Plan \cup {NoPlan, MissingPlan}

ASSUME RequestAssumption == IsFiniteSet(Request) /\ Request # {}
ASSUME AccountAssumption == Admin \subseteq User
ASSUME PlanAssumption == FreePlan \in Plan /\ AppLimit \in [Plan -> Nat]
ASSUME ConfigAssumption == DefaultConfig \in Config
ASSUME PatchAssumption == PatchStatus \subseteq Status
ASSUME SentinelAssumption ==
    /\ NoRow \notin Row
    /\ Miss \notin Entry /\ NotFound \notin Entry /\ Miss # NotFound
    /\ Keep \notin Status /\ Keep \notin Config
    /\ NoPlan \notin Plan /\ MissingPlan \notin Plan /\ NoPlan # MissingPlan

VARIABLES
    apps,   \* AppId |-> row of the table, or NoRow
    cache,  \* Subdomain |-> what Redis holds under app:<subdomain>
    call,   \* Request |-> the handler it runs
    look    \* Lookup |-> the resolution it runs

vars == <<apps, cache, call, look>>

IdleCall == [pc |-> "idle"]
IdleLookup == [pc |-> "idle"]

Call ==
    {IdleCall}
    \cup [pc: {"check_limit", "insert"}, user: User, sub: Subdomain, plan: PlanChoice]
    \cup [pc: {"commit_update"}, id: AppId, seen: Columns, want: Columns]
    \cup [pc: {"commit_delete"}, id: AppId]
    \cup [pc: {"invalidate"}, sub: Subdomain]

Resolution ==
    {IdleLookup}
    \cup [pc: {"query"}, sub: Subdomain]
    \cup [pc: {"fill"}, sub: Subdomain, found: Entry \cup {NotFound}]

TypeOK ==
    /\ apps \in [AppId -> Row \cup {NoRow}]
    /\ cache \in [Subdomain -> Entry \cup {Miss, NotFound}]
    /\ call \in [Request -> Call]
    /\ look \in [Lookup -> Resolution]

-----------------------------------------------------------------------------
(* Reading the table.                                                      *)

Stored == {id \in AppId : apps[id] # NoRow}

Holders(s) == {id \in Stored : apps[id].sub = s}

LiveApps(u) == {id \in Stored : apps[id].owner = u /\ apps[id].status # "deleted"}

EntryOf(id) == [id |-> id, status |-> apps[id].status, config |-> apps[id].config]

(* The resolver's SELECT has no filter on the status: a deleted app is     *)
(* found, and only a name no row ever took is not.                         *)
Answers(s) ==
    IF Holders(s) = {} THEN {NotFound} ELSE {EntryOf(id) : id \in Holders(s)}

CanLoadDeleted(u, id) ==
    /\ id \in Stored
    /\ u \in Admin \/ apps[id].owner = u

(* get_app: not deleted, and the caller's own unless an administrator asks. *)
CanLoad(u, id) ==
    /\ id \in Stored
    /\ apps[id].status # "deleted"
    /\ u \in Admin \/ apps[id].owner = u

EffectivePlan(p) == IF p \in Plan THEN p ELSE FreePlan

LimitAllowsOneMore(u, p) ==
    \/ u \in Admin
    \/ p # MissingPlan /\ Cardinality(LiveApps(u)) <= AppLimit[EffectivePlan(p)]

LimitAllows(u, p) ==
    \/ u \in Admin
    \/ p # MissingPlan /\ Cardinality(LiveApps(u)) < AppLimit[EffectivePlan(p)]

(* SQLAlchemy's UPDATE names the columns whose value differs from the one  *)
(* the session loaded; the other columns keep what the row holds now.      *)
WriteBack(row, seen, want) ==
    [row EXCEPT !.status = IF want.status # seen.status THEN want.status ELSE @,
                !.config = IF want.config # seen.config THEN want.config ELSE @]

Busy == Cardinality({r \in Request : call[r] # IdleCall})
        + Cardinality({k \in Lookup : look[k] # IdleLookup})

Begin(r, c) ==
    /\ call[r] = IdleCall
    /\ Busy < MaxBusy
    /\ call' = [call EXCEPT ![r] = c]
    /\ UNCHANGED <<apps, cache, look>>

-----------------------------------------------------------------------------
(* create_app: the uniqueness SELECT, the limit check, the INSERT, the     *)
(* invalidation of the name's entry.                                       *)

Inserting == {r \in Request : call[r].pc \in {"check_limit", "insert"}}

(* Any row with the name blocks it, a deleted one too.  The first conjunct *)
(* bounds the run: every create in flight can draw an id of its own.       *)
BeginCreate(r, u, s, p) ==
    /\ Cardinality(Inserting) < Cardinality(AppId \ Stored)
    /\ Holders(s) = {}
    /\ Begin(r, [pc |-> "check_limit", user |-> u, sub |-> s, plan |-> p])

CheckAppLimit(r) ==
    /\ call[r].pc = "check_limit"
    /\ call' = [call EXCEPT ![r] = IF LimitAllows(@.user, @.plan)
                                   THEN [@ EXCEPT !.pc = "insert"] ELSE IdleCall]
    /\ UNCHANGED <<apps, cache, look>>

NewRow(c) == [owner |-> c.user, sub |-> c.sub, status |-> "active",
              config |-> DefaultConfig]

InsertWithoutConstraint(r) ==
    /\ call[r].pc = "insert"
    /\ \E id \in AppId \ Stored : apps' = [apps EXCEPT ![id] = NewRow(call[r])]
    /\ call' = [call EXCEPT ![r] = [pc |-> "invalidate", sub |-> @.sub]]
    /\ UNCHANGED <<cache, look>>

InsertWithoutInvalidation(r) ==
    /\ call[r].pc = "insert"
    /\ Holders(call[r].sub) = {}
    /\ \E id \in AppId \ Stored : apps' = [apps EXCEPT ![id] = NewRow(call[r])]
    /\ call' = [call EXCEPT ![r] = IdleCall]
    /\ UNCHANGED <<cache, look>>

(* The unique index on apps.subdomain refuses a name another create took   *)
(* since the SELECT: the commit raises and the handler ends.               *)
InsertApp(r) ==
    /\ call[r].pc = "insert"
    /\ \/ /\ Holders(call[r].sub) # {}
          /\ call' = [call EXCEPT ![r] = IdleCall]
          /\ UNCHANGED apps
       \/ /\ Holders(call[r].sub) = {}
          /\ \E id \in AppId \ Stored : apps' = [apps EXCEPT ![id] = NewRow(call[r])]
          /\ call' = [call EXCEPT ![r] = [pc |-> "invalidate", sub |-> @.sub]]
    /\ UNCHANGED <<cache, look>>

-----------------------------------------------------------------------------
(* update_app: load the row, change the attributes, commit, invalidate.    *)

ColumnsOf(id) == [status |-> apps[id].status, config |-> apps[id].config]

PatchedBlindly(old, st, cf) == [status |-> st, config |-> cf]

Patched(old, st, cf) ==
    [status |-> IF st = Keep THEN old.status ELSE st,
     config |-> IF cf = Keep THEN old.config ELSE cf]

MayPatchStatus(u, st) == u \in Admin \/ st \in {Keep, "active", "suspended"}

UpdateThroughCache(r, u, id, st, cf) ==
    /\ CanLoad(u, id)
    /\ MayPatchStatus(u, st)
    /\ call[r] = IdleCall /\ Busy < MaxBusy
    /\ LET want == Patched(ColumnsOf(id), st, cf) IN
       /\ call' = [call EXCEPT ![r] = [pc |-> "commit_update", id |-> id,
                                       seen |-> ColumnsOf(id), want |-> want]]
       /\ cache' = [cache EXCEPT ![apps[id].sub] =
                        [id |-> id, status |-> want.status, config |-> want.config]]
    /\ UNCHANGED <<apps, look>>

BeginUpdate(r, u, id, st, cf) ==
    /\ CanLoad(u, id)
    /\ MayPatchStatus(u, st)
    /\ Begin(r, [pc |-> "commit_update", id |-> id, seen |-> ColumnsOf(id),
                 want |-> Patched(ColumnsOf(id), st, cf)])

CommitUpdate(r) ==
    /\ call[r].pc = "commit_update"
    /\ LET c == call[r] IN
       /\ apps' = [apps EXCEPT ![c.id] = WriteBack(@, c.seen, c.want)]
       /\ call' = [call EXCEPT ![r] = [pc |-> "invalidate", sub |-> apps[c.id].sub]]
    /\ UNCHANGED <<cache, look>>

-----------------------------------------------------------------------------
(* delete_app: load the row, empty the bucket prefix (SiteStorage models   *)
(* the objects), set the status, commit, invalidate.                       *)

BeginDelete(r, u, id) ==
    /\ CanLoad(u, id)
    /\ Begin(r, [pc |-> "commit_delete", id |-> id])

CommitRemoval(r) ==
    /\ call[r].pc = "commit_delete"
    /\ LET c == call[r] IN
       /\ apps' = [apps EXCEPT ![c.id] = NoRow]
       /\ call' = [call EXCEPT ![r] = [pc |-> "invalidate", sub |-> apps[c.id].sub]]
    /\ UNCHANGED <<cache, look>>

CommitDelete(r) ==
    /\ call[r].pc = "commit_delete"
    /\ LET c == call[r] IN
       /\ apps' = [apps EXCEPT ![c.id].status = "deleted"]
       /\ call' = [call EXCEPT ![r] = [pc |-> "invalidate", sub |-> apps[c.id].sub]]
    /\ UNCHANGED <<cache, look>>

-----------------------------------------------------------------------------
(* The end of all three handlers.  A failing Redis command is swallowed.   *)

InvalidateCache(r) ==
    /\ call[r].pc = "invalidate"
    /\ \/ cache' = [cache EXCEPT ![call[r].sub] = Miss]
       \/ FaultsAllowed /\ UNCHANGED cache
    /\ call' = [call EXCEPT ![r] = IdleCall]
    /\ UNCHANGED <<apps, look>>

(* The process dies, or R2 or Postgres raises: what was not committed is   *)
(* rolled back and the rest of the handler does not run.                   *)
AbortCall(r) ==
    /\ FaultsAllowed
    /\ call[r] # IdleCall
    /\ call' = [call EXCEPT ![r] = IdleCall]
    /\ UNCHANGED <<apps, cache, look>>

-----------------------------------------------------------------------------
(* resolve_app.  A hit, positive or negative, changes nothing; a failing   *)
(* GET reads as a miss.                                                    *)

MissCache(k, s) ==
    /\ look[k] = IdleLookup
    /\ Busy < MaxBusy
    /\ cache[s] = Miss \/ FaultsAllowed
    /\ look' = [look EXCEPT ![k] = [pc |-> "query", sub |-> s]]
    /\ UNCHANGED <<apps, cache, call>>

QueryApp(k) ==
    /\ look[k].pc = "query"
    /\ \E f \in Answers(look[k].sub) :
          look' = [look EXCEPT ![k] = [pc |-> "fill", sub |-> @.sub, found |-> f]]
    /\ UNCHANGED <<apps, cache, call>>

FillCache(k) ==
    /\ look[k].pc = "fill"
    /\ \/ cache' = [cache EXCEPT ![look[k].sub] = look[k].found]
       \/ FaultsAllowed /\ UNCHANGED cache
    /\ look' = [look EXCEPT ![k] = IdleLookup]
    /\ UNCHANGED <<apps, call>>

AbortLookup(k) ==
    /\ FaultsAllowed
    /\ look[k] # IdleLookup
    /\ look' = [look EXCEPT ![k] = IdleLookup]
    /\ UNCHANGED <<apps, cache, call>>

ExpirePositive(s) ==
    /\ cache[s] \notin {Miss, NotFound}
    /\ cache' = [cache EXCEPT ![s] = Miss]
    /\ UNCHANGED <<apps, call, look>>

ExpireNegative(s) ==
    /\ cache[s] = NotFound
    /\ cache' = [cache EXCEPT ![s] = Miss]
    /\ UNCHANGED <<apps, call, look>>

(* Both kinds of entry are stored with a time to live of 60 seconds.       *)
ExpireEntry(s) ==
    /\ cache[s] # Miss
    /\ cache' = [cache EXCEPT ![s] = Miss]
    /\ UNCHANGED <<apps, call, look>>

-----------------------------------------------------------------------------
Init ==
    /\ apps = [id \in AppId |-> NoRow]
    /\ cache = [s \in Subdomain |-> Miss]
    /\ call = [r \in Request |-> IdleCall]
    /\ look = [k \in Lookup |-> IdleLookup]

HandlerStep(r) ==
    \/ \E u \in User, s \in Subdomain, p \in PlanChoice : BeginCreate(r, u, s, p)
    \/ CheckAppLimit(r)
    \/ InsertApp(r)
    \/ \E u \in User, id \in AppId, st \in PatchStatus \cup {Keep},
          cf \in Config \cup {Keep} : BeginUpdate(r, u, id, st, cf)
    \/ CommitUpdate(r)
    \/ \E u \in User, id \in AppId : BeginDelete(r, u, id)
    \/ CommitDelete(r)
    \/ InvalidateCache(r)
    \/ AbortCall(r)

LookupStep(k) ==
    \/ \E s \in Subdomain : MissCache(k, s)
    \/ QueryApp(k)
    \/ FillCache(k)
    \/ AbortLookup(k)

Next ==
    \/ \E r \in Request : HandlerStep(r)
    \/ \E k \in Lookup : LookupStep(k)
    \/ \E s \in Subdomain : ExpireEntry(s)

Spec == Init /\ [][Next]_vars

-----------------------------------------------------------------------------
(* Properties.                                                             *)

(* A name belongs to one app for ever: no two rows share a subdomain, and  *)
(* an answer the resolver holds or has cached under a name is of the app   *)
(* that holds the name, so the runtime never serves one tenant's files     *)
(* under another's host.  create_app's check is a separate SELECT; what    *)
(* keeps this true is the unique index, and that delete_app keeps the row. *)
Belongs(answer, s) == answer \in Entry => Holders(s) = {answer.id}

TenantIsolation ==
    /\ \A s \in Subdomain : Cardinality(Holders(s)) <= 1
    /\ \A s \in Subdomain : Belongs(cache[s], s)
    /\ \A k \in Lookup : look[k].pc = "fill" => Belongs(look[k].found, look[k].sub)

(* check_app_limit, when handlers run together: the count it takes can be  *)
(* stale by every other handler in flight, a create that has passed its    *)
(* own check or an update that will bring a deleted app back, so the limit *)
(* of the largest plan is overshot by at most one app per further handler. *)
AppLimitOvershoot ==
    \A u \in User \ Admin : \E p \in Plan :
        Cardinality(LiveApps(u)) <= AppLimit[p] + Cardinality(Request) - 1

(* A deleted app, whose bucket prefix was emptied and whose name is out of *)
(* use, comes back into service only by an update that had loaded the row  *)
(* before it was deleted, and that was asked for another status: no        *)
(* request that begins after the deletion reaches the row.                 *)
RevivedOnlyByOverlap ==
    [][\A id \in Stored :
          apps[id].status = "deleted" /\ apps'[id].status # "deleted" =>
              \E r \in Request :
                  /\ call[r].pc = "commit_update" /\ call[r].id = id
                  /\ call[r].seen.status # "deleted"
                  /\ call[r].want.status # call[r].seen.status]_vars

(* What Redis holds under a name is nothing, or what the table says.       *)
Agrees(s) == cache[s] \in {Miss} \cup Answers(s)

AllCallsIdle == \A r \in Request : call[r] = IdleCall

(* Every registered name is resolved in the end, although its negative     *)
(* entry may be written after create_app's invalidation, or the            *)
(* invalidation lost: from some time on Redis holds no negative entry.     *)
NegativeEntriesHeal ==
    \A s \in Subdomain : [](Holders(s) # {} => <>[](cache[s] # NotFound))

(* Once no more changes are made, stale entries go away, whatever was lost *)
(* on the way: Redis comes to agree with the table and stays so.           *)
CacheConverges == <>[]AllCallsIdle => <>[](\A s \in Subdomain : Agrees(s))
=============================================================================

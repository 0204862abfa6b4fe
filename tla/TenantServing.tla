----------------------------- MODULE TenantServing -----------------------------
(***************************************************************************)
(* The app runtime: what a visitor of a hosted site is answered.           *)
(*                                                                         *)
(* serve_tenant_request resolves the name (the steps of TenantApps), looks *)
(* at the status it got, and then fetches one object, or two with the SPA  *)
(* fallback.  In between, the API's handlers change the row, drop cache    *)
(* entries and add and remove objects.  A visit v resolves in look[v].     *)
(*                                                                         *)
(* Of the bucket only the presence of an object matters here; SiteStorage  *)
(* has the handlers' own view of it.  Hosts that are no tenant's name are  *)
(* answered without touching any state and are left out.                   *)
(***************************************************************************)
EXTENDS TenantApps

CONSTANTS
    Dir,     \* directories of a site
    Top,     \* its root
    Name,    \* names of files
    Slash,   \* stands for the name in a request path that ends with "/"
    BadPath  \* a request path that sanitize_relative_path refuses

File == [dir: Dir, name: Name]

Page == File \cup [dir: Dir, name: {Slash}] \cup {BadPath}

ASSUME SiteAssumption ==
    /\ Top \in Dir /\ Slash \notin Name /\ BadPath \notin [dir: Dir, name: Name \cup {Slash}]
    /\ Config \subseteq [index: Name, spa: BOOLEAN]

VARIABLES
    files,    \* AppId |-> the files under its prefix
    emptied,  \* the delete_app handlers that have emptied the prefix
    transfer, \* an upload, or the deletion of a file, on its way to R2
    visit     \* Lookup |-> the request the runtime answers

servingVars == <<apps, cache, call, look, files, emptied, transfer, visit>>

NoTransfer == [pc |-> "idle"]

Transfer == {NoTransfer} \cup [pc: {"put", "delete"}, id: AppId, file: File]

IdleVisit == [pc |-> "idle"]

Visit ==
    {IdleVisit}
    \cup [pc: {"resolve"}, sub: Subdomain, page: Page]
    \cup [pc: {"get", "fallback"}, sub: Subdomain, page: Page \ {BadPath}, entry: Entry]
    \cup [pc: {"reply"}, sub: Subdomain, page: Page, code: {200, 403, 404, 503}]

ServingTypeOK ==
    /\ TypeOK
    /\ files \in [AppId -> SUBSET File]
    /\ emptied \subseteq Request
    /\ transfer \in Transfer
    /\ visit \in [Lookup -> Visit]

-----------------------------------------------------------------------------
(* serve_tenant_request                                                    *)

Reply(s, q, code) == [pc |-> "reply", sub |-> s, page |-> q, code |-> code]

AfterResolvingAnyStatus(s, q, answer) ==
    IF answer = NotFound \/ q = BadPath THEN Reply(s, q, 404)
    ELSE [pc |-> "get", sub |-> s, page |-> q, entry |-> answer]

AfterResolvingAnyPath(s, q, answer) ==
    IF answer = NotFound THEN Reply(s, q, 404)
    ELSE IF answer.status = "suspended" THEN Reply(s, q, 403)
    ELSE IF answer.status # "active" THEN Reply(s, q, 503)
    ELSE [pc |-> "get", sub |-> s, page |-> q, entry |-> answer]

(* From the resolver's answer to the object's key.                         *)
AfterResolving(s, q, answer) ==
    IF answer = NotFound THEN Reply(s, q, 404)
    ELSE IF answer.status = "suspended" THEN Reply(s, q, 403)
    ELSE IF answer.status # "active" THEN Reply(s, q, 503)
    ELSE IF q = BadPath THEN Reply(s, q, 404)
    ELSE [pc |-> "get", sub |-> s, page |-> q, entry |-> answer]

IndexOf(e) == [dir |-> Top, name |-> e.config.index]

(* A path that ends with a slash means the custom index in that directory. *)
Target(q, e) == IF q.name = Slash THEN [q EXCEPT !.name = e.config.index] ELSE q

Goto(v, c) == visit' = [visit EXCEPT ![v] = c]

StartVisit(v, s, q) ==
    /\ visit[v] = IdleVisit
    /\ \/ /\ cache[s] # Miss
          /\ Goto(v, AfterResolving(s, q, cache[s]))
          /\ UNCHANGED vars
       \/ /\ MissCache(v, s)
          /\ Goto(v, [pc |-> "resolve", sub |-> s, page |-> q])
    /\ UNCHANGED <<files, emptied, transfer>>

ResolveQuery(v) == QueryApp(v) /\ UNCHANGED <<files, emptied, transfer, visit>>

ResolveFill(v) ==
    /\ FillCache(v)
    /\ Goto(v, AfterResolving(visit[v].sub, visit[v].page, look[v].found))
    /\ UNCHANGED <<files, emptied, transfer>>

(* get_object: the object, or None for NoSuchKey; other errors raise.      *)
InBucket(id, file) == file \in files[id]

GetObject(v) ==
    /\ visit[v].pc = "get"
    /\ LET c == visit[v] IN
       Goto(v, IF InBucket(c.entry.id, Target(c.page, c.entry)) THEN Reply(c.sub, c.page, 200)
               ELSE IF c.entry.config.spa THEN [c EXCEPT !.pc = "fallback"]
               ELSE Reply(c.sub, c.page, 404))
    /\ UNCHANGED <<vars, files, emptied, transfer>>

FallbackToDefaultIndex(v) ==
    /\ visit[v].pc = "fallback"
    /\ LET c == visit[v]  index == [dir |-> Top, name |-> DefaultConfig.index] IN
       Goto(v, Reply(c.sub, c.page, IF InBucket(c.entry.id, index) THEN 200 ELSE 404))
    /\ UNCHANGED <<vars, files, emptied, transfer>>

GetFallback(v) ==
    /\ visit[v].pc = "fallback"
    /\ LET c == visit[v] IN
       Goto(v, Reply(c.sub, c.page, IF InBucket(c.entry.id, IndexOf(c.entry)) THEN 200 ELSE 404))
    /\ UNCHANGED <<vars, files, emptied, transfer>>

SendReply(v) ==
    /\ visit[v].pc = "reply"
    /\ Goto(v, IdleVisit)
    /\ UNCHANGED <<vars, files, emptied, transfer>>

(* The process dies, or Postgres or R2 raises.                             *)
AbortVisit(v) ==
    /\ FaultsAllowed
    /\ \/ visit[v].pc = "resolve" /\ AbortLookup(v)
       \/ visit[v].pc \in {"get", "fallback"} /\ UNCHANGED vars
    /\ Goto(v, IdleVisit)
    /\ UNCHANGED <<files, emptied, transfer>>

-----------------------------------------------------------------------------
(* The API.  delete_app empties the prefix between its SELECT and its      *)
(* commit, up to the keys that R2 says it could not delete: what it says   *)
(* is not read.                                                            *)

EmptyPrefix(r) ==
    /\ call[r].pc = "commit_delete" /\ r \notin emptied
    /\ \E left \in SUBSET files[call[r].id] :
          /\ FaultsAllowed \/ left = {}
          /\ files' = [files EXCEPT ![call[r].id] = left]
    /\ emptied' = emptied \cup {r}
    /\ UNCHANGED <<vars, transfer, visit>>

CommitDeleteEmptied(r) ==
    /\ r \in emptied
    /\ CommitDelete(r)
    /\ emptied' = emptied \ {r}
    /\ UNCHANGED <<files, transfer, visit>>

AbortHandler(r) ==
    /\ AbortCall(r)
    /\ emptied' = emptied \ {r}
    /\ UNCHANGED <<files, transfer, visit>>

OtherHandlerStep(r) ==
    /\ \/ \E u \in User, s \in Subdomain, p \in PlanChoice : BeginCreate(r, u, s, p)
       \/ CheckAppLimit(r)
       \/ InsertApp(r)
       \/ \E u \in User, id \in AppId, st \in PatchStatus \cup {Keep},
             cf \in Config \cup {Keep} : BeginUpdate(r, u, id, st, cf)
       \/ CommitUpdate(r)
       \/ \E u \in User, id \in AppId : BeginDelete(r, u, id)
       \/ InvalidateCache(r)
    /\ UNCHANGED <<files, emptied, transfer, visit>>

(* The handlers of files.py load the app first and talk to R2 later.       *)
BeginTransfer(u, id, f, kind) ==
    /\ transfer = NoTransfer /\ Busy < MaxBusy
    /\ CanLoad(u, id)
    /\ transfer' = [pc |-> kind, id |-> id, file |-> f]
    /\ UNCHANGED <<vars, files, emptied, visit>>

EndTransfer ==
    /\ transfer # NoTransfer
    /\ \/ files' = [files EXCEPT ![transfer.id] =
                       IF transfer.pc = "put" THEN @ \cup {transfer.file} ELSE @ \ {transfer.file}]
       \/ FaultsAllowed /\ UNCHANGED files
    /\ transfer' = NoTransfer
    /\ UNCHANGED <<vars, emptied, visit>>

ExpireKey(s) == ExpireEntry(s) /\ UNCHANGED <<files, emptied, transfer, visit>>

-----------------------------------------------------------------------------
ServingInit ==
    /\ Init
    /\ files = [id \in AppId |-> {}]
    /\ emptied = {}
    /\ transfer = NoTransfer
    /\ visit = [v \in Lookup |-> IdleVisit]

ApiStep(r) ==
    OtherHandlerStep(r) \/ EmptyPrefix(r) \/ CommitDeleteEmptied(r) \/ AbortHandler(r)

VisitGoesOn(v) ==
    ResolveQuery(v) \/ ResolveFill(v) \/ GetObject(v) \/ GetFallback(v) \/ SendReply(v)

ServingNext ==
    \/ \E r \in Request : ApiStep(r)
    \/ \E u \in User, id \in AppId, f \in File, kind \in {"put", "delete"} :
          BeginTransfer(u, id, f, kind)
    \/ EndTransfer
    \/ \E v \in Lookup, s \in Subdomain, q \in Page : StartVisit(v, s, q)
    \/ \E v \in Lookup : VisitGoesOn(v) \/ AbortVisit(v)
    \/ \E s \in Subdomain : ExpireKey(s)

ServingSafety == ServingInit /\ [][ServingNext]_servingVars

(* A visit that has begun goes on to its answer (each await returns or     *)
(* raises), and Redis drops a key when its time to live is over.  Nothing  *)
(* obliges anybody to send a request, and no handler of the API is assumed *)
(* to finish.                                                              *)
ServingSpec ==
    /\ ServingSafety
    /\ \A v \in Lookup : WF_servingVars(VisitGoesOn(v))
    /\ \A s \in Subdomain : WF_servingVars(ExpireKey(s))

-----------------------------------------------------------------------------
(* Properties.                                                             *)

(* A visitor never sees another tenant's files: whatever becomes of the    *)
(* name, the cache and the row between the awaits of a request, the prefix *)
(* it reads objects under, the second time too, is the one of the app that *)
(* holds the name in the Host header.                                      *)
VisitsStayHome ==
    \A v \in Lookup :
        visit[v].pc \in {"get", "fallback"} => Holders(visit[v].sub) = {visit[v].entry.id}

Answered(s, q, codes) ==
    \A v \in Lookup :
        visit[v].pc = "reply" /\ visit[v].sub = s /\ visit[v].page = q => visit[v].code \in codes

ShowsNothing(s) == \A q \in Page : Answered(s, q, {403, 404, 503})

(* A site that is taken out of service, by a suspension or by its          *)
(* deletion, and stays so, is dark after some time: the runtime answers    *)
(* from stale entries and from resolutions it began before, but not for    *)
(* ever, even when the invalidation was lost and objects were left over.   *)
InactiveGoesDark ==
    \A s \in Subdomain :
        <>[](\A id \in Holders(s) : apps[id].status # "active") => <>[]ShowsNothing(s)

(* A site that is active with its index file in place, and stays so, is    *)
(* served after some time, at its root and, when it is a single page       *)
(* application, at every path: no negative entry, no old status and no old *)
(* custom index keeps visitors away for ever.                              *)
Ready(s) == \E id \in Holders(s) : apps[id].status = "active" /\ IndexOf(apps[id]) \in files[id]

IsSinglePage(s) == \E id \in Holders(s) : apps[id].config.spa

ReadyIsServed ==
    \A s \in Subdomain :
        <>[](AllCallsIdle /\ Ready(s)) =>
        <>[](/\ Answered(s, [dir |-> Top, name |-> Slash], {200})
             /\ IsSinglePage(s) => \A q \in Page \ {BadPath} : Answered(s, q, {200}))
=============================================================================

------------------------ MODULE TenantRegistryProofs ------------------------
(***************************************************************************)
(* TenantApps implements NameRegistry, for every value of the constants    *)
(* and with every fault.  The invariant on top of IInv is that the cache,  *)
(* and a resolution about to fill it, only say what the history knows.     *)
(***************************************************************************)
EXTENDS TenantRegistry, TenantAppsProofs

FactOf(e) == [status |-> e.status, config |-> e.config]

PastBegins == \A id \in AppId \ Stored : past[id] = {}

PastHasNow == \A id \in Stored : ColumnsOf(id) \in past[id]

WasTrue(e) == FactOf(e) \in past[e.id]

CachedWasTrue == \A s \in Subdomain : cache[s] \in Entry => WasTrue(cache[s])

FoundWasTrue ==
    \A k \in Lookup :
        look[k].pc = "fill" /\ look[k].found \in Entry => WasTrue(look[k].found)

HInv == IInv /\ PastBegins /\ PastHasNow /\ CachedWasTrue /\ FoundWasTrue

-----------------------------------------------------------------------------
(* The five things a step may do to table and cache together.              *)

Inserts(id, row) ==
    /\ id \notin Stored /\ Holders(row.sub) = {}
    /\ row.status = "active" /\ row.config = DefaultConfig
    /\ apps' = [apps EXCEPT ![id] = row]
    /\ UNCHANGED cache

Rewrites(id, row) ==
    /\ id \in Stored /\ row.sub = apps[id].sub /\ row.owner = apps[id].owner
    /\ apps' = [apps EXCEPT ![id] = row]
    /\ UNCHANGED cache

Drops(s) ==
    /\ cache' = [cache EXCEPT ![s] = Miss]
    /\ UNCHANGED apps

Fills(k) ==
    /\ look[k].pc = "fill"
    /\ cache' = [cache EXCEPT ![look[k].sub] = look[k].found]
    /\ UNCHANGED apps

Writes ==
    \/ UNCHANGED <<apps, cache>>
    \/ \E id \in AppId, row \in Row : Inserts(id, row)
    \/ \E id \in AppId, row \in Row : Rewrites(id, row)
    \/ \E s \in Subdomain : Drops(s)
    \/ \E k \in Lookup : Fills(k)

LEMMA HandlerWrites ==
    ASSUME IInv, NEW r \in Request, HandlerStep(r)
    PROVE  Writes
<1>1. CASE InsertApp(r)
  <2>1. call[r] \in [pc: {"check_limit", "insert"}, user: User,
                     sub: Subdomain, plan: PlanChoice]
    BY <1>1, CallShape DEF InsertApp, IInv
  <2>2. /\ NewRow(call[r]) \in Row /\ NewRow(call[r]).sub = call[r].sub
        /\ NewRow(call[r]).status = "active" /\ NewRow(call[r]).config = DefaultConfig
    BY <2>1, ConfigAssumption DEF NewRow, Row, Status
  <2>3. ASSUME NEW id \in AppId \ Stored, Holders(call[r].sub) = {},
               apps' = [apps EXCEPT ![id] = NewRow(call[r])]
        PROVE  Inserts(id, NewRow(call[r]))
    BY <1>1, <2>2, <2>3 DEF Inserts, InsertApp
  <2> QED
    BY <1>1, <2>2, <2>3 DEF InsertApp, Writes
<1>2. CASE CommitUpdate(r)
  <2> DEFINE c == call[r]
             row == WriteBack(apps[c.id], c.seen, c.want)
  <2>1. c \in [pc: {"commit_update"}, id: AppId, seen: Columns, want: Columns]
    BY <1>2, CallShape DEF CommitUpdate, IInv
  <2>2. c.id \in Stored /\ apps[c.id] \in Row
    BY <1>2, StoredRow DEF CallsTargetRows, CommitUpdate, IInv
  <2>3. row \in Row /\ row.sub = apps[c.id].sub
    BY <2>1, <2>2, WriteBackRow
  <2>4. row.owner = apps[c.id].owner
    BY <2>2 DEF WriteBack, Row
  <2>5. Rewrites(c.id, row)
    BY <1>2, <2>2, <2>3, <2>4 DEF Rewrites, CommitUpdate
  <2> QED
    BY <2>1, <2>3, <2>5 DEF Writes
<1>3. CASE CommitDelete(r)
  <2> DEFINE c == call[r]
             row == [apps[c.id] EXCEPT !.status = "deleted"]
  <2>1. c \in [pc: {"commit_delete"}, id: AppId]
    BY <1>3, CallShape DEF CommitDelete, IInv
  <2>2. c.id \in Stored /\ apps[c.id] \in Row
    BY <1>3, StoredRow DEF CallsTargetRows, CommitDelete, IInv
  <2>3. row \in Row /\ row.sub = apps[c.id].sub /\ row.owner = apps[c.id].owner
    BY <2>2 DEF Row, Status
  <2>4. Rewrites(c.id, row)
    BY <1>3, <2>2, <2>3 DEF Rewrites, CommitDelete
  <2> QED
    BY <2>1, <2>3, <2>4 DEF Writes
<1>4. CASE InvalidateCache(r)
  <2>1. call[r].sub \in Subdomain
    BY <1>4, CallShape DEF InvalidateCache, IInv
  <2> QED
    BY <1>4, <2>1 DEF InvalidateCache, Drops, Writes
<1>5. CASE UNCHANGED <<apps, cache>>
  BY <1>5 DEF Writes
<1> QED
  BY <1>1, <1>2, <1>3, <1>4, <1>5 DEF HandlerStep, BeginCreate, Begin, CheckAppLimit,
     BeginUpdate, BeginDelete, AbortCall

LEMMA StepWrites ==
    ASSUME IInv, [Next]_vars
    PROVE  Writes
<1>1. CASE \E r \in Request : HandlerStep(r)
  BY <1>1, HandlerWrites
<1>2. ASSUME NEW k \in Lookup, LookupStep(k)
      PROVE  Writes
  BY <1>2 DEF LookupStep, MissCache, QueryApp, FillCache, AbortLookup, Fills, Writes
<1>3. ASSUME NEW s \in Subdomain, ExpireEntry(s)
      PROVE  Writes
  BY <1>3 DEF ExpireEntry, Drops, Writes
<1>4. CASE UNCHANGED vars
  BY <1>4 DEF vars, Writes
<1> QED
  BY <1>1, <1>2, <1>3, <1>4 DEF Next

-----------------------------------------------------------------------------
(* The history.                                                            *)

LEMMA PastGrows ==
    ASSUME RecordPast, NEW id \in AppId
    PROVE  past[id] \subseteq past'[id]
BY DEF RecordPast

LEMMA HInit == HistoryInit => HInv
<1> SUFFICES ASSUME HistoryInit PROVE HInv
  OBVIOUS
<1>1. IInv /\ Stored = {}
  BY InvInit DEF HistoryInit, Init, Stored
<1>2. CachedWasTrue
  BY SentinelAssumption DEF HistoryInit, Init, CachedWasTrue
<1>3. FoundWasTrue
  BY DEF HistoryInit, Init, FoundWasTrue, IdleLookup
<1> QED
  BY <1>1, <1>2, <1>3 DEF HistoryInit, HInv, PastBegins, PastHasNow

(* A step that leaves the table alone records nothing new.                 *)
LEMMA PastKeeps ==
    ASSUME HInv, RecordPast, UNCHANGED apps, NEW id \in AppId
    PROVE  past'[id] = past[id]
BY DEF HInv, PastHasNow, RecordPast, Stored, ColumnsOf

LEMMA BeginsNext ==
    ASSUME HInv, RecordPast, RowsStay
    PROVE  PastBegins' /\ PastHasNow'
<1>1. \A id \in AppId : past'[id] = past[id] \cup IF id \in Stored' THEN {ColumnsOf(id)'} ELSE {}
  BY DEF RecordPast
<1>2. ASSUME NEW id \in AppId, id \notin Stored'
      PROVE  past'[id] = {}
  BY <1>1, <1>2 DEF HInv, PastBegins, RowsStay
<1>3. ASSUME NEW id \in AppId, id \in Stored'
      PROVE  ColumnsOf(id)' \in past'[id]
  BY <1>1, <1>3
<1>4. Stored' \subseteq AppId
  BY DEF Stored
<1> QED
  BY <1>2, <1>3, <1>4 DEF PastBegins, PastHasNow

LEMMA CachedNext ==
    ASSUME HInv, RecordPast, Writes
    PROVE  CachedWasTrue'
<1> SUFFICES ASSUME NEW s \in Subdomain, cache'[s] \in Entry
             PROVE  FactOf(cache'[s]) \in past'[cache'[s].id]
  BY DEF CachedWasTrue, WasTrue, FactOf
<1>0. cache \in [Subdomain -> Entry \cup {Miss, NotFound}]
  BY DEF HInv, IInv, TypeOK
<1>1. cache'[s].id \in AppId
  BY DEF Entry
<1>2. CASE cache'[s] = cache[s]
  BY <1>1, <1>2, PastGrows DEF HInv, CachedWasTrue, WasTrue
<1>3. ASSUME NEW q \in Subdomain, Drops(q)
      PROVE  cache'[s] = cache[s]
  BY <1>0, <1>3, SentinelAssumption DEF Drops
<1>4. ASSUME NEW k \in Lookup, Fills(k), cache'[s] # cache[s]
      PROVE  FactOf(cache'[s]) \in past'[cache'[s].id]
  <2>1. cache'[s] = look[k].found /\ look[k].pc = "fill"
    BY <1>0, <1>4 DEF Fills
  <2>2. WasTrue(look[k].found)
    BY <2>1 DEF HInv, FoundWasTrue
  <2> QED
    BY <1>1, <2>1, <2>2, PastGrows DEF WasTrue
<1> QED
  BY <1>2, <1>3, <1>4 DEF Writes, Inserts, Rewrites

LEMMA FoundTrueNext ==
    ASSUME HInv, RecordPast, [Next]_vars
    PROVE  FoundWasTrue'
<1> SUFFICES ASSUME NEW k \in Lookup, look'[k].pc = "fill", look'[k].found \in Entry
             PROVE  FactOf(look'[k].found) \in past'[look'[k].found.id]
  BY DEF FoundWasTrue, WasTrue, FactOf
<1>0. look \in [Lookup -> Resolution]
  BY DEF HInv, IInv, TypeOK
<1>1. look'[k].found.id \in AppId
  BY DEF Entry
<1>2. CASE look'[k] = look[k]
  BY <1>1, <1>2, PastGrows DEF HInv, FoundWasTrue, WasTrue
<1>3. ASSUME NEW l \in Lookup, QueryApp(l), look'[k] # look[k]
      PROVE  FactOf(look'[k].found) \in past'[look'[k].found.id]
  <2>1. PICK f \in Answers(look[l].sub) :
            look' = [look EXCEPT ![l] = [pc |-> "fill", sub |-> look[l].sub, found |-> f]]
    BY <1>3 DEF QueryApp
  <2>2. look'[k].found = f
    BY <1>0, <1>3, <2>1
  <2>3. PICK id \in Holders(look[l].sub) : f = EntryOf(id)
    BY <2>1, <2>2, SentinelAssumption DEF Answers
  <2>4. id \in Stored /\ id \in AppId
    BY <2>3 DEF Holders, Stored
  <2>5. FactOf(f) = ColumnsOf(id) /\ f.id = id
    BY <2>3 DEF FactOf, EntryOf, ColumnsOf
  <2> QED
    BY <2>2, <2>4, <2>5, PastGrows DEF HInv, PastHasNow
<1>4. CASE \E l \in Lookup : LookupStep(l)
  BY <1>0, <1>2, <1>3, <1>4 DEF LookupStep, MissCache, FillCache, AbortLookup, IdleLookup
<1>5. CASE UNCHANGED look
  BY <1>2, <1>5
<1> QED
  BY <1>4, <1>5 DEF Next, vars, ExpireEntry, HandlerStep, BeginCreate, Begin, CheckAppLimit,
     InsertApp, BeginUpdate, CommitUpdate, BeginDelete, CommitDelete, InvalidateCache, AbortCall

LEMMA HNext == HInv /\ [HistoryNext]_historyVars => HInv'
<1> SUFFICES ASSUME HInv, [HistoryNext]_historyVars PROVE HInv'
  OBVIOUS
<1>1. IInv /\ [Next]_vars
  BY DEF HInv, HistoryNext, historyVars, vars
<1>2. IInv' /\ RowsStay /\ Writes
  BY <1>1, InvNext, TypeNext, StepWrites DEF IInv
<1>3. CASE UNCHANGED historyVars
  BY <1>2, <1>3 DEF historyVars, HInv, PastBegins, PastHasNow, CachedWasTrue, FoundWasTrue,
     WasTrue, FactOf, Stored, ColumnsOf
<1>4. CASE HistoryNext
  BY <1>1, <1>2, <1>4, BeginsNext, CachedNext, FoundTrueNext DEF HistoryNext, HInv
<1> QED
  BY <1>3, <1>4

-----------------------------------------------------------------------------
(* Each of the five is a step of the registry, or none.                    *)

LEMMA FactsAreColumns ==
    ASSUME TypeOK, NEW id \in Stored
    PROVE  ColumnsOf(id) \in Columns
BY StoredRow DEF ColumnsOf, Columns, Row

(* What is left alone maps to what is left alone.                          *)
LEMMA SitesStay ==
    ASSUME HInv, RecordPast, UNCHANGED apps
    PROVE  UNCHANGED Sites
<1>1. Stored' = Stored /\ Stored \subseteq AppId
  BY DEF Stored
<1>2. \A id \in Stored : SiteOf(id)' = SiteOf(id)
  BY <1>1, PastKeeps DEF SiteOf, ColumnsOf
<1> QED
  BY <1>1, <1>2 DEF Sites

LEMMA ToldStays ==
    ASSUME UNCHANGED cache
    PROVE  UNCHANGED Told
BY DEF Told

LEMMA InsertOpens ==
    ASSUME HInv, HInv', RecordPast, NEW id \in AppId, NEW row \in Row, Inserts(id, row)
    PROVE  Registry!Open(row.sub, id)
<1> DEFINE f == [status |-> "active", config |-> DefaultConfig]
           site == Registry!NewSite(row.sub, id, row.owner)
<1>0. apps \in [AppId -> Row \cup {NoRow}]
  BY DEF HInv, IInv, TypeOK
<1>1. \A x \in Sites : x.name # row.sub /\ x.id # id
  BY DEF Sites, SiteOf, Inserts, Holders
<1>2. apps'[id] = row /\ \A j \in AppId : j # id => apps'[j] = apps[j]
  BY <1>0 DEF Inserts
<1>3. Stored' = Stored \cup {id} /\ Stored \subseteq AppId
  BY <1>2, SentinelAssumption DEF Stored
<1>4. \A j \in Stored : SiteOf(j)' = SiteOf(j)
  <2> SUFFICES ASSUME NEW j \in Stored PROVE SiteOf(j)' = SiteOf(j)
    OBVIOUS
  <2>1. apps'[j] = apps[j] /\ j \in AppId
    BY <1>2, <1>3 DEF Inserts
  <2>2. past'[j] = past[j]
    BY <2>1, <1>3 DEF HInv, PastHasNow, RecordPast, ColumnsOf
  <2> QED
    BY <2>1, <2>2 DEF SiteOf, ColumnsOf
<1>5. SiteOf(id)' = site
  <2>1. past'[id] = {f}
    BY <1>2, <1>3 DEF HInv, PastBegins, RecordPast, ColumnsOf, Inserts
  <2> QED
    BY <1>2, <2>1 DEF SiteOf, ColumnsOf, Registry!NewSite, Inserts
<1>6. Sites' = Sites \cup {site}
  BY <1>3, <1>4, <1>5 DEF Sites
<1>7. row.owner \in User
  BY DEF Row
<1> QED
  BY <1>1, <1>6, <1>7, ToldStays DEF Registry!Open, Inserts

LEMMA RewriteChanges ==
    ASSUME HInv, RecordPast, NEW id \in AppId, NEW row \in Row, Rewrites(id, row)
    PROVE  \E x \in Sites, f \in Columns : Registry!Change(x, f)
<1> DEFINE f == [status |-> row.status, config |-> row.config]
           x == SiteOf(id)
<1>0. apps \in [AppId -> Row \cup {NoRow}]
  BY DEF HInv, IInv, TypeOK
<1>1. apps'[id] = row /\ \A j \in AppId : j # id => apps'[j] = apps[j]
  BY <1>0 DEF Rewrites
<1>2. Stored' = Stored /\ Stored \subseteq AppId /\ id \in Stored
  BY <1>1, SentinelAssumption DEF Stored, Rewrites
<1>3. ASSUME NEW j \in Stored, j # id
      PROVE  SiteOf(j)' = SiteOf(j)
  <2>1. apps'[j] = apps[j]
    BY <1>1, <1>2, <1>3
  <2>2. past'[j] = past[j]
    BY <2>1, <1>2 DEF HInv, PastHasNow, RecordPast, ColumnsOf
  <2> QED
    BY <2>1, <2>2 DEF SiteOf, ColumnsOf
<1>4. SiteOf(id)' = Registry!Changed(x, f)
  <2>1. past'[id] = past[id] \cup {f}
    BY <1>1, <1>2 DEF RecordPast, ColumnsOf
  <2>2. SiteOf(id)' = [name |-> apps[id].sub, id |-> id, owner |-> apps[id].owner,
                       now |-> f, past |-> past[id] \cup {f}]
    BY <1>1, <2>1 DEF SiteOf, ColumnsOf, Rewrites
  <2>3. Registry!Changed(x, f) = [name |-> apps[id].sub, id |-> id, owner |-> apps[id].owner,
                                  now |-> f, past |-> past[id] \cup {f}]
    BY DEF SiteOf, Registry!Changed
  <2> QED
    BY <2>2, <2>3
<1>5. \A j \in Stored : SiteOf(j).id = j
  BY DEF SiteOf
<1>6. Sites' = (Sites \ {x}) \cup {Registry!Changed(x, f)}
  BY <1>2, <1>3, <1>4, <1>5 DEF Sites
<1>7. x \in Sites /\ f \in Columns
  BY <1>2 DEF Sites, Row, Columns
<1> QED
  BY <1>6, <1>7, ToldStays DEF Registry!Change, Rewrites

LEMMA DropForgets ==
    ASSUME HInv, RecordPast, NEW s \in Subdomain, Drops(s)
    PROVE  Registry!Forget(s)
<1>1. cache \in [Subdomain -> Entry \cup {Miss, NotFound}]
  BY DEF HInv, IInv, TypeOK
<1>2. Told' = [Told EXCEPT ![s] = Miss]
  BY <1>1 DEF Drops, Told
<1> QED
  BY <1>2, SitesStay DEF Registry!Forget, Drops

LEMMA FillTells ==
    ASSUME HInv, RecordPast, NEW k \in Lookup, Fills(k)
    PROVE  Registry!Next
<1> DEFINE s == look[k].sub
           e == look[k].found
<1>1. cache \in [Subdomain -> Entry \cup {Miss, NotFound}]
  BY DEF HInv, IInv, TypeOK
<1>2. s \in Subdomain /\ e \in Entry \cup {NotFound}
  BY LookShape DEF HInv, IInv, Fills
<1>3. UNCHANGED Sites
  BY SitesStay DEF Fills
<1>4. CASE e = NotFound
  <2>1. Told' = [Told EXCEPT ![s] = NotFound]
    BY <1>1, <1>2, <1>4 DEF Fills, Told
  <2> QED
    BY <1>2, <1>3, <2>1 DEF Registry!TellNobody, Registry!Next
<1>5. CASE e \in Entry
  <2>1. IsHolder(e.id, s) /\ WasTrue(e)
    BY <1>5 DEF Fills, HInv, IInv, FoundNamesHolder, FoundWasTrue
  <2>2. SiteOf(e.id) \in Sites /\ SiteOf(e.id).name = s /\ SiteOf(e.id).id = e.id
        /\ FactOf(e) \in SiteOf(e.id).past
    BY <2>1 DEF IsHolder, Sites, SiteOf, WasTrue
  <2>3. Told' = [Told EXCEPT ![s] = [id |-> e.id, fact |-> FactOf(e)]]
    BY <1>1, <1>2, <1>5, SentinelAssumption DEF Fills, Told, FactOf
  <2>4. Registry!Tell(SiteOf(e.id), FactOf(e))
    BY <1>3, <2>2, <2>3 DEF Registry!Tell
  <2> QED
    BY <2>2, <2>4 DEF Registry!Next
<1> QED
  BY <1>2, <1>4, <1>5

LEMMA InitMaps == HistoryInit => Registry!Init
BY DEF HistoryInit, Init, Registry!Init, Sites, Stored, Told

LEMMA StepMaps ==
    HInv /\ HInv' /\ [HistoryNext]_historyVars => [Registry!Next]_Registry!vars
<1> SUFFICES ASSUME HInv, HInv', [HistoryNext]_historyVars
             PROVE  [Registry!Next]_Registry!vars
  OBVIOUS
<1>1. CASE UNCHANGED historyVars
  BY <1>1 DEF historyVars, Registry!vars, Sites, SiteOf, Stored, ColumnsOf, Told
<1>2. CASE HistoryNext
  <2>1. RecordPast /\ Writes
    BY <1>2, StepWrites DEF HistoryNext, HInv
  <2>2. CASE UNCHANGED <<apps, cache>>
    BY <2>1, <2>2, SitesStay, ToldStays DEF Registry!vars
  <2>3. ASSUME NEW id \in AppId, NEW row \in Row, Inserts(id, row)
        PROVE  Registry!Next
    <3>1. row.sub \in Subdomain
      BY DEF Row
    <3> QED
      BY <2>1, <2>3, <3>1, InsertOpens DEF Registry!Next
  <2>4. ASSUME NEW id \in AppId, NEW row \in Row, Rewrites(id, row)
        PROVE  Registry!Next
    BY <2>1, <2>4, RewriteChanges DEF Registry!Next
  <2>5. ASSUME NEW s \in Subdomain, Drops(s)
        PROVE  Registry!Next
    BY <2>1, <2>5, DropForgets DEF Registry!Next
  <2>6. ASSUME NEW k \in Lookup, Fills(k)
        PROVE  Registry!Next
    BY <2>1, <2>6, FillTells
  <2> QED
    BY <2>1, <2>2, <2>3, <2>4, <2>5, <2>6 DEF Writes
<1> QED
  BY <1>1, <1>2

-----------------------------------------------------------------------------
(* Whatever races, gets lost or dies, the handlers, the table and the      *)
(* cache behave as the registry of names does: create_app opens a site     *)
(* once and for all, the commits of update_app and delete_app change its   *)
(* facts, and Redis says of a name only what was once committed for the    *)
(* app that holds it.                                                      *)
THEOREM Implementation == HistorySpec => ImplementsRegistry
<1>1. HistorySpec => []HInv
  BY HInit, HNext, PTL DEF HistorySpec
<1> QED
  BY <1>1, InitMaps, StepMaps, PTL DEF HistorySpec, ImplementsRegistry, Registry!Spec

-----------------------------------------------------------------------------
(* Freshness: a name whose entry is out of date, without a cause on record *)
(* for it, is about to be invalidated.                                     *)

Pending(s) == \E r \in Request : call[r].pc = "invalidate" /\ call[r].sub = s

Excused == \A s \in Subdomain : Agrees(s) \/ s \in unsure \/ Pending(s)

(* In the next state, for names read from that state.                      *)
PendingAfter(s) == \E r \in Request : call'[r].pc = "invalidate" /\ call'[r].sub = s

LEMMA ExcusedInit == HistoryInit => Excused
BY DEF HistoryInit, Init, Excused, Agrees

(* A commit that changes the answer for a name leaves its handler with the *)
(* name's entry to remove.                                                 *)
LEMMA AnswerStays ==
    ASSUME IInv, [Next]_vars, NEW s \in Subdomain, ~PendingAfter(s)
    PROVE  Answers(s)' = Answers(s)
<1>0. apps \in [AppId -> Row \cup {NoRow}] /\ call \in [Request -> Call]
  BY DEF IInv, TypeOK
<1>1. CASE UNCHANGED apps
  BY <1>1 DEF Answers, Holders, Stored, EntryOf
<1>2. ASSUME NEW id \in AppId, \A j \in AppId : j # id => apps'[j] = apps[j],
             id \in Stored' => apps'[id].sub # s, id \in Stored => apps[id].sub # s
      PROVE  Answers(s)' = Answers(s)
  <2>1. Holders(s)' = Holders(s) /\ Holders(s) \subseteq AppId \ {id}
    BY <1>2 DEF Holders, Stored
  <2>2. \A j \in Holders(s) : EntryOf(j)' = EntryOf(j)
    BY <1>2, <2>1 DEF EntryOf
  <2> QED
    BY <2>1, <2>2 DEF Answers
<1>3. ASSUME NEW r \in Request, InsertApp(r), apps' # apps
      PROVE  Answers(s)' = Answers(s)
  <2>1. PICK id \in AppId \ Stored : apps' = [apps EXCEPT ![id] = NewRow(call[r])]
    BY <1>3 DEF InsertApp
  <2>2. call'[r] = [pc |-> "invalidate", sub |-> call[r].sub]
    BY <1>0, <1>3 DEF InsertApp
  <2>3. call[r].sub # s
    BY <2>2 DEF PendingAfter
  <2>4. apps'[id].sub = call[r].sub
    BY <1>0, <2>1 DEF NewRow
  <2> QED
    BY <1>0, <1>2, <2>1, <2>3, <2>4
<1>4. ASSUME NEW r \in Request, CommitUpdate(r) \/ CommitDelete(r)
      PROVE  Answers(s)' = Answers(s)
  <2> DEFINE id == call[r].id
  <2>1. id \in Stored /\ id \in AppId
    BY <1>4 DEF IInv, CallsTargetRows, CommitUpdate, CommitDelete, Stored
  <2>2. call'[r] = [pc |-> "invalidate", sub |-> apps[id].sub]
    BY <1>0, <1>4 DEF CommitUpdate, CommitDelete
  <2>3. apps[id].sub # s
    BY <2>2 DEF PendingAfter
  <2>4. apps'[id].sub = apps[id].sub
    BY <2>1, TypeNext DEF IInv, RowsStay
  <2>5. \A j \in AppId : j # id => apps'[j] = apps[j]
    BY <1>0, <1>4 DEF CommitUpdate, CommitDelete
  <2> QED
    BY <1>2, <2>1, <2>3, <2>4, <2>5
<1> QED
  BY <1>1, <1>3, <1>4 DEF Next, vars, HandlerStep, BeginCreate, Begin, CheckAppLimit, BeginUpdate,
     BeginDelete, InvalidateCache, AbortCall, LookupStep, MissCache, QueryApp, FillCache,
     AbortLookup, ExpireEntry

(* An entry is written by a resolution only, and then its lookup is over.  *)
LEMMA EntryWritten ==
    ASSUME IInv, Next, NEW s \in Subdomain, cache'[s] # cache[s], cache'[s] # Miss
    PROVE  \E k \in Lookup :
               /\ look[k].pc = "fill" /\ look[k].sub = s
               /\ cache'[s] = look[k].found /\ look'[k] # look[k]
<1>0. cache \in [Subdomain -> Entry \cup {Miss, NotFound}] /\ look \in [Lookup -> Resolution]
  BY DEF IInv, TypeOK
<1>1. CASE \E r \in Request : HandlerStep(r)
  BY <1>0, <1>1 DEF HandlerStep, BeginCreate, Begin, CheckAppLimit, InsertApp, BeginUpdate,
     CommitUpdate, BeginDelete, CommitDelete, InvalidateCache, AbortCall
<1>2. CASE \E q \in Subdomain : ExpireEntry(q)
  BY <1>0, <1>2 DEF ExpireEntry
<1>3. ASSUME NEW k \in Lookup, LookupStep(k)
      PROVE  FillCache(k)
  BY <1>3 DEF LookupStep, MissCache, QueryApp, AbortLookup
<1>4. ASSUME NEW k \in Lookup, FillCache(k)
      PROVE  /\ look[k].pc = "fill" /\ look[k].sub = s
             /\ cache'[s] = look[k].found /\ look'[k] # look[k]
  BY <1>0, <1>4 DEF FillCache, IdleLookup
<1> QED
  BY <1>1, <1>2, <1>3, <1>4 DEF Next

LEMMA ExcusedNext ==
    ASSUME HInv, Excused, [HistoryNext]_historyVars
    PROVE  Excused'
<1>1. CASE UNCHANGED historyVars
  BY <1>1 DEF historyVars, Excused, Agrees, Answers, Holders, Stored, EntryOf, Pending
<1>2. CASE HistoryNext
  <2> SUFFICES ASSUME NEW s \in Subdomain, cache'[s] # Miss, cache'[s] \notin Answers(s)',
                      ~PendingAfter(s)
               PROVE  s \in unsure'
    BY DEF Excused, Agrees, Pending, PendingAfter
  <2>1. IInv /\ Next /\ [Next]_vars
    BY <1>2 DEF HInv, HistoryNext
  <2>2. cache'[s] \notin Answers(s)
    BY <2>1, AnswerStays
  <2>3. s \in unsure \/ Outlived(s) \/ Overtaken(s) => s \in unsure'
    BY <1>2 DEF HistoryNext, RecordDoubt
  <2>4. CASE Pending(s)
    BY <2>3, <2>4 DEF Pending, PendingAfter, Outlived
  <2>5. CASE Agrees(s)
    <3>1. cache'[s] # cache[s]
      BY <2>2, <2>5 DEF Agrees
    <3>2. PICK k \in Lookup : /\ look[k].pc = "fill" /\ look[k].sub = s
                              /\ cache'[s] = look[k].found /\ look'[k] # look[k]
      BY <2>1, <3>1, EntryWritten
    <3> QED
      BY <2>2, <2>3, <3>2 DEF Overtaken
  <2> QED
    BY <2>3, <2>4, <2>5 DEF Excused
<1> QED
  BY <1>1, <1>2

(* When no handler is under way, what Redis holds under a name is what the *)
(* table says, unless the last invalidation was lost or a resolution was   *)
(* overtaken by a commit between its query and its fill.                   *)
THEOREM Freshness == HistorySpec => []StaleOnlyByRace
<1>1. HistoryInit => HInv /\ Excused
  BY HInit, ExcusedInit
<1>2. HInv /\ Excused /\ [HistoryNext]_historyVars => (HInv /\ Excused)'
  BY HNext, ExcusedNext
<1>3. Excused => StaleOnlyByRace
  BY DEF Excused, StaleOnlyByRace, AllCallsIdle, Pending, IdleCall
<1> QED
  BY <1>1, <1>2, <1>3, PTL DEF HistorySpec

=============================================================================

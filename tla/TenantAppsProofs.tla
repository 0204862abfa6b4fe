--------------------------- MODULE TenantAppsProofs ---------------------------
(***************************************************************************)
(* Type correctness and TenantIsolation of TenantApps, for every set of    *)
(* users, ids, names, handlers and resolutions, with and without faults.   *)
(*                                                                         *)
(* TenantIsolation is not inductive: an entry stays the holder's own only  *)
(* because rows are never removed nor renamed, and a commit writes to a    *)
(* row only because its target had one when it was loaded.                 *)
(***************************************************************************)
EXTENDS TenantApps, FiniteSetTheorems, TLAPS

CallsTargetRows ==
    \A r \in Request :
        call[r].pc \in {"commit_update", "commit_delete"} => call[r].id \in Stored

OneRowPerName == \A i, j \in Stored : apps[i].sub = apps[j].sub => i = j

IsHolder(id, s) == id \in Stored /\ apps[id].sub = s

(* The same in the next state, for ids that are read from that state.      *)
HolderAfter(id, s) == id \in Stored' /\ apps'[id].sub = s

CacheNamesHolder == \A s \in Subdomain : cache[s] \in Entry => IsHolder(cache[s].id, s)

FoundNamesHolder ==
    \A k \in Lookup :
        look[k].pc = "fill" /\ look[k].found \in Entry
            => IsHolder(look[k].found.id, look[k].sub)

IInv ==
    /\ TypeOK
    /\ CallsTargetRows
    /\ OneRowPerName
    /\ CacheNamesHolder
    /\ FoundNamesHolder

(* What no step does to the table: take a row away or rename it.           *)
RowsStay == \A id \in Stored : id \in Stored' /\ apps'[id].sub = apps[id].sub

-----------------------------------------------------------------------------
(* The shapes of a record with a given program counter.                    *)

LEMMA CallShape ==
    ASSUME TypeOK, NEW r \in Request
    PROVE  /\ call[r] \in Call
           /\ call[r].pc \in {"check_limit", "insert"} =>
                call[r] \in [pc: {"check_limit", "insert"}, user: User,
                             sub: Subdomain, plan: PlanChoice]
           /\ call[r].pc = "commit_update" =>
                call[r] \in [pc: {"commit_update"}, id: AppId, seen: Columns, want: Columns]
           /\ call[r].pc = "commit_delete" => call[r] \in [pc: {"commit_delete"}, id: AppId]
           /\ call[r].pc = "invalidate" => call[r] \in [pc: {"invalidate"}, sub: Subdomain]
BY DEF TypeOK, Call, IdleCall

LEMMA LookShape ==
    ASSUME TypeOK, NEW k \in Lookup
    PROVE  /\ look[k].pc = "query" => look[k] \in [pc: {"query"}, sub: Subdomain]
           /\ look[k].pc = "fill" =>
                look[k] \in [pc: {"fill"}, sub: Subdomain, found: Entry \cup {NotFound}]
BY DEF TypeOK, Resolution, IdleLookup

LEMMA StoredRow ==
    ASSUME TypeOK, NEW id \in Stored
    PROVE  id \in AppId /\ apps[id] \in Row
BY DEF TypeOK, Stored

(* What the resolver's query returns.                                      *)
LEMMA AnswerType ==
    ASSUME TypeOK, NEW s \in Subdomain, NEW f \in Answers(s)
    PROVE  /\ f \in Entry \cup {NotFound}
           /\ f \in Entry => IsHolder(f.id, s)
<1>1. CASE Holders(s) = {}
  BY <1>1, SentinelAssumption DEF Answers
<1>2. CASE Holders(s) # {}
  <2>1. PICK id \in Holders(s) : f = EntryOf(id)
    BY <1>2 DEF Answers
  <2>2. id \in Stored /\ apps[id].sub = s
    BY DEF Holders
  <2>3. id \in AppId /\ apps[id] \in Row
    BY <2>2, StoredRow
  <2> QED
    BY <2>1, <2>2, <2>3 DEF EntryOf, Entry, Row, IsHolder
<1> QED
  BY <1>1, <1>2

(* A row written back from loaded columns is a row of the same name.       *)
LEMMA WriteBackRow ==
    ASSUME NEW row \in Row, NEW seen \in Columns, NEW want \in Columns
    PROVE  /\ WriteBack(row, seen, want) \in Row
           /\ WriteBack(row, seen, want).sub = row.sub
BY DEF WriteBack, Row, Columns

-----------------------------------------------------------------------------
(* Each step keeps the types and the rows.                                 *)

LEMMA TypeInit == Init => TypeOK
BY DEF Init, TypeOK, Call, IdleCall, Resolution, IdleLookup

LEMMA TypeHandlerStep ==
    ASSUME TypeOK, CallsTargetRows, NEW r \in Request, HandlerStep(r)
    PROVE  TypeOK' /\ RowsStay
<1>a. call[r] \in Call
  BY CallShape
<1> DEFINE IsCall(c) == call' = [call EXCEPT ![r] = c] /\ c \in Call
<1>b. ASSUME NEW c \in Call, call' = [call EXCEPT ![r] = c]
      PROVE  call' \in [Request -> Call]
  BY <1>b DEF TypeOK
<1>c. apps' = apps => RowsStay
  BY DEF RowsStay, Stored
<1>1. ASSUME NEW u \in User, NEW s \in Subdomain, NEW p \in PlanChoice,
             BeginCreate(r, u, s, p)
      PROVE  TypeOK' /\ RowsStay
  <2>1. [pc |-> "check_limit", user |-> u, sub |-> s, plan |-> p] \in Call
    BY DEF Call
  <2> QED
    BY <1>1, <1>b, <1>c, <2>1 DEF BeginCreate, Begin, TypeOK
<1>2. CASE CheckAppLimit(r)
  <2> DEFINE c == IF LimitAllows(call[r].user, call[r].plan)
                  THEN [call[r] EXCEPT !.pc = "insert"] ELSE IdleCall
  <2>1. call[r] \in [pc: {"check_limit", "insert"}, user: User,
                     sub: Subdomain, plan: PlanChoice]
    BY <1>2, CallShape DEF CheckAppLimit
  <2>2. [call[r] EXCEPT !.pc = "insert"] \in Call /\ IdleCall \in Call
    BY <2>1 DEF Call
  <2>3. c \in Call
    BY <2>2
  <2>4. call' = [call EXCEPT ![r] = c]
    BY <1>2 DEF CheckAppLimit
  <2> QED
    BY <1>2, <1>b, <1>c, <2>3, <2>4 DEF CheckAppLimit, TypeOK
<1>3. CASE InsertApp(r)
  <2>1. call[r] \in [pc: {"check_limit", "insert"}, user: User,
                     sub: Subdomain, plan: PlanChoice]
    BY <1>3, CallShape DEF InsertApp
  <2>2. NewRow(call[r]) \in Row
    BY <2>1, ConfigAssumption DEF NewRow, Row, Status
  <2>3. IdleCall \in Call /\ [pc |-> "invalidate", sub |-> call[r].sub] \in Call
    BY <2>1 DEF Call
  <2>4. call' \in [Request -> Call]
    BY <1>3, <1>b, <2>3 DEF InsertApp
  <2>5. CASE UNCHANGED apps
    BY <1>3, <1>c, <2>4, <2>5 DEF InsertApp, TypeOK
  <2>6. ASSUME NEW id \in AppId \ Stored, apps' = [apps EXCEPT ![id] = NewRow(call[r])]
        PROVE  TypeOK' /\ RowsStay
    <3>1. RowsStay
      BY <2>6, <2>2, SentinelAssumption DEF RowsStay, Stored, TypeOK
    <3> QED
      BY <1>3, <2>2, <2>4, <2>6, <3>1 DEF InsertApp, TypeOK
  <2> QED
    BY <1>3, <2>5, <2>6 DEF InsertApp
<1>4. ASSUME NEW u \in User, NEW id \in AppId, NEW st \in PatchStatus \cup {Keep},
             NEW cf \in Config \cup {Keep}, BeginUpdate(r, u, id, st, cf)
      PROVE  TypeOK' /\ RowsStay
  <2>1. apps[id] \in Row
    BY <1>4, StoredRow DEF BeginUpdate, CanLoad
  <2>2. ColumnsOf(id) \in Columns
    BY <2>1 DEF ColumnsOf, Columns, Row
  <2>3. Patched(ColumnsOf(id), st, cf) \in Columns
    BY <2>2, PatchAssumption DEF Patched, Columns
  <2>4. [pc |-> "commit_update", id |-> id, seen |-> ColumnsOf(id),
         want |-> Patched(ColumnsOf(id), st, cf)] \in Call
    BY <2>2, <2>3 DEF Call
  <2> QED
    BY <1>4, <1>b, <1>c, <2>4 DEF BeginUpdate, Begin, TypeOK
<1>5. CASE CommitUpdate(r)
  <2> DEFINE c == call[r]
             row == WriteBack(apps[c.id], c.seen, c.want)
  <2>1. c \in [pc: {"commit_update"}, id: AppId, seen: Columns, want: Columns]
    BY <1>5, CallShape DEF CommitUpdate
  <2>2. c.id \in Stored
    BY <1>5 DEF CallsTargetRows, CommitUpdate
  <2>3. apps[c.id] \in Row
    BY <2>2, StoredRow
  <2>4. row \in Row /\ row.sub = apps[c.id].sub
    BY <2>1, <2>3, WriteBackRow
  <2>5. [pc |-> "invalidate", sub |-> apps[c.id].sub] \in Call
    BY <2>3 DEF Call, Row
  <2>6. apps' = [apps EXCEPT ![c.id] = row]
    BY <1>5 DEF CommitUpdate
  <2>7. call' = [call EXCEPT ![r] = [pc |-> "invalidate", sub |-> apps[c.id].sub]]
    BY <1>5 DEF CommitUpdate
  <2>8. call' \in [Request -> Call]
    BY <1>b, <2>5, <2>7
  <2>9. RowsStay
    BY <2>2, <2>4, <2>6, SentinelAssumption DEF RowsStay, Stored, TypeOK
  <2> QED
    BY <1>5, <2>1, <2>4, <2>6, <2>8, <2>9 DEF CommitUpdate, TypeOK
<1>6. ASSUME NEW u \in User, NEW id \in AppId, BeginDelete(r, u, id)
      PROVE  TypeOK' /\ RowsStay
  <2>1. [pc |-> "commit_delete", id |-> id] \in Call
    BY DEF Call
  <2> QED
    BY <1>6, <1>b, <1>c, <2>1 DEF BeginDelete, Begin, TypeOK
<1>7. CASE CommitDelete(r)
  <2> DEFINE c == call[r]
             row == [apps[c.id] EXCEPT !.status = "deleted"]
  <2>1. c \in [pc: {"commit_delete"}, id: AppId]
    BY <1>7, CallShape DEF CommitDelete
  <2>2. c.id \in Stored
    BY <1>7 DEF CallsTargetRows, CommitDelete
  <2>3. apps[c.id] \in Row
    BY <2>2, StoredRow
  <2>4. row \in Row /\ row.sub = apps[c.id].sub
    BY <2>3 DEF Row, Status
  <2>5. [pc |-> "invalidate", sub |-> apps[c.id].sub] \in Call
    BY <2>3 DEF Call, Row
  <2>6. apps' = [apps EXCEPT ![c.id] = row]
    BY <1>7 DEF CommitDelete
  <2>7. call' = [call EXCEPT ![r] = [pc |-> "invalidate", sub |-> apps[c.id].sub]]
    BY <1>7 DEF CommitDelete
  <2>8. call' \in [Request -> Call]
    BY <1>b, <2>5, <2>7
  <2>9. RowsStay
    BY <2>2, <2>4, <2>6, SentinelAssumption DEF RowsStay, Stored, TypeOK
  <2> QED
    BY <1>7, <2>1, <2>4, <2>6, <2>8, <2>9 DEF CommitDelete, TypeOK
<1>8. CASE InvalidateCache(r)
  <2>1. IdleCall \in Call
    BY DEF Call
  <2>2. call[r].sub \in Subdomain
    BY <1>8, CallShape DEF InvalidateCache
  <2>3. cache' \in [Subdomain -> Entry \cup {Miss, NotFound}]
    BY <1>8, <2>2 DEF InvalidateCache, TypeOK
  <2> QED
    BY <1>8, <1>b, <1>c, <2>1, <2>3 DEF InvalidateCache, TypeOK
<1>9. CASE AbortCall(r)
  <2>1. IdleCall \in Call
    BY DEF Call
  <2> QED
    BY <1>9, <1>b, <1>c, <2>1 DEF AbortCall, TypeOK
<1> QED
  BY <1>1, <1>2, <1>3, <1>4, <1>5, <1>6, <1>7, <1>8, <1>9 DEF HandlerStep

LEMMA TypeLookupStep ==
    ASSUME TypeOK, NEW k \in Lookup, LookupStep(k)
    PROVE  TypeOK' /\ RowsStay
<1>a. ASSUME NEW l \in Resolution, look' = [look EXCEPT ![k] = l]
      PROVE  look' \in [Lookup -> Resolution]
  BY <1>a DEF TypeOK
<1>b. RowsStay
  BY DEF LookupStep, MissCache, QueryApp, FillCache, AbortLookup, RowsStay, Stored
<1>c. IdleLookup \in Resolution
  BY DEF Resolution
<1>1. ASSUME NEW s \in Subdomain, MissCache(k, s)
      PROVE  TypeOK' /\ RowsStay
  <2>1. [pc |-> "query", sub |-> s] \in Resolution
    BY DEF Resolution
  <2> QED
    BY <1>1, <1>a, <1>b, <2>1 DEF MissCache, TypeOK
<1>2. CASE QueryApp(k)
  <2>1. look[k].sub \in Subdomain
    BY <1>2, LookShape DEF QueryApp
  <2>2. PICK f \in Answers(look[k].sub) :
            look' = [look EXCEPT ![k] = [pc |-> "fill", sub |-> look[k].sub, found |-> f]]
    BY <1>2 DEF QueryApp
  <2>3. [pc |-> "fill", sub |-> look[k].sub, found |-> f] \in Resolution
    BY <2>1, AnswerType DEF Resolution
  <2> QED
    BY <1>2, <1>a, <1>b, <2>2, <2>3 DEF QueryApp, TypeOK
<1>3. CASE FillCache(k)
  <2>1. look[k].sub \in Subdomain /\ look[k].found \in Entry \cup {NotFound}
    BY <1>3, LookShape DEF FillCache
  <2>2. cache' \in [Subdomain -> Entry \cup {Miss, NotFound}]
    BY <1>3, <2>1 DEF FillCache, TypeOK
  <2> QED
    BY <1>3, <1>a, <1>b, <1>c, <2>2 DEF FillCache, TypeOK
<1>4. CASE AbortLookup(k)
  BY <1>4, <1>a, <1>b, <1>c DEF AbortLookup, TypeOK
<1> QED
  BY <1>1, <1>2, <1>3, <1>4 DEF LookupStep

LEMMA TypeExpireEntry ==
    ASSUME TypeOK, NEW s \in Subdomain, ExpireEntry(s)
    PROVE  TypeOK' /\ RowsStay
BY DEF ExpireEntry, TypeOK, RowsStay, Stored

LEMMA TypeNext ==
    ASSUME TypeOK, CallsTargetRows, [Next]_vars
    PROVE  TypeOK' /\ RowsStay
<1>1. CASE UNCHANGED vars
  BY <1>1 DEF vars, TypeOK, RowsStay, Stored
<1>2. CASE \E r \in Request : HandlerStep(r)
  BY <1>2, TypeHandlerStep
<1>3. CASE \E k \in Lookup : LookupStep(k)
  BY <1>3, TypeLookupStep
<1>4. CASE \E s \in Subdomain : ExpireEntry(s)
  BY <1>4, TypeExpireEntry
<1> QED
  BY <1>1, <1>2, <1>3, <1>4 DEF Next

-----------------------------------------------------------------------------
(* The other conjuncts of IInv.                                            *)

LEMMA InvInit == Init => IInv
<1> SUFFICES ASSUME Init PROVE IInv
  OBVIOUS
<1>1. TypeOK
  BY TypeInit
<1>2. CallsTargetRows
  BY DEF Init, CallsTargetRows, IdleCall
<1>3. OneRowPerName
  BY DEF Init, OneRowPerName, Stored
<1>4. CacheNamesHolder
  BY SentinelAssumption DEF Init, CacheNamesHolder
<1>5. FoundNamesHolder
  BY DEF Init, FoundNamesHolder, IdleLookup
<1> QED
  BY <1>1, <1>2, <1>3, <1>4, <1>5 DEF IInv

(* A step that keeps the rows keeps every holder.                          *)
LEMMA HolderStays ==
    ASSUME RowsStay, NEW id, NEW s, IsHolder(id, s)
    PROVE  HolderAfter(id, s)
BY DEF RowsStay, IsHolder, HolderAfter

LEMMA TargetsNext ==
    ASSUME IInv, RowsStay, [Next]_vars
    PROVE  CallsTargetRows'
<1> SUFFICES ASSUME NEW r \in Request, call'[r].pc \in {"commit_update", "commit_delete"}
             PROVE  call'[r].id \in Stored'
  BY DEF CallsTargetRows
<1>1. CASE call'[r] = call[r]
  BY <1>1 DEF IInv, CallsTargetRows, RowsStay
<1>2. ASSUME NEW q \in Request, HandlerStep(q), call'[r] # call[r]
      PROVE  call'[r].id \in Stored'
  <2>1. call \in [Request -> Call]
    BY DEF IInv, TypeOK
  <2>2. q = r
    BY <1>2, <2>1 DEF HandlerStep, BeginCreate, Begin, CheckAppLimit, InsertApp, BeginUpdate,
       CommitUpdate, BeginDelete, CommitDelete, InvalidateCache, AbortCall
  <2>3. CASE CheckAppLimit(r) \/ InsertApp(r) \/ CommitUpdate(r) \/ CommitDelete(r)
             \/ InvalidateCache(r) \/ AbortCall(r)
             \/ \E u \in User, s \in Subdomain, p \in PlanChoice : BeginCreate(r, u, s, p)
    <3>1. call'[r].pc \notin {"commit_update", "commit_delete"}
      <4>1. CASE CheckAppLimit(r)
        <5>1. call[r] \in [pc: {"check_limit", "insert"}, user: User,
                           sub: Subdomain, plan: PlanChoice]
          BY <4>1, CallShape DEF CheckAppLimit, IInv
        <5>2. [call[r] EXCEPT !.pc = "insert"].pc = "insert" /\ IdleCall.pc = "idle"
          BY <5>1 DEF IdleCall
        <5>3. call'[r] = [call[r] EXCEPT !.pc = "insert"] \/ call'[r] = IdleCall
          BY <4>1, <2>1 DEF CheckAppLimit
        <5> QED
          BY <5>2, <5>3
      <4>2. CASE InsertApp(r) \/ CommitUpdate(r) \/ CommitDelete(r)
                 \/ InvalidateCache(r) \/ AbortCall(r)
        BY <4>2, <2>1 DEF InsertApp, CommitUpdate, CommitDelete, InvalidateCache,
           AbortCall, IdleCall
      <4>3. CASE \E u \in User, s \in Subdomain, p \in PlanChoice : BeginCreate(r, u, s, p)
        BY <4>3, <2>1 DEF BeginCreate, Begin
      <4> QED
        BY <2>3, <4>1, <4>2, <4>3
    <3> QED
      BY <3>1
  <2>4. ASSUME NEW u \in User, NEW id \in AppId, NEW st \in PatchStatus \cup {Keep},
               NEW cf \in Config \cup {Keep}, BeginUpdate(r, u, id, st, cf)
        PROVE  call'[r].id \in Stored'
    BY <2>4, <2>1 DEF BeginUpdate, Begin, CanLoad, Stored
  <2>5. ASSUME NEW u \in User, NEW id \in AppId, BeginDelete(r, u, id)
        PROVE  call'[r].id \in Stored'
    BY <2>5, <2>1 DEF BeginDelete, Begin, CanLoad, Stored
  <2> QED
    BY <1>2, <2>2, <2>3, <2>4, <2>5 DEF HandlerStep
<1>3. CASE \E q \in Request : HandlerStep(q)
  BY <1>1, <1>2, <1>3
<1>4. CASE (\E k \in Lookup : LookupStep(k)) \/ \E s \in Subdomain : ExpireEntry(s)
  BY <1>1, <1>4 DEF LookupStep, MissCache, QueryApp, FillCache, AbortLookup, ExpireEntry
<1> QED
  BY <1>1, <1>3, <1>4 DEF Next, vars

(* Only an insert adds a row, under a name that no row has.                *)
LEMMA OneRowNext ==
    ASSUME IInv, RowsStay, [Next]_vars
    PROVE  OneRowPerName'
<1>1. ASSUME Stored' \subseteq Stored
      PROVE  OneRowPerName'
  BY <1>1 DEF IInv, OneRowPerName, RowsStay
<1>2. ASSUME NEW r \in Request, NEW id \in AppId \ Stored, call[r].pc = "insert",
             Holders(call[r].sub) = {}, apps' = [apps EXCEPT ![id] = NewRow(call[r])]
      PROVE  OneRowPerName'
  <2>1. apps \in [AppId -> Row \cup {NoRow}]
    BY DEF IInv, TypeOK
  <2>2. apps'[id].sub = call[r].sub
    BY <1>2, <2>1 DEF NewRow
  <2>3. \A j \in Stored' : j # id => j \in Stored /\ apps'[j] = apps[j]
    BY <1>2, <2>1 DEF Stored
  <2>4. \A j \in Stored : apps[j].sub # call[r].sub
    BY <1>2 DEF Holders
  <2> QED
    BY <2>2, <2>3, <2>4 DEF IInv, OneRowPerName
<1>3. ASSUME NEW r \in Request, HandlerStep(r)
      PROVE  OneRowPerName'
  <2>1. CASE InsertApp(r)
    BY <2>1, <1>1, <1>2 DEF InsertApp, Stored
  <2>2. CASE CommitUpdate(r) \/ CommitDelete(r)
    <3>1. call[r].id \in Stored
      BY <2>2 DEF CommitUpdate, CommitDelete, IInv, CallsTargetRows
    <3>2. \A j \in AppId : j # call[r].id => apps'[j] = apps[j]
      BY <2>2 DEF CommitUpdate, CommitDelete, IInv, TypeOK
    <3> QED
      BY <1>1, <3>1, <3>2 DEF Stored
  <2>3. CASE UNCHANGED apps
    BY <2>3, <1>1 DEF Stored
  <2> QED
    BY <1>3, <2>1, <2>2, <2>3 DEF HandlerStep, BeginCreate, Begin, CheckAppLimit,
       BeginUpdate, BeginDelete, InvalidateCache, AbortCall
<1>4. CASE UNCHANGED apps
  BY <1>4, <1>1 DEF Stored
<1> QED
  BY <1>3, <1>4 DEF Next, vars, LookupStep, MissCache, QueryApp, FillCache, AbortLookup,
     ExpireEntry

(* Entries come from a lookup's answer, answers from the table.            *)
LEMMA CacheNext ==
    ASSUME IInv, RowsStay, [Next]_vars
    PROVE  CacheNamesHolder'
<1> SUFFICES ASSUME NEW s \in Subdomain, cache'[s] \in Entry
             PROVE  HolderAfter(cache'[s].id, s)
  BY DEF CacheNamesHolder, IsHolder, HolderAfter
<1>0. cache \in [Subdomain -> Entry \cup {Miss, NotFound}]
  BY DEF IInv, TypeOK
<1>1. CASE cache'[s] = cache[s]
  BY <1>1, HolderStays DEF IInv, CacheNamesHolder
<1>2. CASE \E r \in Request : HandlerStep(r)
  <2>1. cache'[s] = cache[s] \/ cache'[s] = Miss
    BY <1>2, <1>0 DEF HandlerStep, BeginCreate, Begin, CheckAppLimit, InsertApp, BeginUpdate,
       CommitUpdate, BeginDelete, CommitDelete, InvalidateCache, AbortCall
  <2> QED
    BY <2>1, <1>1, SentinelAssumption
<1>3. ASSUME NEW k \in Lookup, FillCache(k), cache'[s] # cache[s]
      PROVE  HolderAfter(cache'[s].id, s)
  <2>1. s = look[k].sub /\ cache'[s] = look[k].found /\ look[k].pc = "fill"
    BY <1>3, <1>0 DEF FillCache
  <2>2. IsHolder(look[k].found.id, s)
    BY <2>1 DEF IInv, FoundNamesHolder
  <2> QED
    BY <2>1, <2>2, HolderStays
<1>4. CASE \E k \in Lookup : LookupStep(k)
  BY <1>4, <1>1, <1>3 DEF LookupStep, MissCache, QueryApp, AbortLookup
<1>5. CASE \E q \in Subdomain : ExpireEntry(q)
  BY <1>5, <1>0, <1>1, SentinelAssumption DEF ExpireEntry
<1> QED
  BY <1>1, <1>2, <1>4, <1>5 DEF Next, vars

LEMMA FoundNext ==
    ASSUME IInv, RowsStay, [Next]_vars
    PROVE  FoundNamesHolder'
<1> SUFFICES ASSUME NEW k \in Lookup, look'[k].pc = "fill", look'[k].found \in Entry
             PROVE  HolderAfter(look'[k].found.id, look'[k].sub)
  BY DEF FoundNamesHolder, IsHolder, HolderAfter
<1>0. look \in [Lookup -> Resolution]
  BY DEF IInv, TypeOK
<1>1. CASE look'[k] = look[k]
  BY <1>1, HolderStays DEF IInv, FoundNamesHolder
<1>2. ASSUME NEW l \in Lookup, QueryApp(l), look'[k] # look[k]
      PROVE  HolderAfter(look'[k].found.id, look'[k].sub)
  <2>1. PICK f \in Answers(look[l].sub) :
            look' = [look EXCEPT ![l] = [pc |-> "fill", sub |-> look[l].sub, found |-> f]]
    BY <1>2 DEF QueryApp
  <2>2. l = k /\ look'[k].found = f /\ look'[k].sub = look[k].sub
    BY <1>0, <1>2, <2>1
  <2>3. look[k].sub \in Subdomain
    BY <1>2, <2>2, LookShape DEF QueryApp, IInv
  <2>4. IsHolder(f.id, look[k].sub)
    BY <2>1, <2>2, <2>3, AnswerType DEF IInv
  <2> QED
    BY <2>2, <2>4, HolderStays
<1>3. CASE \E l \in Lookup : LookupStep(l)
  BY <1>0, <1>1, <1>2, <1>3 DEF LookupStep, MissCache, FillCache, AbortLookup, IdleLookup
<1>4. CASE UNCHANGED look
  BY <1>1, <1>4
<1> QED
  BY <1>3, <1>4 DEF Next, vars, ExpireEntry, HandlerStep, BeginCreate, Begin, CheckAppLimit,
     InsertApp, BeginUpdate, CommitUpdate, BeginDelete, CommitDelete, InvalidateCache, AbortCall

LEMMA InvNext == IInv /\ [Next]_vars => IInv'
<1> SUFFICES ASSUME IInv, [Next]_vars PROVE IInv'
  OBVIOUS
<1>1. TypeOK' /\ RowsStay
  BY TypeNext DEF IInv
<1> QED
  BY <1>1, TargetsNext, OneRowNext, CacheNext, FoundNext DEF IInv

LEMMA InvIsolates == IInv => TenantIsolation
<1> SUFFICES ASSUME IInv PROVE TenantIsolation
  OBVIOUS
<1>1. ASSUME NEW id, NEW s, IsHolder(id, s)
      PROVE  Holders(s) = {id}
  BY <1>1 DEF IInv, OneRowPerName, Holders, IsHolder
<1>2. ASSUME NEW s \in Subdomain
      PROVE  Cardinality(Holders(s)) <= 1
  <2>1. CASE Holders(s) = {}
    BY <2>1, FS_EmptySet
  <2>2. ASSUME NEW id \in Holders(s)
        PROVE  Cardinality(Holders(s)) <= 1
    <3>1. Holders(s) = {id}
      BY <2>2, <1>1 DEF Holders, IsHolder
    <3> QED
      BY <3>1, FS_Singleton
  <2> QED
    BY <2>1, <2>2
<1>3. ASSUME NEW s \in Subdomain
      PROVE  Belongs(cache[s], s)
  BY <1>1 DEF IInv, CacheNamesHolder, Belongs
<1>4. ASSUME NEW k \in Lookup, look[k].pc = "fill"
      PROVE  Belongs(look[k].found, look[k].sub)
  BY <1>1, <1>4 DEF IInv, FoundNamesHolder, Belongs
<1> QED
  BY <1>2, <1>3, <1>4 DEF TenantIsolation

-----------------------------------------------------------------------------
(* How a deleted row changes.                                              *)

(* An update in flight has loaded a row that was not deleted then.         *)
UpdatesSawLive == \A r \in Request : call[r].pc = "commit_update" => call[r].seen.status # "deleted"

RevivedBy(r, id) ==
    /\ call[r].pc = "commit_update" /\ call[r].id = id
    /\ call[r].want.status # call[r].seen.status

LEMMA SawLiveInit == Init => UpdatesSawLive
BY DEF Init, UpdatesSawLive, IdleCall

LEMMA SawLiveNext ==
    ASSUME IInv, UpdatesSawLive, [Next]_vars
    PROVE  UpdatesSawLive'
<1> SUFFICES ASSUME NEW r \in Request, call'[r].pc = "commit_update"
             PROVE  call'[r].seen.status # "deleted"
  BY DEF UpdatesSawLive
<1>0. call \in [Request -> Call]
  BY DEF IInv, TypeOK
<1>1. CASE call'[r] = call[r]
  BY <1>1 DEF UpdatesSawLive
<1>2. ASSUME NEW q \in Request, HandlerStep(q), call'[r] # call[r]
      PROVE  call'[r].seen.status # "deleted"
  <2>1. q = r
    BY <1>0, <1>2 DEF HandlerStep, BeginCreate, Begin, CheckAppLimit, InsertApp, BeginUpdate,
       CommitUpdate, BeginDelete, CommitDelete, InvalidateCache, AbortCall
  <2>2. ASSUME NEW u \in User, NEW id \in AppId, NEW st \in PatchStatus \cup {Keep},
               NEW cf \in Config \cup {Keep}, BeginUpdate(r, u, id, st, cf)
        PROVE  call'[r].seen.status # "deleted"
    BY <1>0, <2>2 DEF BeginUpdate, Begin, CanLoad, ColumnsOf
  <2>3. CASE CheckAppLimit(r)
    <3>1. call[r] \in [pc: {"check_limit", "insert"}, user: User,
                       sub: Subdomain, plan: PlanChoice]
      BY <2>3, CallShape DEF CheckAppLimit, IInv
    <3>2. [call[r] EXCEPT !.pc = "insert"].pc = "insert" /\ IdleCall.pc = "idle"
      BY <3>1 DEF IdleCall
    <3>3. call'[r] = [call[r] EXCEPT !.pc = "insert"] \/ call'[r] = IdleCall
      BY <1>0, <2>3 DEF CheckAppLimit
    <3> QED
      BY <3>2, <3>3
  <2>4. call'[r].pc # "commit_update" \/ CheckAppLimit(r)
        \/ \E u \in User, id \in AppId, st \in PatchStatus \cup {Keep},
              cf \in Config \cup {Keep} : BeginUpdate(r, u, id, st, cf)
    BY <1>0, <1>2, <2>1 DEF HandlerStep, BeginCreate, Begin, InsertApp, CommitUpdate,
       BeginDelete, CommitDelete, InvalidateCache, AbortCall, IdleCall
  <2> QED
    BY <2>2, <2>3, <2>4
<1>3. CASE \E q \in Request : HandlerStep(q)
  BY <1>1, <1>2, <1>3
<1>4. CASE (\E k \in Lookup : LookupStep(k)) \/ \E s \in Subdomain : ExpireEntry(s)
  BY <1>1, <1>4 DEF LookupStep, MissCache, QueryApp, FillCache, AbortLookup, ExpireEntry
<1> QED
  BY <1>1, <1>3, <1>4 DEF Next, vars

LEMMA RevivalNeedsUpdate ==
    ASSUME IInv, [Next]_vars, NEW id \in Stored,
           apps[id].status = "deleted", apps'[id].status # "deleted"
    PROVE  \E r \in Request : RevivedBy(r, id)
<1>0. apps \in [AppId -> Row \cup {NoRow}] /\ id \in AppId /\ apps'[id] # apps[id]
  BY DEF IInv, TypeOK, Stored
<1>1. PICK r \in Request : HandlerStep(r)
  BY <1>0 DEF Next, vars, LookupStep, MissCache, QueryApp, FillCache, AbortLookup, ExpireEntry
<1>2. CommitUpdate(r) \/ CommitDelete(r) \/ InsertApp(r)
  BY <1>0, <1>1 DEF HandlerStep, BeginCreate, Begin, CheckAppLimit, BeginUpdate, BeginDelete,
     InvalidateCache, AbortCall
<1>3. ~InsertApp(r)
  BY <1>0 DEF InsertApp
<1>4. ~CommitDelete(r)
  <2> SUFFICES ASSUME CommitDelete(r) PROVE FALSE
    OBVIOUS
  <2>1. call[r].id = id
    BY <1>0 DEF CommitDelete
  <2>2. apps[id] \in Row
    BY <1>0, StoredRow DEF IInv
  <2> QED
    BY <1>0, <2>1, <2>2 DEF CommitDelete, Row
<1>5. CASE CommitUpdate(r)
  <2>1. call[r].id = id /\ apps'[id] = WriteBack(apps[id], call[r].seen, call[r].want)
    BY <1>0, <1>5 DEF CommitUpdate
  <2>2. apps[id] \in Row
    BY <1>0, StoredRow DEF IInv
  <2>3. call[r].want.status # call[r].seen.status
    BY <2>1, <2>2 DEF WriteBack, Row
  <2> QED
    BY <1>5, <2>1, <2>3 DEF CommitUpdate, RevivedBy
<1> QED
  BY <1>2, <1>3, <1>4, <1>5

-----------------------------------------------------------------------------
(* The inductive invariant holds in every reachable state.                 *)
THEOREM Invariance == Spec => []IInv
BY InvInit, InvNext, PTL DEF Spec

(* Every handler, resolution, row and cache entry keeps its shape: in      *)
(* particular a commit never writes to a row that is not there, and no     *)
(* PATCH stores a value outside the column's type.                         *)
THEOREM TypeCorrect == Spec => []TypeOK
<1>1. IInv => TypeOK
  BY DEF IInv
<1> QED
  BY <1>1, Invariance, PTL

(* A subdomain belongs to one app for ever, and the resolver never answers *)
(* or caches another app under it.                                         *)
THEOREM Isolation == Spec => []TenantIsolation
BY InvIsolates, Invariance, PTL

(* A deleted app comes back into service only by an update that had loaded *)
(* its row before the deletion was committed, and that was asked for       *)
(* another status.                                                         *)
THEOREM DeletedStaysOut == Spec => RevivedOnlyByOverlap
<1> DEFINE Revival ==
               \A id \in Stored :
                   apps[id].status = "deleted" /\ apps'[id].status # "deleted" =>
                       \E r \in Request :
                           /\ call[r].pc = "commit_update" /\ call[r].id = id
                           /\ call[r].seen.status # "deleted"
                           /\ call[r].want.status # call[r].seen.status
<1>1. IInv /\ UpdatesSawLive /\ [Next]_vars => Revival
  <2> SUFFICES ASSUME IInv, UpdatesSawLive, [Next]_vars, NEW id \in Stored,
                      apps[id].status = "deleted", apps'[id].status # "deleted"
               PROVE  \E r \in Request :
                          /\ call[r].pc = "commit_update" /\ call[r].id = id
                          /\ call[r].seen.status # "deleted"
                          /\ call[r].want.status # call[r].seen.status
    OBVIOUS
  <2>1. PICK r \in Request : RevivedBy(r, id)
    BY RevivalNeedsUpdate
  <2> QED
    BY <2>1 DEF RevivedBy, UpdatesSawLive
<1>2. Spec => []UpdatesSawLive
  <2>1. Init => IInv /\ UpdatesSawLive
    BY InvInit, SawLiveInit
  <2>2. IInv /\ UpdatesSawLive /\ [Next]_vars => (IInv /\ UpdatesSawLive)'
    BY InvNext, SawLiveNext
  <2> QED
    BY <2>1, <2>2, PTL DEF Spec
<1>3. Spec => [][Revival]_vars
  BY <1>1, <1>2, Invariance, PTL DEF Spec
<1> QED
  BY <1>3 DEF RevivedOnlyByOverlap

-----------------------------------------------------------------------------
(***************************************************************************)
(* How far check_app_limit can be overshot, for every limit, every number  *)
(* of handlers and every set of ids.                                       *)
(*                                                                         *)
(* AppLimitOvershoot is not inductive: apart from the live apps of a user, *)
(* what counts is what handlers in flight can still add to them.  A create *)
(* that has passed its check adds one; so does an update that loaded an    *)
(* app before it was deleted.  When a check passes, the live apps are      *)
(* fewer than the limit, and what is added beyond them costs a handler     *)
(* each; from then on a handler that adds an app gives up its own share.   *)
(***************************************************************************)

(* The handlers that have passed the check of u's limit.                   *)
InsertingFor(u) == {r \in Request : call[r].pc = "insert" /\ call[r].user = u}

Revivable(u) ==
    {id \in Stored : /\ apps[id].owner = u /\ apps[id].status = "deleted"
                     /\ \E r \in Request : RevivedBy(r, id)}

Counted(u) == LiveApps(u) \cup Revivable(u)

Within(u, p) ==
    Cardinality(Counted(u)) + Cardinality(InsertingFor(u))
        <= AppLimit[p] + Cardinality(Request) - 1

LimitInv ==
    \A u \in User \ Admin :
        IsFiniteSet(Counted(u)) /\ \E p \in Plan : Within(u, p)

-----------------------------------------------------------------------------
(* What a step does to the table and to the handlers.                      *)

(* The only step that adds a row.                                          *)
Adds(r, id) ==
    /\ call[r].pc = "insert" /\ id \notin Stored
    /\ apps' = [apps EXCEPT ![id] = NewRow(call[r])]
    /\ call' = [call EXCEPT ![r] = [pc |-> "invalidate", sub |-> call[r].sub]]

LEMMA RowComes ==
    ASSUME IInv, [Next]_vars, NEW id \in Stored', id \notin Stored
    PROVE  \E r \in Request : Adds(r, id)
<1>0. apps \in [AppId -> Row \cup {NoRow}] /\ id \in AppId /\ apps'[id] # apps[id]
  BY DEF IInv, TypeOK, Stored
<1>1. PICK r \in Request : HandlerStep(r)
  BY <1>0 DEF Next, vars, LookupStep, MissCache, QueryApp, FillCache, AbortLookup, ExpireEntry
<1>2. CommitUpdate(r) \/ CommitDelete(r) \/ InsertApp(r)
  BY <1>0, <1>1 DEF HandlerStep, BeginCreate, Begin, CheckAppLimit, BeginUpdate, BeginDelete,
     InvalidateCache, AbortCall
<1>3. ~(CommitUpdate(r) \/ CommitDelete(r))
  <2> SUFFICES ASSUME CommitUpdate(r) \/ CommitDelete(r) PROVE FALSE
    OBVIOUS
  <2>1. call[r].id \in Stored
    BY DEF IInv, CallsTargetRows, CommitUpdate, CommitDelete
  <2> QED
    BY <1>0, <2>1 DEF CommitUpdate, CommitDelete
<1>4. InsertApp(r)
  BY <1>2, <1>3
<1>5. PICK j \in AppId \ Stored : apps' = [apps EXCEPT ![j] = NewRow(call[r])]
  BY <1>0, <1>4 DEF InsertApp
<1>6. j = id
  BY <1>0, <1>5
<1> QED
  BY <1>0, <1>4, <1>5, <1>6 DEF InsertApp, Adds

LEMMA OwnerStays ==
    ASSUME IInv, [Next]_vars, NEW id \in Stored
    PROVE  apps'[id].owner = apps[id].owner
<1>0. apps \in [AppId -> Row \cup {NoRow}] /\ id \in AppId /\ apps[id] \in Row
  BY StoredRow DEF IInv, TypeOK, Stored
<1>1. CASE apps'[id] = apps[id]
  BY <1>1
<1>2. CASE apps'[id] # apps[id]
  <2>1. PICK r \in Request : HandlerStep(r)
    BY <1>2 DEF Next, vars, LookupStep, MissCache, QueryApp, FillCache, AbortLookup, ExpireEntry
  <2>2. CommitUpdate(r) \/ CommitDelete(r) \/ InsertApp(r)
    BY <1>2, <2>1 DEF HandlerStep, BeginCreate, Begin, CheckAppLimit, BeginUpdate, BeginDelete,
       InvalidateCache, AbortCall
  <2>3. ~InsertApp(r)
    BY <1>0, <1>2 DEF InsertApp
  <2>4. CASE CommitUpdate(r)
    <3>1. apps'[id] = WriteBack(apps[id], call[r].seen, call[r].want)
      BY <1>0, <1>2, <2>4 DEF CommitUpdate
    <3> QED
      BY <1>0, <3>1 DEF WriteBack, Row
  <2>5. CASE CommitDelete(r)
    <3>1. apps'[id] = [apps[id] EXCEPT !.status = "deleted"]
      BY <1>0, <1>2, <2>5 DEF CommitDelete
    <3> QED
      BY <1>0, <3>1 DEF Row
  <2> QED
    BY <2>2, <2>3, <2>4, <2>5
<1> QED
  BY <1>1, <1>2

(* An update that will bring a deleted row back was under way already: it  *)
(* began while the row was live.                                           *)
LEMMA RevivalBegan ==
    ASSUME IInv, [Next]_vars, NEW id \in Stored, apps[id].status = "deleted",
           NEW r \in Request, RevivedBy(r, id)'
    PROVE  RevivedBy(r, id)
<1>0. call \in [Request -> Call] /\ call'[r].pc = "commit_update" /\ call'[r].id = id
  BY DEF IInv, TypeOK, RevivedBy
<1>1. CASE call'[r] = call[r]
  BY <1>1 DEF RevivedBy
<1>2. CASE call'[r] # call[r]
  <2>1. PICK q \in Request : HandlerStep(q)
    BY <1>2 DEF Next, vars, LookupStep, MissCache, QueryApp, FillCache, AbortLookup, ExpireEntry
  <2>2. q = r
    BY <1>0, <1>2, <2>1 DEF HandlerStep, BeginCreate, Begin, CheckAppLimit, InsertApp,
       BeginUpdate, CommitUpdate, BeginDelete, CommitDelete, InvalidateCache, AbortCall
  <2>3. ASSUME NEW u \in User, NEW i \in AppId, NEW st \in PatchStatus \cup {Keep},
               NEW cf \in Config \cup {Keep}, BeginUpdate(r, u, i, st, cf)
        PROVE  FALSE
    BY <1>0, <2>3 DEF BeginUpdate, Begin, CanLoad
  <2>4. CASE CheckAppLimit(r)
    <3>1. call[r] \in [pc: {"check_limit", "insert"}, user: User,
                       sub: Subdomain, plan: PlanChoice]
      BY <2>4, CallShape DEF CheckAppLimit, IInv
    <3>2. [call[r] EXCEPT !.pc = "insert"].pc = "insert" /\ IdleCall.pc = "idle"
      BY <3>1 DEF IdleCall
    <3>3. call'[r] = [call[r] EXCEPT !.pc = "insert"] \/ call'[r] = IdleCall
      BY <1>0, <2>4 DEF CheckAppLimit
    <3> QED
      BY <1>0, <3>2, <3>3
  <2>5. CheckAppLimit(r)
        \/ \E u \in User, i \in AppId, st \in PatchStatus \cup {Keep},
              cf \in Config \cup {Keep} : BeginUpdate(r, u, i, st, cf)
    BY <1>0, <2>1, <2>2 DEF HandlerStep, BeginCreate, Begin, InsertApp, CommitUpdate,
       BeginDelete, CommitDelete, InvalidateCache, AbortCall, IdleCall
  <2> QED
    BY <2>3, <2>4, <2>5
<1> QED
  BY <1>1, <1>2

(* A row that counts for u in the next state counts already, unless new.   *)
LEMMA CountedBefore ==
    ASSUME IInv, [Next]_vars, NEW u \in User, NEW id \in Counted(u)', id \in Stored
    PROVE  id \in Counted(u)
<1>1. apps[id].owner = u
  BY OwnerStays DEF Counted, LiveApps, Revivable
<1>2. CASE apps[id].status # "deleted"
  BY <1>1, <1>2 DEF Counted, LiveApps
<1>3. CASE apps[id].status = "deleted"
  <2>1. \E r \in Request : RevivedBy(r, id)
    <3>1. CASE apps'[id].status # "deleted"
      BY <1>3, <3>1, RevivalNeedsUpdate
    <3>2. CASE apps'[id].status = "deleted"
      BY <1>3, <3>2, RevivalBegan DEF Counted, LiveApps, Revivable, RevivedBy
    <3> QED
      BY <3>1, <3>2
  <2> QED
    BY <1>1, <1>3, <2>1 DEF Counted, Revivable
<1> QED
  BY <1>2, <1>3

(* A handler is past its check only because the limit allowed it.          *)
Admits(r, u) ==
    /\ call[r].pc = "check_limit" /\ call[r].user = u
    /\ call[r].plan \in PlanChoice /\ LimitAllows(u, call[r].plan)
    /\ \A q \in Request : q # r => call'[q] = call[q]
    /\ UNCHANGED apps

LEMMA InsertingBefore ==
    ASSUME IInv, [Next]_vars, NEW u \in User, NEW r \in InsertingFor(u)'
    PROVE  r \in InsertingFor(u) \/ Admits(r, u)
<1>0. call \in [Request -> Call] /\ r \in Request /\ call'[r].pc = "insert" /\ call'[r].user = u
  BY DEF IInv, TypeOK, InsertingFor
<1>1. CASE call'[r] = call[r]
  BY <1>0, <1>1 DEF InsertingFor
<1>2. CASE call'[r] # call[r]
  <2>1. PICK q \in Request : HandlerStep(q)
    BY <1>2 DEF Next, vars, LookupStep, MissCache, QueryApp, FillCache, AbortLookup, ExpireEntry
  <2>2. q = r
    BY <1>0, <1>2, <2>1 DEF HandlerStep, BeginCreate, Begin, CheckAppLimit, InsertApp,
       BeginUpdate, CommitUpdate, BeginDelete, CommitDelete, InvalidateCache, AbortCall
  <2>3. CheckAppLimit(r)
    BY <1>0, <2>1, <2>2 DEF HandlerStep, BeginCreate, Begin, InsertApp, BeginUpdate,
       CommitUpdate, BeginDelete, CommitDelete, InvalidateCache, AbortCall, IdleCall
  <2>4. call[r] \in [pc: {"check_limit", "insert"}, user: User,
                     sub: Subdomain, plan: PlanChoice]
    BY <1>0, <2>3, CallShape DEF CheckAppLimit, IInv
  <2>5. /\ LimitAllows(call[r].user, call[r].plan)
        /\ call'[r] = [call[r] EXCEPT !.pc = "insert"]
    BY <1>0, <2>3 DEF CheckAppLimit, IdleCall
  <2>6. call[r].user = u
    BY <1>0, <2>4, <2>5
  <2> QED
    BY <1>0, <2>3, <2>4, <2>5, <2>6 DEF CheckAppLimit, Admits
<1> QED
  BY <1>1, <1>2

-----------------------------------------------------------------------------
(* Counting.                                                               *)

(* The updates that will bring back an app of u.                           *)
Revivers(u) == {r \in Request : \E id \in Revivable(u) : RevivedBy(r, id)}

LEMMA CardinalitiesAreNat ==
    ASSUME NEW S, IsFiniteSet(S)
    PROVE  Cardinality(S) \in Nat
BY FS_CardinalityType

(* Two apps are never revived by one handler.                              *)
LEMMA ReviversSuffice ==
    ASSUME NEW u
    PROVE  /\ IsFiniteSet(Revivable(u)) /\ IsFiniteSet(Revivers(u))
           /\ Cardinality(Revivable(u)) <= Cardinality(Revivers(u))
<1> DEFINE f == [r \in Revivers(u) |-> call[r].id]
<1>1. IsFiniteSet(Revivers(u))
  BY RequestAssumption, FS_Subset DEF Revivers
<1>2. \A r \in Revivers(u) : f[r] \in Revivable(u)
  BY DEF Revivers, RevivedBy
<1>3. \A id \in Revivable(u) : \E r \in Revivers(u) : f[r] = id
  BY DEF Revivers, Revivable, RevivedBy
<1>4. f \in Surjection(Revivers(u), Revivable(u))
  BY <1>2, <1>3 DEF Surjection
<1> QED
  BY <1>1, <1>4, FS_Surjection

(* When a check passes, the limit of its plan holds with room for every    *)
(* other handler.                                                          *)
LEMMA AdmissionWithin ==
    ASSUME IInv, IInv', [Next]_vars, NEW u \in User \ Admin, IsFiniteSet(Counted(u)),
           NEW r \in Request, Admits(r, u)
    PROVE  IsFiniteSet(Counted(u)') /\ \E p \in Plan : Within(u, p)'
<1> DEFINE later == InsertingFor(u) \cup {r}
<1>1. PICK p \in Plan : AppLimit[p] \in Nat /\ Cardinality(LiveApps(u)) < AppLimit[p]
  BY PlanAssumption DEF Admits, EffectivePlan, LimitAllows
<1>2. /\ IsFiniteSet(Counted(u)') /\ IsFiniteSet(LiveApps(u))
      /\ Cardinality(Counted(u)') <= Cardinality(Counted(u))
  <2>1. Counted(u)' \subseteq Stored
    BY DEF Admits, Counted, LiveApps, Revivable, Stored
  <2>2. Counted(u)' \in SUBSET Counted(u) /\ LiveApps(u) \in SUBSET Counted(u)
    BY <2>1, CountedBefore DEF Counted
  <2> QED
    BY <2>2, FS_Subset
<1>3. Cardinality(Counted(u)) <= Cardinality(LiveApps(u)) + Cardinality(Revivers(u))
  <2>1. /\ Cardinality(Counted(u)) = Cardinality(LiveApps(u)) + Cardinality(Revivable(u))
               - Cardinality(LiveApps(u) \cap Revivable(u))
    BY <1>2, ReviversSuffice, FS_Union DEF Counted
  <2>2. LiveApps(u) \cap Revivable(u) = {}
    BY DEF LiveApps, Revivable
  <2>3. Cardinality(LiveApps(u) \cap Revivable(u)) = 0
    BY <2>2, FS_EmptySet
  <2> QED
    BY <1>2, <2>1, <2>3, ReviversSuffice, CardinalitiesAreNat
<1>4. /\ IsFiniteSet(InsertingFor(u)') /\ IsFiniteSet(later)
      /\ Cardinality(InsertingFor(u)') <= Cardinality(later)
  <2>1. later \in SUBSET Request
    BY DEF InsertingFor
  <2>2. InsertingFor(u)' \in SUBSET later
    BY DEF InsertingFor, Admits
  <2> QED
    BY <2>1, <2>2, RequestAssumption, FS_Subset
<1>5. Cardinality(later) + Cardinality(Revivers(u)) <= Cardinality(Request)
  <2>1. later \cap Revivers(u) = {}
    BY DEF Admits, InsertingFor, Revivers, RevivedBy
  <2>2. later \cup Revivers(u) \in SUBSET Request
    BY DEF InsertingFor, Revivers
  <2>3. Cardinality(later \cup Revivers(u)) <= Cardinality(Request)
    BY <2>2, RequestAssumption, FS_Subset
  <2>4. Cardinality(later \cup Revivers(u)) =
            Cardinality(later) + Cardinality(Revivers(u)) - Cardinality(later \cap Revivers(u))
    BY <1>4, ReviversSuffice, FS_Union
  <2>5. Cardinality(later \cap Revivers(u)) = 0
    BY <2>1, FS_EmptySet
  <2> QED
    BY <1>4, <2>3, <2>4, <2>5, ReviversSuffice, RequestAssumption, CardinalitiesAreNat
<1>6. Within(u, p)'
  <2>1. /\ Cardinality(Counted(u)') \in Nat /\ Cardinality(Counted(u)) \in Nat
        /\ Cardinality(LiveApps(u)) \in Nat /\ Cardinality(Revivers(u)) \in Nat
        /\ Cardinality(InsertingFor(u)') \in Nat /\ Cardinality(later) \in Nat
        /\ Cardinality(Request) \in Nat
    BY <1>2, <1>4, ReviversSuffice, RequestAssumption, CardinalitiesAreNat
  <2>2. Cardinality(Counted(u)') + Cardinality(InsertingFor(u)')
            <= AppLimit[p] + Cardinality(Request) - 1
    BY <1>1, <1>2, <1>3, <1>4, <1>5, <2>1
  <2> QED
    BY <2>2 DEF Within
<1> QED
  BY <1>2, <1>6

(* The row that a create adds takes the place its handler had.             *)
LEMMA AdditionWithin ==
    ASSUME IInv, [Next]_vars, NEW u \in User, NEW p \in Plan, IsFiniteSet(Counted(u)),
           Within(u, p), NEW r \in InsertingFor(u), NEW id, Adds(r, id)
    PROVE  IsFiniteSet(Counted(u)') /\ Within(u, p)'
<1> DEFINE rest == InsertingFor(u) \ {r}
<1>1. Counted(u)' \in SUBSET (Counted(u) \cup {id})
  <2>1. \A j \in Stored' : j # id => j \in Stored
    BY DEF Adds, IInv, TypeOK, Stored
  <2> QED
    BY <2>1, CountedBefore DEF Counted, LiveApps, Revivable
<1>2. /\ IsFiniteSet(Counted(u)')
      /\ Cardinality(Counted(u)') <= Cardinality(Counted(u) \cup {id})
  BY <1>1, FS_AddElement, FS_Subset
<1>3. Cardinality(Counted(u) \cup {id}) <= Cardinality(Counted(u)) + 1
  <2>1. Cardinality(Counted(u)) \in Nat
    BY CardinalitiesAreNat
  <2>2. Cardinality(Counted(u) \cup {id}) =
            IF id \in Counted(u) THEN Cardinality(Counted(u)) ELSE Cardinality(Counted(u)) + 1
    BY FS_AddElement
  <2> QED
    BY <2>1, <2>2
<1>4. InsertingFor(u)' \in SUBSET rest
  BY DEF InsertingFor, Adds, IInv, TypeOK
<1>5. /\ IsFiniteSet(InsertingFor(u)) /\ IsFiniteSet(rest) /\ IsFiniteSet(InsertingFor(u)')
      /\ Cardinality(InsertingFor(u)') <= Cardinality(rest)
  BY <1>4, RequestAssumption, FS_Subset DEF InsertingFor
<1>6. Cardinality(rest) = Cardinality(InsertingFor(u)) - 1
  BY <1>5, FS_RemoveElement
<1>7. /\ Cardinality(Counted(u)') \in Nat /\ Cardinality(Counted(u)) \in Nat
      /\ Cardinality(Counted(u) \cup {id}) \in Nat
      /\ Cardinality(InsertingFor(u)') \in Nat /\ Cardinality(InsertingFor(u)) \in Nat
      /\ Cardinality(Request) \in Nat /\ AppLimit[p] \in Nat
  BY <1>2, <1>5, FS_AddElement, RequestAssumption, PlanAssumption, CardinalitiesAreNat
<1> QED
  BY <1>2, <1>3, <1>5, <1>6, <1>7 DEF Within

(* Every other step leaves the sum as it is or makes it smaller.           *)
LEMMA OthersWithin ==
    ASSUME NEW u \in User, NEW p \in Plan, IsFiniteSet(Counted(u)), Within(u, p),
           Counted(u)' \subseteq Counted(u), InsertingFor(u)' \subseteq InsertingFor(u)
    PROVE  IsFiniteSet(Counted(u)') /\ Within(u, p)'
<1>1. IsFiniteSet(InsertingFor(u))
  BY RequestAssumption, FS_Subset DEF InsertingFor
<1>2. /\ IsFiniteSet(Counted(u)') /\ IsFiniteSet(InsertingFor(u)')
      /\ Cardinality(Counted(u)') <= Cardinality(Counted(u))
      /\ Cardinality(InsertingFor(u)') <= Cardinality(InsertingFor(u))
  BY <1>1, FS_Subset
<1>3. /\ Cardinality(Counted(u)') \in Nat /\ Cardinality(Counted(u)) \in Nat
      /\ Cardinality(InsertingFor(u)') \in Nat /\ Cardinality(InsertingFor(u)) \in Nat
      /\ Cardinality(Request) \in Nat /\ AppLimit[p] \in Nat
  BY <1>1, <1>2, RequestAssumption, PlanAssumption, CardinalitiesAreNat
<1> QED
  BY <1>2, <1>3 DEF Within

LEMMA LimitInit == Init => LimitInv
<1> SUFFICES ASSUME Init, NEW u \in User \ Admin
             PROVE  IsFiniteSet(Counted(u)) /\ Within(u, FreePlan)
  BY PlanAssumption DEF LimitInv
<1>1. Counted(u) = {} /\ InsertingFor(u) = {}
  BY DEF Init, IdleCall, Counted, LiveApps, Revivable, Stored, InsertingFor
<1>2. Cardinality(Request) \in Nat /\ Cardinality(Request) # 0 /\ AppLimit[FreePlan] \in Nat
  BY RequestAssumption, PlanAssumption, FS_EmptySet, CardinalitiesAreNat
<1> QED
  BY <1>1, <1>2, FS_EmptySet DEF Within

LEMMA LimitNext == IInv /\ IInv' /\ LimitInv /\ [Next]_vars => LimitInv'
<1> SUFFICES ASSUME IInv, IInv', LimitInv, [Next]_vars, NEW u \in User \ Admin
             PROVE  IsFiniteSet(Counted(u)') /\ \E p \in Plan : Within(u, p)'
  BY DEF LimitInv
<1>0. IsFiniteSet(Counted(u))
  BY DEF LimitInv
<1>1. PICK p \in Plan : Within(u, p)
  BY DEF LimitInv
<1>2. CASE \E r \in Request : Admits(r, u)
  BY <1>0, <1>2, AdmissionWithin
<1>3. CASE \E r \in InsertingFor(u), id \in AppId : Adds(r, id)
  BY <1>0, <1>1, <1>3, AdditionWithin
<1>4. CASE /\ ~\E r \in Request : Admits(r, u)
           /\ ~\E r \in InsertingFor(u), id \in AppId : Adds(r, id)
  <2>1. InsertingFor(u)' \subseteq InsertingFor(u)
    BY <1>4, InsertingBefore DEF InsertingFor
  <2>2. ASSUME NEW id \in Counted(u)'
        PROVE  id \in Counted(u)
    <3>1. id \in Stored' /\ id \in AppId /\ apps'[id].owner = u
      BY DEF Counted, LiveApps, Revivable, Stored
    <3>2. id \in Stored
      <4> SUFFICES ASSUME id \notin Stored PROVE FALSE
        OBVIOUS
      <4>1. PICK r \in Request : Adds(r, id)
        BY <3>1, RowComes
      <4>2. apps'[id].owner = call[r].user
        BY <3>1, <4>1 DEF Adds, NewRow, IInv, TypeOK
      <4> QED
        BY <1>4, <3>1, <4>1, <4>2 DEF Adds, InsertingFor
    <3> QED
      BY <3>2, CountedBefore
  <2> QED
    BY <1>0, <1>1, <2>1, <2>2, OthersWithin
<1> QED
  BY <1>2, <1>3, <1>4

LEMMA LimitImplies == LimitInv => AppLimitOvershoot
<1> SUFFICES ASSUME LimitInv, NEW u \in User \ Admin
             PROVE  \E p \in Plan :
                        Cardinality(LiveApps(u)) <= AppLimit[p] + Cardinality(Request) - 1
  BY DEF AppLimitOvershoot
<1>1. PICK p \in Plan : Within(u, p)
  BY DEF LimitInv
<1>2. IsFiniteSet(Counted(u)) /\ IsFiniteSet(InsertingFor(u))
  BY RequestAssumption, FS_Subset DEF LimitInv, InsertingFor
<1>3. IsFiniteSet(LiveApps(u)) /\ Cardinality(LiveApps(u)) <= Cardinality(Counted(u))
  BY <1>2, FS_Subset DEF Counted
<1>4. /\ Cardinality(LiveApps(u)) \in Nat /\ Cardinality(Counted(u)) \in Nat
      /\ Cardinality(InsertingFor(u)) \in Nat /\ Cardinality(Request) \in Nat
      /\ AppLimit[p] \in Nat
  BY <1>2, <1>3, RequestAssumption, PlanAssumption, CardinalitiesAreNat
<1> QED
  BY <1>1, <1>3, <1>4 DEF Within

-----------------------------------------------------------------------------
(* However creates, updates and deletions interleave, a user never has     *)
(* more live apps than the largest limit and one for each handler but the  *)
(* first: what a stale count lets through does not add up.                 *)
THEOREM LimitHolds == Spec => []AppLimitOvershoot
<1>1. Init => IInv /\ LimitInv
  BY InvInit, LimitInit
<1>2. IInv /\ LimitInv /\ [Next]_vars => (IInv /\ LimitInv)'
  BY InvNext, LimitNext
<1> QED
  BY <1>1, <1>2, LimitImplies, PTL DEF Spec

=============================================================================

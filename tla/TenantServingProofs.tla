------------------------- MODULE TenantServingProofs -------------------------
(***************************************************************************)
(* The runtime composed with the API: type correctness, that the           *)
(* composition is still a behaviour of TenantApps, and that a visitor only *)
(* ever reads the files of the app that holds the name, for every value of *)
(* the constants and with every fault.                                     *)
(*                                                                         *)
(* VisitsStayHome holds because a visit takes its entry from the cache or  *)
(* from its own resolution, which IInv says name the holder, and because   *)
(* no step takes a row away or renames it (RowsStay) while it waits.       *)
(***************************************************************************)
EXTENDS TenantServing, TenantAppsProofs

(* A visit and its resolution are about the same name.                     *)
ResolvesOwnName ==
    \A v \in Lookup :
        /\ look[v].pc # "idle" => visit[v].pc = "resolve"
        /\ visit[v].pc = "resolve" => look[v].pc # "idle" /\ look[v].sub = visit[v].sub

VisitKnowsHolder ==
    \A v \in Lookup :
        visit[v].pc \in {"get", "fallback"} => IsHolder(visit[v].entry.id, visit[v].sub)

SInv ==
    /\ IInv
    /\ ServingTypeOK
    /\ ResolvesOwnName
    /\ VisitKnowsHolder

-----------------------------------------------------------------------------
(* The composition does to table and cache what TenantApps allows.         *)

LEMMA ServingStepIsStep == [ServingNext]_servingVars => [Next]_vars
<1> SUFFICES ASSUME [ServingNext]_servingVars PROVE [Next]_vars
  OBVIOUS
<1>1. CASE UNCHANGED servingVars
  BY <1>1 DEF servingVars, vars
<1>2. ASSUME NEW r \in Request, ApiStep(r)
      PROVE  [Next]_vars
  <2>1. HandlerStep(r) \/ UNCHANGED vars
    BY <1>2 DEF ApiStep, OtherHandlerStep, EmptyPrefix, CommitDeleteEmptied, AbortHandler,
       HandlerStep
  <2> QED
    BY <2>1 DEF Next
<1>3. ASSUME NEW v \in Lookup, NEW s \in Subdomain, NEW q \in Page, StartVisit(v, s, q)
      PROVE  [Next]_vars
  BY <1>3 DEF StartVisit, Next, LookupStep
<1>4. ASSUME NEW v \in Lookup, VisitGoesOn(v)
      PROVE  [Next]_vars
  BY <1>4 DEF VisitGoesOn, ResolveQuery, ResolveFill, GetObject, GetFallback, SendReply,
     Next, LookupStep
<1>5. ASSUME NEW v \in Lookup, AbortVisit(v)
      PROVE  [Next]_vars
  BY <1>5 DEF AbortVisit, Next, LookupStep
<1>6. ASSUME NEW s \in Subdomain, ExpireKey(s)
      PROVE  [Next]_vars
  BY <1>6 DEF ExpireKey, Next
<1>7. ASSUME NEW u \in User, NEW id \in AppId, NEW f \in File, NEW kind \in {"put", "delete"},
             BeginTransfer(u, id, f, kind)
      PROVE  [Next]_vars
  BY <1>7 DEF BeginTransfer
<1>8. CASE EndTransfer
  BY <1>8 DEF EndTransfer
<1> QED
  BY <1>1, <1>2, <1>3, <1>4, <1>5, <1>6, <1>7, <1>8 DEF ServingNext

-----------------------------------------------------------------------------
(* Shapes of a visit, and what a resolution makes of it.                   *)

LEMMA VisitShape ==
    ASSUME ServingTypeOK, NEW v \in Lookup
    PROVE  /\ visit[v].pc = "resolve" =>
                visit[v] \in [pc: {"resolve"}, sub: Subdomain, page: Page]
           /\ visit[v].pc \in {"get", "fallback"} =>
                visit[v] \in [pc: {"get", "fallback"}, sub: Subdomain,
                              page: Page \ {BadPath}, entry: Entry]
BY DEF ServingTypeOK, Visit, IdleVisit

LEMMA ReplyType ==
    ASSUME NEW s \in Subdomain, NEW q \in Page, NEW code \in {200, 403, 404, 503}
    PROVE  Reply(s, q, code) \in Visit /\ Reply(s, q, code).pc = "reply"
BY DEF Reply, Visit

LEMMA AfterResolvingType ==
    ASSUME NEW s \in Subdomain, NEW q \in Page, NEW answer \in Entry \cup {NotFound}
    PROVE  LET c == AfterResolving(s, q, answer)
           IN  /\ c \in Visit /\ c.pc \in {"reply", "get"}
               /\ c.pc = "get" => answer \in Entry /\ c.entry = answer /\ c.sub = s
<1> DEFINE c == AfterResolving(s, q, answer)
           get == [pc |-> "get", sub |-> s, page |-> q, entry |-> answer]
<1>1. CASE answer = NotFound
  BY <1>1, ReplyType DEF AfterResolving
<1>2. CASE answer # NotFound /\ (answer.status # "active" \/ q = BadPath)
  <2>1. c = Reply(s, q, 403) \/ c = Reply(s, q, 503) \/ c = Reply(s, q, 404)
    BY <1>2 DEF AfterResolving
  <2> QED
    BY <2>1, ReplyType
<1>3. CASE answer # NotFound /\ answer.status = "active" /\ q # BadPath
  <2>1. c = get
    BY <1>3 DEF AfterResolving
  <2>2. get \in Visit
    BY <1>3 DEF Visit
  <2> QED
    BY <1>3, <2>1, <2>2
<1> QED
  BY <1>1, <1>2, <1>3

-----------------------------------------------------------------------------
LEMMA SInvInit == ServingInit => SInv
<1> SUFFICES ASSUME ServingInit PROVE SInv
  OBVIOUS
<1>1. IInv
  BY InvInit DEF ServingInit
<1>2. ServingTypeOK
  BY <1>1 DEF ServingInit, ServingTypeOK, IInv, Transfer, Visit
<1>3. ResolvesOwnName /\ VisitKnowsHolder
  BY DEF ServingInit, Init, ResolvesOwnName, VisitKnowsHolder, IdleVisit, IdleLookup
<1> QED
  BY <1>1, <1>2, <1>3 DEF SInv

(* Steps of the API leave every visit where it is.                         *)
LEMMA ApiKeepsVisits ==
    ASSUME SInv, NEW r \in Request, ApiStep(r)
    PROVE  /\ UNCHANGED <<visit, look, transfer>>
           /\ files' \in [AppId -> SUBSET File] /\ emptied' \subseteq Request
<1>0. files \in [AppId -> SUBSET File] /\ emptied \subseteq Request
  BY DEF SInv, ServingTypeOK
<1>1. CASE OtherHandlerStep(r)
  BY <1>0, <1>1 DEF OtherHandlerStep, BeginCreate, Begin, CheckAppLimit, InsertApp,
     BeginUpdate, CommitUpdate, BeginDelete, InvalidateCache
<1>2. CASE EmptyPrefix(r)
  <2>1. call[r].id \in AppId
    BY <1>2, CallShape DEF EmptyPrefix, SInv, IInv
  <2>2. PICK left \in SUBSET files[call[r].id] :
            files' = [files EXCEPT ![call[r].id] = left]
    BY <1>2 DEF EmptyPrefix
  <2>3. left \in SUBSET File
    BY <1>0, <2>1
  <2>4. files' \in [AppId -> SUBSET File]
    BY <1>0, <2>2, <2>3
  <2> QED
    BY <1>0, <1>2, <2>4 DEF EmptyPrefix, vars
<1>3. CASE CommitDeleteEmptied(r) \/ AbortHandler(r)
  BY <1>0, <1>3 DEF CommitDeleteEmptied, CommitDelete, AbortHandler, AbortCall
<1> QED
  BY <1>1, <1>2, <1>3 DEF ApiStep

(* A step that leaves all visits and resolutions where they are.           *)
LEMMA VisitsUndisturbed ==
    ASSUME SInv, TypeOK', RowsStay, UNCHANGED <<visit, look>>,
           files' \in [AppId -> SUBSET File], emptied' \subseteq Request, transfer' \in Transfer
    PROVE  ServingTypeOK' /\ ResolvesOwnName' /\ VisitKnowsHolder'
<1>1. ServingTypeOK'
  BY DEF SInv, ServingTypeOK
<1>2. ResolvesOwnName'
  BY DEF SInv, ResolvesOwnName
<1>3. VisitKnowsHolder'
  BY DEF SInv, VisitKnowsHolder, IsHolder, RowsStay
<1> QED
  BY <1>1, <1>2, <1>3

(* A step of one visit: the others, and the bucket, are left alone.        *)
LEMMA OneVisitMoves ==
    ASSUME SInv, TypeOK', RowsStay, NEW v \in Lookup, NEW c \in Visit, NEW l \in Resolution,
           visit' = [visit EXCEPT ![v] = c], look' = [look EXCEPT ![v] = l],
           UNCHANGED <<files, emptied, transfer>>,
           l.pc # "idle" => c.pc = "resolve",
           c.pc = "resolve" => l.pc # "idle" /\ l.sub = c.sub,
           c.pc \in {"get", "fallback"} => IsHolder(c.entry.id, c.sub)
    PROVE  ServingTypeOK' /\ ResolvesOwnName' /\ VisitKnowsHolder'
<1>0. visit \in [Lookup -> Visit] /\ look \in [Lookup -> Resolution]
  BY DEF SInv, ServingTypeOK, TypeOK
<1>1. /\ visit'[v] = c /\ look'[v] = l
      /\ \A w \in Lookup : w # v => visit'[w] = visit[w] /\ look'[w] = look[w]
  BY <1>0
<1>2. ServingTypeOK'
  BY <1>0 DEF SInv, ServingTypeOK
<1>3. ResolvesOwnName'
  BY <1>1 DEF SInv, ResolvesOwnName
<1>4. VisitKnowsHolder'
  <2> SUFFICES ASSUME NEW w \in Lookup, visit'[w].pc \in {"get", "fallback"}
               PROVE  HolderAfter(visit'[w].entry.id, visit'[w].sub)
    BY DEF VisitKnowsHolder, IsHolder, HolderAfter
  <2>1. IsHolder(visit'[w].entry.id, visit'[w].sub)
    BY <1>1 DEF SInv, VisitKnowsHolder
  <2> QED
    BY <2>1, HolderStays
<1> QED
  BY <1>2, <1>3, <1>4

LEMMA LookTypes ==
    ASSUME SInv, NEW v \in Lookup
    PROVE  /\ look[v] \in Resolution /\ look = [look EXCEPT ![v] = look[v]]
           /\ visit[v] \in Visit /\ visit = [visit EXCEPT ![v] = visit[v]]
           /\ IdleLookup \in Resolution /\ IdleLookup.pc = "idle"
           /\ IdleVisit \in Visit /\ IdleVisit.pc = "idle"
           /\ visit[v].pc # "resolve" => look[v].pc = "idle"
BY DEF SInv, ServingTypeOK, TypeOK, Resolution, IdleLookup, Visit, IdleVisit, ResolvesOwnName

LEMMA StartNext ==
    ASSUME SInv, TypeOK', RowsStay, NEW v \in Lookup, NEW s \in Subdomain, NEW q \in Page,
           StartVisit(v, s, q)
    PROVE  ServingTypeOK' /\ ResolvesOwnName' /\ VisitKnowsHolder'
<1>1. CASE cache[s] # Miss /\ Goto(v, AfterResolving(s, q, cache[s])) /\ UNCHANGED vars
  <2> DEFINE c == AfterResolving(s, q, cache[s])
  <2>1. cache[s] \in Entry \cup {NotFound}
    BY <1>1 DEF SInv, IInv, TypeOK
  <2>2. /\ c \in Visit /\ c.pc \in {"reply", "get"}
        /\ c.pc = "get" => cache[s] \in Entry /\ c.entry = cache[s] /\ c.sub = s
    BY <2>1, AfterResolvingType
  <2>3. c.pc = "get" => IsHolder(c.entry.id, c.sub)
    BY <2>2 DEF SInv, IInv, CacheNamesHolder
  <2>4. look[v].pc = "idle"
    BY LookTypes DEF StartVisit
  <2>5. visit' = [visit EXCEPT ![v] = c] /\ look' = [look EXCEPT ![v] = look[v]]
    BY <1>1, LookTypes DEF Goto, vars
  <2> HIDE DEF c
  <2> QED
    BY <2>2, <2>3, <2>4, <2>5, LookTypes, OneVisitMoves DEF StartVisit
<1>2. CASE MissCache(v, s) /\ Goto(v, [pc |-> "resolve", sub |-> s, page |-> q])
  <2> DEFINE c == [pc |-> "resolve", sub |-> s, page |-> q]
             l == [pc |-> "query", sub |-> s]
  <2>1. c \in Visit /\ l \in Resolution
    BY DEF Visit, Resolution
  <2>2. visit' = [visit EXCEPT ![v] = c] /\ look' = [look EXCEPT ![v] = l]
    BY <1>2 DEF Goto, MissCache
  <2>3. c.pc = "resolve" /\ l.pc = "query" /\ l.sub = c.sub
    OBVIOUS
  <2> HIDE DEF c, l
  <2> QED
    BY <2>1, <2>2, <2>3, OneVisitMoves DEF StartVisit
<1> QED
  BY <1>1, <1>2 DEF StartVisit

LEMMA QueryNext ==
    ASSUME SInv, TypeOK', RowsStay, NEW v \in Lookup, ResolveQuery(v)
    PROVE  ServingTypeOK' /\ ResolvesOwnName' /\ VisitKnowsHolder'
<1>1. visit[v].pc = "resolve" /\ look[v].sub = visit[v].sub
  BY DEF ResolveQuery, QueryApp, SInv, ResolvesOwnName
<1>2. look[v].sub \in Subdomain
  BY LookShape DEF ResolveQuery, QueryApp, SInv, IInv
<1>3. PICK f \in Answers(look[v].sub) :
          look' = [look EXCEPT ![v] = [pc |-> "fill", sub |-> look[v].sub, found |-> f]]
  BY DEF ResolveQuery, QueryApp
<1> DEFINE l == [pc |-> "fill", sub |-> look[v].sub, found |-> f]
<1>4. l \in Resolution
  BY <1>2, AnswerType DEF Resolution, SInv, IInv
<1>5. l.pc = "fill" /\ l.sub = visit[v].sub /\ look' = [look EXCEPT ![v] = l]
  BY <1>1, <1>3
<1>6. visit' = [visit EXCEPT ![v] = visit[v]]
  BY LookTypes DEF ResolveQuery
<1> HIDE DEF l
<1> QED
  BY <1>1, <1>4, <1>5, <1>6, LookTypes, OneVisitMoves DEF ResolveQuery

LEMMA FillNext ==
    ASSUME SInv, TypeOK', RowsStay, NEW v \in Lookup, ResolveFill(v)
    PROVE  ServingTypeOK' /\ ResolvesOwnName' /\ VisitKnowsHolder'
<1> DEFINE c == AfterResolving(visit[v].sub, visit[v].page, look[v].found)
<1>1. look[v].pc = "fill" /\ visit[v].pc = "resolve" /\ look[v].sub = visit[v].sub
  BY DEF ResolveFill, FillCache, SInv, ResolvesOwnName
<1>2. visit[v].sub \in Subdomain /\ visit[v].page \in Page
  BY <1>1, VisitShape DEF SInv
<1>3. look[v].found \in Entry \cup {NotFound}
  BY <1>1, LookShape DEF SInv, IInv
<1>4. /\ c \in Visit /\ c.pc \in {"reply", "get"}
      /\ c.pc = "get" => look[v].found \in Entry /\ c.entry = look[v].found
                         /\ c.sub = visit[v].sub
  BY <1>2, <1>3, AfterResolvingType
<1>5. c.pc = "get" => IsHolder(c.entry.id, c.sub)
  BY <1>1, <1>4 DEF SInv, IInv, FoundNamesHolder
<1>6. visit' = [visit EXCEPT ![v] = c] /\ look' = [look EXCEPT ![v] = IdleLookup]
  BY DEF ResolveFill, FillCache, Goto
<1> HIDE DEF c
<1> QED
  BY <1>4, <1>5, <1>6, LookTypes, OneVisitMoves DEF ResolveFill

(* Steps of a visit that has its entry.                                    *)
LEMMA LaterNext ==
    ASSUME SInv, TypeOK', RowsStay, NEW v \in Lookup, NEW c \in Visit,
           visit[v].pc # "resolve", visit' = [visit EXCEPT ![v] = c],
           UNCHANGED <<look, files, emptied, transfer>>,
           c.pc # "resolve",
           c.pc \in {"get", "fallback"} => IsHolder(c.entry.id, c.sub)
    PROVE  ServingTypeOK' /\ ResolvesOwnName' /\ VisitKnowsHolder'
<1>1. look' = [look EXCEPT ![v] = look[v]] /\ look[v].pc = "idle" /\ look[v] \in Resolution
  BY LookTypes
<1> QED
  BY <1>1, OneVisitMoves

LEMMA GetNext ==
    ASSUME SInv, TypeOK', RowsStay, NEW v \in Lookup, GetObject(v)
    PROVE  ServingTypeOK' /\ ResolvesOwnName' /\ VisitKnowsHolder'
<1> DEFINE c == visit[v]
           back == [c EXCEPT !.pc = "fallback"]
<1>1. c \in [pc: {"get", "fallback"}, sub: Subdomain, page: Page \ {BadPath}, entry: Entry]
      /\ IsHolder(c.entry.id, c.sub)
  BY VisitShape DEF GetObject, SInv, VisitKnowsHolder
<1>2. Reply(c.sub, c.page, 200) \in Visit /\ Reply(c.sub, c.page, 200).pc = "reply"
      /\ Reply(c.sub, c.page, 404) \in Visit /\ Reply(c.sub, c.page, 404).pc = "reply"
  BY <1>1, ReplyType
<1>3. back \in Visit /\ back.pc = "fallback" /\ back.entry = c.entry /\ back.sub = c.sub
  BY <1>1 DEF Visit
<1>4. \/ visit' = [visit EXCEPT ![v] = Reply(c.sub, c.page, 200)]
      \/ visit' = [visit EXCEPT ![v] = Reply(c.sub, c.page, 404)]
      \/ visit' = [visit EXCEPT ![v] = back]
  BY DEF GetObject, Goto
<1>5. visit[v].pc = "get" /\ UNCHANGED <<look, files, emptied, transfer>>
  BY DEF GetObject, vars
<1> HIDE DEF c, back
<1> QED
  BY <1>1, <1>2, <1>3, <1>4, <1>5, LaterNext

LEMMA FallbackNext ==
    ASSUME SInv, TypeOK', RowsStay, NEW v \in Lookup, GetFallback(v)
    PROVE  ServingTypeOK' /\ ResolvesOwnName' /\ VisitKnowsHolder'
<1> DEFINE c == visit[v]
<1>1. c \in [pc: {"get", "fallback"}, sub: Subdomain, page: Page \ {BadPath}, entry: Entry]
  BY VisitShape DEF GetFallback, SInv
<1>2. Reply(c.sub, c.page, 200) \in Visit /\ Reply(c.sub, c.page, 200).pc = "reply"
      /\ Reply(c.sub, c.page, 404) \in Visit /\ Reply(c.sub, c.page, 404).pc = "reply"
  BY <1>1, ReplyType
<1>3. \/ visit' = [visit EXCEPT ![v] = Reply(c.sub, c.page, 200)]
      \/ visit' = [visit EXCEPT ![v] = Reply(c.sub, c.page, 404)]
  BY DEF GetFallback, Goto
<1>4. visit[v].pc = "fallback" /\ UNCHANGED <<look, files, emptied, transfer>>
  BY DEF GetFallback, vars
<1> QED
  BY <1>2, <1>3, <1>4, LaterNext

LEMMA EndNext ==
    ASSUME SInv, TypeOK', RowsStay, NEW v \in Lookup, SendReply(v) \/ AbortVisit(v)
    PROVE  ServingTypeOK' /\ ResolvesOwnName' /\ VisitKnowsHolder'
<1>1. IdleVisit \in Visit /\ IdleVisit.pc = "idle"
      /\ visit' = [visit EXCEPT ![v] = IdleVisit]
  BY LookTypes DEF SendReply, AbortVisit, Goto
<1>2. CASE visit[v].pc = "resolve"
  <2>1. look' = [look EXCEPT ![v] = IdleLookup] /\ UNCHANGED <<files, emptied, transfer>>
    BY <1>2 DEF SendReply, AbortVisit, AbortLookup
  <2> QED
    BY <1>1, <2>1, LookTypes, OneVisitMoves
<1>3. CASE visit[v].pc # "resolve"
  <2>1. UNCHANGED <<look, files, emptied, transfer>>
    BY <1>3 DEF SendReply, AbortVisit, vars
  <2> QED
    BY <1>1, <1>3, <2>1, LaterNext
<1> QED
  BY <1>2, <1>3

LEMMA SInvNext == SInv /\ [ServingNext]_servingVars => SInv'
<1> SUFFICES ASSUME SInv, [ServingNext]_servingVars PROVE SInv'
  OBVIOUS
<1>1. [Next]_vars /\ IInv
  BY ServingStepIsStep DEF SInv
<1>2. IInv' /\ TypeOK' /\ RowsStay
  BY <1>1, InvNext, TypeNext DEF IInv
<1>3. files \in [AppId -> SUBSET File] /\ emptied \subseteq Request /\ transfer \in Transfer
  BY DEF SInv, ServingTypeOK
<1>4. SUFFICES ServingTypeOK' /\ ResolvesOwnName' /\ VisitKnowsHolder'
  BY <1>2 DEF SInv
<1>5. CASE UNCHANGED servingVars
  BY <1>2, <1>3, <1>5, VisitsUndisturbed DEF servingVars
<1>6. ASSUME NEW r \in Request, ApiStep(r)
      PROVE  ServingTypeOK' /\ ResolvesOwnName' /\ VisitKnowsHolder'
  BY <1>2, <1>3, <1>6, ApiKeepsVisits, VisitsUndisturbed
<1>7. ASSUME NEW u \in User, NEW id \in AppId, NEW f \in File, NEW kind \in {"put", "delete"},
             BeginTransfer(u, id, f, kind)
      PROVE  ServingTypeOK' /\ ResolvesOwnName' /\ VisitKnowsHolder'
  <2>1. transfer' \in Transfer /\ UNCHANGED <<visit, look, files, emptied>>
    BY <1>7 DEF BeginTransfer, Transfer, vars
  <2> QED
    BY <1>2, <1>3, <2>1, VisitsUndisturbed
<1>8. CASE EndTransfer
  <2>1. transfer \in [pc: {"put", "delete"}, id: AppId, file: File]
    BY <1>3, <1>8 DEF EndTransfer, Transfer
  <2>2. files' \in [AppId -> SUBSET File]
    BY <1>3, <1>8, <2>1 DEF EndTransfer
  <2>3. transfer' \in Transfer /\ UNCHANGED <<visit, look, emptied>>
    BY <1>8 DEF EndTransfer, Transfer, vars
  <2> QED
    BY <1>2, <1>3, <2>2, <2>3, VisitsUndisturbed
<1>9. ASSUME NEW s \in Subdomain, ExpireKey(s)
      PROVE  ServingTypeOK' /\ ResolvesOwnName' /\ VisitKnowsHolder'
  BY <1>2, <1>3, <1>9, VisitsUndisturbed DEF ExpireKey, ExpireEntry
<1>10. ASSUME NEW v \in Lookup, NEW s \in Subdomain, NEW q \in Page, StartVisit(v, s, q)
       PROVE  ServingTypeOK' /\ ResolvesOwnName' /\ VisitKnowsHolder'
  BY <1>2, <1>10, StartNext
<1>11. ASSUME NEW v \in Lookup, VisitGoesOn(v) \/ AbortVisit(v)
       PROVE  ServingTypeOK' /\ ResolvesOwnName' /\ VisitKnowsHolder'
  BY <1>2, <1>11, QueryNext, FillNext, GetNext, FallbackNext, EndNext DEF VisitGoesOn
<1> QED
  BY <1>5, <1>6, <1>7, <1>8, <1>9, <1>10, <1>11 DEF ServingNext

-----------------------------------------------------------------------------
THEOREM ServingInvariance == ServingSafety => []SInv
BY SInvInit, SInvNext, PTL DEF ServingSafety

(* Composed with the runtime, the bucket and its uploads, the handlers and *)
(* the cache do nothing that TenantApps does not: what is proved of it,    *)
(* TenantIsolation among it, holds of the whole.                           *)
THEOREM ServingRefinesApps == ServingSafety => Spec
<1>1. ServingInit => Init
  BY DEF ServingInit
<1> QED
  BY <1>1, ServingStepIsStep, PTL DEF ServingSafety, Spec

(* Visits, transfers and the bucket keep their shapes: in particular a     *)
(* path that was refused never becomes the key of an object.               *)
THEOREM ServingTypeCorrect == ServingSafety => []ServingTypeOK
<1>1. SInv => ServingTypeOK
  BY DEF SInv
<1> QED
  BY <1>1, ServingInvariance, PTL

(* Between the resolution of a Host header and the last read of an object, *)
(* the second one of the SPA fallback too, the prefix read is that of the  *)
(* one app which holds the name, whatever the API does meanwhile.          *)
THEOREM VisitIsolation == ServingSafety => []VisitsStayHome
<1>1. SInv => VisitsStayHome
  <2> SUFFICES ASSUME SInv, NEW v \in Lookup, visit[v].pc \in {"get", "fallback"}
               PROVE  Holders(visit[v].sub) = {visit[v].entry.id}
    BY DEF VisitsStayHome
  <2>1. IsHolder(visit[v].entry.id, visit[v].sub)
    BY DEF SInv, VisitKnowsHolder
  <2> QED
    BY <2>1 DEF SInv, IInv, OneRowPerName, Holders, IsHolder
<1> QED
  BY <1>1, ServingInvariance, PTL

=============================================================================

--------------------------- MODULE TenantRegistry ---------------------------
(***************************************************************************)
(* TenantApps implements NameRegistry: the table is the set of sites, and  *)
(* what Redis holds is what is told of a name.  Handlers in flight, and    *)
(* resolutions between their query and their fill, are the details that    *)
(* the registry does not show.                                             *)
(*                                                                         *)
(* Two history variables, which the code does not have, remember what was  *)
(* once true of a site and which names Redis may answer out of date for.   *)
(***************************************************************************)
EXTENDS TenantApps

VARIABLES
    past,   \* history: AppId |-> the values its columns have had
    unsure  \* history: names whose entry outlived a lost invalidation, or
            \* was out of date when a resolution wrote it

historyVars == <<apps, cache, call, look, past, unsure>>

RecordPast ==
    past' = [id \in AppId |->
                past[id] \cup IF id \in Stored' THEN {ColumnsOf(id)'} ELSE {}]

(* A handler went on, or died, without removing the entry it was to.       *)
Outlived(s) ==
    \E r \in Request : call[r].pc = "invalidate" /\ call[r].sub = s /\ call'[r] # call[r]

(* The row changed between a resolution's query and its fill.              *)
Overtaken(s) ==
    \E k \in Lookup :
        /\ look[k].pc = "fill" /\ look[k].sub = s /\ look[k].found \notin Answers(s)
        /\ look'[k] # look[k] /\ cache'[s] = look[k].found

RecordDoubt ==
    unsure' = {s \in Subdomain :
                  cache'[s] # Miss /\ (s \in unsure \/ Outlived(s) \/ Overtaken(s))}

HistoryInit == Init /\ past = [id \in AppId |-> {}] /\ unsure = {}

HistoryNext == Next /\ RecordPast /\ RecordDoubt

HistorySpec == HistoryInit /\ [][HistoryNext]_historyVars

-----------------------------------------------------------------------------
(* The refinement mapping.                                                 *)

SiteOf(id) ==
    [name |-> apps[id].sub, id |-> id, owner |-> apps[id].owner,
     now |-> ColumnsOf(id), past |-> past[id]]

Sites == {SiteOf(id) : id \in Stored}

Told ==
    [s \in Subdomain |->
        IF cache[s] \in {Miss, NotFound} THEN cache[s]
        ELSE [id |-> cache[s].id,
              fact |-> [status |-> cache[s].status, config |-> cache[s].config]]]

Registry == INSTANCE NameRegistry
    WITH Name <- Subdomain, Id <- AppId, Owner <- User, Fact <- Columns,
         NewFact <- [status |-> "active", config |-> DefaultConfig],
         Unknown <- Miss, Nobody <- NotFound, sites <- Sites, told <- Told

(* However handlers race, whatever is lost and wherever a process dies,    *)
(* the platform behaves as the registry does: a name once taken by         *)
(* create_app stays with its app and owner, and the resolver's cache never *)
(* says of a name what was not once committed for the app that holds it.   *)
ImplementsRegistry == Registry!Spec

(* Changes take effect as soon as the handler that makes them is done,     *)
(* the promise of update_app's invalidation that create_app and delete_app *)
(* make too: what Redis holds is what the table says, unless just that     *)
(* invalidation was lost or a resolution overlapped the commit.            *)
StaleOnlyByRace == AllCallsIdle => \A s \in Subdomain : Agrees(s) \/ s \in unsure
=============================================================================

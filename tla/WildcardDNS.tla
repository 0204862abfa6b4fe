------------------------------ MODULE WildcardDNS ------------------------------
(***************************************************************************)
(* The wildcard record of the platform: runs of scripts/check_cloudflare,  *)
(* ensure_wildcard_record and the zone at Cloudflare they read and write.  *)
(*                                                                         *)
(* A run is one action per request to Cloudflare; a listing takes one      *)
(* request per page.  Only A records are listed, so the zone here has only *)
(* these.  Their content is left out: the code compares it with nothing    *)
(* but to warn, and whether Cloudflare takes a second record of a name for *)
(* a duplicate, which depends on it, is left open.                         *)
(*                                                                         *)
(* RecognisedRelative, FirstPageOnly and AsGiven are the code, or what it  *)
(* takes Cloudflare to do, with a plausible mistake, for the mutation runs *)
(* of PROJECT.json.                                                        *)
(***************************************************************************)
EXTENDS Integers, FiniteSets, SequencesExt

CONSTANTS
    Caller,       \* runs of the script at once
    RecordId,     \* ids that Cloudflare may draw
    Name,         \* full names of records
    Star,         \* the name "*", relative to the zone
    ZoneWildcard, \* what Cloudflare makes of it: "*." and the zone's name
    BaseWildcard, \* "*." and BASE_DOMAIN
    PageSize,     \* records in a page of a listing
    MaxBusy,      \* bound on the runs in flight
    MaxRetries,   \* how often the client library sends a request again
    MaxEdits      \* bound on the changes by others

ASSUME NameAssumption == {ZoneWildcard, BaseWildcard} \subseteq Name /\ Star \notin Name
ASSUME BoundAssumption == IsFiniteSet(Caller) /\ MaxBusy \in Nat
ASSUME SizeAssumption == PageSize \in Nat \ {0} /\ MaxRetries \in Nat /\ MaxEdits \in Nat

VARIABLES
    zone,    \* the A records in the order of a listing
    run,     \* Caller |-> the run it is
    edits,   \* how many changes others made
    standing \* history: Caller |-> the wildcard records that are there since
             \* its listing began, while no record has left its place

vars == <<zone, run, edits, standing>>

Idle == [pc |-> "idle"]

Record == [id: RecordId, name: Name]

Run ==
    {Idle}
    \cup [pc: {"check", "ensure"}, provision: BOOLEAN, page: Nat, found: BOOLEAN]
    \cup [pc: {"create"}, tries: 0..MaxRetries]

TypeOK ==
    /\ zone \in Seq(Record)
    /\ run \in [Caller -> Run]
    /\ edits \in 0..MaxEdits
    /\ standing \in [Caller -> SUBSET RecordId]

-----------------------------------------------------------------------------
Records == {zone[i] : i \in DOMAIN zone}

Unused == RecordId \ {x.id : x \in Records}

AsGiven(n) == n

(* Cloudflare keeps full names.                                            *)
Qualified(n) == IF n = Star THEN ZoneWildcard ELSE n

RecognisedRelative(x) == x.name = Star

Recognised(x) == x.name \in {Star, BaseWildcard}

Wildcards == {x.id : x \in {y \in Records : y.name \in {ZoneWildcard, BaseWildcard}}}

FirstPageOnly(p) == {zone[i] : i \in IF p = 0 THEN DOMAIN zone \cap 1..PageSize ELSE {}}

PageAt(p) == {zone[i] : i \in DOMAIN zone \cap (p * PageSize + 1)..((p + 1) * PageSize)}

HasMatch(page) == \E x \in page : Recognised(x)

Goto(c, r) == run' = [run EXCEPT ![c] = r]

Inserted(x) == \E i \in 1..(Len(zone) + 1) : zone' = InsertAt(zone, i, x)

-----------------------------------------------------------------------------
(* The script.  It lists the zone itself, and only when it finds no        *)
(* wildcard and is told to provision it calls ensure_wildcard_record,      *)
(* which lists the zone again.                                             *)

Listing(pc, provision) == [pc |-> pc, provision |-> provision, page |-> 0, found |-> FALSE]

BeginRun(c, provision) ==
    /\ run[c] = Idle
    /\ Cardinality({d \in Caller : run[d] # Idle}) < MaxBusy
    /\ Goto(c, Listing("check", provision))
    /\ UNCHANGED <<zone, edits, standing>>

(* The paginator asks for pages until one is empty.                        *)
ReadPage(c) ==
    /\ run[c].pc \in {"check", "ensure"}
    /\ LET page == PageAt(run[c].page) IN
       /\ page # {}
       /\ Goto(c, [run[c] EXCEPT !.page = @ + 1, !.found = @ \/ HasMatch(page)])
    /\ UNCHANGED <<zone, edits, standing>>

AtEnd(c) == PageAt(run[c].page) = {}

EndCheck(c) ==
    /\ run[c].pc = "check" /\ AtEnd(c)
    /\ IF run[c].provision /\ ~run[c].found
       THEN /\ Goto(c, Listing("ensure", TRUE))
            /\ standing' = [standing EXCEPT ![c] = Wildcards]
       ELSE Goto(c, Idle) /\ UNCHANGED standing
    /\ UNCHANGED <<zone, edits>>

EndEnsure(c) ==
    /\ run[c].pc = "ensure" /\ AtEnd(c)
    /\ Goto(c, IF run[c].found THEN Idle ELSE [pc |-> "create", tries |-> 0])
    /\ UNCHANGED <<zone, edits, standing>>

(* The request is carried out.  When its answer is lost, the library sends *)
(* it again, or gives up and the run ends with an error.                   *)
CreateWildcard(c) ==
    /\ run[c].pc = "create"
    /\ \E id \in Unused : Inserted([id |-> id, name |-> Qualified(Star)])
    /\ \/ Goto(c, Idle)
       \/ /\ run[c].tries < MaxRetries
          /\ Goto(c, [run[c] EXCEPT !.tries = @ + 1])
    /\ UNCHANGED <<edits, standing>>

(* A request fails for good: the token, the zone, a limit on the rate, a   *)
(* record that exists already; or the process dies.  Every error becomes a *)
(* CloudflareError, and the script ends.                                   *)
FailRun(c) ==
    /\ run[c] # Idle
    /\ Goto(c, Idle)
    /\ UNCHANGED <<zone, edits, standing>>

-----------------------------------------------------------------------------
(* Others, through the service's other methods or at Cloudflare's console. *)

Edit == edits < MaxEdits /\ edits' = edits + 1 /\ UNCHANGED run

CreateRecord(n) ==
    /\ Edit
    /\ \E id \in Unused : Inserted([id |-> id, name |-> n])
    /\ UNCHANGED standing

PlacesMove == standing' = [c \in Caller |-> {}]

(* A record may move in the listing when it is renamed.                    *)
UpdateRecord(i, n) ==
    /\ Edit
    /\ \E j \in DOMAIN zone :
          zone' = InsertAt(RemoveAt(zone, i), j, [zone[i] EXCEPT !.name = n])
    /\ PlacesMove

(* Also an update that gives the record another type.                      *)
DeleteRecord(i) ==
    /\ Edit
    /\ zone' = RemoveAt(zone, i)
    /\ PlacesMove

-----------------------------------------------------------------------------
Init ==
    /\ zone = <<>>
    /\ run = [c \in Caller |-> Idle]
    /\ edits = 0
    /\ standing = [c \in Caller |-> {}]

RunStep(c) ==
    \/ \E provision \in BOOLEAN : BeginRun(c, provision)
    \/ ReadPage(c)
    \/ EndCheck(c)
    \/ EndEnsure(c)
    \/ CreateWildcard(c)
    \/ FailRun(c)

Next ==
    \/ \E c \in Caller : RunStep(c)
    \/ \E n \in Name : CreateRecord(n)
    \/ \E i \in DOMAIN zone, n \in Name : UpdateRecord(i, n)
    \/ \E i \in DOMAIN zone : DeleteRecord(i)

Spec == Init /\ [][Next]_vars

-----------------------------------------------------------------------------
(* Properties.                                                             *)

(* A run creates the wildcard record only if none has been there all the   *)
(* time since its listing began: reading page by page overlooks no record  *)
(* that stays in place, and a record that another run made is recognised   *)
(* by the name Cloudflare gave it, not the "*" it was created with.        *)
NothingOverlooked == \A c \in Caller : run[c].pc = "create" => standing[c] = {}

(* Provisioning again, after success, after an error or after a lost       *)
(* answer, does not add a second record: as long as nobody else changes    *)
(* the zone, there are no more than the runs that raced with one another   *)
(* sent, each once and once more for every lost answer.                    *)
DuplicatesBounded ==
    edits = 0 => Cardinality(Wildcards) <= MaxBusy * (1 + MaxRetries)
=============================================================================

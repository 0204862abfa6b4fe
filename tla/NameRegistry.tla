---------------------------- MODULE NameRegistry ----------------------------
(***************************************************************************)
(* What the platform promises about names, as one registry that changes in *)
(* single steps: a site opens under a name nobody ever had and keeps it,   *)
(* with its id and its owner, for good; its facts (status and              *)
(* configuration) change; and what is told of a name is either that nobody *)
(* has it or something that was once true of the site that has it.         *)
(*                                                                         *)
(* TenantRegistry shows that the handlers, the table and the cache of      *)
(* TenantApps implement this.                                              *)
(***************************************************************************)
CONSTANTS
    Name,    \* names of sites
    Id,      \* what a site is stored and served under
    Owner,   \* accounts
    Fact,    \* what may change of a site
    NewFact, \* what is true of a site when it opens
    Unknown, \* nothing is told of a name
    Nobody   \* it is told that nobody has it

VARIABLES
    sites, \* the sites that were ever opened: [name, id, owner, now, past]
    told   \* Name |-> what is told of it: [id, fact], Unknown or Nobody

vars == <<sites, told>>

NewSite(n, i, o) ==
    [name |-> n, id |-> i, owner |-> o, now |-> NewFact, past |-> {NewFact}]

Open(n, i) ==
    /\ UNCHANGED told
    /\ \A x \in sites : x.name # n /\ x.id # i
    /\ \E o \in Owner : sites' = sites \cup {NewSite(n, i, o)}

Changed(x, f) ==
    [name |-> x.name, id |-> x.id, owner |-> x.owner, now |-> f, past |-> x.past \cup {f}]

Change(x, f) ==
    /\ UNCHANGED told
    /\ sites' = (sites \ {x}) \cup {Changed(x, f)}

Tell(x, f) ==
    /\ told' = [told EXCEPT ![x.name] = [id |-> x.id, fact |-> f]]
    /\ UNCHANGED sites

TellNobody(n) ==
    /\ told' = [told EXCEPT ![n] = Nobody]
    /\ UNCHANGED sites

Forget(n) ==
    /\ told' = [told EXCEPT ![n] = Unknown]
    /\ UNCHANGED sites

Init ==
    /\ sites = {}
    /\ told = [n \in Name |-> Unknown]

Next ==
    \/ \E n \in Name, i \in Id : Open(n, i)
    \/ \E x \in sites, f \in Fact : Change(x, f)
    \/ \E x \in sites : \E f \in x.past : Tell(x, f)
    \/ \E n \in Name : TellNobody(n) \/ Forget(n)

Spec == Init /\ [][Next]_vars
=============================================================================

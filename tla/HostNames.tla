------------------------------ MODULE HostNames ------------------------------
(***************************************************************************)
(* Host names: which subdomains create_app admits, and which Host headers  *)
(* the runtime takes for a tenant's.  The two are written apart, one in    *)
(* the API and one in the runtime, and have to agree.                      *)
(*                                                                         *)
(* A Host header is a name before one of a few domains; the port, which is *)
(* cut off, is left out.                                                   *)
(***************************************************************************)
EXTENDS Integers, Sequences, SequencesExt

CONSTANTS
    Letter,      \* a character for [a-z0-9]
    Capital,     \* one whose lower case is Letter
    Hyphen, Dot, Space,
    MinLabel,    \* 3
    MaxLabel,    \* 63
    Reserved,    \* RESERVED_SUBDOMAINS
    Development, \* settings.is_development
    NoTenant     \* the HTTPException of the API, the None of the runtime

ASSUME LabelAssumption == MinLabel \in Nat /\ MaxLabel \in Nat /\ 3 <= MinLabel

Char == {Letter, Capital, Hyphen, Dot, Space}

(* They are five.                                                          *)
ASSUME CharAssumption ==
    /\ Letter \notin {Capital, Hyphen, Dot, Space} /\ Capital \notin {Hyphen, Dot, Space}
    /\ Hyphen \notin {Dot, Space} /\ Dot # Space

Host == [name: Seq(Char), domain: {"base", "localhost", "foreign"}]

Lowered(t) == [i \in DOMAIN t |-> IF t[i] = Capital THEN Letter ELSE t[i]]

Trimmed(t) ==
    LET ink == {i \in DOMAIN t : t[i] # Space} IN
    IF ink = {} THEN <<>> ELSE SubSeq(t, Min(ink), Max(ink))

(* One character, or at least three.                                       *)
MatchesRegex(t) ==
    /\ Len(t) = 1 \/ Len(t) \in 3..MaxLabel
    /\ t[1] = Letter /\ t[Len(t)] = Letter
    /\ \A i \in DOMAIN t : t[i] \in {Letter, Hyphen}

ValidateReservedToo(t) ==
    LET cleaned == Lowered(Trimmed(t)) IN
    IF Len(cleaned) \in MinLabel..MaxLabel /\ MatchesRegex(cleaned) THEN cleaned ELSE NoTenant

ValidateSubdomain(t) ==
    LET cleaned == Lowered(Trimmed(t)) IN
    IF Len(cleaned) \in MinLabel..MaxLabel /\ MatchesRegex(cleaned) /\ cleaned \notin Reserved
    THEN cleaned ELSE NoTenant

(* The name is followed by its domain, so only what leads it is trimmed.   *)
ExtractSubdomain(host) ==
    LET name == Lowered(Trimmed(host.name \o <<Dot>>))
        label == Front(name) IN
    IF /\ host.domain \in {"base"} \cup (IF Development THEN {"localhost"} ELSE {})
       /\ label # <<>> /\ ~Contains(label, Dot)
       /\ MatchesRegex(label) /\ label \notin Reserved
    THEN label ELSE NoTenant

(* live_url of to_app_out                                                  *)
LiveHost(label) == [name |-> label, domain |-> "base"]
=============================================================================

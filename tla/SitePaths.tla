------------------------------ MODULE SitePaths ------------------------------
(***************************************************************************)
(* Paths: what sanitize_relative_path makes of a submitted one, which      *)
(* entries of an archive deploy_zip_archive takes, and which key the app   *)
(* runtime looks a request up under.                                       *)
(*                                                                         *)
(* A path is a sequence of pieces, the parts between its slashes; "" is    *)
(* <<Empty>> and "/" is <<Empty, Empty>>.  A piece is a name as it stands  *)
(* (esc = 0), or names and the slashes between them that are URL-encoded   *)
(* esc times over.  Names are atoms: what matters of one is whether it is  *)
(* special, begins with a dot, or has a permitted extension, which is      *)
(* never the part that is encoded.  A backslash counts as a slash.         *)
(***************************************************************************)
EXTENDS Integers, Sequences, SequencesExt

CONSTANTS
    Word,      \* names
    Empty,     \* the name between two slashes, and before or after an outer one
    Here,      \* "."
    Parent,    \* ".."
    Ellipsis,  \* a name of three or more dots
    Null,      \* a name with a null byte
    Blank,     \* a name of spaces
    MacFolder, \* "__MACOSX"
    Hidden,    \* names that begin with a dot, but for those above
    Bare,      \* Hidden |-> the name without its leading dots
    Permitted, \* names whose extension is among ALLOWED_EXTENSIONS
    Refused    \* the ValueError

ASSUME WordAssumption ==
    /\ {Empty, Here, Parent, Ellipsis, Null, Blank, MacFolder} \cup Permitted \cup Hidden
          \subseteq Word
    /\ Hidden \cap {Empty, Here, Parent, Ellipsis, Null, Blank, MacFolder} = {}
    /\ Bare \in [Hidden -> Word \ ({Empty, Here, Parent, Ellipsis, Null, Blank} \cup Hidden)]

Raw(w) == [names |-> <<w>>, esc |-> 0]

Piece ==
    {Raw(w) : w \in Word} \cup [names: Seq(Word) \ {<<>>}, esc: Nat \ {0}]

IsRaw(path) == \A i \in DOMAIN path : path[i].esc = 0

Mentions(path, w) == Contains(path, Raw(w))

-----------------------------------------------------------------------------
(* sanitize_relative_path                                                  *)

(* One pass of urllib's unquote.                                           *)
DecodedPiece(p) ==
    IF p.esc = 1 THEN [j \in DOMAIN p.names |-> Raw(p.names[j])]
    ELSE <<[p EXCEPT !.esc = IF @ = 0 THEN 0 ELSE @ - 1]>>

Decoded(path) == FlattenSeq([i \in DOMAIN path |-> DecodedPiece(path[i])])

(* The parts between slashes but for "" and ".".                           *)
Kept(p) == IF p \in {Raw(Empty), Raw(Here)} THEN <<>> ELSE <<p>>

Parts(path) == FlattenSeq([i \in DOMAIN path |-> Kept(path[i])])

(* lstrip("./"), of a path whose first part is no name of dots only.       *)
Unhidden(parts) ==
    IF parts # <<>> /\ \E w \in Hidden : Head(parts) = Raw(w)
    THEN <<Raw(Bare[Head(parts).names[1]])>> \o Tail(parts) ELSE parts

StrippedOnce(parts) ==
    Unhidden(IF parts # <<>> /\ Head(parts) = Raw(Ellipsis) THEN Tail(parts) ELSE parts)

Stripped(parts) ==
    LET Dots(n) == \A i \in 1..n : parts[i] = Raw(Ellipsis)
        n == CHOOSE k \in 0..Len(parts) : Dots(k) /\ (k < Len(parts) => ~Dots(k + 1))
    IN Unhidden(SubSeq(parts, n + 1, Len(parts)))

SanitizeBeforeDecoding(path) ==
    LET result == Stripped(Parts(Decoded(path))) IN
    IF \/ path \in {<<Raw(Empty)>>, <<Raw(Blank)>>}
       \/ Mentions(path, Null) \/ Mentions(Decoded(path), Null)
       \/ Mentions(path, Parent)
       \/ Head(path) = Raw(Empty)
       \/ result = <<>>
    THEN Refused ELSE result

(* Empty or blank, null bytes before and after decoding, "..", absolute,   *)
(* nothing left: refused, in this order.                                   *)
Sanitize(path) ==
    LET decoded == Decoded(path)
        result == Stripped(Parts(decoded)) IN
    IF \/ path \in {<<Raw(Empty)>>, <<Raw(Blank)>>}
       \/ Mentions(path, Null) \/ Mentions(decoded, Null)
       \/ Mentions(decoded, Parent)
       \/ Head(decoded) = Raw(Empty)
       \/ result = <<>>
    THEN Refused ELSE result

IsAllowedExtension(path) == \E w \in Permitted : Last(Last(path).names) = w

-----------------------------------------------------------------------------
(* The validation pass of deploy_zip_archive.                              *)

IsDirectory(path) == Last(path) = Raw(Empty)

(* A sanitised path has no part "." or "..".                               *)
HasHiddenPart(path) ==
    \E w \in Hidden \cup {Ellipsis, MacFolder} : Mentions(path, w)

IsSkipped(entry) ==
    \/ IsDirectory(entry)
    \/ Sanitize(entry) # Refused /\ HasHiddenPart(Sanitize(entry))

Deployed(entries) == {Sanitize(e) : e \in {x \in entries : ~IsSkipped(x)}}

IsDeployable(entries) ==
    /\ Deployed(entries) # {}
    /\ \A p \in Deployed(entries) : p # Refused /\ IsAllowedExtension(p)

-----------------------------------------------------------------------------
(* serve_tenant_request, from the path of a request to a key.              *)

IndexKey(index, default) == IF Sanitize(index) = Refused THEN default ELSE Sanitize(index)

IsRoot(path) == path \in {<<Raw(Empty)>>, <<Raw(Empty), Raw(Empty)>>, <<Raw(Blank)>>}

TargetInRoot(path, index, default) ==
    IF IsRoot(path) \/ IsDirectory(path) THEN IndexKey(index, default) ELSE Sanitize(path)

Target(path, index, default) ==
    IF IsRoot(path) THEN IndexKey(index, default)
    ELSE IF Sanitize(path) = Refused \/ ~IsDirectory(path) THEN Sanitize(path)
    ELSE Sanitize(path) \o IndexKey(index, default)
=============================================================================

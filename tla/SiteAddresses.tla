---------------------------- MODULE SiteAddresses ----------------------------
(***************************************************************************)
(* The addresses of a site: an app is created under a name, files are put  *)
(* under paths and listed, the custom index is changed, and a visitor's    *)
(* Host header and path lead to a key.  Every one of these steps passes    *)
(* what it is given through the functions of HostNames and SitePaths, some *)
(* of it twice: a key made by one request is the path of a later one.      *)
(*                                                                         *)
(* One request at a time; what happens inside them is in TenantApps and    *)
(* SiteStorage.                                                            *)
(***************************************************************************)
EXTENDS SitePaths, HostNames, FiniteSets

CONSTANTS
    Label,        \* subdomains as clients write them
    Path,         \* paths as clients write them
    Archive,      \* zip files: sets of paths
    DefaultIndex, \* what create_app stores
    MaxFiles      \* bound on the files of the site

ASSUME AddressAssumption ==
    /\ Label \subseteq Seq(Char)
    /\ Path \subseteq Seq(Piece) \ {<<>>} /\ Archive \subseteq (SUBSET Path) \ {{}}
    /\ DefaultIndex \in Seq(Piece) \ {<<>>, Refused}
    /\ Sanitize(DefaultIndex) = DefaultIndex /\ MaxFiles \in Nat

VARIABLES
    label, \* the app's subdomain, NoTenant before it is created
    index, \* its custom_index
    files, \* the keys in the bucket, without the prefix apps/<id>/
    taken  \* history: those of them that a deploy took from hidden entries

vars == <<label, index, files, taken>>

Exists == label # NoTenant

(* What GET /apps/{id}/files answers.                                      *)
Listing == files

Init == label = NoTenant /\ index = DefaultIndex /\ files = {} /\ taken = {}

CreateApp(t) ==
    /\ ~Exists
    /\ label' = ValidateSubdomain(t)
    /\ UNCHANGED <<index, files, taken>>

SetIndex(p) ==
    /\ Exists /\ Sanitize(p) # Refused
    /\ index' = Sanitize(p)
    /\ UNCHANGED <<label, files, taken>>

Upload(p) ==
    /\ Exists /\ Sanitize(p) # Refused /\ IsAllowedExtension(Sanitize(p))
    /\ Cardinality(files \cup {Sanitize(p)}) <= MaxFiles
    /\ files' = files \cup {Sanitize(p)}
    /\ taken' = taken \ {Sanitize(p)}
    /\ UNCHANGED <<label, index>>

Deploy(entries) ==
    /\ Exists /\ IsDeployable(entries)
    /\ Cardinality(files \cup Deployed(entries)) <= MaxFiles
    /\ files' = files \cup Deployed(entries)
    /\ taken' = (taken \ Deployed(entries)) \cup Deployed({e \in entries : HasHiddenPart(e)})
    /\ UNCHANGED <<label, index>>

DeleteFile(p) ==
    /\ Exists /\ Sanitize(p) # Refused
    /\ files' = files \ {Sanitize(p)}
    /\ taken' = taken \ {Sanitize(p)}
    /\ UNCHANGED <<label, index>>

Next ==
    \/ \E t \in Label : CreateApp(t)
    \/ \E p \in Path : SetIndex(p) \/ Upload(p) \/ DeleteFile(p)
    \/ \E entries \in Archive : Deploy(entries)

Spec == Init /\ [][Next]_vars

-----------------------------------------------------------------------------
(* Properties.                                                             *)

(* "keys never escape apps/{app_id}/": the keys of a site, and its index,  *)
(* are relative and in normal form, although a path is decoded before it   *)
(* is split, and only once.                                                *)
IsCanonical(key) ==
    /\ key # Refused /\ key # <<>> /\ Head(key) # Raw(Ellipsis)
    /\ \A w \in {Empty, Here, Parent, Null} : ~Mentions(key, w)

KeysCanonical == IsCanonical(index) /\ \A k \in files : IsCanonical(k)

(* What the listing of files shows is the name of a file: a visitor who    *)
(* asks for it is led to that file, and DELETE with it removes that file.  *)
(* The name is sanitised again on the way, so this is idempotence; it      *)
(* holds of names in which nothing encoded is left, and that are not blank. *)
Faithful(key) == IsRaw(key) /\ key # <<Raw(Blank)>>

ListedNamesWork ==
    \A k \in Listing :
        Faithful(k) => Sanitize(k) = k /\ Target(k, index, DefaultIndex) = k

(* The index file is found where it was put: at the root under its own     *)
(* name, and for a directory with a slash under the key that the path with *)
(* the name written out leads to.                                          *)
IndexIsFound ==
    Faithful(index) =>
        /\ Target(<<Raw(Empty)>>, index, DefaultIndex) = index
        /\ \A p \in Path :
              IsDirectory(p) /\ ~IsRoot(p) /\ Sanitize(p) # Refused =>
                  Target(p, index, DefaultIndex) = Sanitize(Front(p) \o index)

(* Every app that can be created can be visited: its live_url, in whatever *)
(* case a visitor writes it, leads the runtime to its name.                *)
LiveUrlReaches ==
    Exists => \A t \in Label :
        Lowered(t) = label => ExtractSubdomain(LiveHost(t)) = label

(* "Skip macOS or hidden metadata folders": no file of the site was        *)
(* deployed from an entry in a hidden place.                               *)
HiddenIsSkipped == taken = {}
=============================================================================

------------------------------- MODULE Sessions -------------------------------
(***************************************************************************)
(* Refresh-token sessions: login, POST /auth/refresh and POST /auth/logout *)
(* over the refresh_tokens table and its mirror in Redis.                  *)
(*                                                                         *)
(* A handler is one action per Redis command or database statement.  The   *)
(* SELECT of the user is left out: no route removes users.  A token is     *)
(* known to a client only after the response that sets the cookie, which   *)
(* the handler sends right after it has mirrored the token.                *)
(*                                                                         *)
(* Definitions with a longer name beside another one (CommitRotation and   *)
(* RotationWithoutRow, say) are the same code with a plausible mistake,    *)
(* for the mutation runs of PROJECT.json.                                  *)
(***************************************************************************)
EXTENDS Integers, FiniteSets

CONSTANTS
    User,       \* accounts
    Token,      \* the jtis that generate_refresh_token may draw
    Request,    \* handlers that may run at once
    MaxBusy,    \* bound on the handlers in flight
    RedisFails, \* may Redis commands fail (they are swallowed) or keys get lost?
    Crashes,    \* may a process die, or Postgres raise, in a handler?
    NoToken,    \* no such row, and the parent of a login's token
    Nobody      \* no such key in Redis

(* A row of refresh_tokens.  parent is a history field the table does not  *)
(* have: the token whose rotation inserted the row.                        *)
TokenRow == [user: User, parent: Token \cup {NoToken},
             revoked: BOOLEAN, expired: BOOLEAN]

ASSUME BoundAssumption == IsFiniteSet(Request) /\ MaxBusy \in Nat
ASSUME SwitchAssumption == RedisFails \in BOOLEAN /\ Crashes \in BOOLEAN
ASSUME SentinelAssumption ==
    NoToken \notin TokenRow /\ NoToken \notin Token /\ Nobody \notin User

VARIABLES
    row,    \* Token |-> its row of refresh_tokens, or NoToken
    mirror, \* Token |-> the user_id under refresh:<jti> in Redis, or Nobody
    issued, \* the tokens some response has handed to a client
    kept,   \* history: the tokens of which a DEL in Redis has failed
    rivals, \* history: Token |-> how many handlers were past the check of it
            \* when its first rotation committed
    call    \* Request |-> the handler it runs

vars == <<row, mirror, issued, kept, rivals, call>>

IdleCall == [pc |-> "idle"]

Call ==
    {IdleCall}
    \cup [pc: {"check_row"}, jti: Token]
    \cup [pc: {"revoke_mirror", "commit_rotation"}, jti: Token, user: User]
    \cup [pc: {"logout_mirror", "commit_logout"}, jti: Token]
    \cup [pc: {"store"}, jti: Token, user: User]

TypeOK ==
    /\ row \in [Token -> TokenRow \cup {NoToken}]
    /\ mirror \in [Token -> User \cup {Nobody}]
    /\ issued \subseteq Token
    /\ kept \subseteq Token
    /\ rivals \in [Token -> Nat]
    /\ call \in [Request -> Call]

-----------------------------------------------------------------------------
Stored == {t \in Token : row[t] # NoToken}

Fresh == Token \ Stored

NewRow(u, p) == [user |-> u, parent |-> p, revoked |-> FALSE, expired |-> FALSE]

RevokedRow(t) == [row[t] EXCEPT !.revoked = TRUE]

Children(t) == {c \in Stored : row[c].parent = t}

(* The handlers that have found t valid and have not yet committed.        *)
Rotating(t) ==
    {r \in Request : call[r].pc \in {"revoke_mirror", "commit_rotation"} /\ call[r].jti = t}

Busy == {r \in Request : call[r] # IdleCall}

(* The pool of jtis bounds a run: a handler that will draw one starts only *)
(* while there is one left for it.                                         *)
WillMint == {r \in Request :
                 call[r].pc \in {"check_row", "revoke_mirror", "commit_rotation"}}

MintLeft == Cardinality(WillMint) < Cardinality(Fresh)

MayBegin(r) == call[r] = IdleCall /\ Cardinality(Busy) < MaxBusy

Goto(r, c) == call' = [call EXCEPT ![r] = c]

-----------------------------------------------------------------------------
(* login, after the password was verified: insert the row, then mirror it. *)

CommitLogin(r, u) ==
    /\ MayBegin(r) /\ MintLeft
    /\ \E t \in Fresh :
          /\ row' = [row EXCEPT ![t] = NewRow(u, NoToken)]
          /\ Goto(r, [pc |-> "store", jti |-> t, user |-> u])
    /\ UNCHANGED <<mirror, issued, kept>>

(* The end of login and of refresh: SET refresh:<jti> with a time to live, *)
(* then the response with the cookie.                                      *)
StoreMirror(r) ==
    /\ call[r].pc = "store"
    /\ \/ mirror' = [mirror EXCEPT ![call[r].jti] = call[r].user]
       \/ RedisFails /\ UNCHANGED mirror
    /\ issued' = issued \cup {call[r].jti}
    /\ Goto(r, IdleCall)
    /\ UNCHANGED <<row, kept>>

-----------------------------------------------------------------------------
(* refresh.  Redis is asked first and believed when it knows the token;    *)
(* only otherwise is the row read.                                         *)

BeginRefresh(r, t) ==
    /\ MayBegin(r) /\ MintLeft
    /\ t \in issued
    /\ \/ /\ mirror[t] # Nobody
          /\ Goto(r, [pc |-> "revoke_mirror", jti |-> t, user |-> mirror[t]])
       \/ /\ mirror[t] = Nobody \/ RedisFails
          /\ Goto(r, [pc |-> "check_row", jti |-> t])
    /\ UNCHANGED <<row, mirror, issued, kept>>

Valid(t) == t \in Stored /\ ~row[t].revoked /\ ~row[t].expired

CheckRow(r) ==
    /\ call[r].pc = "check_row"
    /\ LET t == call[r].jti IN
       Goto(r, IF Valid(t) THEN [pc |-> "revoke_mirror", jti |-> t, user |-> row[t].user]
                           ELSE IdleCall)
    /\ UNCHANGED <<row, mirror, issued, kept>>

(* DEL refresh:<jti>; a failure is swallowed.                              *)
DropMirror(t) ==
    \/ /\ mirror' = [mirror EXCEPT ![t] = Nobody]
       /\ UNCHANGED kept
    \/ /\ RedisFails
       /\ kept' = kept \cup {t}
       /\ UNCHANGED mirror

RevokeMirror(r) ==
    /\ call[r].pc = "revoke_mirror"
    /\ DropMirror(call[r].jti)
    /\ Goto(r, [call[r] EXCEPT !.pc = "commit_rotation"])
    /\ UNCHANGED <<row, issued>>

RotationWithoutRow(r) ==
    /\ call[r].pc = "commit_rotation"
    /\ \E c \in Fresh :
          /\ row' = [row EXCEPT ![call[r].jti] = RevokedRow(call[r].jti)]
          /\ Goto(r, [pc |-> "store", jti |-> c, user |-> call[r].user])
    /\ UNCHANGED <<mirror, issued, kept>>

RotationWithoutRevocation(r) ==
    /\ call[r].pc = "commit_rotation"
    /\ \E c \in Fresh :
          /\ row' = [row EXCEPT ![c] = NewRow(call[r].user, call[r].jti)]
          /\ Goto(r, [pc |-> "store", jti |-> c, user |-> call[r].user])
    /\ UNCHANGED <<mirror, issued, kept>>

RotationOfTokenOnly(r) ==
    /\ call[r].pc = "commit_rotation"
    /\ \E c \in Fresh :
          /\ row' = [row EXCEPT ![call[r].jti] = RevokedRow(call[r].jti),
                                ![c] = NewRow(call[r].jti, call[r].jti)]
          /\ Goto(r, [pc |-> "store", jti |-> c, user |-> call[r].user])
    /\ UNCHANGED <<mirror, issued, kept>>

(* One transaction: UPDATE the old row, whatever it says by now, and       *)
(* INSERT the new one.                                                     *)
CommitRotation(r) ==
    /\ call[r].pc = "commit_rotation"
    /\ \E c \in Fresh :
          /\ row' = [row EXCEPT ![call[r].jti] = RevokedRow(call[r].jti),
                                ![c] = NewRow(call[r].user, call[r].jti)]
          /\ Goto(r, [pc |-> "store", jti |-> c, user |-> call[r].user])
    /\ UNCHANGED <<mirror, issued, kept>>

-----------------------------------------------------------------------------
(* logout: Redis first, then the row; no check that the token is valid.    *)

LogoutInDatabaseOnly(r, t) ==
    /\ MayBegin(r)
    /\ t \in issued
    /\ Goto(r, [pc |-> "commit_logout", jti |-> t])
    /\ UNCHANGED <<row, mirror, issued, kept>>

BeginLogout(r, t) ==
    /\ MayBegin(r)
    /\ t \in issued
    /\ Goto(r, [pc |-> "logout_mirror", jti |-> t])
    /\ UNCHANGED <<row, mirror, issued, kept>>

LogoutMirror(r) ==
    /\ call[r].pc = "logout_mirror"
    /\ DropMirror(call[r].jti)
    /\ Goto(r, [call[r] EXCEPT !.pc = "commit_logout"])
    /\ UNCHANGED <<row, issued>>

CommitLogout(r) ==
    /\ call[r].pc = "commit_logout"
    /\ row' = [row EXCEPT ![call[r].jti] = RevokedRow(call[r].jti)]
    /\ Goto(r, IdleCall)
    /\ UNCHANGED <<mirror, issued, kept>>

(* The handler ends where it is; nothing of an open transaction is kept.   *)
AbortCall(r) ==
    /\ Crashes
    /\ call[r] # IdleCall
    /\ Goto(r, IdleCall)
    /\ UNCHANGED <<row, mirror, issued, kept>>

-----------------------------------------------------------------------------
(* Time.  expires_at is computed before the key's time to live starts, for *)
(* the same number of days: the key goes after the row has expired, unless *)
(* Redis loses it.                                                         *)

ExpireRow(t) ==
    /\ t \in Stored /\ ~row[t].expired
    /\ row' = [row EXCEPT ![t].expired = TRUE]
    /\ UNCHANGED <<mirror, issued, kept, call>>

ExpireMirror(t) ==
    /\ mirror[t] # Nobody /\ row[t].expired
    /\ mirror' = [mirror EXCEPT ![t] = Nobody]
    /\ UNCHANGED <<row, issued, kept, call>>

LoseMirror(t) ==
    /\ RedisFails
    /\ mirror[t] # Nobody
    /\ mirror' = [mirror EXCEPT ![t] = Nobody]
    /\ UNCHANGED <<row, issued, kept, call>>

-----------------------------------------------------------------------------
Init ==
    /\ row = [t \in Token |-> NoToken]
    /\ mirror = [t \in Token |-> Nobody]
    /\ issued = {}
    /\ kept = {}
    /\ rivals = [t \in Token |-> 0]
    /\ call = [r \in Request |-> IdleCall]

HandlerStep(r) ==
    \/ \E u \in User : CommitLogin(r, u)
    \/ StoreMirror(r)
    \/ \E t \in Token : BeginRefresh(r, t)
    \/ CheckRow(r)
    \/ RevokeMirror(r)
    \/ CommitRotation(r)
    \/ \E t \in Token : BeginLogout(r, t)
    \/ LogoutMirror(r)
    \/ CommitLogout(r)
    \/ AbortCall(r)

RecordRivals ==
    rivals' = [t \in Token |-> IF Children(t) = {} /\ Children(t)' # {}
                                  THEN Cardinality(Rotating(t)) ELSE rivals[t]]

Next ==
    /\ \/ \E r \in Request : HandlerStep(r)
       \/ \E t \in Token : ExpireRow(t) \/ ExpireMirror(t) \/ LoseMirror(t)
    /\ RecordRivals

Spec == Init /\ [][Next]_vars

-----------------------------------------------------------------------------
(* Properties.                                                             *)

Revoked(t) == t \in Stored /\ row[t].revoked

(* A revoked token is mirrored no longer, unless the DEL of a refresh or a *)
(* logout with it has failed: the fast path of refresh, which never reads  *)
(* the row, accepts no other.  It rests on the order of the two writes     *)
(* (DEL before COMMIT), whatever crash comes between them, and on no key   *)
(* being set again once a client knows the token.                          *)
RevokedUnmirrored == \A t \in Token \ kept : Revoked(t) => mirror[t] = Nobody

(* A key in Redis stands for a committed row of the same user, and         *)
(* rotation, which takes the user from whichever of the two it read, hands *)
(* a session on to the user it began with.                                 *)
MirrorKeepsOwner ==
    \A t \in Token : mirror[t] # Nobody => t \in Stored /\ mirror[t] = row[t].user

RotationKeepsOwner ==
    \A c \in Stored : row[c].parent \in Stored => row[c].user = row[row[c].parent].user

SessionsKeepOwner == MirrorKeepsOwner /\ RotationKeepsOwner

(* Rotation makes a refresh token single-use up to the handlers that race, *)
(* unless a DEL of its key has failed: once one rotation has committed no  *)
(* further handler passes the check, so a token has at most as many        *)
(* successors as handlers were past it by then.  The UPDATE of the row     *)
(* does not look at its old value, so it is not one.                       *)
RotationsBounded == \A t \in Token \ kept : Cardinality(Children(t)) <= rivals[t]
=============================================================================

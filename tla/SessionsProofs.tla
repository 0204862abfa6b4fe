---------------------------- MODULE SessionsProofs ----------------------------
(***************************************************************************)
(* Type correctness of Sessions, the owners of its sessions, that no       *)
(* revoked token is mirrored but for a DEL that failed, and that rotation  *)
(* is single-use up to a race: for every set of users, tokens and handlers *)
(* in flight, with every fault.                                            *)
(***************************************************************************)
EXTENDS Sessions, FiniteSetTheorems, TLAPS

(* A handler works on a token that has a row, on behalf of its owner.      *)
CallsHaveRows ==
    \A r \in Request :
        /\ call[r].pc # "idle" => call[r].jti \in Stored
        /\ call[r].pc \in {"revoke_mirror", "commit_rotation", "store"} =>
              row[call[r].jti].user = call[r].user

IssuedHaveRows == issued \subseteq Stored

ParentsHaveRows ==
    \A c \in Stored : row[c].parent # NoToken => row[c].parent \in Stored

OwnerInv ==
    /\ TypeOK
    /\ CallsHaveRows
    /\ IssuedHaveRows
    /\ ParentsHaveRows
    /\ SessionsKeepOwner

(* A token whose handler is about to commit its revocation is unmirrored,  *)
(* a token about to be mirrored is new: not revoked, not known to anyone.  *)
AboutToRevoke == {"commit_rotation", "commit_logout"}

Gone(t) == mirror[t] = Nobody \/ t \in kept

(* The same in the next state, for tokens that are read from that state.   *)
GoneAfter(t) == mirror'[t] = Nobody \/ t \in kept'

DroppedBeforeRevoked ==
    \A r \in Request : call[r].pc \in AboutToRevoke => Gone(call[r].jti)

StoringIsNew ==
    \A r \in Request : call[r].pc = "store" =>
        /\ ~row[call[r].jti].revoked
        /\ call[r].jti \notin issued
        /\ \A q \in Request \ {r} : call[q].pc # "idle" => call[q].jti # call[r].jti

MirrorInv ==
    /\ OwnerInv
    /\ DroppedBeforeRevoked
    /\ StoringIsNew
    /\ RevokedUnmirrored
-----------------------------------------------------------------------------
(* The shapes of a record with a given program counter, and of a row.      *)

LEMMA CallShape ==
    ASSUME TypeOK, NEW r \in Request
    PROVE  /\ call[r] \in Call
           /\ call[r].pc = "check_row" => call[r] \in [pc: {"check_row"}, jti: Token]
           /\ call[r].pc \in {"revoke_mirror", "commit_rotation"} =>
                call[r] \in [pc: {"revoke_mirror", "commit_rotation"}, jti: Token, user: User]
           /\ call[r].pc \in {"logout_mirror", "commit_logout"} =>
                call[r] \in [pc: {"logout_mirror", "commit_logout"}, jti: Token]
           /\ call[r].pc = "store" => call[r] \in [pc: {"store"}, jti: Token, user: User]
           /\ call[r] # IdleCall => call[r].pc # "idle" /\ call[r].jti \in Token
BY DEF TypeOK, Call, IdleCall

LEMMA RowShape ==
    ASSUME TypeOK, NEW t \in Stored
    PROVE  t \in Token /\ row[t] \in TokenRow
BY DEF TypeOK, Stored

(* Going to a state of the right shape keeps the calls typed, and tells    *)
(* what every handler does next.                                           *)
LEMMA GotoType ==
    ASSUME TypeOK, NEW r \in Request, NEW c \in Call, Goto(r, c)
    PROVE  /\ call' \in [Request -> Call]
           /\ \A q \in Request : call'[q] = IF q = r THEN c ELSE call[q]
BY DEF TypeOK, Goto

(* The history of each token's rivals.                                     *)
LEMMA RivalsNext ==
    ASSUME TypeOK, [Next]_vars
    PROVE  /\ rivals' \in [Token -> Nat]
           /\ \A t \in Token :
                 rivals'[t] = IF Children(t) = {} /\ Children(t)' # {}
                                THEN Cardinality(Rotating(t)) ELSE rivals[t]
<1>1. CASE UNCHANGED vars
  <2>1. \A t \in Token : Children(t)' = Children(t)
    BY <1>1 DEF vars, Children, Stored
  <2> QED
    BY <1>1, <2>1 DEF vars, TypeOK
<1>2. CASE RecordRivals
  <2>1. \A t \in Token : Cardinality(Rotating(t)) \in Nat
    BY BoundAssumption, FS_Subset, FS_CardinalityType DEF Rotating
  <2> QED
    BY <1>2, <2>1 DEF RecordRivals, TypeOK
<1> QED
  BY <1>1, <1>2 DEF Next

(* What a step does to the rows there are: at most it revokes or expires   *)
(* them.                                                                   *)
RowsStay ==
    /\ row' \in [Token -> TokenRow \cup {NoToken}]
    /\ Stored \subseteq Stored'
    /\ \A t \in Stored : row'[t].user = row[t].user /\ row'[t].parent = row[t].parent

LEMMA RevokeRow ==
    ASSUME TypeOK, NEW t \in Stored, row' = [row EXCEPT ![t] = RevokedRow(t)]
    PROVE  /\ RowsStay /\ Stored' = Stored
           /\ row'[t].revoked
           /\ \A s \in Token \ {t} : row'[s] = row[s]
<1> DEFINE new == RevokedRow(t)
<1>1. row[t] \in TokenRow /\ t \in Token
  BY RowShape
<1>2. new \in TokenRow /\ new.user = row[t].user /\ new.parent = row[t].parent /\ new.revoked
  BY <1>1 DEF TokenRow, RevokedRow
<1>3. row' = [row EXCEPT ![t] = new]
  OBVIOUS
<1>4. row' \in [Token -> TokenRow \cup {NoToken}]
  BY <1>1, <1>2, <1>3 DEF TypeOK
<1>5. \A s \in Token : row'[s] = IF s = t THEN new ELSE row[s]
  BY <1>3 DEF TypeOK
<1> HIDE DEF new
<1>6. new # NoToken /\ row[t] # NoToken
  BY <1>1, <1>2, SentinelAssumption
<1>7. Stored' = Stored
  BY <1>1, <1>5, <1>6 DEF Stored
<1>8. RowsStay
  BY <1>1, <1>2, <1>4, <1>5, <1>7 DEF RowsStay, Stored
<1> QED
  BY <1>1, <1>2, <1>5, <1>7, <1>8 DEF Stored

LEMMA InsertRow ==
    ASSUME TypeOK, NEW c \in Fresh, NEW u \in User, NEW p \in Token \cup {NoToken},
           row' = [row EXCEPT ![c] = NewRow(u, p)]
    PROVE  /\ RowsStay /\ Stored' = Stored \cup {c}
           /\ row'[c] = NewRow(u, p)
           /\ \A s \in Token \ {c} : row'[s] = row[s]
<1>1. NewRow(u, p) \in TokenRow
  BY DEF NewRow, TokenRow
<1> QED
  BY <1>1, SentinelAssumption DEF RowsStay, Fresh, Stored, TypeOK

(* What a rotation of t for u does to the table: t revoked, c its child.   *)
Rotated(t, c, u) == row' = [row EXCEPT ![t] = RevokedRow(t), ![c] = NewRow(u, t)]

LEMMA RotateRow ==
    ASSUME TypeOK, NEW t \in Stored, NEW c \in Fresh, NEW u \in User, Rotated(t, c, u)
    PROVE  /\ RowsStay /\ Stored' = Stored \cup {c}
           /\ row'[t].revoked
           /\ row'[c] = NewRow(u, t)
           /\ \A s \in Token \ {t, c} : row'[s] = row[s]
<1> DEFINE new == RevokedRow(t)
<1>1. row[t] \in TokenRow /\ t \in Token
  BY RowShape
<1>2. new \in TokenRow /\ new.user = row[t].user /\ new.parent = row[t].parent /\ new.revoked
  BY <1>1 DEF TokenRow, RevokedRow
<1>3. t # c
  BY DEF Fresh
<1>4. row' = [row EXCEPT ![t] = new, ![c] = NewRow(u, t)]
  BY DEF Rotated
<1>5. NewRow(u, t) \in TokenRow
  BY <1>1 DEF NewRow, TokenRow
<1>6. c \in Token /\ c \notin Stored
  BY DEF Fresh
<1>7. row' \in [Token -> TokenRow \cup {NoToken}]
  BY <1>1, <1>2, <1>4, <1>5, <1>6 DEF TypeOK
<1>8. \A s \in Token : row'[s] = IF s = c THEN NewRow(u, t)
                                 ELSE IF s = t THEN new ELSE row[s]
  BY <1>1, <1>3, <1>4, <1>6 DEF TypeOK
<1> HIDE DEF new
<1>9. new # NoToken /\ NewRow(u, t) # NoToken
  BY <1>2, <1>5, SentinelAssumption
<1>10. Stored' = Stored \cup {c}
  BY <1>1, <1>6, <1>8, <1>9 DEF Stored
<1>11. RowsStay
  BY <1>1, <1>2, <1>6, <1>7, <1>8, <1>10 DEF RowsStay, Stored
<1> QED
  BY <1>1, <1>2, <1>3, <1>6, <1>8, <1>10, <1>11

LEMMA ExpireOne ==
    ASSUME TypeOK, NEW t \in Stored, row' = [row EXCEPT ![t].expired = TRUE]
    PROVE  /\ RowsStay /\ Stored' = Stored
           /\ \A s \in Stored : row'[s].revoked = row[s].revoked
<1> DEFINE new == [row[t] EXCEPT !.expired = TRUE]
<1>1. row[t] \in TokenRow /\ t \in Token
  BY RowShape
<1>2. /\ new \in TokenRow /\ new.user = row[t].user /\ new.parent = row[t].parent
      /\ new.revoked = row[t].revoked
  BY <1>1 DEF TokenRow
<1>3. row' = [row EXCEPT ![t] = new]
  OBVIOUS
<1>4. row' \in [Token -> TokenRow \cup {NoToken}]
  BY <1>1, <1>2, <1>3 DEF TypeOK
<1>5. \A s \in Token : row'[s] = IF s = t THEN new ELSE row[s]
  BY <1>3 DEF TypeOK
<1> HIDE DEF new
<1>6. new # NoToken /\ row[t] # NoToken
  BY <1>1, <1>2, SentinelAssumption
<1>7. Stored' = Stored
  BY <1>1, <1>5, <1>6 DEF Stored
<1>8. RowsStay
  BY <1>1, <1>2, <1>4, <1>5, <1>7 DEF RowsStay, Stored
<1> QED
  BY <1>1, <1>2, <1>5, <1>7, <1>8 DEF Stored

-----------------------------------------------------------------------------
(* OwnerInv is inductive.                                                  *)

LEMMA OwnerInit == Init => OwnerInv
BY SentinelAssumption DEF Init, OwnerInv, TypeOK, Call, IdleCall, CallsHaveRows, IssuedHaveRows,
   ParentsHaveRows, SessionsKeepOwner, MirrorKeepsOwner, RotationKeepsOwner, Stored

(* A step that changes no handler but r keeps what CallsHaveRows says of   *)
(* the others.                                                             *)
LEMMA CallsKept ==
    ASSUME OwnerInv, RowsStay, NEW r \in Request, NEW c \in Call,
           \A q \in Request : call'[q] = IF q = r THEN c ELSE call[q],
           c.pc # "idle" => c.jti \in Stored',
           c.pc \in {"revoke_mirror", "commit_rotation", "store"} => row'[c.jti].user = c.user
    PROVE  CallsHaveRows'
BY DEF OwnerInv, CallsHaveRows, RowsStay

(* Lineage, when rows are at most revoked or expired.                      *)
LEMMA LineageKept ==
    ASSUME OwnerInv, RowsStay, Stored' = Stored
    PROVE  ParentsHaveRows' /\ RotationKeepsOwner' /\ IssuedHaveRows
BY DEF OwnerInv, RowsStay, ParentsHaveRows, SessionsKeepOwner, RotationKeepsOwner

LEMMA MirrorKept ==
    ASSUME OwnerInv, RowsStay,
           \A t \in Token : mirror'[t] \in {mirror[t], Nobody}
    PROVE  MirrorKeepsOwner'
BY DEF OwnerInv, RowsStay, SessionsKeepOwner, MirrorKeepsOwner

(* Handlers that leave the table alone.                                    *)
LEMMA NoRowStep ==
    ASSUME TypeOK, UNCHANGED row
    PROVE  RowsStay /\ Stored' = Stored
BY DEF RowsStay, Stored, TypeOK

LEMMA DropType ==
    ASSUME TypeOK, NEW t \in Token, DropMirror(t)
    PROVE  /\ mirror' \in [Token -> User \cup {Nobody}]
           /\ \A s \in Token : mirror'[s] \in {mirror[s], Nobody}
           /\ kept \subseteq kept' /\ kept' \subseteq Token
           /\ GoneAfter(t)
BY DEF TypeOK, DropMirror, GoneAfter

(* The five conjuncts, from what an action does to each variable.          *)
LEMMA OwnerParts ==
    ASSUME OwnerInv, RowsStay, NEW r \in Request, NEW c \in Call, Goto(r, c),
           c.pc # "idle" => c.jti \in Stored',
           c.pc \in {"revoke_mirror", "commit_rotation", "store"} => row'[c.jti].user = c.user,
           ParentsHaveRows', RotationKeepsOwner', MirrorKeepsOwner',
           issued' \subseteq Stored', mirror' \in [Token -> User \cup {Nobody}],
           kept' \subseteq Token, rivals' \in [Token -> Nat]
    PROVE  OwnerInv'
<1>1. /\ call' \in [Request -> Call]
      /\ \A q \in Request : call'[q] = IF q = r THEN c ELSE call[q]
  BY GotoType DEF OwnerInv
<1>2. CallsHaveRows'
  BY <1>1, CallsKept
<1>3. TypeOK'
  BY <1>1 DEF TypeOK, RowsStay, Stored
<1> QED
  BY <1>2, <1>3 DEF OwnerInv, SessionsKeepOwner, IssuedHaveRows

LEMMA OwnerHandlerStep ==
    ASSUME OwnerInv, NEW r \in Request, HandlerStep(r), rivals' \in [Token -> Nat]
    PROVE  OwnerInv' /\ RowsStay
<1>a. TypeOK /\ IssuedHaveRows /\ IdleCall \in Call /\ IdleCall.pc = "idle"
  BY DEF OwnerInv, Call, IdleCall
<1>b. mirror \in [Token -> User \cup {Nobody}] /\ issued \subseteq Token /\ kept \subseteq Token
  BY <1>a DEF TypeOK
<1>1. ASSUME NEW u \in User, CommitLogin(r, u)
      PROVE  OwnerInv' /\ RowsStay
  <2>1. PICK t \in Fresh : /\ row' = [row EXCEPT ![t] = NewRow(u, NoToken)]
                           /\ Goto(r, [pc |-> "store", jti |-> t, user |-> u])
    BY <1>1 DEF CommitLogin
  <2>2. /\ RowsStay /\ Stored' = Stored \cup {t}
        /\ row'[t] = NewRow(u, NoToken)
        /\ \A s \in Token \ {t} : row'[s] = row[s]
    BY <1>a, <2>1, InsertRow
  <2>3. t \in Token /\ t \notin Stored /\ row'[t].user = u /\ row'[t].parent = NoToken
    BY <2>2 DEF Fresh, NewRow
  <2>4. [pc |-> "store", jti |-> t, user |-> u] \in Call
    BY <2>3 DEF Call
  <2>5. NoToken \notin Stored'
    BY SentinelAssumption DEF Stored
  <2>6. ParentsHaveRows' /\ RotationKeepsOwner'
    BY <2>2, <2>3, <2>5 DEF OwnerInv, SessionsKeepOwner, ParentsHaveRows, RotationKeepsOwner,
       RowsStay
  <2>7. MirrorKeepsOwner' /\ issued' \subseteq Stored' /\ UNCHANGED <<mirror, kept>>
    BY <1>1, <1>a, <2>2, MirrorKept DEF CommitLogin, IssuedHaveRows
  <2> QED
    BY <1>b, <2>1, <2>2, <2>3, <2>4, <2>6, <2>7, OwnerParts
<1>2. CASE StoreMirror(r)
  <2> DEFINE t == call[r].jti
  <2>1. call[r] \in [pc: {"store"}, jti: Token, user: User]
    BY <1>2, <1>a, CallShape DEF StoreMirror
  <2>2. t \in Stored /\ row[t].user = call[r].user
    BY <1>2 DEF StoreMirror, OwnerInv, CallsHaveRows
  <2>3. RowsStay /\ Stored' = Stored
    BY <1>2, <1>a, NoRowStep DEF StoreMirror
  <2>4. /\ mirror' \in [Token -> User \cup {Nobody}]
        /\ \A s \in Token : mirror'[s] = mirror[s] \/ (s = t /\ mirror'[s] = call[r].user)
    <3>1. call[r].jti \in Token /\ call[r].user \in User
      BY <2>1
    <3>2. CASE mirror' = [mirror EXCEPT ![call[r].jti] = call[r].user]
      BY <1>b, <3>1, <3>2
    <3>3. CASE mirror' = mirror
      BY <1>b, <3>3
    <3> QED
      BY <1>2, <3>2, <3>3 DEF StoreMirror
  <2>5. MirrorKeepsOwner'
    BY <2>2, <2>3, <2>4 DEF OwnerInv, SessionsKeepOwner, MirrorKeepsOwner, RowsStay
  <2>6. issued' \subseteq Stored' /\ Goto(r, IdleCall) /\ UNCHANGED kept
    BY <1>2, <1>a, <2>2, <2>3 DEF StoreMirror, IssuedHaveRows
  <2>7. ParentsHaveRows' /\ RotationKeepsOwner'
    BY <2>3, LineageKept
  <2> QED
    BY <1>a, <1>b, <2>3, <2>4, <2>5, <2>6, <2>7, OwnerParts
<1>3. ASSUME UNCHANGED <<row, mirror, issued, kept>>, NEW c \in Call, Goto(r, c),
             c.pc # "idle" => c.jti \in Stored,
             c.pc \in {"revoke_mirror", "commit_rotation", "store"} => row[c.jti].user = c.user
      PROVE  OwnerInv' /\ RowsStay
  <2>1. RowsStay /\ Stored' = Stored
    BY <1>3, <1>a, NoRowStep
  <2>2. ParentsHaveRows' /\ RotationKeepsOwner'
    BY <2>1, LineageKept
  <2>3. MirrorKeepsOwner'
    BY <1>3, <2>1, MirrorKept
  <2> QED
    BY <1>3, <1>a, <1>b, <2>1, <2>2, <2>3, OwnerParts DEF IssuedHaveRows
<1>4. ASSUME NEW t \in Token, BeginRefresh(r, t)
      PROVE  OwnerInv' /\ RowsStay
  <2>1. t \in Stored
    BY <1>4, <1>a DEF BeginRefresh, IssuedHaveRows
  <2>2. CASE mirror[t] # Nobody /\ Goto(r, [pc |-> "revoke_mirror", jti |-> t, user |-> mirror[t]])
    <3>1. mirror[t] \in User /\ mirror[t] = row[t].user
      BY <2>2, <1>b DEF OwnerInv, SessionsKeepOwner, MirrorKeepsOwner
    <3>2. [pc |-> "revoke_mirror", jti |-> t, user |-> mirror[t]] \in Call
      BY <3>1 DEF Call
    <3> QED
      BY <1>3, <1>4, <2>1, <2>2, <3>1, <3>2 DEF BeginRefresh
  <2>3. CASE Goto(r, [pc |-> "check_row", jti |-> t])
    <3>1. [pc |-> "check_row", jti |-> t] \in Call
      BY DEF Call
    <3> QED
      BY <1>3, <1>4, <2>1, <2>3, <3>1 DEF BeginRefresh
  <2> QED
    BY <1>4, <2>2, <2>3 DEF BeginRefresh
<1>5. CASE CheckRow(r)
  <2> DEFINE t == call[r].jti
             c == [pc |-> "revoke_mirror", jti |-> t, user |-> row[t].user]
  <2>1. t \in Stored
    BY <1>5 DEF CheckRow, OwnerInv, CallsHaveRows
  <2>2. row[t].user \in User /\ t \in Token
    BY <1>a, <2>1, RowShape DEF TokenRow
  <2>3. c \in Call
    BY <2>2 DEF Call
  <2>4. CASE Goto(r, c)
    BY <1>3, <1>5, <2>1, <2>3, <2>4 DEF CheckRow
  <2>5. CASE Goto(r, IdleCall)
    BY <1>3, <1>5, <1>a, <2>5 DEF CheckRow
  <2> QED
    BY <1>5, <2>4, <2>5 DEF CheckRow
<1>6. ASSUME RevokeMirror(r) \/ LogoutMirror(r)
      PROVE  OwnerInv' /\ RowsStay
  <2> DEFINE t == call[r].jti
             next == IF call[r].pc = "revoke_mirror" THEN "commit_rotation" ELSE "commit_logout"
             c == [call[r] EXCEPT !.pc = next]
  <2>1. t \in Stored /\ t \in Token
    BY <1>6 DEF RevokeMirror, LogoutMirror, OwnerInv, CallsHaveRows, Stored
  <2>2. c \in Call /\ c.jti = t /\ c.pc = next /\ c.pc \in {"commit_rotation", "commit_logout"}
    BY <1>6, <1>a, CallShape DEF RevokeMirror, LogoutMirror, Call
  <2>3. c.pc = "commit_rotation" => row[t].user = c.user
    BY <1>6, <1>a, CallShape DEF RevokeMirror, LogoutMirror, OwnerInv, CallsHaveRows
  <2>4. Goto(r, c) /\ DropMirror(t) /\ UNCHANGED <<row, issued>>
    BY <1>6 DEF RevokeMirror, LogoutMirror
  <2>5. RowsStay /\ Stored' = Stored
    BY <1>a, <2>4, NoRowStep
  <2>6. ParentsHaveRows' /\ RotationKeepsOwner'
    BY <2>5, LineageKept
  <2>7. mirror' \in [Token -> User \cup {Nobody}] /\ kept' \subseteq Token /\ MirrorKeepsOwner'
    BY <1>a, <2>1, <2>4, <2>5, DropType, MirrorKept
  <2> HIDE DEF c
  <2> QED
    BY <1>a, <2>1, <2>2, <2>3, <2>4, <2>5, <2>6, <2>7, OwnerParts DEF IssuedHaveRows
<1>7. CASE CommitRotation(r)
  <2> DEFINE t == call[r].jti
             u == call[r].user
  <2>1. call[r] \in [pc: {"revoke_mirror", "commit_rotation"}, jti: Token, user: User]
    BY <1>7, <1>a, CallShape DEF CommitRotation
  <2>2. t \in Stored /\ row[t].user = u /\ u \in User /\ t \in Token
    BY <1>7, <2>1 DEF CommitRotation, OwnerInv, CallsHaveRows
  <2>3. PICK c \in Fresh : Rotated(t, c, u) /\ Goto(r, [pc |-> "store", jti |-> c, user |-> u])
    BY <1>7 DEF CommitRotation, Rotated
  <2> HIDE DEF t, u
  <2>4. RowsStay /\ Stored' = Stored \cup {c} /\ row'[c] = NewRow(u, t)
    BY <1>a, <2>2, <2>3, RotateRow
  <2>5. c \in Token /\ c \notin Stored /\ row'[c].user = u /\ row'[c].parent = t
    BY <2>4 DEF Fresh, NewRow
  <2>6. [pc |-> "store", jti |-> c, user |-> u] \in Call
    BY <2>2, <2>5 DEF Call
  <2>7. ParentsHaveRows'
    BY <2>2, <2>4, <2>5 DEF OwnerInv, ParentsHaveRows, RowsStay
  <2>8. RotationKeepsOwner'
    <3> SUFFICES ASSUME NEW s \in Stored', row'[s].parent \in Stored'
                 PROVE  row'[s].user = row'[row'[s].parent].user
      BY DEF RotationKeepsOwner
    <3>1. CASE s = c
      BY <3>1, <2>2, <2>4, <2>5 DEF RowsStay
    <3>2. CASE s # c
      <4>1. s \in Stored /\ row'[s].parent = row[s].parent /\ row'[s].user = row[s].user
        BY <3>2, <2>4 DEF RowsStay
      <4>2. row[s].parent # NoToken
        BY <4>1, SentinelAssumption DEF Stored
      <4>3. row[s].parent \in Stored
        BY <4>1, <4>2 DEF OwnerInv, ParentsHaveRows
      <4> QED
        BY <4>1, <4>3, <2>4 DEF OwnerInv, SessionsKeepOwner, RotationKeepsOwner, RowsStay
    <3> QED
      BY <3>1, <3>2
  <2>9. MirrorKeepsOwner' /\ issued' \subseteq Stored' /\ UNCHANGED <<mirror, kept>>
    BY <1>7, <1>a, <2>4, MirrorKept DEF CommitRotation, IssuedHaveRows
  <2> QED
    BY <1>b, <2>3, <2>4, <2>5, <2>6, <2>7, <2>8, <2>9, OwnerParts
<1>8. ASSUME NEW t \in Token, BeginLogout(r, t)
      PROVE  OwnerInv' /\ RowsStay
  <2>1. t \in Stored
    BY <1>8, <1>a DEF BeginLogout, IssuedHaveRows
  <2>2. [pc |-> "logout_mirror", jti |-> t] \in Call
    BY DEF Call
  <2> QED
    BY <1>3, <1>8, <2>1, <2>2 DEF BeginLogout
<1>9. CASE CommitLogout(r)
  <2> DEFINE t == call[r].jti
  <2>1. t \in Stored
    BY <1>9 DEF CommitLogout, OwnerInv, CallsHaveRows
  <2>2. row' = [row EXCEPT ![t] = RevokedRow(t)]
    BY <1>9 DEF CommitLogout
  <2> HIDE DEF t
  <2>3. RowsStay /\ Stored' = Stored
    BY <1>a, <2>1, <2>2, RevokeRow
  <2>4. ParentsHaveRows' /\ RotationKeepsOwner'
    BY <2>3, LineageKept
  <2>5. /\ MirrorKeepsOwner' /\ issued' \subseteq Stored'
        /\ UNCHANGED <<mirror, kept>> /\ Goto(r, IdleCall)
    BY <1>9, <1>a, <2>3, MirrorKept DEF CommitLogout, IssuedHaveRows
  <2> QED
    BY <1>a, <1>b, <2>3, <2>4, <2>5, OwnerParts
<1>10. CASE AbortCall(r)
  BY <1>3, <1>10, <1>a DEF AbortCall
<1> QED
  BY <1>1, <1>2, <1>4, <1>5, <1>6, <1>7, <1>8, <1>9, <1>10 DEF HandlerStep

LEMMA OwnerTimeStep ==
    ASSUME OwnerInv, NEW t \in Token, ExpireRow(t) \/ ExpireMirror(t) \/ LoseMirror(t),
           rivals' \in [Token -> Nat]
    PROVE  OwnerInv' /\ RowsStay /\ Stored' = Stored
<1>a. TypeOK
  BY DEF OwnerInv
<1>1. RowsStay /\ Stored' = Stored
  <2>1. CASE ExpireRow(t)
    BY <1>a, <2>1, ExpireOne DEF ExpireRow
  <2>2. CASE ExpireMirror(t) \/ LoseMirror(t)
    BY <1>a, <2>2, NoRowStep DEF ExpireMirror, LoseMirror
  <2> QED
    BY <2>1, <2>2
<1>2. /\ mirror' \in [Token -> User \cup {Nobody}]
      /\ \A s \in Token : mirror'[s] \in {mirror[s], Nobody}
  BY <1>a DEF TypeOK, ExpireRow, ExpireMirror, LoseMirror
<1>3. UNCHANGED <<issued, kept, call>>
  BY DEF ExpireRow, ExpireMirror, LoseMirror
<1>4. TypeOK'
  BY <1>a, <1>1, <1>2, <1>3 DEF TypeOK, RowsStay
<1>5. CallsHaveRows' /\ IssuedHaveRows'
  BY <1>1, <1>3 DEF OwnerInv, CallsHaveRows, IssuedHaveRows, RowsStay
<1> QED
  BY <1>1, <1>2, <1>4, <1>5, LineageKept, MirrorKept DEF OwnerInv, SessionsKeepOwner

LEMMA OwnerNext == OwnerInv /\ [Next]_vars => OwnerInv'
<1> SUFFICES ASSUME OwnerInv, [Next]_vars PROVE OwnerInv'
  OBVIOUS
<1>1. CASE UNCHANGED vars
  BY <1>1 DEF vars, OwnerInv, TypeOK, CallsHaveRows, IssuedHaveRows, ParentsHaveRows,
     SessionsKeepOwner, MirrorKeepsOwner, RotationKeepsOwner, Stored
<1>a. rivals' \in [Token -> Nat]
  BY RivalsNext DEF OwnerInv
<1>2. CASE \E r \in Request : HandlerStep(r)
  BY <1>2, <1>a, OwnerHandlerStep
<1>3. CASE \E t \in Token : ExpireRow(t) \/ ExpireMirror(t) \/ LoseMirror(t)
  BY <1>3, <1>a, OwnerTimeStep
<1> QED
  BY <1>1, <1>2, <1>3 DEF Next

-----------------------------------------------------------------------------
(* MirrorInv is inductive.                                                 *)

MirrorParts == DroppedBeforeRevoked /\ StoringIsNew /\ RevokedUnmirrored

(* No other handler is about to mirror t for the first time.               *)
NotNewElsewhere(r, t) ==
    \A q \in Request \ {r} : call[q].pc = "store" => call[q].jti # t

LEMMA IssuedNotNew ==
    ASSUME MirrorInv, NEW r \in Request, NEW t \in issued
    PROVE  NotNewElsewhere(r, t)
BY DEF MirrorInv, StoringIsNew, NotNewElsewhere

LEMMA WorkedOnNotNew ==
    ASSUME MirrorInv, NEW r \in Request, call[r].pc # "idle"
    PROVE  NotNewElsewhere(r, call[r].jti)
BY DEF MirrorInv, StoringIsNew, NotNewElsewhere

(* A step that touches no data and leads to no write.                      *)
LEMMA MoveKeepsMirror ==
    ASSUME MirrorInv, NEW r \in Request, NEW c,
           UNCHANGED <<row, mirror, issued, kept>>,
           \A q \in Request : call'[q] = IF q = r THEN c ELSE call[q],
           c.pc \notin AboutToRevoke, c.pc # "store",
           c.pc # "idle" => NotNewElsewhere(r, c.jti)
    PROVE  MirrorParts'
<1>1. Stored' = Stored
  BY DEF Stored
<1>2. DroppedBeforeRevoked'
  BY DEF MirrorInv, DroppedBeforeRevoked, Gone, AboutToRevoke
<1>3. StoringIsNew'
  BY DEF MirrorInv, StoringIsNew, NotNewElsewhere
<1>4. RevokedUnmirrored'
  BY <1>1 DEF MirrorInv, RevokedUnmirrored, Revoked
<1> QED
  BY <1>2, <1>3, <1>4 DEF MirrorParts

LEMMA MirrorHandlerStep ==
    ASSUME MirrorInv, NEW r \in Request, HandlerStep(r)
    PROVE  MirrorParts'
<1>a. OwnerInv /\ TypeOK /\ CallsHaveRows /\ issued \subseteq Stored
  BY DEF MirrorInv, OwnerInv, IssuedHaveRows
<1>b. mirror \in [Token -> User \cup {Nobody}] /\ IdleCall \in Call /\ IdleCall.pc = "idle"
  BY <1>a DEF TypeOK, Call, IdleCall
<1>1. ASSUME NEW u \in User, CommitLogin(r, u)
      PROVE  MirrorParts'
  <2>1. PICK t \in Fresh : /\ row' = [row EXCEPT ![t] = NewRow(u, NoToken)]
                           /\ Goto(r, [pc |-> "store", jti |-> t, user |-> u])
    BY <1>1 DEF CommitLogin
  <2>2. /\ Stored' = Stored \cup {t}
        /\ row'[t] = NewRow(u, NoToken)
        /\ \A s \in Token \ {t} : row'[s] = row[s]
    BY <1>a, <2>1, InsertRow
  <2>3. t \in Token /\ t \notin Stored /\ ~row'[t].revoked
    BY <2>2 DEF Fresh, NewRow
  <2>4. [pc |-> "store", jti |-> t, user |-> u] \in Call
    BY <2>3 DEF Call
  <2>5. \A q \in Request : call'[q] = IF q = r THEN [pc |-> "store", jti |-> t, user |-> u]
                                       ELSE call[q]
    BY <1>a, <2>1, <2>4, GotoType
  <2>6. UNCHANGED <<mirror, issued, kept>>
    BY <1>1 DEF CommitLogin
  <2>7. \A q \in Request : call[q].pc # "idle" => call[q].jti \in Stored /\ call[q].jti # t
    BY <1>a, <2>3 DEF CallsHaveRows
  <2>8. DroppedBeforeRevoked'
    BY <2>5, <2>6 DEF MirrorInv, DroppedBeforeRevoked, Gone, AboutToRevoke
  <2>9. StoringIsNew'
    <3> SUFFICES ASSUME NEW q \in Request, call'[q].pc = "store"
                 PROVE  /\ ~row'[call'[q].jti].revoked
                        /\ call'[q].jti \notin issued'
                        /\ \A p \in Request \ {q} :
                              call'[p].pc # "idle" => call'[p].jti # call'[q].jti
      BY DEF StoringIsNew
    <3>1. CASE q = r
      BY <1>a, <2>3, <2>5, <2>6, <2>7, <3>1
    <3>2. CASE q # r
      <4>1. call'[q] = call[q] /\ call[q].jti \in Stored /\ call[q].jti # t
        BY <2>5, <2>7, <3>2
      <4>2. row'[call[q].jti] = row[call[q].jti]
        BY <2>2, <4>1 DEF Stored
      <4> QED
        BY <2>5, <2>6, <3>2, <4>1, <4>2 DEF MirrorInv, StoringIsNew
    <3> QED
      BY <3>1, <3>2
  <2>10. RevokedUnmirrored'
    BY <2>2, <2>3, <2>6 DEF MirrorInv, RevokedUnmirrored, Revoked, Stored
  <2> QED
    BY <2>8, <2>9, <2>10 DEF MirrorParts
<1>2. CASE StoreMirror(r)
  <2> DEFINE t == call[r].jti
  <2>1. t \in Token /\ t \in Stored /\ call[r].user \in User
    BY <1>2, <1>a, CallShape DEF StoreMirror, CallsHaveRows
  <2>2. ~row[t].revoked /\ \A q \in Request \ {r} : call[q].pc # "idle" => call[q].jti # t
    BY <1>2 DEF StoreMirror, MirrorInv, StoringIsNew
  <2>3. \A s \in Token : s # t => mirror'[s] = mirror[s]
    BY <1>2, <1>b DEF StoreMirror
  <2>4. \A q \in Request : call'[q] = IF q = r THEN IdleCall ELSE call[q]
    BY <1>2, <1>a, <1>b, GotoType DEF StoreMirror
  <2>5. UNCHANGED <<row, kept>> /\ issued' = issued \cup {t} /\ Stored' = Stored
    BY <1>2 DEF StoreMirror, Stored
  <2> HIDE DEF t
  <2>6. DroppedBeforeRevoked'
    <3> SUFFICES ASSUME NEW q \in Request, call'[q].pc \in AboutToRevoke
                 PROVE  GoneAfter(call'[q].jti)
      BY DEF DroppedBeforeRevoked, Gone, GoneAfter
    <3>1. q # r /\ call'[q] = call[q] /\ call[q].pc # "idle"
      BY <1>b, <2>4 DEF AboutToRevoke
    <3>2. call[q].jti # t /\ call[q].jti \in Token
      BY <1>a, <2>2, <3>1 DEF CallsHaveRows, Stored
    <3> QED
      BY <2>3, <2>5, <3>1, <3>2 DEF MirrorInv, DroppedBeforeRevoked, Gone, GoneAfter
  <2>7. StoringIsNew'
    BY <1>b, <2>2, <2>4, <2>5 DEF MirrorInv, StoringIsNew
  <2>8. RevokedUnmirrored'
    BY <2>2, <2>3, <2>5 DEF MirrorInv, RevokedUnmirrored, Revoked
  <2> QED
    BY <2>6, <2>7, <2>8 DEF MirrorParts
<1>3. ASSUME NEW t \in Token, BeginRefresh(r, t)
      PROVE  MirrorParts'
  <2>1. NotNewElsewhere(r, t)
    BY <1>3, IssuedNotNew DEF BeginRefresh
  <2>2. CASE mirror[t] # Nobody /\ Goto(r, [pc |-> "revoke_mirror", jti |-> t, user |-> mirror[t]])
    <3>1. [pc |-> "revoke_mirror", jti |-> t, user |-> mirror[t]] \in Call
      BY <1>b, <2>2 DEF Call
    <3> QED
      BY <1>3, <1>a, <2>1, <2>2, <3>1, GotoType, MoveKeepsMirror DEF BeginRefresh, AboutToRevoke
  <2>3. CASE Goto(r, [pc |-> "check_row", jti |-> t])
    <3>1. [pc |-> "check_row", jti |-> t] \in Call
      BY DEF Call
    <3> QED
      BY <1>3, <1>a, <2>1, <2>3, <3>1, GotoType, MoveKeepsMirror DEF BeginRefresh, AboutToRevoke
  <2> QED
    BY <1>3, <2>2, <2>3 DEF BeginRefresh
<1>4. CASE CheckRow(r)
  <2> DEFINE t == call[r].jti
             c == [pc |-> "revoke_mirror", jti |-> t, user |-> row[t].user]
  <2>1. t \in Stored /\ NotNewElsewhere(r, t)
    BY <1>4, <1>a, WorkedOnNotNew DEF CheckRow, CallsHaveRows
  <2>2. c \in Call
    BY <1>a, <2>1, RowShape DEF TokenRow, Call
  <2>3. CASE Goto(r, c)
    BY <1>4, <1>a, <2>1, <2>2, <2>3, GotoType, MoveKeepsMirror DEF CheckRow, AboutToRevoke
  <2>4. CASE Goto(r, IdleCall)
    BY <1>4, <1>a, <1>b, <2>4, GotoType, MoveKeepsMirror DEF CheckRow, AboutToRevoke
  <2> QED
    BY <1>4, <2>3, <2>4 DEF CheckRow
<1>5. CASE RevokeMirror(r) \/ LogoutMirror(r)
  <2> DEFINE t == call[r].jti
             next == IF call[r].pc = "revoke_mirror" THEN "commit_rotation" ELSE "commit_logout"
             c == [call[r] EXCEPT !.pc = next]
  <2>1. t \in Stored /\ t \in Token /\ NotNewElsewhere(r, t)
    BY <1>5, <1>a, WorkedOnNotNew DEF RevokeMirror, LogoutMirror, CallsHaveRows, Stored
  <2>2. c \in Call /\ c.jti = t /\ c.pc \in {"commit_rotation", "commit_logout"}
    BY <1>5, <1>a, CallShape DEF RevokeMirror, LogoutMirror, Call
  <2>3. Goto(r, c) /\ DropMirror(t) /\ UNCHANGED <<row, issued>>
    BY <1>5 DEF RevokeMirror, LogoutMirror
  <2> HIDE DEF c
  <2>4. \A q \in Request : call'[q] = IF q = r THEN c ELSE call[q]
    BY <1>a, <2>2, <2>3, GotoType
  <2>5. /\ GoneAfter(t) /\ kept \subseteq kept'
        /\ \A s \in Token : mirror'[s] \in {mirror[s], Nobody}
    BY <1>a, <2>1, <2>3, DropType
  <2>6. DroppedBeforeRevoked'
    <3> SUFFICES ASSUME NEW q \in Request, call'[q].pc \in AboutToRevoke
                 PROVE  GoneAfter(call'[q].jti)
      BY DEF DroppedBeforeRevoked, Gone, GoneAfter
    <3>1. CASE q = r
      BY <2>2, <2>4, <2>5, <3>1
    <3>2. CASE q # r
      <4>1. call'[q] = call[q] /\ Gone(call[q].jti) /\ call[q].jti \in Token
        BY <1>a, <2>4, <3>2 DEF MirrorInv, DroppedBeforeRevoked, CallsHaveRows, Stored,
           AboutToRevoke
      <4> QED
        BY <2>5, <4>1 DEF Gone, GoneAfter
    <3> QED
      BY <3>1, <3>2
  <2>7. StoringIsNew'
    BY <2>1, <2>2, <2>3, <2>4 DEF MirrorInv, StoringIsNew, NotNewElsewhere
  <2>8. RevokedUnmirrored'
    BY <2>3, <2>5 DEF MirrorInv, RevokedUnmirrored, Revoked, Stored, Gone, GoneAfter
  <2> QED
    BY <2>6, <2>7, <2>8 DEF MirrorParts
<1>6. ASSUME call[r].pc \in AboutToRevoke,
             \A s \in Stored \ {call[r].jti} : row'[s] = row[s],
             UNCHANGED <<mirror, issued, kept>>,
             NEW c \in Call, Goto(r, c), c.pc = "idle" \/ c.pc = "store",
             \A s \in Stored' : s \in Stored \/ ~row'[s].revoked,
             c.pc = "store" => ~row'[c.jti].revoked /\ c.jti \notin Stored
      PROVE  MirrorParts'
  <2> DEFINE t == call[r].jti
  <2>1. t \in Token /\ t \in Stored /\ Gone(t) /\ NotNewElsewhere(r, t)
    BY <1>6, <1>a, WorkedOnNotNew DEF CallsHaveRows, Stored, MirrorInv, DroppedBeforeRevoked,
       AboutToRevoke
  <2>2. \A q \in Request : call'[q] = IF q = r THEN c ELSE call[q]
    BY <1>6, <1>a, GotoType
  <2>3. DroppedBeforeRevoked'
    BY <1>6, <2>2 DEF MirrorInv, DroppedBeforeRevoked, Gone, AboutToRevoke
  <2>4. StoringIsNew'
    <3> SUFFICES ASSUME NEW q \in Request, call'[q].pc = "store"
                 PROVE  /\ ~row'[call'[q].jti].revoked
                        /\ call'[q].jti \notin issued'
                        /\ \A p \in Request \ {q} :
                              call'[p].pc # "idle" => call'[p].jti # call'[q].jti
      BY DEF StoringIsNew
    <3>1. CASE q = r
      BY <1>6, <1>a, <2>2, <3>1 DEF CallsHaveRows
    <3>2. CASE q # r
      <4>1. call'[q] = call[q] /\ call[q].jti \in Stored /\ call[q].jti # t
        BY <1>a, <2>1, <2>2, <3>2 DEF CallsHaveRows, NotNewElsewhere
      <4>2. row'[call[q].jti] = row[call[q].jti]
        BY <1>6, <4>1
      <4> QED
        BY <1>6, <2>2, <3>2, <4>1, <4>2 DEF MirrorInv, StoringIsNew
    <3> QED
      BY <3>1, <3>2
  <2>5. RevokedUnmirrored'
    <3> SUFFICES ASSUME NEW s \in Token, s \notin kept', s \in Stored', row'[s].revoked
                 PROVE  mirror'[s] = Nobody
      BY DEF RevokedUnmirrored, Revoked
    <3>1. s \in Stored
      BY <1>6
    <3> QED
      BY <1>6, <2>1, <3>1 DEF MirrorInv, RevokedUnmirrored, Revoked, Gone
  <2> QED
    BY <2>3, <2>4, <2>5 DEF MirrorParts
<1>7. CASE CommitRotation(r)
  <2> DEFINE t == call[r].jti
             u == call[r].user
  <2>1. call[r] \in [pc: {"revoke_mirror", "commit_rotation"}, jti: Token, user: User]
    BY <1>7, <1>a, CallShape DEF CommitRotation
  <2>2. t \in Stored /\ u \in User /\ t \in Token
    BY <1>7, <1>a, <2>1 DEF CommitRotation, CallsHaveRows
  <2>3. PICK c \in Fresh : Rotated(t, c, u) /\ Goto(r, [pc |-> "store", jti |-> c, user |-> u])
    BY <1>7 DEF CommitRotation, Rotated
  <2>4. call[r].pc \in AboutToRevoke /\ UNCHANGED <<mirror, issued, kept>>
    BY <1>7 DEF CommitRotation, AboutToRevoke
  <2>5. /\ Stored' = Stored \cup {c} /\ row'[c] = NewRow(u, t)
        /\ \A s \in Token \ {t, c} : row'[s] = row[s]
    <3> HIDE DEF t, u
    <3> QED
      BY <1>a, <2>2, <2>3, RotateRow
  <2>6. c \in Token /\ c \notin Stored /\ ~row'[c].revoked
    BY <2>5 DEF Fresh, NewRow
  <2>7. [pc |-> "store", jti |-> c, user |-> u] \in Call
    BY <2>2, <2>6 DEF Call
  <2>8. \A s \in Stored \ {t} : row'[s] = row[s]
    BY <2>5, <2>6 DEF Stored
  <2>9. \A s \in Stored' : s \in Stored \/ ~row'[s].revoked
    BY <2>5, <2>6
  <2> QED
    BY <1>6, <2>3, <2>4, <2>6, <2>7, <2>8, <2>9
<1>8. ASSUME NEW t \in Token, BeginLogout(r, t)
      PROVE  MirrorParts'
  <2>1. NotNewElsewhere(r, t)
    BY <1>8, IssuedNotNew DEF BeginLogout
  <2>2. [pc |-> "logout_mirror", jti |-> t] \in Call
    BY DEF Call
  <2> QED
    BY <1>8, <1>a, <2>1, <2>2, GotoType, MoveKeepsMirror DEF BeginLogout, AboutToRevoke
<1>9. CASE CommitLogout(r)
  <2> DEFINE t == call[r].jti
  <2>1. t \in Stored /\ call[r].pc \in AboutToRevoke
    BY <1>9, <1>a DEF CommitLogout, CallsHaveRows, AboutToRevoke
  <2>2. row' = [row EXCEPT ![t] = RevokedRow(t)] /\ UNCHANGED <<mirror, issued, kept>>
        /\ Goto(r, IdleCall)
    BY <1>9 DEF CommitLogout
  <2>3. Stored' = Stored /\ \A s \in Token \ {t} : row'[s] = row[s]
    <3> HIDE DEF t
    <3> QED
      BY <1>a, <2>1, <2>2, RevokeRow
  <2>4. \A s \in Stored \ {t} : row'[s] = row[s]
    BY <2>3 DEF Stored
  <2> QED
    BY <1>6, <1>b, <2>1, <2>2, <2>3, <2>4
<1>10. CASE AbortCall(r)
  BY <1>10, <1>a, <1>b, GotoType, MoveKeepsMirror DEF AbortCall, AboutToRevoke
<1> QED
  BY <1>1, <1>2, <1>3, <1>4, <1>5, <1>7, <1>8, <1>9, <1>10 DEF HandlerStep

LEMMA MirrorTimeStep ==
    ASSUME MirrorInv, NEW t \in Token, ExpireRow(t) \/ ExpireMirror(t) \/ LoseMirror(t),
           rivals' \in [Token -> Nat]
    PROVE  MirrorParts'
<1>1. OwnerInv /\ TypeOK /\ CallsHaveRows
  BY DEF MirrorInv, OwnerInv
<1>2. Stored' = Stored /\ UNCHANGED <<issued, kept, call>>
  BY <1>1, OwnerTimeStep DEF ExpireRow, ExpireMirror, LoseMirror
<1>3. \A s \in Stored : row'[s].revoked = row[s].revoked
  BY <1>1, ExpireOne DEF ExpireRow, ExpireMirror, LoseMirror
<1>4. \A s \in Token : mirror'[s] \in {mirror[s], Nobody}
  BY <1>1 DEF TypeOK, ExpireRow, ExpireMirror, LoseMirror
<1>5. DroppedBeforeRevoked'
  BY <1>1, <1>2, <1>4 DEF MirrorInv, DroppedBeforeRevoked, Gone, CallsHaveRows, AboutToRevoke,
     Stored
<1>6. StoringIsNew'
  BY <1>1, <1>2, <1>3 DEF MirrorInv, StoringIsNew, CallsHaveRows
<1>7. RevokedUnmirrored'
  BY <1>2, <1>3, <1>4 DEF MirrorInv, RevokedUnmirrored, Revoked
<1> QED
  BY <1>5, <1>6, <1>7 DEF MirrorParts

LEMMA MirrorInit == Init => MirrorInv
BY OwnerInit DEF Init, MirrorInv, DroppedBeforeRevoked, StoringIsNew, RevokedUnmirrored,
   AboutToRevoke, IdleCall

LEMMA MirrorNext == MirrorInv /\ [Next]_vars => MirrorInv'
<1> SUFFICES ASSUME MirrorInv, [Next]_vars PROVE MirrorInv'
  OBVIOUS
<1>1. OwnerInv'
  BY OwnerNext DEF MirrorInv
<1>2. MirrorParts'
  <2>1. CASE UNCHANGED vars
    BY <2>1 DEF vars, MirrorInv, MirrorParts, DroppedBeforeRevoked, Gone,
       StoringIsNew, RevokedUnmirrored, Revoked, Stored
  <2>2. CASE \E r \in Request : HandlerStep(r)
    BY <2>2, MirrorHandlerStep
  <2>3. CASE \E t \in Token : ExpireRow(t) \/ ExpireMirror(t) \/ LoseMirror(t)
    BY <2>3, RivalsNext, MirrorTimeStep DEF MirrorInv, OwnerInv
  <2> QED
    BY <2>1, <2>2, <2>3 DEF Next
<1> QED
  BY <1>1, <1>2 DEF MirrorInv, MirrorParts

-----------------------------------------------------------------------------
(* Rows, mirror and handlers keep their types, with every fault.           *)
THEOREM TypeCorrect == Spec => []TypeOK
<1>1. OwnerInv => TypeOK
  BY DEF OwnerInv
<1> QED
  BY <1>1, OwnerInit, OwnerNext, PTL DEF Spec

(* Whatever fails, a mirrored token is a committed token of the same user, *)
(* and a rotated session belongs to the user who logged in.                *)
THEOREM OwnersKept == Spec => []SessionsKeepOwner
<1>1. OwnerInv => SessionsKeepOwner
  BY DEF OwnerInv
<1> QED
  BY <1>1, OwnerInit, OwnerNext, PTL DEF Spec

(* Whatever crashes, refresh's fast path cannot meet a revoked token,      *)
(* unless the DEL of a refresh or a logout with that token has failed.     *)
THEOREM RevocationReachesMirror == Spec => []RevokedUnmirrored
<1>1. MirrorInv => RevokedUnmirrored
  BY DEF MirrorInv
<1> QED
  BY <1>1, MirrorInit, MirrorNext, PTL DEF Spec

-----------------------------------------------------------------------------
(***************************************************************************)
(* How often a refresh token can be rotated: for every number of tokens,   *)
(* users and handlers in flight, with every fault.                         *)
(*                                                                         *)
(* RotationsBounded is not inductive: a token's successors count together  *)
(* with the rotations of it under way, once there is one.  No rotation     *)
(* starts after the first has committed, because the mirror is gone by     *)
(* then and the row is revoked, so from then on a handler that adds a      *)
(* successor gives up its own share.                                       *)
(***************************************************************************)

ChildrenMeanRevoked == \A t \in Token : Children(t) # {} => Revoked(t)

WithinShare(t) == Cardinality(Children(t)) + Cardinality(Rotating(t)) <= rivals[t]

SharesKept ==
    \A t \in Token \ kept :
        IsFiniteSet(Children(t)) /\ (Children(t) # {} => WithinShare(t))

RotationInv == MirrorInv /\ ChildrenMeanRevoked /\ SharesKept

LEMMA CardinalityType ==
    ASSUME NEW S, IsFiniteSet(S)
    PROVE  Cardinality(S) \in Nat
BY FS_CardinalityType

-----------------------------------------------------------------------------
(* What a step does to rows and handlers.                                  *)

(* A rotation of t commits and makes c its successor.                      *)
Succeeds(r, t, c) ==
    /\ call[r].pc = "commit_rotation" /\ call[r].jti = t
    /\ c \in Fresh /\ Stored' = Stored \cup {c}
    /\ row'[c].parent = t /\ row'[t].revoked
    /\ call' = [call EXCEPT ![r] = [pc |-> "store", jti |-> c, user |-> call[r].user]]

Insertion(c) ==
    \/ row'[c].parent = NoToken
    \/ \E r \in Request, t \in Token : Succeeds(r, t, c)

RowStep ==
    /\ RowsStay
    /\ \A t \in Stored : row[t].revoked => row'[t].revoked
    /\ \A c \in Stored' \ Stored : Insertion(c)

LEMMA RowStepHolds ==
    ASSUME OwnerInv, [Next]_vars
    PROVE  RowStep
<1>a. TypeOK /\ CallsHaveRows
  BY DEF OwnerInv
<1>1. CASE UNCHANGED row
  BY <1>a, <1>1, NoRowStep DEF RowStep
<1>2. ASSUME NEW r \in Request, NEW u \in User, CommitLogin(r, u)
      PROVE  RowStep
  <2>1. PICK t \in Fresh : row' = [row EXCEPT ![t] = NewRow(u, NoToken)]
    BY <1>2 DEF CommitLogin
  <2>2. /\ RowsStay /\ Stored' = Stored \cup {t}
        /\ row'[t] = NewRow(u, NoToken)
        /\ \A s \in Token \ {t} : row'[s] = row[s]
    BY <1>a, <2>1, InsertRow
  <2>3. t \notin Stored /\ Stored \subseteq Token
    BY DEF Fresh, Stored
  <2>4. row'[t].parent = NoToken
    BY <2>2 DEF NewRow
  <2> QED
    BY <2>2, <2>3, <2>4 DEF RowStep, Insertion
<1>3. ASSUME NEW r \in Request, CommitRotation(r)
      PROVE  RowStep
  <2> DEFINE t == call[r].jti
             u == call[r].user
  <2>1. call[r] \in [pc: {"revoke_mirror", "commit_rotation"}, jti: Token, user: User]
    BY <1>3, <1>a, CallShape DEF CommitRotation
  <2>2. t \in Stored /\ u \in User /\ t \in Token /\ call[r].pc = "commit_rotation"
    BY <1>3, <1>a, <2>1 DEF CommitRotation, CallsHaveRows
  <2>3. PICK c \in Fresh : Rotated(t, c, u) /\ Goto(r, [pc |-> "store", jti |-> c, user |-> u])
    BY <1>3 DEF CommitRotation, Rotated
  <2>4. /\ RowsStay /\ Stored' = Stored \cup {c} /\ row'[t].revoked
        /\ row'[c] = NewRow(u, t)
        /\ \A s \in Token \ {t, c} : row'[s] = row[s]
    <3> HIDE DEF t, u
    <3> QED
      BY <1>a, <2>2, <2>3, RotateRow
  <2>5. c \notin Stored /\ Stored \subseteq Token
    BY DEF Fresh, Stored
  <2>6. \A s \in Stored : row[s].revoked => row'[s].revoked
    BY <2>4, <2>5
  <2>7. row'[c].parent = t
    BY <2>4 DEF NewRow
  <2>8. Succeeds(r, t, c)
    BY <2>2, <2>3, <2>4, <2>7 DEF Succeeds, Goto
  <2> QED
    BY <2>2, <2>4, <2>6, <2>8 DEF RowStep, Insertion
<1>4. ASSUME NEW r \in Request, CommitLogout(r)
      PROVE  RowStep
  <2> DEFINE t == call[r].jti
  <2>1. t \in Stored /\ row' = [row EXCEPT ![t] = RevokedRow(t)]
    BY <1>4, <1>a DEF CommitLogout, CallsHaveRows
  <2>2. /\ RowsStay /\ Stored' = Stored /\ row'[t].revoked
        /\ \A s \in Token \ {t} : row'[s] = row[s]
    <3> HIDE DEF t
    <3> QED
      BY <1>a, <2>1, RevokeRow
  <2>3. Stored \subseteq Token
    BY DEF Stored
  <2> QED
    BY <2>2, <2>3 DEF RowStep
<1>5. ASSUME NEW t \in Token, ExpireRow(t)
      PROVE  RowStep
  BY <1>5, <1>a, ExpireOne DEF ExpireRow, RowStep
<1> QED
  BY <1>1, <1>2, <1>3, <1>4, <1>5 DEF Next, vars, HandlerStep, StoreMirror, BeginRefresh, CheckRow,
     RevokeMirror, BeginLogout, LogoutMirror, AbortCall, ExpireMirror, LoseMirror

(* A handler starts to rotate t only while t is not revoked, or a DEL for  *)
(* it has failed.                                                          *)
LEMMA RotationStarts ==
    ASSUME MirrorInv, [Next]_vars, NEW t \in Token \ kept, NEW r \in Rotating(t)'
    PROVE  r \in Rotating(t) \/ ~Revoked(t)
<1>0. /\ call \in [Request -> Call] /\ TypeOK /\ r \in Request
      /\ call'[r].pc \in {"revoke_mirror", "commit_rotation"} /\ call'[r].jti = t
  BY DEF MirrorInv, OwnerInv, TypeOK, Rotating
<1>1. CASE call'[r] = call[r]
  BY <1>0, <1>1 DEF Rotating
<1>2. CASE call'[r] # call[r]
  <2>1. PICK q \in Request : HandlerStep(q)
    BY <1>2 DEF Next, vars, ExpireRow, ExpireMirror, LoseMirror
  <2>2. q = r
    BY <1>0, <1>2, <2>1 DEF HandlerStep, CommitLogin, StoreMirror, BeginRefresh, CheckRow,
       RevokeMirror, CommitRotation, BeginLogout, LogoutMirror, CommitLogout, AbortCall, Goto
  <2>3. ASSUME NEW s \in Token, BeginRefresh(r, s)
        PROVE  ~Revoked(t)
    <3>1. mirror[t] # Nobody
      BY <1>0, <2>3 DEF BeginRefresh, Goto
    <3> QED
      BY <3>1 DEF MirrorInv, RevokedUnmirrored
  <2>4. CASE CheckRow(r)
    BY <1>0, <2>4 DEF CheckRow, Goto, IdleCall, Valid, Revoked
  <2>5. CASE RevokeMirror(r)
    <3>1. call[r] \in [pc: {"revoke_mirror", "commit_rotation"}, jti: Token, user: User]
      BY <1>0, <2>5, CallShape DEF RevokeMirror
    <3>2. call'[r] = [call[r] EXCEPT !.pc = "commit_rotation"]
      BY <1>0, <2>5 DEF RevokeMirror, Goto
    <3>3. call[r].jti = t /\ call[r].pc = "revoke_mirror"
      BY <1>0, <2>5, <3>1, <3>2 DEF RevokeMirror
    <3> QED
      BY <1>0, <3>3 DEF Rotating
  <2>6. CASE LogoutMirror(r)
    <3>1. call[r] \in [pc: {"logout_mirror", "commit_logout"}, jti: Token]
      BY <1>0, <2>6, CallShape DEF LogoutMirror
    <3>2. call'[r] = [call[r] EXCEPT !.pc = "commit_logout"]
      BY <1>0, <2>6 DEF LogoutMirror, Goto
    <3> QED
      BY <1>0, <3>1, <3>2
  <2>7. (\E s \in Token : BeginRefresh(r, s)) \/ CheckRow(r) \/ RevokeMirror(r) \/ LogoutMirror(r)
    BY <1>0, <2>1, <2>2 DEF HandlerStep, CommitLogin, StoreMirror, CommitRotation, BeginLogout,
       CommitLogout, AbortCall, Goto, IdleCall
  <2> QED
    BY <2>3, <2>4, <2>5, <2>6, <2>7
<1> QED
  BY <1>1, <1>2

LEMMA KeptGrows ==
    ASSUME [Next]_vars
    PROVE  kept \subseteq kept'
BY DEF Next, vars, HandlerStep, CommitLogin, StoreMirror, BeginRefresh, CheckRow, RevokeMirror,
   CommitRotation, BeginLogout, LogoutMirror, CommitLogout, AbortCall, DropMirror, ExpireRow,
   ExpireMirror, LoseMirror

-----------------------------------------------------------------------------
(* The conjuncts of RotationInv.                                           *)

(* Without a rotation of t, t gets no successor.                           *)
LEMMA ChildrenStay ==
    ASSUME RowStep, NEW t \in Token, ~\E r \in Request, c \in Token : Succeeds(r, t, c)
    PROVE  Children(t)' = Children(t)
<1>1. ASSUME NEW c \in Stored', c \notin Stored
      PROVE  row'[c].parent # t
  <2>1. c \in Token
    BY DEF Stored
  <2> QED
    BY <1>1, <2>1, SentinelAssumption DEF RowStep, Insertion, Succeeds
<1> QED
  BY <1>1 DEF RowStep, RowsStay, Children

LEMMA SuccessorComes ==
    ASSUME TypeOK, RowStep, NEW t \in Token, NEW r \in Request, NEW c \in Token, Succeeds(r, t, c)
    PROVE  /\ Children(t)' = Children(t) \cup {c}
           /\ r \in Rotating(t) /\ Rotating(t)' \in SUBSET (Rotating(t) \ {r})
           /\ call[r].jti = t /\ row'[t].revoked
BY DEF TypeOK, RowStep, RowsStay, Succeeds, Children, Rotating, Fresh

LEMMA ChildrenRevokedNext ==
    ASSUME OwnerInv, RowStep, ChildrenMeanRevoked
    PROVE  ChildrenMeanRevoked'
<1> SUFFICES ASSUME NEW t \in Token, Children(t)' # {}
             PROVE  t \in Stored' /\ row'[t].revoked
  BY DEF ChildrenMeanRevoked, Revoked
<1>1. CASE \E r \in Request, c \in Token : Succeeds(r, t, c)
  <2>1. PICK r \in Request, c \in Token : Succeeds(r, t, c)
    BY <1>1
  <2>2. t \in Stored
    BY <2>1 DEF OwnerInv, CallsHaveRows, Succeeds
  <2> QED
    BY <2>1, <2>2 DEF Succeeds
<1>2. CASE ~\E r \in Request, c \in Token : Succeeds(r, t, c)
  BY <1>2, ChildrenStay DEF ChildrenMeanRevoked, Revoked, RowStep, RowsStay
<1> QED
  BY <1>1, <1>2

LEMMA SharesNext ==
    ASSUME RotationInv, RowStep, [Next]_vars
    PROVE  SharesKept'
<1> SUFFICES ASSUME NEW t \in Token, t \notin kept'
             PROVE  IsFiniteSet(Children(t)') /\ (Children(t)' # {} => WithinShare(t)')
  BY DEF SharesKept
<1>0. t \notin kept /\ TypeOK
  BY KeptGrows DEF RotationInv, MirrorInv, OwnerInv
<1>1. /\ IsFiniteSet(Children(t)) /\ IsFiniteSet(Rotating(t)) /\ IsFiniteSet(Rotating(t)')
      /\ Children(t) # {} => Cardinality(Children(t)) + Cardinality(Rotating(t)) <= rivals[t]
  BY <1>0, BoundAssumption, FS_Subset DEF RotationInv, SharesKept, WithinShare, Rotating
<1>2. /\ Cardinality(Children(t)) \in Nat /\ Cardinality(Rotating(t)) \in Nat
      /\ Cardinality(Rotating(t)') \in Nat /\ rivals[t] \in Nat
  BY <1>0, <1>1, CardinalityType DEF TypeOK
<1>r. rivals'[t] = IF Children(t) = {} /\ Children(t)' # {}
                     THEN Cardinality(Rotating(t)) ELSE rivals[t]
  BY <1>0, RivalsNext
<1>3. CASE \E r \in Request, c \in Token : Succeeds(r, t, c)
  <2>1. PICK r \in Request, c \in Token : Succeeds(r, t, c)
    BY <1>3
  <2>2. /\ Children(t)' = Children(t) \cup {c}
        /\ r \in Rotating(t) /\ Rotating(t)' \in SUBSET (Rotating(t) \ {r})
    BY <1>0, <2>1, SuccessorComes
  <2>3. /\ IsFiniteSet(Children(t)')
        /\ Cardinality(Children(t)') =
              IF c \in Children(t) THEN Cardinality(Children(t)) ELSE Cardinality(Children(t)) + 1
    BY <1>1, <2>2, FS_AddElement
  <2>4. /\ IsFiniteSet(Rotating(t) \ {r})
        /\ Cardinality(Rotating(t) \ {r}) = Cardinality(Rotating(t)) - 1
    BY <1>1, <2>2, FS_RemoveElement
  <2>5. Cardinality(Rotating(t)') <= Cardinality(Rotating(t) \ {r})
    BY <2>2, <2>4, FS_Subset
  <2>6. CASE Children(t) = {}
    <3>1. Cardinality(Children(t)) = 0
      BY <2>6, FS_EmptySet
    <3>2. rivals'[t] = Cardinality(Rotating(t))
      BY <1>r, <2>2, <2>6
    <3> QED
      BY <1>2, <2>3, <2>4, <2>5, <2>6, <3>1, <3>2 DEF WithinShare
  <2>7. CASE Children(t) # {}
    <3>1. rivals'[t] = rivals[t]
      BY <1>r, <2>7
    <3> QED
      BY <1>1, <1>2, <2>3, <2>4, <2>5, <2>7, <3>1 DEF WithinShare
  <2> QED
    BY <2>6, <2>7
<1>4. CASE ~\E r \in Request, c \in Token : Succeeds(r, t, c)
  <2>1. Children(t)' = Children(t)
    BY <1>4, ChildrenStay
  <2>2. CASE Children(t) = {}
    BY <1>1, <2>1, <2>2
  <2>3. CASE Children(t) # {}
    <3>1. Revoked(t)
      BY <2>3 DEF RotationInv, ChildrenMeanRevoked
    <3>2. Rotating(t)' \in SUBSET Rotating(t)
      BY <1>0, <3>1, RotationStarts DEF RotationInv
    <3>3. Cardinality(Rotating(t)') <= Cardinality(Rotating(t))
      BY <1>1, <3>2, FS_Subset
    <3>4. rivals'[t] = rivals[t]
      BY <1>r, <2>3
    <3> QED
      BY <1>1, <1>2, <2>1, <2>3, <3>3, <3>4 DEF WithinShare
  <2> QED
    BY <2>2, <2>3
<1> QED
  BY <1>3, <1>4

LEMMA RotationInit == Init => RotationInv
<1> SUFFICES ASSUME Init PROVE RotationInv
  OBVIOUS
<1>1. \A t \in Token : Children(t) = {}
  BY DEF Init, Children, Stored
<1> QED
  BY <1>1, MirrorInit, FS_EmptySet DEF RotationInv, ChildrenMeanRevoked, SharesKept

LEMMA RotationNext == RotationInv /\ [Next]_vars => RotationInv'
<1> SUFFICES ASSUME RotationInv, [Next]_vars PROVE RotationInv'
  OBVIOUS
<1>1. MirrorInv /\ OwnerInv /\ TypeOK /\ RowStep
  BY RowStepHolds DEF RotationInv, MirrorInv, OwnerInv
<1>2. MirrorInv' /\ ChildrenMeanRevoked'
  BY <1>1, MirrorNext, ChildrenRevokedNext DEF RotationInv
<1> QED
  BY <1>1, <1>2, SharesNext DEF RotationInv

LEMMA RotationImplies == RotationInv => RotationsBounded
<1> SUFFICES ASSUME RotationInv, NEW t \in Token \ kept
             PROVE  Cardinality(Children(t)) <= rivals[t]
  BY DEF RotationsBounded
<1>1. IsFiniteSet(Children(t)) /\ IsFiniteSet(Rotating(t))
  BY BoundAssumption, FS_Subset DEF RotationInv, SharesKept, Rotating
<1>2. /\ Cardinality(Children(t)) \in Nat /\ Cardinality(Rotating(t)) \in Nat
      /\ rivals[t] \in Nat
  BY <1>1, CardinalityType DEF RotationInv, MirrorInv, OwnerInv, TypeOK
<1>3. CASE Children(t) = {}
  BY <1>2, <1>3, FS_EmptySet
<1>4. CASE Children(t) # {}
  BY <1>2, <1>4 DEF RotationInv, SharesKept, WithinShare
<1> QED
  BY <1>3, <1>4

-----------------------------------------------------------------------------
(* A refresh token has at most as many successors as handlers had passed   *)
(* its check when the first of them committed, however refreshes and       *)
(* logouts race and whatever crashes, unless a DEL for it has failed.      *)
THEOREM RotationIsBounded == Spec => []RotationsBounded
BY RotationInit, RotationNext, RotationImplies, PTL DEF Spec

=============================================================================

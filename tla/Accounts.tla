------------------------------ MODULE Accounts ------------------------------
(***************************************************************************)
(* The users table: POST /auth/register and POST /auth/setup-admin.        *)
(*                                                                         *)
(* Both check with SELECTs and insert in a later statement; the only thing *)
(* the database enforces is the unique index on the e-mail.  The session   *)
(* that setup-admin opens after its insert is a login of Sessions.  No     *)
(* route removes a user or changes an address or a role.                   *)
(*                                                                         *)
(* A history variable, which the code does not have, remembers which       *)
(* set-ups were under way together when the first administrator was made.  *)
(*                                                                         *)
(* Definitions with a longer name beside another one are the same code     *)
(* with a plausible mistake, for the mutation runs of PROJECT.json.        *)
(***************************************************************************)
EXTENDS Integers, FiniteSets

CONSTANTS
    Email,    \* addresses, as submitted
    Address,  \* addresses after strip and lower case
    Normal,   \* submitted |-> normalized
    UserId,   \* the uuids the inserts may draw
    Request,  \* handlers that may run at once
    MaxBusy,  \* bound on the handlers in flight
    NoUser    \* no such row

Role == {"user", "admin"}

UserRow == [email: Address, role: Role]

(* Normalizing twice changes nothing more.                                 *)
ASSUME NormalAssumption ==
    /\ Address \subseteq Email
    /\ Normal \in [Email -> Address]
    /\ \A e \in Address : Normal[e] = e
ASSUME BoundAssumption == IsFiniteSet(Request) /\ MaxBusy \in Nat
ASSUME SentinelAssumption == NoUser \notin UserRow

VARIABLES
    users, \* UserId |-> row, or NoUser
    call,  \* Request |-> the handler it runs
    contenders \* history: the set-ups in flight as the first administrator
               \* was committed

vars == <<users, call, contenders>>

IdleCall == [pc |-> "idle"]

Call ==
    {IdleCall}
    \cup [pc: {"check_email"}, email: Address, role: {"admin"}]
    \cup [pc: {"insert"}, email: Address, role: Role]

TypeOK ==
    /\ users \in [UserId -> UserRow \cup {NoUser}]
    /\ call \in [Request -> Call]
    /\ contenders \in SUBSET Request

Stored == {id \in UserId : users[id] # NoUser}

HasEmail(e) == \E id \in Stored : users[id].email = e

Admins == {id \in Stored : users[id].role = "admin"}

(* The set-ups that have found no administrator and are not done.          *)
Pending == {r \in Request : call[r] # IdleCall /\ call[r].role = "admin"}

Busy == {r \in Request : call[r] # IdleCall}

(* Every handler in flight can draw an id of its own.                      *)
MayBegin(r) ==
    /\ call[r] = IdleCall
    /\ Cardinality(Busy) < MaxBusy
    /\ Cardinality(Busy) < Cardinality(UserId \ Stored)

Goto(r, c) == call' = [call EXCEPT ![r] = c] /\ UNCHANGED users

-----------------------------------------------------------------------------
SetupRaw(r, e) ==
    /\ MayBegin(r)
    /\ Admins = {}
    /\ Goto(r, [pc |-> "check_email", email |-> e, role |-> "admin"])

SetupWithoutLock(r, e) ==
    /\ MayBegin(r)
    /\ Goto(r, [pc |-> "check_email", email |-> Normal[e], role |-> "admin"])

(* setup-admin: refused once there is an administrator.                    *)
BeginSetup(r, e) ==
    /\ MayBegin(r)
    /\ Admins = {}
    /\ Goto(r, [pc |-> "check_email", email |-> Normal[e], role |-> "admin"])

CheckEmail(r) ==
    /\ call[r].pc = "check_email"
    /\ Goto(r, IF HasEmail(call[r].email) THEN IdleCall ELSE [call[r] EXCEPT !.pc = "insert"])

RegisterRaw(r, e) ==
    /\ MayBegin(r)
    /\ ~HasEmail(Normal[e])
    /\ Goto(r, [pc |-> "insert", email |-> e, role |-> "user"])

(* register: refused when the address is taken.                            *)
BeginRegister(r, e) ==
    /\ MayBegin(r)
    /\ ~HasEmail(Normal[e])
    /\ Goto(r, [pc |-> "insert", email |-> Normal[e], role |-> "user"])

(* The INSERT and its commit; an address taken since the check makes the   *)
(* commit raise.                                                           *)
InsertUser(r) ==
    /\ call[r].pc = "insert"
    /\ \/ HasEmail(call[r].email) /\ UNCHANGED users
       \/ /\ ~HasEmail(call[r].email)
          /\ \E id \in UserId \ Stored :
                users' = [users EXCEPT ![id] = [email |-> call[r].email, role |-> call[r].role]]
    /\ call' = [call EXCEPT ![r] = IdleCall]

(* The process dies, or Postgres raises, before the commit.                *)
AbortCall(r) ==
    /\ call[r] # IdleCall
    /\ Goto(r, IdleCall)

Init ==
    /\ users = [id \in UserId |-> NoUser]
    /\ call = [r \in Request |-> IdleCall]
    /\ contenders = {}

HandlerStep(r) ==
    \/ \E e \in Email : BeginSetup(r, e) \/ BeginRegister(r, e)
    \/ CheckEmail(r)
    \/ InsertUser(r)
    \/ AbortCall(r)

RecordContenders ==
    contenders' = IF Admins = {} /\ Admins' # {} THEN Pending ELSE contenders

Next == (\E r \in Request : HandlerStep(r)) /\ RecordContenders

Spec == Init /\ [][Next]_vars

-----------------------------------------------------------------------------
(* Properties.                                                             *)

(* One account per address, whatever the spellings it was submitted in and *)
(* however many sign-ups and set-ups race for it: no two rows hold what    *)
(* normalizes to the same address, although the index compares only what   *)
(* the handlers store.                                                     *)
OneAccountPerAddress ==
    \A i, j \in Stored : Normal[users[i].email] = Normal[users[j].email] => i = j

(* What the lock of setup-admin achieves: every administrator is one of    *)
(* the set-ups that had found none and were under way together when the    *)
(* first was committed, and each of them makes at most one.                *)
AdminsBounded == Cardinality(Admins) <= Cardinality(contenders)

(* What its docstring promises: "One-time initial admin setup"; "Once an   *)
(* admin account exists, this endpoint is permanently locked".             *)
OneAdministrator == Cardinality(Admins) <= 1
=============================================================================

---------------------------- MODULE AccountsProofs ----------------------------
(***************************************************************************)
(* Theorems about Accounts, for any addresses, ids and handlers.           *)
(*                                                                         *)
(* One account per address is inductive together with the types: the       *)
(* unique index looks at what is stored, and what is stored is normal.     *)
(* The bound on administrators is not: it also needs to be known of the    *)
(* set-ups that have passed the check and not yet inserted.  From the      *)
(* first administrator on, those and the administrators together are never *)
(* more than the contenders, for no set-up begins any more.                *)
(***************************************************************************)
EXTENDS Accounts, FiniteSetTheorems, TLAPS

AdminInv ==
    /\ TypeOK
    /\ IsFiniteSet(Admins)
    /\ Admins # {} => Cardinality(Admins) + Cardinality(Pending) <= Cardinality(contenders)

-----------------------------------------------------------------------------
(* Handlers keep to the types of their locals, and stay or become idle, or *)
(* begin.                                                                  *)

LEMMA CallShape ==
    ASSUME TypeOK, NEW r \in Request, call[r] # IdleCall
    PROVE  /\ call[r].pc \in {"check_email", "insert"}
           /\ call[r].email \in Address
           /\ call[r].role \in Role
           /\ call[r].pc = "check_email" => call[r].role = "admin"
    BY DEF TypeOK, Call, Role

LEMMA InitTyped == Init => TypeOK
    BY DEF Init, TypeOK, Call

LEMMA HandlerTyped ==
    ASSUME TypeOK, NEW r \in Request, HandlerStep(r)
    PROVE  users' \in [UserId -> UserRow \cup {NoUser}] /\ call' \in [Request -> Call]
<1>1. ASSUME NEW e \in Email, BeginSetup(r, e)
      PROVE  UNCHANGED users /\ call' \in [Request -> Call]
    BY <1>1, NormalAssumption DEF BeginSetup, Goto, TypeOK, Call
<1>2. ASSUME NEW e \in Email, BeginRegister(r, e)
      PROVE  UNCHANGED users /\ call' \in [Request -> Call]
    BY <1>2, NormalAssumption DEF BeginRegister, Goto, TypeOK, Call, Role
<1>3. ASSUME CheckEmail(r) PROVE UNCHANGED users /\ call' \in [Request -> Call]
  <2>1. call[r].pc = "check_email" /\ call[r] # IdleCall
      BY <1>3 DEF CheckEmail, IdleCall
  <2>2. call[r] \in [pc: {"check_email"}, email: Address, role: {"admin"}]
      BY <2>1 DEF TypeOK, Call
  <2>3. [call[r] EXCEPT !.pc = "insert"] \in Call
      BY <2>2 DEF Call, Role
  <2>4. IdleCall \in Call
      BY DEF Call
  <2> QED BY <1>3, <2>3, <2>4 DEF CheckEmail, Goto, TypeOK
<1>4. CASE InsertUser(r)
  <2>1. call[r].pc = "insert" /\ call[r] # IdleCall
      BY <1>4 DEF InsertUser, IdleCall
  <2>2. [email |-> call[r].email, role |-> call[r].role] \in UserRow
      BY <2>1, CallShape DEF UserRow
  <2>3. call' \in [Request -> Call]
      BY <1>4 DEF InsertUser, TypeOK, Call
  <2> QED BY <1>4, <2>2, <2>3 DEF InsertUser, TypeOK, Stored
<1>5. ASSUME AbortCall(r) PROVE UNCHANGED users /\ call' \in [Request -> Call]
    BY <1>5 DEF AbortCall, Goto, TypeOK, Call
<1> QED BY <1>1, <1>2, <1>3, <1>4, <1>5 DEF HandlerStep, TypeOK

LEMMA StepTyped == TypeOK /\ [Next]_vars => TypeOK'
<1> SUFFICES ASSUME TypeOK, [Next]_vars PROVE TypeOK'
    OBVIOUS
<1>1. CASE UNCHANGED vars
    BY <1>1 DEF vars, TypeOK
<1>2. CASE Next
  <2>1. contenders' \in SUBSET Request
      BY <1>2 DEF Next, RecordContenders, Pending, TypeOK
  <2> QED BY <1>2, <2>1, HandlerTyped DEF Next, TypeOK
<1> QED BY <1>1, <1>2

(* The table of users and the locals of the handlers keep their types; in  *)
(* particular only normalized addresses are stored.                        *)
THEOREM TypeCorrect == Spec => []TypeOK
<1>1. Init => TypeOK
    BY InitTyped
<1>2. TypeOK /\ [Next]_vars => TypeOK'
    BY StepTyped
<1> QED BY <1>1, <1>2, PTL DEF Spec

-----------------------------------------------------------------------------
LEMMA UsersChangeOnlyByInsert ==
    ASSUME NEW r \in Request, HandlerStep(r)
    PROVE  UNCHANGED users \/ InsertUser(r)
    BY DEF HandlerStep, BeginSetup, BeginRegister, CheckEmail, AbortCall, Goto

LEMMA StepUnique ==
    ASSUME TypeOK, OneAccountPerAddress, [Next]_vars
    PROVE  OneAccountPerAddress'
<1>1. CASE UNCHANGED users
    BY <1>1 DEF OneAccountPerAddress, Stored
<1>2. ASSUME NEW r \in Request, InsertUser(r), ~UNCHANGED users
      PROVE  OneAccountPerAddress'
  <2> DEFINE new == [email |-> call[r].email, role |-> call[r].role]
  <2>1. ~HasEmail(new.email)
      BY <1>2 DEF InsertUser
  <2>2. PICK id \in UserId \ Stored : users' = [users EXCEPT ![id] = new]
      BY <1>2 DEF InsertUser
  <2>3. users'[id] = new
      BY <2>2 DEF TypeOK
  <2>4. \A i \in UserId : i # id => users'[i] = users[i]
      BY <2>2 DEF TypeOK
  <2>5. \A i \in Stored' : i # id => i \in Stored /\ users[i].email # new.email
      BY <2>1, <2>4 DEF Stored, HasEmail
  <2>6. Normal[new.email] = new.email
    <3>1. call[r].email \in Address
        BY <1>2, CallShape DEF InsertUser, IdleCall
    <3> QED BY <3>1, NormalAssumption
  <2>7. \A i \in Stored : Normal[users[i].email] = users[i].email
    <3>1. \A i \in Stored : users[i] \in UserRow
        BY DEF Stored, TypeOK
    <3> QED BY <3>1, NormalAssumption DEF UserRow
  <2> HIDE DEF new
  <2> QED BY <2>3, <2>4, <2>5, <2>6, <2>7 DEF OneAccountPerAddress, Stored
<1> QED BY <1>1, <1>2, UsersChangeOnlyByInsert DEF vars, Next

(* One account per address: however many sign-ups and set-ups race for it  *)
(* and in whatever spellings, no two rows hold what normalizes to one.     *)
THEOREM AccountsUnique == Spec => []OneAccountPerAddress
<1>1. Init => OneAccountPerAddress
    BY DEF Init, OneAccountPerAddress, Stored
<1>2. TypeOK /\ OneAccountPerAddress /\ [Next]_vars => OneAccountPerAddress'
    BY StepUnique
<1> QED BY <1>1, <1>2, TypeCorrect, PTL DEF Spec

-----------------------------------------------------------------------------
(* Administrators and pending set-ups, counted together.                   *)

LEMMA SubsetFinite ==
    ASSUME NEW S \in SUBSET Request
    PROVE  IsFiniteSet(S) /\ Cardinality(S) \in Nat
    BY BoundAssumption, FS_Subset, FS_CardinalityType

LEMMA PendingFinite ==
    IsFiniteSet(Pending) /\ Cardinality(Pending) \in Nat
    BY SubsetFinite DEF Pending

(* A step in which no administrator is made, and no set-up begins once     *)
(* there is one.                                                           *)
LEMMA Shrinking ==
    ASSUME AdminInv, TypeOK', Admins' = Admins, contenders' = contenders,
           Admins # {} => Pending' \subseteq Pending
    PROVE  AdminInv'
<1> SUFFICES ASSUME Admins # {}
             PROVE  Cardinality(Admins) + Cardinality(Pending') <= Cardinality(contenders)
    BY DEF AdminInv
<1>1. IsFiniteSet(Pending')
    BY PendingFinite, FS_Subset
<1>2. Cardinality(Pending') <= Cardinality(Pending) /\ Cardinality(Pending') \in Nat
    BY <1>1, PendingFinite, FS_Subset, FS_CardinalityType
<1>3. Cardinality(Admins) \in Nat
    BY FS_CardinalityType DEF AdminInv
<1>4. Cardinality(contenders) \in Nat
    BY SubsetFinite DEF AdminInv, TypeOK
<1> QED BY <1>2, <1>3, <1>4, PendingFinite DEF AdminInv

LEMMA StepAdmins == AdminInv /\ [Next]_vars => AdminInv'
<1> SUFFICES ASSUME AdminInv, [Next]_vars PROVE AdminInv'
    OBVIOUS
<1>t. TypeOK /\ TypeOK'
    BY StepTyped DEF AdminInv
<1>1. CASE UNCHANGED vars
    BY <1>1, <1>t, Shrinking DEF vars, Admins, Stored, Pending
<1>2. ASSUME Next, UNCHANGED users, Admins # {} => Pending' \subseteq Pending PROVE AdminInv'
  <2>1. Admins' = Admins
      BY <1>2 DEF Admins, Stored
  <2>2. contenders' = contenders
      BY <1>2, <2>1 DEF Next, RecordContenders
  <2> QED BY <1>2, <1>t, <2>1, <2>2, Shrinking
<1>3. ASSUME Next, NEW r \in Request, InsertUser(r) PROVE AdminInv'
  <2>1. call[r] # IdleCall /\ call'[r] = IdleCall
      BY <1>3, <1>t DEF InsertUser, IdleCall, TypeOK
  <2>2. Pending' = Pending \ {r}
      BY <1>3, <1>t, <2>1 DEF InsertUser, Pending, TypeOK
  <2>3. CASE UNCHANGED users
      BY <1>2, <1>3, <2>2, <2>3
  <2>4. ASSUME NEW id \in UserId \ Stored,
               users' = [users EXCEPT ![id] = [email |-> call[r].email, role |-> call[r].role]]
        PROVE  AdminInv'
    <3>1. users'[id] # NoUser
        BY <2>1, <2>4, <1>t, CallShape, SentinelAssumption DEF TypeOK, UserRow
    <3>2. CASE call[r].role = "admin"
      <4>1. Admins' = Admins \cup {id} /\ id \notin Admins
          BY <2>4, <3>1, <3>2, <1>t DEF Admins, Stored, TypeOK
      <4>2. IsFiniteSet(Admins') /\ Cardinality(Admins') = Cardinality(Admins) + 1
          BY <4>1, FS_AddElement DEF AdminInv
      <4>3. r \in Pending
          BY <2>1, <3>2 DEF Pending
      <4>4. Cardinality(Pending') = Cardinality(Pending) - 1
          BY <2>2, <4>3, PendingFinite, FS_RemoveElement
      <4>5. CASE Admins = {}
        <5>1. contenders' = Pending
            BY <1>3, <4>1, <4>5 DEF Next, RecordContenders
        <5>2. Cardinality(Admins) = 0
            BY <4>5, FS_EmptySet
        <5> QED BY <4>2, <4>4, <5>1, <5>2, <1>t, PendingFinite DEF AdminInv
      <4>6. CASE Admins # {}
        <5>1. contenders' = contenders
            BY <1>3, <4>6 DEF Next, RecordContenders
        <5>2. Cardinality(contenders) \in Nat /\ Cardinality(Admins) \in Nat
            BY SubsetFinite, FS_CardinalityType DEF AdminInv, TypeOK
        <5> QED BY <4>2, <4>4, <4>6, <5>1, <5>2, <1>t, PendingFinite DEF AdminInv
      <4> QED BY <4>5, <4>6
    <3>3. CASE call[r].role # "admin"
      <4>1. Admins' = Admins
          BY <2>4, <3>3, <1>t DEF Admins, Stored, TypeOK
      <4>2. contenders' = contenders
          BY <1>3, <4>1 DEF Next, RecordContenders
      <4> QED BY <4>1, <4>2, <2>2, <1>t, Shrinking
    <3> QED BY <3>2, <3>3
  <2> QED BY <1>3, <2>3, <2>4 DEF InsertUser
<1>4. ASSUME NEW r \in Request, HandlerStep(r), ~InsertUser(r)
      PROVE  Admins # {} => Pending' \subseteq Pending
  <2>1. ASSUME NEW e \in Email, BeginSetup(r, e) PROVE Admins = {}
      BY <2>1 DEF BeginSetup
  <2>2. ASSUME NEW e \in Email, BeginRegister(r, e) PROVE Pending' \subseteq Pending
      BY <2>2, <1>t DEF BeginRegister, Goto, Pending, TypeOK
  <2>3. CASE CheckEmail(r)
    <3>1. call[r] # IdleCall /\ call[r].role = "admin"
        BY <2>3, <1>t, CallShape DEF CheckEmail, IdleCall
    <3> QED BY <2>3, <3>1, <1>t DEF CheckEmail, Goto, Pending, TypeOK
  <2>4. CASE AbortCall(r)
      BY <2>4, <1>t DEF AbortCall, Goto, Pending, TypeOK
  <2> QED BY <1>4, <2>1, <2>2, <2>3, <2>4 DEF HandlerStep
<1>5. CASE Next
  <2> SUFFICES ASSUME NEW r \in Request, HandlerStep(r) PROVE AdminInv'
      BY <1>5 DEF Next
  <2>1. CASE InsertUser(r)
      BY <1>3, <1>5, <2>1
  <2>2. CASE ~InsertUser(r)
      BY <1>2, <1>4, <1>5, <2>2, UsersChangeOnlyByInsert
  <2> QED BY <2>1, <2>2
<1> QED BY <1>1, <1>5

LEMMA InitAdmins == Init => AdminInv
<1> SUFFICES ASSUME Init PROVE AdminInv
    OBVIOUS
<1>1. Admins = {}
    BY DEF Init, Admins, Stored
<1> QED BY <1>1, InitTyped, FS_EmptySet DEF AdminInv

(* There are never more administrators than there were set-ups under way   *)
(* together when the first one was committed: from then on none begins,    *)
(* and each of those makes at most one.                                    *)
THEOREM AdministratorsBounded == Spec => []AdminsBounded
<1>1. AdminInv => AdminsBounded
  <2> SUFFICES ASSUME AdminInv PROVE AdminsBounded
      OBVIOUS
  <2>1. Cardinality(Admins) \in Nat /\ Cardinality(contenders) \in Nat
      BY SubsetFinite, FS_CardinalityType DEF AdminInv, TypeOK
  <2>2. CASE Admins = {}
      BY <2>1, <2>2, FS_EmptySet DEF AdminsBounded
  <2>3. CASE Admins # {}
      BY <2>1, <2>3, PendingFinite DEF AdminInv, AdminsBounded
  <2> QED BY <2>2, <2>3
<1>2. Init => AdminInv
    BY InitAdmins
<1>3. AdminInv /\ [Next]_vars => AdminInv'
    BY StepAdmins
<1> QED BY <1>1, <1>2, <1>3, PTL DEF Spec
=============================================================================

-------------------------- MODULE WildcardDNSProofs --------------------------
(***************************************************************************)
(* Theorems about WildcardDNS, for any zone, page size and number of runs. *)
(*                                                                         *)
(* NothingOverlooked speaks of the end of a listing.  What carries it page *)
(* by page is Ahead: as long as a listing has found nothing, the wildcard  *)
(* records that stand since it began lie behind the pages it has read.     *)
(* Records that are added can only push the others further back.           *)
(*                                                                         *)
(* DuplicatesBounded counts the wildcard records together with the         *)
(* requests for more that may still be sent: by runs that create, and by   *)
(* runs whose listing began when there was none.  A listing that begins    *)
(* when there is one finds it.                                             *)
(***************************************************************************)
EXTENDS WildcardDNS, FiniteSetTheorems, SequenceTheorems, TLAPS

IdsDiffer(s) == \A i, j \in DOMAIN s : s[i].id = s[j].id => i = j

UniqueIds == IdsDiffer(zone)

(* What stands is there, under the wildcard's name.                        *)
Present == \A c \in Caller : \A id \in standing[c] : \E i \in DOMAIN zone : zone[i].id = id

Named ==
    \A c \in Caller : \A i \in DOMAIN zone :
        zone[i].id \in standing[c] => zone[i].name = BaseWildcard

Ahead ==
    \A c \in Caller :
        run[c].pc = "ensure" /\ ~run[c].found =>
            \A i \in DOMAIN zone : zone[i].id \in standing[c] => i > run[c].page * PageSize

Reading == Present /\ Named /\ Ahead /\ NothingOverlooked

-----------------------------------------------------------------------------
(* Sequences with an element more or less.                                 *)

LEMMA Inserting ==
    ASSUME NEW S, NEW s \in Seq(S), NEW i \in 1..(Len(s) + 1), NEW e \in S
    PROVE  /\ InsertAt(s, i, e) \in Seq(S)
           /\ Len(InsertAt(s, i, e)) = Len(s) + 1
           /\ \A k \in 1..(Len(s) + 1) :
                 InsertAt(s, i, e)[k] = IF k < i THEN s[k] ELSE IF k = i THEN e ELSE s[k - 1]
<1>n. PICK n \in Nat : n = Len(s) /\ i \in Nat /\ 1 <= i /\ i <= n + 1
    OBVIOUS
<1>a. PICK a : a = SubSeq(s, 1, i - 1)
    OBVIOUS
<1>b. PICK b : b = SubSeq(s, i, Len(s))
    OBVIOUS
<1>c. PICK c : c = a \o <<e>>
    OBVIOUS
<1>d. PICK d : d = c \o b
    OBVIOUS
<1>1. a \in Seq(S) /\ Len(a) = i - 1 /\ \A k \in 1..(i - 1) : a[k] = s[k]
    BY <1>a, SubSeqProperties
<1>2. b \in Seq(S) /\ Len(b) = n + 1 - i /\ \A k \in 1..(n + 1 - i) : b[k] = s[i + k - 1]
  <2>1. CASE i <= Len(s)
      BY <2>1, <1>n, <1>b, SubSeqProperties
  <2>2. CASE i = Len(s) + 1
      BY <2>2, <1>n, <1>b, SubSeqProperties
  <2>3. i <= Len(s) \/ i = Len(s) + 1
      BY <1>n
  <2> QED BY <2>1, <2>2, <2>3
<1>3. /\ c \in Seq(S) /\ Len(c) = i
      /\ \A k \in 1..(i - 1) : c[k] = s[k]
      /\ c[i] = e
    BY <1>n, <1>c, <1>1
<1>4. d \in Seq(S) /\ Len(d) = Len(c) + Len(b)
      /\ \A k \in 1..(Len(c) + Len(b)) : d[k] = IF k <= Len(c) THEN c[k] ELSE b[k - Len(c)]
    BY <1>d, <1>2, <1>3, ConcatProperties
<1>5. Len(d) = n + 1
    BY <1>n, <1>2, <1>3, <1>4
<1>6. ASSUME NEW k \in 1..(n + 1), k > i PROVE d[k] = s[k - 1]
  <2>1. k - i \in 1..(n + 1 - i) /\ k \in 1..(Len(c) + Len(b)) /\ ~(k <= Len(c))
      BY <1>n, <1>2, <1>3, <1>6
  <2>2. i + (k - i) - 1 = k - 1
      BY <1>n
  <2>3. d[k] = b[k - i]
      BY <2>1, <1>3, <1>4
  <2>4. b[k - i] = s[i + (k - i) - 1]
      BY <2>1, <1>2
  <2> QED BY <2>2, <2>3, <2>4
<1>7. ASSUME NEW k \in 1..(n + 1), k < i PROVE d[k] = s[k]
  <2>1. k \in 1..(i - 1) /\ k \in 1..(Len(c) + Len(b)) /\ k <= Len(c)
      BY <1>n, <1>2, <1>3, <1>7
  <2> QED BY <2>1, <1>3, <1>4
<1>8. d[i] = e
  <2>1. i \in 1..(Len(c) + Len(b)) /\ i <= Len(c)
      BY <1>n, <1>2, <1>3
  <2> QED BY <2>1, <1>3, <1>4
<1>9. d = InsertAt(s, i, e)
    BY <1>a, <1>b, <1>c, <1>d DEF InsertAt
<1>10. \A k \in 1..(n + 1) : d[k] = IF k < i THEN s[k] ELSE IF k = i THEN e ELSE s[k - 1]
    BY <1>n, <1>6, <1>7, <1>8
<1> QED BY <1>n, <1>4, <1>5, <1>9, <1>10

LEMMA Removing ==
    ASSUME NEW S, NEW s \in Seq(S), NEW i \in 1..Len(s)
    PROVE  /\ RemoveAt(s, i) \in Seq(S)
           /\ Len(RemoveAt(s, i)) = Len(s) - 1
           /\ \A k \in 1..(Len(s) - 1) : RemoveAt(s, i)[k] = IF k < i THEN s[k] ELSE s[k + 1]
<1>n. PICK n \in Nat : n = Len(s) /\ i \in Nat /\ 1 <= i /\ i <= n
    OBVIOUS
<1>a. PICK a : a = SubSeq(s, 1, i - 1)
    OBVIOUS
<1>b. PICK b : b = SubSeq(s, i + 1, Len(s))
    OBVIOUS
<1>d. PICK d : d = a \o b
    OBVIOUS
<1>1. a \in Seq(S) /\ Len(a) = i - 1 /\ \A k \in 1..(i - 1) : a[k] = s[k]
    BY <1>a, SubSeqProperties
<1>2. b \in Seq(S) /\ Len(b) = n - i /\ \A k \in 1..(n - i) : b[k] = s[i + k]
  <2>1. CASE i < Len(s)
      BY <2>1, <1>n, <1>b, SubSeqProperties
  <2>2. CASE i = Len(s)
      BY <2>2, <1>n, <1>b, SubSeqProperties
  <2>3. i < Len(s) \/ i = Len(s)
      BY <1>n
  <2> QED BY <2>1, <2>2, <2>3
<1>4. d \in Seq(S) /\ Len(d) = Len(a) + Len(b)
      /\ \A k \in 1..(Len(a) + Len(b)) : d[k] = IF k <= Len(a) THEN a[k] ELSE b[k - Len(a)]
    BY <1>d, <1>1, <1>2, ConcatProperties
<1>5. Len(d) = n - 1
    BY <1>n, <1>1, <1>2, <1>4
<1>6. ASSUME NEW k \in 1..(n - 1), k >= i PROVE d[k] = s[k + 1]
  <2>1. k - (i - 1) \in 1..(n - i) /\ k \in 1..(Len(a) + Len(b)) /\ ~(k <= Len(a))
      BY <1>n, <1>1, <1>2, <1>6
  <2>2. i + (k - (i - 1)) = k + 1
      BY <1>n
  <2>3. d[k] = b[k - (i - 1)]
      BY <2>1, <1>1, <1>4
  <2>4. b[k - (i - 1)] = s[i + (k - (i - 1))]
      BY <2>1, <1>2
  <2> QED BY <2>2, <2>3, <2>4
<1>7. ASSUME NEW k \in 1..(n - 1), k < i PROVE d[k] = s[k]
  <2>1. k \in 1..(i - 1) /\ k \in 1..(Len(a) + Len(b)) /\ k <= Len(a)
      BY <1>n, <1>1, <1>2, <1>7
  <2> QED BY <2>1, <1>1, <1>4
<1>8. d = RemoveAt(s, i)
    BY <1>a, <1>b, <1>d DEF RemoveAt
<1>9. \A k \in 1..(n - 1) : d[k] = IF k < i THEN s[k] ELSE s[k + 1]
    BY <1>n, <1>6, <1>7
<1> QED BY <1>n, <1>4, <1>5, <1>8, <1>9

-----------------------------------------------------------------------------
(* Changes of the zone.                                                    *)

(* Nothing is lost, and everything but the new record was at the same      *)
(* place or before it.                                                     *)
LEMMA InsertedShape ==
    ASSUME zone \in Seq(Record), NEW x \in Record, Inserted(x)
    PROVE  /\ zone' \in Seq(Record)
           /\ \A k \in DOMAIN zone : \E m \in DOMAIN zone' : zone'[m] = zone[k]
           /\ \A k \in DOMAIN zone' :
                 zone'[k] = x \/ \E m \in DOMAIN zone : m <= k /\ zone'[k] = zone[m]
<1>1. PICK i \in 1..(Len(zone) + 1) : zone' = InsertAt(zone, i, x)
    BY DEF Inserted
<1>2. PICK n \in Nat : n = Len(zone) /\ i \in 1..(n + 1)
    OBVIOUS
<1>3. /\ zone' \in Seq(Record) /\ Len(zone') = n + 1
      /\ \A k \in 1..(n + 1) :
            zone'[k] = IF k < i THEN zone[k] ELSE IF k = i THEN x ELSE zone[k - 1]
    BY <1>1, <1>2, Inserting
<1>4. DOMAIN zone = 1..n /\ DOMAIN zone' = 1..(n + 1)
    BY <1>2, <1>3
<1>5. ASSUME NEW k \in 1..n PROVE \E m \in 1..(n + 1) : zone'[m] = zone[k]
  <2>1. CASE k < i
      BY <2>1, <1>2, <1>3
  <2>2. CASE ~(k < i)
    <3>1. k + 1 \in 1..(n + 1) /\ ~(k + 1 < i) /\ k + 1 # i /\ (k + 1) - 1 = k
        BY <2>2, <1>2
    <3> QED BY <3>1, <1>3
  <2> QED BY <2>1, <2>2
<1>6. ASSUME NEW k \in 1..(n + 1)
      PROVE  zone'[k] = x \/ \E m \in 1..n : m <= k /\ zone'[k] = zone[m]
  <2>1. CASE k < i
    <3>1. k \in 1..n /\ k <= k
        BY <2>1, <1>2
    <3> QED BY <2>1, <3>1, <1>3
  <2>2. CASE k = i
      BY <2>2, <1>2, <1>3
  <2>3. CASE k > i
    <3>1. k - 1 \in 1..n /\ k - 1 <= k /\ ~(k < i) /\ k # i
        BY <2>3, <1>2
    <3> QED BY <3>1, <1>3
  <2> QED BY <1>2, <2>1, <2>2, <2>3
<1> QED BY <1>3, <1>4, <1>5, <1>6

LEMMA InsertionDiffers ==
    ASSUME NEW s \in Seq(Record), IdsDiffer(s), NEW x \in Record,
           \A k \in DOMAIN s : s[k].id # x.id,
           NEW i \in 1..(Len(s) + 1)
    PROVE  IdsDiffer(InsertAt(s, i, x))
<1>1. PICK n \in Nat : n = Len(s) /\ DOMAIN s = 1..n /\ i \in 1..(n + 1)
    OBVIOUS
<1>2. PICK t \in Seq(Record) : t = InsertAt(s, i, x)
    BY Inserting
<1>3. /\ DOMAIN t = 1..(n + 1)
      /\ \A k \in 1..(n + 1) : t[k] = IF k < i THEN s[k] ELSE IF k = i THEN x ELSE s[k - 1]
  <2>1. /\ Len(InsertAt(s, i, x)) = Len(s) + 1
        /\ \A k \in 1..(Len(s) + 1) :
              InsertAt(s, i, x)[k] = IF k < i THEN s[k] ELSE IF k = i THEN x ELSE s[k - 1]
      BY Inserting
  <2>2. DOMAIN t = 1..Len(t)
      OBVIOUS
  <2> QED BY <1>1, <1>2, <2>1, <2>2
<1> DEFINE old(k) == IF k < i THEN k ELSE k - 1
<1>4. \A k \in 1..(n + 1) : k # i => old(k) \in 1..n /\ t[k] = s[old(k)]
    BY <1>1, <1>3
<1>5. \A k, m \in 1..(n + 1) : k # i /\ m # i /\ old(k) = old(m) => k = m
    BY <1>1
<1> HIDE DEF old
<1>6. t[i] = x
    BY <1>1, <1>3
<1>7. \A k \in 1..(n + 1) : k # i => t[k].id # x.id
    BY <1>1, <1>4
<1>8. \A k, m \in 1..(n + 1) : k # i /\ m # i /\ t[k].id = t[m].id => k = m
    BY <1>1, <1>4, <1>5 DEF IdsDiffer
<1>9. \A k, m \in 1..(n + 1) : t[k].id = t[m].id => k = m
    BY <1>6, <1>7, <1>8
<1> QED BY <1>2, <1>3, <1>9 DEF IdsDiffer

LEMMA RemovalDiffers ==
    ASSUME NEW s \in Seq(Record), IdsDiffer(s), NEW i \in 1..Len(s)
    PROVE  /\ IdsDiffer(RemoveAt(s, i))
           /\ \A k \in DOMAIN RemoveAt(s, i) : RemoveAt(s, i)[k].id # s[i].id
<1>1. PICK n \in Nat : n = Len(s) /\ DOMAIN s = 1..n /\ i \in 1..n
    OBVIOUS
<1>2. PICK t \in Seq(Record) : t = RemoveAt(s, i)
    BY Removing
<1>3. /\ DOMAIN t = 1..(n - 1)
      /\ \A k \in 1..(n - 1) : t[k] = IF k < i THEN s[k] ELSE s[k + 1]
  <2>1. /\ Len(RemoveAt(s, i)) = Len(s) - 1
        /\ \A k \in 1..(Len(s) - 1) : RemoveAt(s, i)[k] = IF k < i THEN s[k] ELSE s[k + 1]
      BY Removing
  <2>2. DOMAIN t = 1..Len(t)
      OBVIOUS
  <2> QED BY <1>1, <1>2, <2>1, <2>2
<1> DEFINE old(k) == IF k < i THEN k ELSE k + 1
<1>4. \A k \in 1..(n - 1) : old(k) \in 1..n /\ old(k) # i /\ t[k] = s[old(k)]
    BY <1>1, <1>3
<1>5. \A k, m \in 1..(n - 1) : old(k) = old(m) => k = m
    BY <1>1
<1> HIDE DEF old
<1>6. \A k, m \in 1..(n - 1) : t[k].id = t[m].id => k = m
    BY <1>1, <1>4, <1>5 DEF IdsDiffer
<1>7. \A k \in 1..(n - 1) : t[k].id # s[i].id
    BY <1>1, <1>4 DEF IdsDiffer
<1> QED BY <1>2, <1>3, <1>6, <1>7 DEF IdsDiffer

(* An update puts the record back under another name, at any place.        *)
LEMMA UpdatedShape ==
    ASSUME zone \in Seq(Record), UniqueIds, NEW i \in DOMAIN zone, NEW n \in Name,
           UpdateRecord(i, n)
    PROVE  zone' \in Seq(Record) /\ UniqueIds'
<1> DEFINE x == [zone[i] EXCEPT !.name = n]
<1>1. PICK rest \in Seq(Record) : rest = RemoveAt(zone, i)
    BY Removing
<1>2. Len(rest) = Len(zone) - 1 /\ i \in 1..Len(zone) /\ Len(zone) \in Nat
    BY <1>1, Removing
<1>3. zone[i] \in Record
    OBVIOUS
<1>4. x \in Record /\ x.id = zone[i].id
    BY <1>3 DEF Record
<1>5. PICK j \in DOMAIN zone : zone' = InsertAt(rest, j, x)
    BY <1>1 DEF UpdateRecord
<1>6. j \in 1..(Len(rest) + 1)
    BY <1>2
<1>7. IdsDiffer(rest) /\ \A k \in DOMAIN rest : rest[k].id # x.id
    BY <1>1, <1>2, <1>4, RemovalDiffers DEF UniqueIds
<1> HIDE DEF x
<1> QED BY <1>4, <1>5, <1>6, <1>7, Inserting, InsertionDiffers DEF UniqueIds

LEMMA DeletedShape ==
    ASSUME zone \in Seq(Record), UniqueIds, NEW i \in DOMAIN zone, DeleteRecord(i)
    PROVE  zone' \in Seq(Record) /\ UniqueIds'
<1>1. i \in 1..Len(zone)
    OBVIOUS
<1> QED BY <1>1, Removing, RemovalDiffers DEF UniqueIds, DeleteRecord

-----------------------------------------------------------------------------
(* The types.                                                              *)

Typed == TypeOK /\ UniqueIds

LEMMA InitTyped == Init => Typed
    BY SizeAssumption DEF Init, Typed, TypeOK, UniqueIds, IdsDiffer, Run

LEMMA RunShapes ==
    ASSUME TypeOK, NEW c \in Caller, run[c] # Idle
    PROVE  \/ run[c] \in [pc: {"check", "ensure"}, provision: BOOLEAN, page: Nat, found: BOOLEAN]
           \/ run[c] \in [pc: {"create"}, tries: 0..MaxRetries]
    BY DEF TypeOK, Run

LEMMA ListingShape ==
    ASSUME TypeOK, NEW c \in Caller, run[c].pc \in {"check", "ensure"}
    PROVE  /\ run[c] \in [pc: {"check", "ensure"}, provision: BOOLEAN, page: Nat, found: BOOLEAN]
           /\ run[c] # Idle
    BY RunShapes DEF Idle

LEMMA PageTurned ==
    ASSUME NEW S, S = [pc: {"check", "ensure"}, provision: BOOLEAN, page: Nat, found: BOOLEAN],
           NEW r \in S, NEW v \in BOOLEAN
    PROVE  /\ [r EXCEPT !.page = @ + 1, !.found = v] \in S
           /\ [r EXCEPT !.page = @ + 1, !.found = v].pc = r.pc
           /\ [r EXCEPT !.page = @ + 1, !.found = v].page = r.page + 1
           /\ [r EXCEPT !.page = @ + 1, !.found = v].found = v
<1>1. [r EXCEPT !.page = @ + 1] \in S
    OBVIOUS
<1>2. PICK q \in S : q = [r EXCEPT !.page = @ + 1] /\ q.page = r.page + 1 /\ q.pc = r.pc
    BY <1>1
<1>3. [q EXCEPT !.found = v] \in S
    OBVIOUS
<1>4. [r EXCEPT !.page = @ + 1, !.found = v] = [q EXCEPT !.found = v]
    BY <1>2
<1> QED BY <1>2, <1>3, <1>4

LEMMA CreationShape ==
    ASSUME TypeOK, NEW c \in Caller, run[c].pc = "create"
    PROVE  run[c] \in [pc: {"create"}, tries: 0..MaxRetries] /\ run[c] # Idle
    BY RunShapes DEF Idle

LEMMA InsertionTyped ==
    ASSUME Typed, NEW x, x.id \in Unused, x \in Record, Inserted(x)
    PROVE  zone' \in Seq(Record) /\ UniqueIds'
<1>1. \A k \in DOMAIN zone : zone[k].id # x.id
    BY DEF Unused, Records
<1>2. zone \in Seq(Record)
    BY DEF Typed, TypeOK
<1>3. PICK i \in 1..(Len(zone) + 1) : zone' = InsertAt(zone, i, x)
    BY DEF Inserted
<1>4. InsertAt(zone, i, x) \in Seq(Record)
    BY <1>2, Inserting
<1>5. IdsDiffer(InsertAt(zone, i, x))
    BY <1>1, <1>2, InsertionDiffers DEF Typed, UniqueIds
<1> QED BY <1>3, <1>4, <1>5 DEF UniqueIds

LEMMA StepTyped == Typed /\ [Next]_vars => Typed'
<1> SUFFICES ASSUME Typed, [Next]_vars PROVE Typed'
    OBVIOUS
<1>t. TypeOK /\ UniqueIds /\ zone \in Seq(Record)
    BY DEF Typed, TypeOK
<1>i. Idle \in Run
    BY DEF Run
<1>l. \A pc \in {"check", "ensure"}, provision \in BOOLEAN : Listing(pc, provision) \in Run
    BY DEF Listing, Run
<1>1. CASE UNCHANGED vars
    BY <1>t, <1>1 DEF vars, Typed, TypeOK, UniqueIds
<1>2. ASSUME NEW c \in Caller, NEW provision \in BOOLEAN, BeginRun(c, provision) PROVE Typed'
    BY <1>2, <1>t, <1>l DEF BeginRun, Goto, Typed, TypeOK, UniqueIds
<1>3. ASSUME NEW c \in Caller, ReadPage(c) PROVE Typed'
  <2>1. run[c] \in [pc: {"check", "ensure"}, provision: BOOLEAN, page: Nat, found: BOOLEAN]
      BY <1>3, <1>t, ListingShape DEF ReadPage
  <2>2. PICK v \in BOOLEAN : v = (run[c].found \/ HasMatch(PageAt(run[c].page)))
      OBVIOUS
  <2>3. run' = [run EXCEPT ![c] = [run[c] EXCEPT !.page = @ + 1, !.found = v]]
        /\ UNCHANGED <<zone, edits, standing>>
      BY <1>3, <2>2 DEF ReadPage, Goto
  <2>4. [run[c] EXCEPT !.page = @ + 1, !.found = v] \in Run
      BY <2>1, PageTurned DEF Run
  <2> QED BY <2>3, <2>4, <1>t DEF Typed, TypeOK, UniqueIds
<1>4. ASSUME NEW c \in Caller, EndCheck(c) PROVE Typed'
  <2>1. CASE run[c].provision /\ ~run[c].found
    <3>1. Wildcards \subseteq RecordId
      <4>1. \A i \in DOMAIN zone : zone[i].id \in RecordId
        <5>1. \A i \in DOMAIN zone : zone[i] \in Record
            BY <1>t
        <5> QED BY <5>1 DEF Record
      <4> QED BY <4>1 DEF Wildcards, Records
    <3> QED BY <1>4, <2>1, <3>1, <1>t, <1>l DEF EndCheck, Goto, Typed, TypeOK, UniqueIds
  <2>2. CASE ~(run[c].provision /\ ~run[c].found)
      BY <1>4, <2>2, <1>t, <1>i DEF EndCheck, Goto, Typed, TypeOK, UniqueIds
  <2> QED BY <2>1, <2>2
<1>5. ASSUME NEW c \in Caller, EndEnsure(c) PROVE Typed'
  <2>1. [pc |-> "create", tries |-> 0] \in Run
      BY SizeAssumption DEF Run
  <2> QED BY <1>5, <2>1, <1>t, <1>i DEF EndEnsure, Goto, Typed, TypeOK, UniqueIds
<1>6. ASSUME NEW c \in Caller, CreateWildcard(c) PROVE Typed'
  <2>1. PICK id \in Unused : Inserted([id |-> id, name |-> Qualified(Star)])
      BY <1>6 DEF CreateWildcard
  <2>2. [id |-> id, name |-> Qualified(Star)] \in Record
      BY NameAssumption DEF Unused, Record, Qualified
  <2>3. zone' \in Seq(Record) /\ UniqueIds'
      BY <2>1, <2>2, InsertionTyped
  <2>4. run' \in [Caller -> Run]
    <3>1. run[c] \in [pc: {"create"}, tries: 0..MaxRetries]
        BY <1>6, <1>t, CreationShape DEF CreateWildcard
    <3>2. run[c].tries < MaxRetries => [run[c] EXCEPT !.tries = @ + 1] \in Run
        BY <3>1, SizeAssumption DEF Run
    <3> QED BY <1>6, <3>2, <1>i, <1>t DEF CreateWildcard, Goto, TypeOK
  <2> QED BY <1>6, <2>3, <2>4, <1>t DEF CreateWildcard, Typed, TypeOK
<1>7. ASSUME NEW c \in Caller, FailRun(c) PROVE Typed'
    BY <1>7, <1>t, <1>i DEF FailRun, Goto, Typed, TypeOK, UniqueIds
<1>8. ASSUME NEW n \in Name, CreateRecord(n) PROVE Typed'
  <2>1. PICK id \in Unused : Inserted([id |-> id, name |-> n])
      BY <1>8 DEF CreateRecord
  <2>2. [id |-> id, name |-> n] \in Record
      BY DEF Unused, Record
  <2>3. zone' \in Seq(Record) /\ UniqueIds'
      BY <2>1, <2>2, InsertionTyped
  <2> QED BY <1>8, <2>3, <1>t, SizeAssumption DEF CreateRecord, Edit, Typed, TypeOK
<1>9. ASSUME NEW i \in DOMAIN zone, NEW n \in Name, UpdateRecord(i, n) PROVE Typed'
  <2>1. zone' \in Seq(Record) /\ UniqueIds'
      BY <1>9, <1>t, UpdatedShape
  <2> QED BY <1>9, <2>1, <1>t, SizeAssumption DEF UpdateRecord, Edit, PlacesMove, Typed, TypeOK
<1>10. ASSUME NEW i \in DOMAIN zone, DeleteRecord(i) PROVE Typed'
  <2>1. zone' \in Seq(Record) /\ UniqueIds'
      BY <1>10, <1>t, DeletedShape
  <2> QED BY <1>10, <2>1, <1>t, SizeAssumption DEF DeleteRecord, Edit, PlacesMove, Typed, TypeOK
<1> QED BY <1>1, <1>2, <1>3, <1>4, <1>5, <1>6, <1>7, <1>8, <1>9, <1>10 DEF Next, RunStep

(* The zone and the runs keep their types: records are kept under full     *)
(* names, and no id is drawn twice.                                        *)
THEOREM TypeCorrect == Spec => []TypeOK
<1>1. Typed => TypeOK
    BY DEF Typed
<1> QED BY <1>1, InitTyped, StepTyped, PTL DEF Spec

-----------------------------------------------------------------------------
(* Nothing is overlooked.                                                  *)

LEMMA PageSizes ==
    ASSUME NEW p \in Nat
    PROVE  /\ p * PageSize \in Nat
           /\ (p + 1) * PageSize = p * PageSize + PageSize
           /\ PageSize \in Nat /\ PageSize >= 1
<1>1. PICK z \in Nat : z = PageSize /\ z >= 1
    BY SizeAssumption
<1>2. p * z \in Nat /\ (p + 1) * z = p * z + z
    OBVIOUS
<1> QED BY <1>1, <1>2

(* An empty page comes after all records.                                  *)
LEMMA AfterTheEnd ==
    ASSUME zone \in Seq(Record), NEW p \in Nat, PageAt(p) = {}, NEW i \in DOMAIN zone
    PROVE  ~(i > p * PageSize)
<1> SUFFICES ASSUME i > p * PageSize PROVE FALSE
    OBVIOUS
<1>1. PICK z \in Nat : z = p * PageSize
    BY PageSizes
<1>2. PICK n \in Nat : n = Len(zone) /\ DOMAIN zone = 1..n
    OBVIOUS
<1>3. z + 1 \in 1..n
    BY <1>1, <1>2
<1>4. z + 1 \in (p * PageSize + 1)..((p + 1) * PageSize)
  <2>1. PICK w : w = (p + 1) * PageSize
      OBVIOUS
  <2>2. w = z + PageSize /\ PageSize \in Nat /\ PageSize >= 1
      BY <1>1, <2>1, PageSizes
  <2>3. z + 1 \in (z + 1)..w
      BY <2>2
  <2> QED BY <1>1, <2>1, <2>3
<1>5. zone[z + 1] \in PageAt(p)
    BY <1>2, <1>3, <1>4 DEF PageAt
<1> QED BY <1>5

(* Only the runs have changed, and none has turned a page or begun to      *)
(* create.                                                                 *)
LEMMA ReadingKept ==
    ASSUME Reading, UNCHANGED <<zone, standing>>,
           \A c \in Caller :
               \/ run'[c] = run[c]
               \/ run'[c].pc \notin {"ensure", "create"}
               \/ run'[c].pc = "create" /\ standing[c] = {}
    PROVE  Reading'
<1>1. Present' /\ Named'
    BY DEF Reading, Present, Named
<1>2. Ahead'
    BY DEF Reading, Ahead
<1>3. NothingOverlooked'
    BY DEF Reading, NothingOverlooked
<1> QED BY <1>1, <1>2, <1>3 DEF Reading

LEMMA ReadingAfterInsertion ==
    ASSUME Typed, Reading, UNCHANGED standing,
           NEW x \in Record, x.id \in Unused, Inserted(x),
           \A c \in Caller :
               \/ run'[c] = run[c]
               \/ run'[c].pc \notin {"ensure", "create"}
               \/ run'[c].pc = "create" /\ standing[c] = {}
    PROVE  Reading'
<1>t. zone \in Seq(Record) /\ TypeOK
    BY DEF Typed, TypeOK
<1>1. \A k \in DOMAIN zone : \E m \in DOMAIN zone' : zone'[m] = zone[k]
    BY <1>t, InsertedShape
<1>2. \A k \in DOMAIN zone' :
         zone'[k] = x \/ \E m \in DOMAIN zone : m <= k /\ zone'[k] = zone[m]
    BY <1>t, InsertedShape
<1>3. \A k \in DOMAIN zone : zone[k].id # x.id
    BY DEF Unused, Records
<1>4. \A c \in Caller : x.id \notin standing[c]
    BY <1>3 DEF Reading, Present
<1>5. Present'
    BY <1>1 DEF Reading, Present
<1>6. Named'
    BY <1>2, <1>4 DEF Reading, Named
<1>7. Ahead'
  <2> SUFFICES ASSUME NEW c \in Caller, run'[c].pc = "ensure", ~run'[c].found,
                      NEW k \in DOMAIN zone', zone'[k].id \in standing[c]
               PROVE  k > run'[c].page * PageSize
      BY DEF Ahead
  <2>1. run'[c] = run[c]
      OBVIOUS
  <2>2. PICK m \in DOMAIN zone : m <= k /\ zone'[k] = zone[m]
      BY <1>2, <1>4
  <2>3. m > run[c].page * PageSize
      BY <2>1, <2>2 DEF Reading, Ahead
  <2>4. run[c].page * PageSize \in Nat
      BY <2>1, <1>t, ListingShape, PageSizes
  <2>5. m \in Int /\ k \in Int
    <3>1. zone' \in Seq(Record)
        BY <1>t, InsertedShape
    <3> QED BY <3>1, <1>t
  <2> QED BY <2>1, <2>2, <2>3, <2>4, <2>5
<1>8. NothingOverlooked'
    BY DEF Reading, NothingOverlooked
<1> QED BY <1>5, <1>6, <1>7, <1>8 DEF Reading

(* Once places move, nothing is said of the listings under way.            *)
LEMMA ReadingAnew ==
    ASSUME PlacesMove
    PROVE  Reading'
<1>1. \A c \in Caller : standing'[c] = {}
    BY DEF PlacesMove
<1> QED BY <1>1 DEF Reading, Present, Named, Ahead, NothingOverlooked

LEMMA StepReading ==
    ASSUME Typed, Reading, [Next]_vars, ZoneWildcard = BaseWildcard
    PROVE  Reading'
<1>t. TypeOK /\ UniqueIds /\ zone \in Seq(Record)
    BY DEF Typed, TypeOK
<1>r. run \in [Caller -> Run]
    BY <1>t DEF TypeOK
<1>1. CASE UNCHANGED vars
    BY <1>1, ReadingKept DEF vars
<1>2. ASSUME NEW c \in Caller, NEW provision \in BOOLEAN, BeginRun(c, provision) PROVE Reading'
  <2>1. UNCHANGED <<zone, standing>> /\ run' = [run EXCEPT ![c] = Listing("check", provision)]
      BY <1>2 DEF BeginRun, Goto
  <2>2. Listing("check", provision).pc = "check"
      BY DEF Listing
  <2> QED BY <2>1, <2>2, <1>r, ReadingKept
<1>3. ASSUME NEW c \in Caller, ReadPage(c) PROVE Reading'
  <2> DEFINE R == [pc: {"check", "ensure"}, provision: BOOLEAN, page: Nat, found: BOOLEAN]
  <2>1. run[c] \in R
      BY <1>3, <1>t, ListingShape DEF ReadPage
  <2>2. PICK v \in BOOLEAN : v = (run[c].found \/ HasMatch(PageAt(run[c].page)))
      OBVIOUS
  <2>3. run' = [run EXCEPT ![c] = [run[c] EXCEPT !.page = @ + 1, !.found = v]]
        /\ UNCHANGED <<zone, standing>>
      BY <1>3, <2>2 DEF ReadPage, Goto
  <2>4. /\ run'[c].pc = run[c].pc
        /\ run'[c].page = run[c].page + 1
        /\ run'[c].found = v
    <3>1. run'[c] = [run[c] EXCEPT !.page = @ + 1, !.found = v]
        BY <2>3, <1>r
    <3> QED BY <2>1, <3>1, PageTurned
  <2>5. \A d \in Caller : d # c => run'[d] = run[d]
      BY <2>3, <1>r
  <2>6. run[c].pc # "create"
      BY <2>1
  <2>7. ASSUME run[c].pc = "ensure", ~v,
               NEW i \in DOMAIN zone, zone[i].id \in standing[c]
        PROVE  i > (run[c].page + 1) * PageSize
    <3>1. PICK z \in Nat, w \in Nat : z = run[c].page * PageSize /\ w = (run[c].page + 1) * PageSize
        BY <2>1, PageSizes
    <3>2. i > z
        BY <2>2, <2>7, <3>1 DEF Reading, Ahead
    <3>3. zone[i].name = BaseWildcard
        BY <2>7 DEF Reading, Named
    <3>4. zone[i] \notin PageAt(run[c].page)
        BY <2>2, <2>7, <3>3 DEF HasMatch, Recognised
    <3>5. i \notin (z + 1)..w
        BY <3>1, <3>4 DEF PageAt
    <3>6. i \in Int
        BY <1>t
    <3> QED BY <3>1, <3>2, <3>5, <3>6
  <2>8. Present' /\ Named'
      BY <2>3 DEF Reading, Present, Named
  <2>9. Ahead'
    <3> SUFFICES ASSUME NEW d \in Caller, run'[d].pc = "ensure", ~run'[d].found,
                        NEW i \in DOMAIN zone, zone[i].id \in standing[d]
                 PROVE  i > run'[d].page * PageSize
        BY <2>3 DEF Ahead
    <3>1. CASE d = c
        BY <3>1, <2>4, <2>7
    <3>2. CASE d # c
        BY <3>2, <2>5 DEF Reading, Ahead
    <3> QED BY <3>1, <3>2
  <2>10. NothingOverlooked'
      BY <2>3, <2>4, <2>5, <2>6 DEF Reading, NothingOverlooked
  <2> QED BY <2>8, <2>9, <2>10 DEF Reading
<1>4. ASSUME NEW c \in Caller, EndCheck(c) PROVE Reading'
  <2>1. CASE run[c].provision /\ ~run[c].found
    <3>1. /\ run' = [run EXCEPT ![c] = Listing("ensure", TRUE)]
          /\ standing' = [standing EXCEPT ![c] = Wildcards]
          /\ UNCHANGED zone
        BY <1>4, <2>1 DEF EndCheck, Goto
    <3>2. /\ run'[c] = Listing("ensure", TRUE) /\ standing'[c] = Wildcards
          /\ \A d \in Caller : d # c => run'[d] = run[d] /\ standing'[d] = standing[d]
        BY <3>1, <1>t DEF TypeOK
    <3>3. \A id \in Wildcards : \E i \in DOMAIN zone : zone[i].id = id /\ zone[i].name = BaseWildcard
        BY DEF Wildcards, Records
    <3>4. \A i \in DOMAIN zone : zone[i].id \in Wildcards => zone[i].name = BaseWildcard
        BY <3>3, <1>t DEF UniqueIds, IdsDiffer
    <3>5. Listing("ensure", TRUE).pc = "ensure" /\ Listing("ensure", TRUE).page = 0
        BY DEF Listing
    <3>6. \A i \in DOMAIN zone : i > 0 * PageSize
      <4>1. 0 * PageSize = 0
          BY SizeAssumption
      <4> QED BY <4>1, <1>t
    <3>7. Present'
        BY <3>1, <3>2, <3>3 DEF Reading, Present
    <3>8. Named'
        BY <3>1, <3>2, <3>4 DEF Reading, Named
    <3>9. Ahead'
      <4> SUFFICES ASSUME NEW d \in Caller, run'[d].pc = "ensure", ~run'[d].found,
                          NEW i \in DOMAIN zone, zone[i].id \in standing'[d]
                   PROVE  i > run'[d].page * PageSize
          BY <3>1 DEF Ahead
      <4>1. CASE d = c
          BY <4>1, <3>2, <3>5, <3>6
      <4>2. CASE d # c
          BY <4>2, <3>2 DEF Reading, Ahead
      <4> QED BY <4>1, <4>2
    <3>10. NothingOverlooked'
        BY <3>2, <3>5 DEF Reading, NothingOverlooked
    <3> QED BY <3>7, <3>8, <3>9, <3>10 DEF Reading
  <2>2. CASE ~(run[c].provision /\ ~run[c].found)
    <3>1. UNCHANGED <<zone, standing>> /\ run' = [run EXCEPT ![c] = Idle]
        BY <1>4, <2>2 DEF EndCheck, Goto
    <3>2. Idle.pc = "idle"
        BY DEF Idle
    <3> QED BY <3>1, <3>2, <1>r, ReadingKept
  <2> QED BY <2>1, <2>2
<1>5. ASSUME NEW c \in Caller, EndEnsure(c) PROVE Reading'
  <2>1. UNCHANGED <<zone, standing>>
        /\ run' = [run EXCEPT ![c] = IF run[c].found THEN Idle ELSE [pc |-> "create", tries |-> 0]]
      BY <1>5 DEF EndEnsure, Goto
  <2>2. Idle.pc = "idle"
      BY DEF Idle
  <2>3. CASE run[c].found
      BY <2>1, <2>2, <2>3, <1>r, ReadingKept
  <2>4. CASE ~run[c].found
    <3>1. run[c].page \in Nat
        BY <1>5, <1>t, ListingShape DEF EndEnsure
    <3>2. \A i \in DOMAIN zone : ~(i > run[c].page * PageSize)
        BY <1>5, <1>t, <3>1, AfterTheEnd DEF EndEnsure, AtEnd
    <3>3. \A i \in DOMAIN zone : zone[i].id \notin standing[c]
        BY <1>5, <2>4, <3>2 DEF EndEnsure, Reading, Ahead
    <3>4. standing[c] = {}
        BY <3>3 DEF Reading, Present
    <3>5. run'[c].pc = "create" /\ \A d \in Caller : d # c => run'[d] = run[d]
        BY <2>1, <2>4, <1>r
    <3> QED BY <2>1, <3>4, <3>5, ReadingKept
  <2> QED BY <2>3, <2>4
<1>6. ASSUME NEW c \in Caller, CreateWildcard(c) PROVE Reading'
  <2>1. PICK id \in Unused : Inserted([id |-> id, name |-> Qualified(Star)])
      BY <1>6 DEF CreateWildcard
  <2>2. [id |-> id, name |-> Qualified(Star)] \in Record
      BY NameAssumption DEF Unused, Record, Qualified
  <2>3. [id |-> id, name |-> Qualified(Star)].id \in Unused
      OBVIOUS
  <2>4. standing[c] = {} /\ UNCHANGED standing
      BY <1>6 DEF CreateWildcard, Reading, NothingOverlooked
  <2>5. run'[c].pc \in {"idle", "create"} /\ \A d \in Caller : d # c => run'[d] = run[d]
    <3>1. run[c] \in [pc: {"create"}, tries: 0..MaxRetries]
        BY <1>6, <1>t, CreationShape DEF CreateWildcard
    <3>2. [run[c] EXCEPT !.tries = @ + 1].pc = "create"
        BY <3>1
    <3>3. CASE run' = [run EXCEPT ![c] = Idle]
        BY <3>3, <1>r DEF Idle
    <3>4. CASE run' = [run EXCEPT ![c] = [run[c] EXCEPT !.tries = @ + 1]]
        BY <3>2, <3>4, <1>r
    <3> QED BY <1>6, <3>3, <3>4 DEF CreateWildcard, Goto
  <2>6. \A d \in Caller :
           \/ run'[d] = run[d]
           \/ run'[d].pc \notin {"ensure", "create"}
           \/ run'[d].pc = "create" /\ standing[d] = {}
      BY <2>4, <2>5
  <2> QED BY <2>1, <2>2, <2>3, <2>4, <2>6, ReadingAfterInsertion
<1>7. ASSUME NEW c \in Caller, FailRun(c) PROVE Reading'
  <2>1. UNCHANGED <<zone, standing>> /\ run' = [run EXCEPT ![c] = Idle]
      BY <1>7 DEF FailRun, Goto
  <2>2. Idle.pc = "idle"
      BY DEF Idle
  <2> QED BY <2>1, <2>2, <1>r, ReadingKept
<1>8. ASSUME NEW n \in Name, CreateRecord(n) PROVE Reading'
  <2>1. PICK id \in Unused : Inserted([id |-> id, name |-> n])
      BY <1>8 DEF CreateRecord
  <2>2. [id |-> id, name |-> n] \in Record /\ [id |-> id, name |-> n].id \in Unused
      BY DEF Unused, Record
  <2>3. UNCHANGED run /\ UNCHANGED standing
      BY <1>8 DEF CreateRecord, Edit
  <2> QED BY <2>1, <2>2, <2>3, ReadingAfterInsertion
<1>9. ASSUME NEW i \in DOMAIN zone, NEW n \in Name, UpdateRecord(i, n) PROVE Reading'
    BY <1>9, ReadingAnew DEF UpdateRecord
<1>10. ASSUME NEW i \in DOMAIN zone, DeleteRecord(i) PROVE Reading'
    BY <1>10, ReadingAnew DEF DeleteRecord
<1> QED BY <1>1, <1>2, <1>3, <1>4, <1>5, <1>6, <1>7, <1>8, <1>9, <1>10 DEF Next, RunStep

(* When BASE_DOMAIN is the zone's own name, a run creates the wildcard     *)
(* only if none has stood since its listing began, for any size of a page  *)
(* and whatever the other runs and people at the console do meanwhile.     *)
THEOREM ListingsOverlookNothing ==
    ZoneWildcard = BaseWildcard => (Spec => []NothingOverlooked)
<1> SUFFICES ASSUME ZoneWildcard = BaseWildcard PROVE Spec => []NothingOverlooked
    OBVIOUS
<1>1. Init => Typed /\ Reading
  <2>1. Init => Reading
      BY DEF Init, Idle, Reading, Present, Named, Ahead, NothingOverlooked
  <2> QED BY <2>1, InitTyped
<1>2. Typed /\ Reading /\ [Next]_vars => (Typed /\ Reading)'
    BY StepTyped, StepReading
<1>3. Typed /\ Reading => NothingOverlooked
    BY DEF Reading
<1> QED BY <1>1, <1>2, <1>3, PTL DEF Spec

-----------------------------------------------------------------------------
(* Duplicates.                                                             *)

InFlight == {c \in Caller : run[c] # Idle}

(* A run that creates, or will unless it meets a record made meanwhile.    *)
MaySend(c, k) ==
    \/ run[c].pc = "ensure" /\ standing[c] = {}
    \/ run[c].pc = "create" /\ run[c].tries <= k

Outstanding == {x \in Caller \X (0..MaxRetries) : MaySend(x[1], x[2])}

Limit == MaxBusy * (1 + MaxRetries)

BusyBounded == Cardinality(InFlight) <= MaxBusy

WithinLimit ==
    /\ IsFiniteSet(Wildcards)
    /\ Cardinality(Wildcards) + Cardinality(Outstanding) <= Limit

DuplicateInv == BusyBounded /\ (edits = 0 => WithinLimit)

LEMMA InFlightFinite == IsFiniteSet(InFlight) /\ Cardinality(InFlight) \in Nat
    BY BoundAssumption, FS_Subset, FS_CardinalityType DEF InFlight

LEMMA PairsFinite ==
    /\ IsFiniteSet(Caller \X (0..MaxRetries))
    /\ IsFiniteSet(Outstanding) /\ Cardinality(Outstanding) \in Nat
<1>1. IsFiniteSet(0..MaxRetries)
    BY SizeAssumption, FS_Interval
<1>2. IsFiniteSet(Caller \X (0..MaxRetries))
    BY <1>1, BoundAssumption, FS_Product
<1>3. Outstanding \in SUBSET (Caller \X (0..MaxRetries))
    BY DEF Outstanding
<1> QED BY <1>2, <1>3, FS_Subset, FS_CardinalityType

(* Every run in flight may send its request, and send it again.            *)
LEMMA FewOutstanding == BusyBounded => Cardinality(Outstanding) <= Limit
<1> SUFFICES ASSUME BusyBounded PROVE Cardinality(Outstanding) <= Limit
    OBVIOUS
<1>1. Outstanding \in SUBSET (InFlight \X (0..MaxRetries))
  <2>1. \A c \in Caller : run[c].pc \in {"ensure", "create"} => run[c] # Idle
      BY DEF Idle
  <2> QED BY <2>1 DEF Outstanding, MaySend, InFlight
<1>2. IsFiniteSet(0..MaxRetries) /\ Cardinality(0..MaxRetries) = 1 + MaxRetries
    BY SizeAssumption, FS_Interval
<1>3. IsFiniteSet(InFlight \X (0..MaxRetries))
      /\ Cardinality(InFlight \X (0..MaxRetries)) = Cardinality(InFlight) * (1 + MaxRetries)
    BY <1>2, InFlightFinite, FS_Product
<1>4. Cardinality(Outstanding) <= Cardinality(InFlight) * (1 + MaxRetries)
    BY <1>1, <1>3, FS_Subset
<1>5. PICK n \in Nat, b \in Nat, m \in Nat :
          n = Cardinality(InFlight) /\ b = MaxBusy /\ m = 1 + MaxRetries
    BY InFlightFinite, BoundAssumption, SizeAssumption
<1>6. n <= b
    BY <1>5 DEF BusyBounded
<1>7. n * m <= b * m
    BY <1>5, <1>6
<1>8. n * m \in Nat /\ b * m \in Nat
    BY <1>5
<1> QED BY <1>4, <1>5, <1>7, <1>8, PairsFinite DEF Limit

LEMMA FewOutstandingNext ==
    /\ (BusyBounded => Cardinality(Outstanding) <= Limit)'
    /\ (Cardinality(Outstanding) \in Nat)'
    BY FewOutstanding, PairsFinite, PTL

LEMMA OneMore ==
    ASSUME NEW S, NEW x, IsFiniteSet(S), NEW T \in SUBSET (S \cup {x})
    PROVE  /\ IsFiniteSet(T) /\ Cardinality(T) \in Nat
           /\ Cardinality(S) \in Nat /\ Cardinality(T) <= Cardinality(S) + 1
<1>1. IsFiniteSet(S \cup {x})
    BY FS_AddElement
<1>2. Cardinality(S \cup {x}) = IF x \in S THEN Cardinality(S) ELSE Cardinality(S) + 1
    BY FS_AddElement
<1>3. Cardinality(S) \in Nat /\ Cardinality(S \cup {x}) \in Nat
    BY <1>1, FS_CardinalityType
<1>4. IsFiniteSet(T) /\ Cardinality(T) <= Cardinality(S \cup {x})
    BY <1>1, FS_Subset
<1>5. Cardinality(T) \in Nat
    BY <1>4, FS_CardinalityType
<1> QED BY <1>2, <1>3, <1>4, <1>5

(* Steps that add no record and let no further run send.                   *)
LEMMA Quieter ==
    ASSUME edits = 0 => WithinLimit, UNCHANGED <<zone, edits>>, Outstanding' \subseteq Outstanding
    PROVE  (edits = 0 => WithinLimit)'
<1>1. Cardinality(Outstanding') <= Cardinality(Outstanding) /\ Cardinality(Outstanding') \in Nat
  <2>1. Outstanding' \in SUBSET Outstanding
      OBVIOUS
  <2> QED BY <2>1, PairsFinite, FS_Subset, FS_CardinalityType
<1>2. Wildcards' = Wildcards
    BY DEF Wildcards, Records
<1>3. Limit \in Nat
    BY BoundAssumption, SizeAssumption DEF Limit
<1>4. IsFiniteSet(Wildcards) => Cardinality(Wildcards) \in Nat
    BY FS_CardinalityType
<1> QED BY <1>1, <1>2, <1>3, <1>4, PairsFinite DEF WithinLimit, Limit

LEMMA FewerInFlight ==
    ASSUME BusyBounded, InFlight' \subseteq InFlight
    PROVE  BusyBounded'
<1>1. InFlight' \in SUBSET InFlight
    OBVIOUS
<1>2. Cardinality(InFlight') <= Cardinality(InFlight) /\ Cardinality(InFlight') \in Nat
    BY <1>1, InFlightFinite, FS_Subset, FS_CardinalityType
<1> QED BY <1>2, InFlightFinite, BoundAssumption DEF BusyBounded

LEMMA OneMoreWildcard ==
    ASSUME Typed, NEW id \in Unused, Inserted([id |-> id, name |-> Qualified(Star)])
    PROVE  Wildcards' \subseteq Wildcards \cup {id}
<1> DEFINE x == [id |-> id, name |-> Qualified(Star)]
<1>1. x \in Record /\ zone \in Seq(Record)
    BY NameAssumption DEF Unused, Record, Qualified, Typed, TypeOK
<1>2. \A k \in DOMAIN zone' : zone'[k] = x \/ \E m \in DOMAIN zone : zone'[k] = zone[m]
    BY <1>1, InsertedShape
<1>3. x.id = id
    OBVIOUS
<1> QED BY <1>2, <1>3 DEF Wildcards, Records

LEMMA CreationCounted ==
    ASSUME Typed, WithinLimit, NEW c \in Caller, CreateWildcard(c)
    PROVE  WithinLimit'
<1>1. PICK id \in Unused : Inserted([id |-> id, name |-> Qualified(Star)])
    BY DEF CreateWildcard
<1>2. Wildcards' \in SUBSET (Wildcards \cup {id})
    BY <1>1, OneMoreWildcard
<1>3. /\ IsFiniteSet(Wildcards') /\ Cardinality(Wildcards') \in Nat
      /\ Cardinality(Wildcards) \in Nat /\ Cardinality(Wildcards') <= Cardinality(Wildcards) + 1
    BY <1>2, OneMore DEF WithinLimit
<1>5. run[c].tries \in 0..MaxRetries /\ run[c].pc = "create" /\ run \in [Caller -> Run]
    BY CreationShape DEF CreateWildcard, Typed, TypeOK
<1> DEFINE sent == <<c, run[c].tries>>
<1>6. sent \in Outstanding
    BY <1>5, SizeAssumption DEF Outstanding, MaySend
<1>7. Outstanding' \in SUBSET (Outstanding \ {sent})
  <2>1. UNCHANGED standing
      BY DEF CreateWildcard
  <2>2. \/ run'[c] = Idle
        \/ run'[c].pc = "create" /\ run'[c].tries = run[c].tries + 1
    <3>1. run[c] \in [pc: {"create"}, tries: 0..MaxRetries]
        BY CreationShape DEF CreateWildcard, Typed
    <3>2. [run[c] EXCEPT !.tries = @ + 1].pc = "create"
          /\ [run[c] EXCEPT !.tries = @ + 1].tries = run[c].tries + 1
        BY <3>1
    <3>3. run'[c] = Idle \/ run'[c] = [run[c] EXCEPT !.tries = @ + 1]
        BY <1>5 DEF CreateWildcard, Goto
    <3> QED BY <3>2, <3>3
  <2>3. \A d \in Caller : d # c => run'[d] = run[d]
      BY <1>5 DEF CreateWildcard, Goto
  <2>4. ASSUME NEW k \in 0..MaxRetries, MaySend(c, k)'
        PROVE  MaySend(c, k) /\ k # run[c].tries
      BY <2>2, <2>4, <1>5, SizeAssumption DEF MaySend, Idle
  <2>5. ASSUME NEW d \in Caller, d # c, NEW k \in 0..MaxRetries, MaySend(d, k)'
        PROVE  MaySend(d, k)
      BY <2>1, <2>3, <2>5 DEF MaySend
  <2> QED BY <2>4, <2>5 DEF Outstanding
<1>8. Cardinality(Outstanding') <= Cardinality(Outstanding) - 1 /\ Cardinality(Outstanding') \in Nat
  <2>1. IsFiniteSet(Outstanding \ {sent})
        /\ Cardinality(Outstanding \ {sent}) = Cardinality(Outstanding) - 1
      BY <1>6, PairsFinite, FS_RemoveElement
  <2> QED BY <2>1, <1>7, FS_Subset, FS_CardinalityType
<1>9. Limit \in Nat
    BY BoundAssumption, SizeAssumption DEF Limit
<1> QED BY <1>3, <1>8, <1>9, PairsFinite DEF WithinLimit, Limit

LEMMA StepDuplicates ==
    ASSUME Typed, Reading', DuplicateInv, [Next]_vars
    PROVE  DuplicateInv'
<1>t. run \in [Caller -> Run] /\ standing \in [Caller -> SUBSET RecordId] /\ edits \in Nat
    BY SizeAssumption DEF Typed, TypeOK
<1>d. BusyBounded /\ (edits = 0 => WithinLimit)
    BY DEF DuplicateInv
<1>l. \A pc, provision : Listing(pc, provision).pc = pc /\ Idle.pc = "idle"
    BY DEF Listing, Idle
<1>1. CASE UNCHANGED vars
  <2>1. InFlight' = InFlight /\ Outstanding' = Outstanding
      BY <1>1 DEF vars, InFlight, Outstanding, MaySend
  <2> QED BY <1>1, <2>1, <1>d, Quieter, FewerInFlight DEF vars, DuplicateInv
<1>2. ASSUME NEW c \in Caller, NEW provision \in BOOLEAN, BeginRun(c, provision)
      PROVE  DuplicateInv'
  <2>1. Outstanding' \subseteq Outstanding
      BY <1>2, <1>t, <1>l DEF BeginRun, Goto, Outstanding, MaySend
  <2>2. InFlight' \in SUBSET (InFlight \cup {c})
      BY <1>2, <1>t DEF BeginRun, Goto, InFlight
  <2>3. Cardinality(InFlight) < MaxBusy
      BY <1>2 DEF BeginRun, InFlight
  <2>4. /\ Cardinality(InFlight') \in Nat /\ Cardinality(InFlight) \in Nat
        /\ Cardinality(InFlight') <= Cardinality(InFlight) + 1
      BY <2>2, InFlightFinite, OneMore
  <2>6. BusyBounded'
      BY <2>3, <2>4, BoundAssumption DEF BusyBounded
  <2> QED BY <1>2, <2>1, <2>6, <1>d, Quieter DEF BeginRun, DuplicateInv
<1>3. ASSUME NEW c \in Caller, ReadPage(c) PROVE DuplicateInv'
  <2>1. run'[c].pc = run[c].pc /\ run[c].pc \in {"check", "ensure"} /\ run[c] # Idle
    <3>1. PICK v \in BOOLEAN : v = (run[c].found \/ HasMatch(PageAt(run[c].page)))
        OBVIOUS
    <3>2. run' = [run EXCEPT ![c] = [run[c] EXCEPT !.page = @ + 1, !.found = v]]
        BY <1>3, <3>1 DEF ReadPage, Goto
    <3> QED BY <1>3, <3>2, <1>t, ListingShape, PageTurned DEF ReadPage, Typed
  <2>2. \A d \in Caller : d # c => run'[d] = run[d]
      BY <1>3, <1>t DEF ReadPage, Goto
  <2>3. UNCHANGED <<zone, edits, standing>>
      BY <1>3 DEF ReadPage
  <2>4. InFlight' \subseteq InFlight
      BY <2>1, <2>2 DEF InFlight
  <2>5. Outstanding' \subseteq Outstanding
      BY <2>1, <2>2, <2>3 DEF Outstanding, MaySend
  <2> QED BY <2>3, <2>4, <2>5, <1>d, Quieter, FewerInFlight DEF DuplicateInv
<1>4. ASSUME NEW c \in Caller, EndCheck(c) PROVE DuplicateInv'
  <2>0. run[c] # Idle /\ UNCHANGED <<zone, edits>>
      BY <1>4 DEF EndCheck, Idle
  <2>2. \A d \in Caller : d # c => run'[d] = run[d] /\ standing'[d] = standing[d]
      BY <1>4, <1>t DEF EndCheck, Goto
  <2>3. BusyBounded'
    <3>1. InFlight' \subseteq InFlight
        BY <2>0, <2>2 DEF InFlight
    <3> QED BY <3>1, <1>d, FewerInFlight
  <2>4. \/ run'[c].pc = "ensure" /\ standing'[c] = Wildcards
        \/ run'[c].pc = "idle"
    <3>1. CASE run[c].provision /\ ~run[c].found
      <4>1. run'[c] = Listing("ensure", TRUE) /\ standing'[c] = Wildcards
          BY <1>4, <1>t, <3>1 DEF EndCheck, Goto
      <4> QED BY <4>1, <1>l
    <3>2. CASE ~(run[c].provision /\ ~run[c].found)
      <4>1. run'[c] = Idle
          BY <1>4, <1>t, <3>2 DEF EndCheck, Goto
      <4> QED BY <4>1, <1>l
    <3> QED BY <3>1, <3>2
  <2>5. CASE run'[c].pc = "ensure" /\ standing'[c] = Wildcards /\ Wildcards = {}
    <3>1. Cardinality(Outstanding') <= Limit
        BY <2>3, FewOutstandingNext DEF Limit
    <3>2. Wildcards' = {}
        BY <2>0, <2>5 DEF Wildcards, Records
    <3>3. IsFiniteSet(Wildcards') /\ Cardinality(Wildcards') = 0
        BY <3>2, FS_EmptySet
    <3>4. Cardinality(Outstanding') \in Nat
        BY FewOutstandingNext
    <3>5. Cardinality(Wildcards') + Cardinality(Outstanding') = Cardinality(Outstanding')
        BY <3>3, <3>4
    <3> QED BY <2>3, <3>1, <3>3, <3>5 DEF DuplicateInv, WithinLimit, Limit
  <2>6. CASE ~(run'[c].pc = "ensure" /\ standing'[c] = {})
    <3>1. \A k : ~MaySend(c, k)'
        BY <2>4, <2>6 DEF MaySend
    <3>2. Outstanding' \subseteq Outstanding
        BY <2>2, <3>1 DEF Outstanding, MaySend
    <3> QED BY <2>0, <2>3, <3>2, <1>d, Quieter DEF DuplicateInv
  <2> QED BY <2>4, <2>5, <2>6
<1>5. ASSUME NEW c \in Caller, EndEnsure(c) PROVE DuplicateInv'
  <2>0. run[c] # Idle /\ run[c].pc = "ensure" /\ UNCHANGED <<zone, edits, standing>>
      BY <1>5 DEF EndEnsure, Idle
  <2>1. \A d \in Caller : d # c => run'[d] = run[d]
      BY <1>5, <1>t DEF EndEnsure, Goto
  <2>2. run'[c].pc = "idle" \/ run'[c].pc = "create"
      BY <1>5, <1>t, <1>l DEF EndEnsure, Goto
  <2>3. run'[c].pc = "create" => standing[c] = {}
      BY <2>0 DEF Reading, NothingOverlooked
  <2>4. InFlight' \subseteq InFlight
      BY <2>0, <2>1 DEF InFlight
  <2>5. \A k : MaySend(c, k)' => MaySend(c, k)
      BY <2>0, <2>2, <2>3 DEF MaySend
  <2>6. Outstanding' \subseteq Outstanding
      BY <2>0, <2>1, <2>5 DEF Outstanding, MaySend
  <2> QED BY <2>0, <2>4, <2>6, <1>d, Quieter, FewerInFlight DEF DuplicateInv
<1>6. ASSUME NEW c \in Caller, CreateWildcard(c) PROVE DuplicateInv'
  <2>1. run[c] # Idle /\ UNCHANGED edits
      BY <1>6 DEF CreateWildcard, Idle
  <2>2. InFlight' \subseteq InFlight
      BY <1>6, <2>1, <1>t DEF CreateWildcard, Goto, InFlight
  <2> QED BY <1>6, <2>1, <2>2, <1>d, CreationCounted, FewerInFlight DEF DuplicateInv
<1>7. ASSUME NEW c \in Caller, FailRun(c) PROVE DuplicateInv'
  <2>1. InFlight' \subseteq InFlight
      BY <1>7, <1>t DEF FailRun, Goto, InFlight
  <2>2. Outstanding' \subseteq Outstanding
      BY <1>7, <1>t, <1>l DEF FailRun, Goto, Outstanding, MaySend
  <2> QED BY <1>7, <2>1, <2>2, <1>d, Quieter, FewerInFlight DEF FailRun, DuplicateInv
<1>8. ASSUME edits' = edits + 1, UNCHANGED run PROVE DuplicateInv'
  <2>1. InFlight' \subseteq InFlight
      BY <1>8 DEF InFlight
  <2> QED BY <1>8, <2>1, <1>t, <1>d, FewerInFlight DEF DuplicateInv
<1> QED BY <1>1, <1>2, <1>3, <1>4, <1>5, <1>6, <1>7, <1>8
        DEF Next, RunStep, CreateRecord, UpdateRecord, DeleteRecord, Edit

LEMMA InitDuplicates == Init => DuplicateInv
<1> SUFFICES ASSUME Init PROVE DuplicateInv
    OBVIOUS
<1>1. InFlight = {} /\ Outstanding = {} /\ Wildcards = {}
    BY DEF Init, InFlight, Outstanding, MaySend, Idle, Wildcards, Records
<1>2. Limit \in Nat
    BY BoundAssumption, SizeAssumption DEF Limit
<1> QED BY <1>1, <1>2, FS_EmptySet, BoundAssumption DEF DuplicateInv, BusyBounded, WithinLimit

(* Provisioning is idempotent up to the runs that race and the answers     *)
(* that are lost: for any number of runs, retries and records.             *)
THEOREM ProvisioningBounded ==
    ZoneWildcard = BaseWildcard => (Spec => []DuplicatesBounded)
<1> SUFFICES ASSUME ZoneWildcard = BaseWildcard PROVE Spec => []DuplicatesBounded
    OBVIOUS
<1>1. Init => Typed /\ Reading /\ DuplicateInv
  <2>1. Init => Reading
      BY DEF Init, Idle, Reading, Present, Named, Ahead, NothingOverlooked
  <2> QED BY <2>1, InitTyped, InitDuplicates
<1>2. Typed /\ Reading /\ DuplicateInv /\ [Next]_vars => (Typed /\ Reading /\ DuplicateInv)'
  <2>1. Typed /\ Reading /\ [Next]_vars => (Typed /\ Reading)'
      BY StepTyped, StepReading
  <2> QED BY <2>1, StepDuplicates
<1>3. DuplicateInv => DuplicatesBounded
  <2>1. WithinLimit => Cardinality(Wildcards) <= Limit
    <3>1. WithinLimit => Cardinality(Wildcards) \in Nat
        BY FS_CardinalityType DEF WithinLimit
    <3>2. Limit \in Nat
        BY BoundAssumption, SizeAssumption DEF Limit
    <3> QED BY <3>1, <3>2, PairsFinite DEF WithinLimit
  <2> QED BY <2>1 DEF DuplicateInv, DuplicatesBounded, Limit
<1> QED BY <1>1, <1>2, <1>3, PTL DEF Spec
=============================================================================

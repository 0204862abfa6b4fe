-------------------------- MODULE SiteStorageProofs --------------------------
(***************************************************************************)
(* Proofs about SiteStorage and SiteLedger: types, and what holds of       *)
(* bucket and column with every overlap and every fault, but for the apps  *)
(* that the history variables name.                                        *)
(*                                                                         *)
(* The sums over a prefix and over an archive are recursive functions on   *)
(* the subsets of a finite set; what the steps need of them (a number, and *)
(* how it changes at one key) is proved first, by induction over subsets.  *)
(***************************************************************************)
EXTENDS SiteLedger, FiniteSetTheorems, WellFoundedInduction, TLAPS

-----------------------------------------------------------------------------
(* Sums over finite sets.  SumFunction and MapThenSumSet are recursive     *)
(* functions on the subsets of a set; Adds is the equation they satisfy.   *)

Choice(T) == CHOOSE x \in T : TRUE

Adds(h, w, S) ==
    h = [T \in SUBSET S |-> IF T = {} THEN 0 ELSE w[Choice(T)] + h[T \ {Choice(T)}]]

(* Induction over the subsets of a finite set, with a set for the property *)
(* to prove, so that it can be cited.                                      *)
LEMMA SubsetInduction ==
    ASSUME NEW S, IsFiniteSet(S), NEW Good,
           \A T \in SUBSET S : (\A U \in SUBSET T : U # T => U \in Good) => T \in Good
    PROVE  \A T \in SUBSET S : T \in Good
<1> DEFINE Bad == {T \in SUBSET S : T \notin Good}
<1> SUFFICES ASSUME Bad # {} PROVE FALSE
    OBVIOUS
<1>1. FiniteSubsetsOf(S) = SUBSET S
    BY FS_FiniteSubsetsOfFinite
<1>2. IsWellFoundedOn(StrictSubsetOrdering(S), SUBSET S)
  <2>1. IsWellFoundedOn(StrictSubsetOrdering(S), FiniteSubsetsOf(S))
      BY FS_StrictSubsetOrderingWellFounded
  <2> QED BY <1>1, <2>1, Zenon
<1>3. PICK T \in Bad : \A U \in Bad : <<U, T>> \notin StrictSubsetOrdering(S)
  <2>1. Bad \subseteq SUBSET S
      OBVIOUS
  <2> HIDE DEF Bad
  <2> QED BY <1>2, <2>1, WFMin
<1>4. ASSUME NEW U \in SUBSET T, U # T PROVE U \in Good
    BY <1>3, <1>4 DEF StrictSubsetOrdering
<1> QED BY <1>3, <1>4

LEMMA AddsAgree ==
    ASSUME NEW S, NEW R, IsFiniteSet(S), NEW w, NEW g, NEW h, Adds(g, w, S), Adds(h, w, R)
    PROVE  \A T \in SUBSET S : T \subseteq R => g[T] = h[T]
<1> DEFINE Good == {T \in SUBSET S : T \subseteq R => g[T] = h[T]}
<1>1. ASSUME NEW T \in SUBSET S, \A U \in SUBSET T : U # T => U \in Good PROVE T \in Good
  <2> SUFFICES ASSUME T \subseteq R, T # {} PROVE g[T] = h[T]
      BY DEF Adds
  <2>1. Choice(T) \in T
      BY DEF Choice
  <2>2. T \ {Choice(T)} \in Good
      BY <1>1, <2>1
  <2>3. g[T] = w[Choice(T)] + g[T \ {Choice(T)}]
      BY DEF Adds
  <2>4. h[T] = w[Choice(T)] + h[T \ {Choice(T)}]
      BY DEF Adds
  <2> QED BY <2>2, <2>3, <2>4
<1> HIDE DEF Good
<1>2. \A T \in SUBSET S : T \in Good
    BY <1>1, SubsetInduction
<1> QED BY <1>2 DEF Good

Summed(w, S) == (CHOOSE h : Adds(h, w, S))[S]

LEMMA AddsExists ==
    ASSUME NEW S, IsFiniteSet(S), NEW w
    PROVE  \E h : Adds(h, w, S)
<1> DEFINE Good == {T \in SUBSET S : \E h : Adds(h, w, T)}
<1>1. ASSUME NEW T \in SUBSET S, \A U \in SUBSET T : U # T => U \in Good PROVE T \in Good
  <2> DEFINE g == [U \in SUBSET T |->
                      IF U = T THEN IF T = {} THEN 0
                                    ELSE w[Choice(T)] + Summed(w, T \ {Choice(T)})
                      ELSE Summed(w, U)]
  <2>1. ASSUME NEW U \in SUBSET T, U # T PROVE Adds(CHOOSE h : Adds(h, w, U), w, U)
      BY <1>1, <2>1
  <2>2. ASSUME NEW U \in SUBSET T
        PROVE  g[U] = IF U = {} THEN 0 ELSE w[Choice(U)] + g[U \ {Choice(U)}]
    <3>1. CASE U = {}
      <4>1. CASE U = T
          BY <3>1, <4>1
      <4>2. CASE U # T
        <5>1. Summed(w, U) = 0
          <6>1. PICK h : h = CHOOSE k : Adds(k, w, U)
              OBVIOUS
          <6>2. Adds(h, w, U)
              BY <2>1, <4>2, <6>1
          <6>3. h[U] = 0
              BY <6>2, <3>1 DEF Adds
          <6> QED BY <6>1, <6>3 DEF Summed
        <5> QED BY <3>1, <4>2, <5>1
      <4> QED BY <4>1, <4>2
    <3>2. CASE U # {} /\ U = T
      <4>1. Choice(T) \in T
          BY <3>2 DEF Choice
      <4>2. T \ {Choice(T)} \in SUBSET T /\ T \ {Choice(T)} # T
          BY <4>1
      <4> QED BY <3>2, <4>2
    <3>3. CASE U # {} /\ U # T
      <4>1. Choice(U) \in U
          BY <3>3 DEF Choice
      <4> DEFINE V == U \ {Choice(U)}
      <4>2. V \in SUBSET T /\ V # T /\ V \subseteq U
          BY <4>1
      <4>3. PICK h : h = (CHOOSE k : Adds(k, w, U))
          OBVIOUS
      <4>4. PICK l : l = (CHOOSE k : Adds(k, w, V))
          OBVIOUS
      <4>5. Adds(h, w, U) /\ Adds(l, w, V)
          BY <2>1, <3>3, <4>2, <4>3, <4>4
      <4>6. h[U] = w[Choice(U)] + h[V]
          BY <3>3, <4>5 DEF Adds
      <4>7. IsFiniteSet(U)
          BY FS_Subset
      <4>8. h[V] = l[V]
        <5>1. V \in SUBSET U /\ V \subseteq V
            OBVIOUS
        <5> HIDE DEF V
        <5>2. \A W \in SUBSET U : W \subseteq V => h[W] = l[W]
            BY <4>5, <4>7, AddsAgree
        <5> QED BY <5>1, <5>2
      <4>9. g[U] = h[U] /\ g[V] = l[V]
          BY <3>3, <4>2, <4>3, <4>4 DEF Summed
      <4> QED BY <3>3, <4>6, <4>8, <4>9
    <3> QED BY <3>1, <3>2, <3>3
  <2>3. Adds(g, w, T)
    <3>1. g = [U \in SUBSET T |-> g[U]]
        OBVIOUS
    <3> HIDE DEF g
    <3> QED BY <3>1, <2>2 DEF Adds
  <2> QED BY <2>3
<1> HIDE DEF Good
<1>2. S \in Good
    BY <1>1, SubsetInduction
<1> QED BY <1>2 DEF Good

LEMMA SummedEquation ==
    ASSUME NEW S, IsFiniteSet(S), NEW w
    PROVE  /\ Summed(w, {}) = 0
           /\ S # {} => Summed(w, S) = w[Choice(S)] + Summed(w, S \ {Choice(S)})
<1>1. PICK h : h = CHOOSE k : Adds(k, w, S)
    OBVIOUS
<1>2. Adds(h, w, S)
    BY <1>1, AddsExists
<1>3. ASSUME NEW T \in SUBSET S PROVE Summed(w, T) = h[T]
  <2>1. PICK l : l = CHOOSE k : Adds(k, w, T)
      OBVIOUS
  <2>2. IsFiniteSet(T)
      BY FS_Subset
  <2>3. Adds(l, w, T)
      BY <2>1, <2>2, AddsExists
  <2>4. \A U \in SUBSET T : U \subseteq S => l[U] = h[U]
      BY <1>2, <2>2, <2>3, AddsAgree
  <2> QED BY <2>1, <2>4 DEF Summed
<1>4. Summed(w, {}) = 0
    BY <1>2, <1>3 DEF Adds
<1>5. ASSUME S # {} PROVE Summed(w, S) = w[Choice(S)] + Summed(w, S \ {Choice(S)})
  <2>1. h[S] = w[Choice(S)] + h[S \ {Choice(S)}]
      BY <1>2, <1>5 DEF Adds
  <2>2. Summed(w, S) = h[S]
      BY <1>3
  <2>3. Summed(w, S \ {Choice(S)}) = h[S \ {Choice(S)}]
      BY <1>3
  <2> QED BY <2>1, <2>2, <2>3
<1> QED BY <1>4, <1>5

LEMMA SummedNat ==
    ASSUME NEW S, IsFiniteSet(S), NEW w, \A x \in S : w[x] \in Nat
    PROVE  Summed(w, S) \in Nat
<1> DEFINE Good == {T \in SUBSET S : Summed(w, T) \in Nat}
<1>1. ASSUME NEW T \in SUBSET S, \A U \in SUBSET T : U # T => U \in Good PROVE T \in Good
  <2>1. IsFiniteSet(T)
      BY FS_Subset
  <2>2. CASE T = {}
    <3>1. Summed(w, {}) = 0
        BY <2>1, SummedEquation
    <3> QED BY <2>2, <3>1
  <2>3. CASE T # {}
    <3>1. Choice(T) \in T
        BY <2>3 DEF Choice
    <3>2. T \ {Choice(T)} \in Good
        BY <1>1, <3>1
    <3>3. Summed(w, T) = w[Choice(T)] + Summed(w, T \ {Choice(T)})
        BY <2>1, <2>3, SummedEquation
    <3> QED BY <3>1, <3>2, <3>3
  <2> QED BY <2>2, <2>3
<1> HIDE DEF Good
<1>2. S \in Good
    BY <1>1, SubsetInduction
<1> QED BY <1>2 DEF Good

(* Functions that agree on a set have one sum over it.                     *)
LEMMA SummedSame ==
    ASSUME NEW S, IsFiniteSet(S), NEW w, NEW v, \A x \in S : w[x] = v[x]
    PROVE  Summed(w, S) = Summed(v, S)
<1> DEFINE Good == {T \in SUBSET S : Summed(w, T) = Summed(v, T)}
<1>1. ASSUME NEW T \in SUBSET S, \A U \in SUBSET T : U # T => U \in Good PROVE T \in Good
  <2>1. IsFiniteSet(T)
      BY FS_Subset
  <2>2. CASE T = {}
      BY <2>1, <2>2, SummedEquation
  <2>3. CASE T # {}
    <3>1. Choice(T) \in T
        BY <2>3 DEF Choice
    <3>2. T \ {Choice(T)} \in Good
        BY <1>1, <3>1
    <3>3. Summed(w, T) = w[Choice(T)] + Summed(w, T \ {Choice(T)})
        BY <2>1, <2>3, SummedEquation
    <3>4. Summed(v, T) = v[Choice(T)] + Summed(v, T \ {Choice(T)})
        BY <2>1, <2>3, SummedEquation
    <3> QED BY <3>1, <3>2, <3>3, <3>4
  <2> QED BY <2>2, <2>3
<1> HIDE DEF Good
<1>2. S \in Good
    BY <1>1, SubsetInduction
<1> QED BY <1>2 DEF Good

(* The order of the summands is of no importance: any may come first.      *)
LEMMA SummedRemove ==
    ASSUME NEW S, IsFiniteSet(S), NEW w, \A x \in S : w[x] \in Nat, NEW e \in S
    PROVE  Summed(w, S) = w[e] + Summed(w, S \ {e})
<1> DEFINE Good == {T \in SUBSET S : \A x \in T : Summed(w, T) = w[x] + Summed(w, T \ {x})}
<1>1. ASSUME NEW T \in SUBSET S, \A U \in SUBSET T : U # T => U \in Good PROVE T \in Good
  <2> SUFFICES ASSUME NEW x \in T PROVE Summed(w, T) = w[x] + Summed(w, T \ {x})
      OBVIOUS
  <2>1. IsFiniteSet(T)
      BY FS_Subset
  <2>2. PICK c : c = Choice(T)
      OBVIOUS
  <2>3. c \in T
      BY <2>2 DEF Choice
  <2>4. Summed(w, T) = w[c] + Summed(w, T \ {c})
      BY <2>1, <2>2, SummedEquation
  <2>5. CASE x # c
    <3>1. PICK A : A = T \ {c}
        OBVIOUS
    <3>2. PICK B : B = T \ {x}
        OBVIOUS
    <3>3. PICK D : D = (T \ {c}) \ {x}
        OBVIOUS
    <3>4. A \ {x} = D /\ B \ {c} = D /\ x \in A /\ c \in B
        BY <2>3, <2>5, <3>1, <3>2, <3>3
    <3>5. A \in Good /\ B \in Good
        BY <1>1, <2>3, <3>1, <3>2
    <3>6. Summed(w, A) = w[x] + Summed(w, D)
        BY <3>4, <3>5
    <3>7. Summed(w, B) = w[c] + Summed(w, D)
        BY <3>4, <3>5
    <3>8. IsFiniteSet(D) /\ D \subseteq S
        BY <3>3, FS_Subset
    <3>9. Summed(w, D) \in Nat
        BY <3>8, SummedNat
    <3> QED BY <2>3, <2>4, <3>1, <3>2, <3>6, <3>7, <3>9
  <2> QED BY <2>4, <2>5
<1> HIDE DEF Good
<1>2. S \in Good
    BY <1>1, SubsetInduction
<1> QED BY <1>2 DEF Good

(* A sum does not grow when no summand does.                               *)
LEMMA SummedMonotone ==
    ASSUME NEW S, IsFiniteSet(S), NEW w, NEW v,
           \A x \in S : w[x] \in Nat /\ v[x] \in Nat /\ w[x] <= v[x]
    PROVE  Summed(w, S) <= Summed(v, S)
<1> DEFINE Good == {T \in SUBSET S : Summed(w, T) <= Summed(v, T)}
<1>1. ASSUME NEW T \in SUBSET S, \A U \in SUBSET T : U # T => U \in Good PROVE T \in Good
  <2>1. IsFiniteSet(T)
      BY FS_Subset
  <2>2. CASE T = {}
    <3>1. Summed(w, {}) = 0 /\ Summed(v, {}) = 0
        BY <2>1, SummedEquation
    <3> QED BY <2>2, <3>1
  <2>3. CASE T # {}
    <3>1. PICK c : c = Choice(T)
        OBVIOUS
    <3>2. PICK R : R = T \ {c}
        OBVIOUS
    <3>3. c \in T /\ R \in Good /\ R \subseteq S
        BY <1>1, <2>3, <3>1, <3>2 DEF Choice
    <3>4. Summed(w, T) = w[c] + Summed(w, R) /\ Summed(v, T) = v[c] + Summed(v, R)
        BY <2>1, <2>3, <3>1, <3>2, SummedEquation
    <3>5. IsFiniteSet(R)
        BY <2>1, <3>2, FS_Subset
    <3>6. Summed(w, R) \in Nat /\ Summed(v, R) \in Nat
        BY <3>3, <3>5, SummedNat
    <3> QED BY <3>3, <3>4, <3>6
  <2> QED BY <2>2, <2>3
<1> HIDE DEF Good
<1>2. S \in Good
    BY <1>1, SubsetInduction
<1> QED BY <1>2 DEF Good

LEMMA SummedZero ==
    ASSUME NEW S, IsFiniteSet(S), NEW w, \A x \in S : w[x] = 0
    PROVE  Summed(w, S) = 0
<1> DEFINE Good == {T \in SUBSET S : Summed(w, T) = 0}
<1>1. ASSUME NEW T \in SUBSET S, \A U \in SUBSET T : U # T => U \in Good PROVE T \in Good
  <2>1. IsFiniteSet(T)
      BY FS_Subset
  <2>2. CASE T = {}
      BY <2>1, <2>2, SummedEquation
  <2>3. CASE T # {}
    <3>1. Choice(T) \in T
        BY <2>3 DEF Choice
    <3>2. T \ {Choice(T)} \in Good
        BY <1>1, <3>1
    <3>3. Summed(w, T) = w[Choice(T)] + Summed(w, T \ {Choice(T)})
        BY <2>1, <2>3, SummedEquation
    <3> QED BY <3>1, <3>2, <3>3
  <2> QED BY <2>2, <2>3
<1> HIDE DEF Good
<1>2. S \in Good
    BY <1>1, SubsetInduction
<1> QED BY <1>2 DEF Good

-----------------------------------------------------------------------------
(* The sums of the model.                                                  *)

LEMMA SumFunctionIsSum ==
    ASSUME NEW f, NEW S, DOMAIN f = S
    PROVE  SumFunction(f) = Summed(f, S)
BY DEF SumFunction, SumFunctionOnSet, FoldFunctionOnSet, MapThenFoldSet, Adds, Choice, Summed

Sizes(files) == [f \in files |-> f.size]

LEMMA TotalIsSum ==
    ASSUME NEW files
    PROVE  TotalOf(files) = Summed(Sizes(files), files)
BY DEF TotalOf, MapThenSumSet, MapThenFoldSet, Adds, Choice, Summed, Sizes

(* The objects under a prefix: their total is a number, and a PUT or a     *)
(* DELETE changes it by what changes at its key.                           *)
LEMMA SiteSum ==
    ASSUME NEW S, IsFiniteSet(S), NEW site \in [S -> Nat], NEW p \in S, NEW v \in Nat
    PROVE  /\ SumFunction(site) \in Nat
           /\ site[p] <= SumFunction(site)
           /\ SumFunction([site EXCEPT ![p] = v]) = SumFunction(site) - site[p] + v
<1> DEFINE new == [site EXCEPT ![p] = v]
<1>1. IsFiniteSet(S \ {p})
    BY FS_Subset
<1>2. SumFunction(site) = Summed(site, S) /\ SumFunction(new) = Summed(new, S)
    BY SumFunctionIsSum
<1>3. Summed(site, S) = site[p] + Summed(site, S \ {p})
    BY SummedRemove
<1>4. Summed(new, S) = new[p] + Summed(new, S \ {p})
    BY SummedRemove
<1>5. Summed(new, S \ {p}) = Summed(site, S \ {p})
    BY <1>1, SummedSame
<1>6. Summed(site, S \ {p}) \in Nat
    BY <1>1, SummedNat
<1>7. new[p] = v /\ site[p] \in Nat
    OBVIOUS
<1> HIDE DEF new
<1>8. SumFunction(new) = SumFunction(site) - site[p] + v
    BY <1>2, <1>3, <1>4, <1>5, <1>6, <1>7
<1>9. SumFunction(site) \in Nat /\ site[p] <= SumFunction(site)
    BY <1>2, <1>3, <1>6, <1>7
<1> QED BY <1>8, <1>9 DEF new

LEMMA SiteSumNat ==
    ASSUME NEW S, IsFiniteSet(S), NEW site \in [S -> Nat]
    PROVE  SumFunction(site) \in Nat
<1>1. SumFunction(site) = Summed(site, S)
    BY SumFunctionIsSum
<1> QED BY <1>1, SummedNat

LEMMA SiteSumMonotone ==
    ASSUME NEW S, IsFiniteSet(S), NEW site \in [S -> Nat], NEW new \in [S -> Nat],
           \A p \in S : new[p] <= site[p]
    PROVE  SumFunction(new) <= SumFunction(site)
<1>1. SumFunction(site) = Summed(site, S) /\ SumFunction(new) = Summed(new, S)
    BY SumFunctionIsSum
<1>2. \A p \in S : new[p] \in Nat /\ site[p] \in Nat /\ new[p] <= site[p]
    OBVIOUS
<1>3. Summed(new, S) <= Summed(site, S)
    BY <1>2, SummedMonotone
<1> QED BY <1>1, <1>3

LEMMA EmptySiteSum ==
    ASSUME NEW S, IsFiniteSet(S), NEW site, DOMAIN site = S, \A p \in S : site[p] = 0
    PROVE  SumFunction(site) = 0
<1>1. SumFunction(site) = Summed(site, S)
    BY SumFunctionIsSum
<1> QED BY <1>1, SummedZero

(* The sum of an archive: a number, to which every entry adds its size.    *)
LEMMA TotalSum ==
    ASSUME NEW files, IsFiniteSet(files), \A f \in files : f.size \in Nat
    PROVE  /\ TotalOf(files) \in Nat
           /\ \A f \in files : TotalOf(files) = f.size + TotalOf(files \ {f})
<1>1. \A f \in files : Sizes(files)[f] = f.size /\ Sizes(files)[f] \in Nat
    BY DEF Sizes
<1>2. TotalOf(files) \in Nat
  <2>1. Summed(Sizes(files), files) \in Nat
      BY <1>1, SummedNat
  <2> QED BY <2>1, TotalIsSum
<1>3. ASSUME NEW f \in files PROVE TotalOf(files) = f.size + TotalOf(files \ {f})
  <2>1. PICK rest : rest = files \ {f}
      OBVIOUS
  <2>2. IsFiniteSet(rest)
      BY <2>1, FS_Subset
  <2>3. Summed(Sizes(files), files) = Sizes(files)[f] + Summed(Sizes(files), rest)
      BY <1>1, <2>1, SummedRemove
  <2>4. \A x \in rest : Sizes(files)[x] = Sizes(rest)[x]
      BY <2>1 DEF Sizes
  <2>5. Summed(Sizes(files), rest) = Summed(Sizes(rest), rest)
      BY <2>2, <2>4, SummedSame
  <2>6. TotalOf(rest) = Summed(Sizes(rest), rest) /\ TotalOf(files) = Summed(Sizes(files), files)
      BY TotalIsSum
  <2> QED BY <1>1, <2>1, <2>3, <2>5, <2>6
<1> QED BY <1>2, <1>3

-----------------------------------------------------------------------------
(* Types.                                                                  *)

LEMMA UsageNat ==
    ASSUME TypeOK, NEW a \in App
    PROVE  Usage(a) \in Nat /\ objects[a] \in [Path -> Nat]
<1>1. objects[a] \in [Path -> Size \cup {0}] /\ Size \cup {0} \subseteq Nat
    BY SizeAssumption DEF TypeOK
<1>2. objects[a] \in [Path -> Nat]
    BY <1>1
<1> QED BY <1>2, SiteSumNat, PathAssumption DEF Usage

LEMMA CallFields ==
    ASSUME NEW c \in Call
    PROVE  /\ c # IdleCall => c.app \in App /\ c.seen \in Nat
           /\ c.pc = "put_file" => c.file \in File
           /\ c.pc = "put_entries" => c.todo \in SUBSET File
           /\ c.pc = "delete_file" => c.path \in Path
           /\ c.pc = "delete_batch" => c.keys \in SUBSET Path
           /\ c.pc = "commit_used" => c.want \in Nat
           /\ c.pc # "idle" => c # IdleCall
BY DEF Call, IdleCall

LEMMA FileSize ==
    ASSUME NEW f \in File
    PROVE  f.path \in Path /\ f.size \in Size /\ f.size \in Nat
BY SizeAssumption DEF File

LEMMA ArchiveTotal ==
    ASSUME NEW files \in SUBSET File, IsFiniteSet(files)
    PROVE  /\ TotalOf(files) \in Nat
           /\ \A f \in files : TotalOf(files) = f.size + TotalOf(files \ {f})
BY TotalSum, FileSize

LEMMA InitTypes == Init => TypeOK
<1> SUFFICES ASSUME Init PROVE TypeOK
    OBVIOUS
<1>1. objects \in [App -> [Path -> Size \cup {0}]]
    BY DEF Init
<1>2. call \in [Request -> Call] /\ job \in [Task -> Job]
    BY DEF Init, Call, Job
<1> QED BY <1>1, <1>2, BoundAssumption DEF Init, TypeOK

(* A handler's step puts a typed record in its place.                      *)
LEMMA GotoTypes ==
    ASSUME TypeOK, NEW r \in Request, NEW c \in Call, Goto(r, c)
    PROVE  call' \in [Request -> Call]
BY DEF TypeOK, Goto

LEMMA BeginTypes ==
    ASSUME TypeOK, NEW r \in Request, NEW a \in App, NEW c \in Call, Begin(r, a, c)
    PROVE  TypeOK'
BY DEF TypeOK, Begin

LEMMA PutTypes ==
    ASSUME TypeOK, NEW a \in App, NEW f \in File, PutObject(a, f)
    PROVE  objects' \in [App -> [Path -> Size \cup {0}]]
BY FileSize DEF TypeOK, PutObject

LEMMA WriteTypes ==
    ASSUME TypeOK, NEW a \in App, NEW seen \in Nat, NEW want \in Nat, WriteUsed(a, seen, want)
    PROVE  used' \in [App -> Nat]
BY DEF TypeOK, WriteUsed

LEMMA HandlerTypes ==
    ASSUME TypeOK, NEW r \in Request, HandlerStep(r)
    PROVE  TypeOK'
<1>0. call[r] \in Call
    BY DEF TypeOK
<1>1. ASSUME NEW a \in App, NEW f \in File, BeginUpload(r, a, f) PROVE TypeOK'
  <2>1. [pc |-> "put_file", app |-> a, seen |-> used[a], file |-> f] \in Call
      BY DEF TypeOK, Call
  <2> QED BY <1>1, <2>1, BeginTypes DEF BeginUpload
<1>2. CASE PutFile(r)
  <2>1. call[r].app \in App /\ call[r].seen \in Nat /\ call[r].file \in File
      BY <1>0, <1>2, CallFields DEF PutFile
  <2>2. objects' \in [App -> [Path -> Size \cup {0}]]
      BY <1>2, <2>1, PutTypes DEF PutFile
  <2>3. [pc |-> "commit_used", app |-> call[r].app, seen |-> call[r].seen,
         want |-> call[r].seen + call[r].file.size] \in Call
      BY <2>1, FileSize DEF Call
  <2>4. call' \in [Request -> Call]
      BY <1>2, <2>3, GotoTypes DEF PutFile
  <2> QED BY <1>2, <2>2, <2>4 DEF PutFile, TypeOK
<1>3. CASE CommitUsed(r)
  <2>1. call[r].app \in App /\ call[r].seen \in Nat /\ call[r].want \in Nat
      BY <1>0, <1>3, CallFields DEF CommitUsed
  <2>2. used' \in [App -> Nat]
      BY <1>3, <2>1, WriteTypes DEF CommitUsed
  <2>3. call' \in [Request -> Call]
      BY <1>3, GotoTypes DEF CommitUsed, Call
  <2> QED BY <1>3, <2>2, <2>3 DEF CommitUsed, TypeOK
<1>4. ASSUME NEW a \in App, NEW files \in Archive, BeginDeploy(r, a, files) PROVE TypeOK'
  <2>1. [pc |-> "put_entries", app |-> a, seen |-> used[a], todo |-> files] \in Call
      BY ArchiveAssumption DEF TypeOK, Call
  <2> QED BY <1>4, <2>1, BeginTypes DEF BeginDeploy
<1>5. CASE PutEntry(r)
  <2>1. call[r].app \in App /\ call[r].seen \in Nat /\ call[r].todo \in SUBSET File
      BY <1>0, <1>5, CallFields DEF PutEntry
  <2>2. PICK f \in call[r].todo :
            /\ PutObject(call[r].app, f)
            /\ Goto(r, IF call[r].todo \ {f} # {}
                       THEN [call[r] EXCEPT !.todo = call[r].todo \ {f}]
                       ELSE [pc |-> "measure", app |-> call[r].app, seen |-> call[r].seen])
      BY <1>5 DEF PutEntry
  <2>3. objects' \in [App -> [Path -> Size \cup {0}]]
      BY <2>1, <2>2, PutTypes
  <2>4. [call[r] EXCEPT !.todo = call[r].todo \ {f}] \in Call
      BY <1>0, <1>5, <2>1 DEF PutEntry, Call, IdleCall
  <2>5. [pc |-> "measure", app |-> call[r].app, seen |-> call[r].seen] \in Call
      BY <2>1 DEF Call
  <2>6. call' \in [Request -> Call]
      BY <2>2, <2>4, <2>5, GotoTypes
  <2> QED BY <1>5, <2>3, <2>6 DEF PutEntry, TypeOK
<1>6. CASE Measure(r)
  <2>1. call[r].app \in App /\ call[r].seen \in Nat
      BY <1>0, <1>6, CallFields DEF Measure
  <2>2. [pc |-> "commit_used", app |-> call[r].app, seen |-> call[r].seen,
         want |-> Usage(call[r].app)] \in Call
      BY <2>1, UsageNat DEF Call
  <2>3. call' \in [Request -> Call]
      BY <1>6, <2>2, GotoTypes DEF Measure
  <2> QED BY <1>6, <2>3 DEF Measure, TypeOK
<1>7. ASSUME NEW a \in App, NEW p \in Path, BeginDeleteFile(r, a, p) PROVE TypeOK'
  <2>1. [pc |-> "delete_file", app |-> a, seen |-> used[a], path |-> p] \in Call
      BY DEF TypeOK, Call
  <2> QED BY <1>7, <2>1, BeginTypes DEF BeginDeleteFile
<1>8. CASE DeleteFile(r)
  <2>1. call[r].app \in App /\ call[r].seen \in Nat /\ call[r].path \in Path
      BY <1>0, <1>8, CallFields DEF DeleteFile
  <2>2. objects' \in [App -> [Path -> Size \cup {0}]]
      BY <1>8, <2>1 DEF DeleteFile, TypeOK
  <2>3. [pc |-> "measure", app |-> call[r].app, seen |-> call[r].seen] \in Call
      BY <2>1 DEF Call
  <2>4. call' \in [Request -> Call]
      BY <1>8, <2>3, GotoTypes DEF DeleteFile
  <2> QED BY <1>8, <2>2, <2>4 DEF DeleteFile, TypeOK
<1>9. ASSUME NEW a \in App, BeginDeleteApp(r, a) PROVE TypeOK'
  <2>1. [pc |-> "list_prefix", app |-> a, seen |-> used[a]] \in Call
      BY DEF TypeOK, Call
  <2> QED BY <1>9, <2>1, BeginTypes DEF BeginDeleteApp
<1>10. CASE ListPrefix(r)
  <2>1. call[r].app \in App /\ call[r].seen \in Nat
      BY <1>0, <1>10, CallFields DEF ListPrefix
  <2>2. [pc |-> "delete_batch", app |-> call[r].app, seen |-> call[r].seen,
         keys |-> {p \in Path : objects[call[r].app][p] # 0}] \in Call
      BY <2>1 DEF Call
  <2>3. call' \in [Request -> Call]
      BY <1>10, <2>2, GotoTypes DEF ListPrefix
  <2> QED BY <1>10, <2>3 DEF ListPrefix, TypeOK
<1>11. CASE DeleteBatch(r)
  <2>1. call[r].app \in App /\ call[r].seen \in Nat /\ call[r].keys \in SUBSET Path
      BY <1>0, <1>11, CallFields DEF DeleteBatch
  <2>2. PICK batch \in Batches(call[r].keys) :
            /\ SendBatch(call[r].app, batch)
            /\ Goto(r, IF call[r].keys \ batch # {}
                       THEN [call[r] EXCEPT !.keys = call[r].keys \ batch]
                       ELSE [pc |-> "commit_delete", app |-> call[r].app, seen |-> call[r].seen])
      BY <1>11 DEF DeleteBatch
  <2>3. [pc |-> "commit_delete", app |-> call[r].app, seen |-> call[r].seen] \in Call
      BY <2>1 DEF Call
  <2>4. [call[r] EXCEPT !.keys = call[r].keys \ batch] \in Call
      BY <1>0, <1>11, <2>1 DEF DeleteBatch, Call, IdleCall
  <2>5. call' \in [Request -> Call]
      BY <2>2, <2>3, <2>4, GotoTypes
  <2>6. faults' \in 0..MaxFaults
      BY <2>2, BoundAssumption DEF SendBatch, TypeOK
  <2>7. \A keys : Emptied(objects[call[r].app], keys) \in [Path -> Size \cup {0}]
      BY <2>1 DEF Emptied, TypeOK
  <2>8. PICK keys : objects' = [objects EXCEPT ![call[r].app] = Emptied(@, keys)]
      BY <2>2 DEF SendBatch
  <2>9. objects' \in [App -> [Path -> Size \cup {0}]]
      BY <2>1, <2>7, <2>8 DEF TypeOK
  <2> QED BY <1>11, <2>5, <2>6, <2>9 DEF DeleteBatch, TypeOK
<1>12. CASE CommitDelete(r)
  <2>1. call[r].app \in App /\ call[r].seen \in Nat
      BY <1>0, <1>12, CallFields DEF CommitDelete
  <2>2. used' \in [App -> Nat]
      BY <1>12, <2>1, WriteTypes DEF CommitDelete
  <2>3. call' \in [Request -> Call]
      BY <1>12, GotoTypes DEF CommitDelete, Call
  <2>4. deleted' \in [App -> BOOLEAN]
      BY <1>12, <2>1 DEF CommitDelete, TypeOK
  <2> QED BY <1>12, <2>2, <2>3, <2>4 DEF CommitDelete, TypeOK
<1>13. CASE AbortCall(r)
  <2>1. call' \in [Request -> Call]
      BY <1>13, GotoTypes DEF AbortCall, Call
  <2>2. faults' \in 0..MaxFaults
      BY <1>13, BoundAssumption DEF AbortCall, TypeOK
  <2> QED BY <1>13, <2>1, <2>2 DEF AbortCall, TypeOK
<1> QED BY <1>1, <1>2, <1>3, <1>4, <1>5, <1>6, <1>7, <1>8, <1>9, <1>10, <1>11, <1>12, <1>13
        DEF HandlerStep

LEMMA JobFields ==
    ASSUME NEW j \in Job, j # IdleJob
    PROVE  /\ j.todo \in SUBSET App /\ j.seen \in [App -> Nat]
           /\ j.written \in [App -> Nat \cup {NoWrite}]
           /\ j.pc = "write" => j.app \in App /\ j.found \in Nat
BY DEF Job, IdleJob

LEMMA JobTypes ==
    ASSUME TypeOK, JobStep
    PROVE  TypeOK'
<1>0. \A t \in Task : job[t] \in Job /\ (job[t].pc # "idle" => job[t] # IdleJob)
    BY DEF TypeOK, IdleJob
<1>1. ASSUME NEW t \in Task, NEW j \in Job, job' = [job EXCEPT ![t] = j],
             UNCHANGED <<deleted, used, objects, call, faults>>
      PROVE  TypeOK'
    BY <1>1 DEF TypeOK
<1>2. ASSUME NEW t \in Task, NEW apps \in SUBSET App, StartTask(t, apps) PROVE TypeOK'
  <2> DEFINE j == [pc |-> "measure", todo |-> apps, seen |-> used,
                   written |-> [a \in App |-> NoWrite]]
  <2>1. j \in Job
      BY DEF Job, TypeOK
  <2> HIDE DEF j
  <2>2. job' = [job EXCEPT ![t] = j] /\ UNCHANGED <<deleted, used, objects, call, faults>>
      BY <1>2 DEF StartTask, j
  <2> QED BY <1>1, <2>1, <2>2
<1>3. ASSUME NEW t \in Task, NEW a \in App, JobMeasure(t, a) PROVE TypeOK'
  <2>1. job[t] \in [pc: {"measure"}, todo: SUBSET App, seen: [App -> Nat],
                    written: [App -> Nat \cup {NoWrite}]]
      BY <1>0, <1>3 DEF JobMeasure, Job, IdleJob
  <2>2. Usage(a) \in Nat
      BY UsageNat
  <2>3. [job[t] EXCEPT !.todo = @ \ {a}] \in Job
      BY <2>1 DEF Job
  <2>4. ToWrite(t, a) \in Job
      BY <2>1, <2>2 DEF Job, ToWrite
  <2> QED BY <1>1, <1>3, <2>3, <2>4 DEF JobMeasure, Proceed
<1>4. ASSUME NEW t \in Task, JobWrite(t) PROVE TypeOK'
  <2>1. /\ job[t].todo \in SUBSET App /\ job[t].seen \in [App -> Nat]
        /\ job[t].written \in [App -> Nat \cup {NoWrite}]
        /\ job[t].app \in App /\ job[t].found \in Nat
      BY <1>0, <1>4, JobFields DEF JobWrite
  <2> DEFINE j == [pc |-> "measure", todo |-> job[t].todo, seen |-> job[t].seen,
                   written |-> [job[t].written EXCEPT ![job[t].app] = job[t].found]]
  <2>2. j \in Job
      BY <2>1 DEF Job
  <2>3. Proceed(t, j)
      BY <1>4 DEF JobWrite
  <2> HIDE DEF j
  <2> QED BY <1>1, <2>2, <2>3 DEF Proceed
<1>5. ASSUME NEW t \in Task, JobCommit(t) PROVE TypeOK'
  <2>1. job[t].written \in [App -> Nat \cup {NoWrite}]
      BY <1>0, <1>5, JobFields DEF JobCommit
  <2>2. used' \in [App -> Nat]
      BY <1>5, <2>1 DEF JobCommit, HasWritten, TypeOK
  <2> QED BY <1>5, <2>2 DEF JobCommit, TypeOK, Job
<1>6. ASSUME NEW t \in Task, AbortJob(t) PROVE TypeOK'
    BY <1>6, BoundAssumption DEF AbortJob, TypeOK, Job
<1>7. LiveApps \in SUBSET App /\ \A a \in App : {a} \in SUBSET App
    BY DEF LiveApps
<1> QED BY <1>2, <1>3, <1>4, <1>5, <1>6, <1>7, TaskAssumption
        DEF JobStep, JobRun, StartJob, StartJobFor

LEMMA NextTypes == TypeOK /\ [Next]_vars => TypeOK'
<1> SUFFICES ASSUME TypeOK, [Next]_vars PROVE TypeOK'
    OBVIOUS
<1>1. CASE \E r \in Request : HandlerStep(r)
    BY <1>1, HandlerTypes
<1>2. CASE JobStep
    BY <1>2, JobTypes
<1>3. CASE UNCHANGED vars
    BY <1>3 DEF vars, TypeOK
<1> QED BY <1>1, <1>2, <1>3 DEF Next

(* Rows, objects, handlers and the job keep their types: the column and    *)
(* every sum over a prefix or an archive are natural numbers, whatever     *)
(* fails and whoever overlaps.                                             *)
THEOREM TypeCorrect == Spec => []TypeOK
<1>1. Init => TypeOK
    BY InitTypes
<1>2. TypeOK /\ [Next]_vars => TypeOK'
    BY NextTypes
<1> QED BY <1>1, <1>2, PTL DEF Spec

-----------------------------------------------------------------------------
(* What holds of an app while its column is to be relied on.               *)

(* What a handler alone at work has reached, and why it may go on:         *)
(* put_file and put_entries have been admitted, commit_used is about to    *)
(* write a value that covers the objects, and the deletion removes what is *)
(* there.                                                                  *)
HandlerInv(r, a) ==
    LET c == call[r] IN
    /\ c.seen = used[a]
    /\ c.pc = "put_file" => Usage(a) <= c.seen /\ Usage(a) + c.file.size <= Quota
    /\ c.pc = "put_entries" => IsFiniteSet(c.todo) /\ Usage(a) + TotalOf(c.todo) <= Quota
    /\ c.pc = "commit_used" => Usage(a) <= c.want
    /\ c.pc = "delete_batch" => \A p \in Path \ c.keys : objects[a][p] = 0
    /\ c.pc = "commit_delete" => Usage(a) = 0

Unattended(a) == \A r \in Request : ~WorksOn(r, a)

SettledInv(a) == Unattended(a) => Usage(a) <= used[a]

RunInv(t, a) ==
    /\ HasWritten(t, a) => job[t].written[a] = Usage(a)
    /\ job[t].pc = "write" /\ job[t].app = a => job[t].found = Usage(a)

SiteInv(a) ==
    /\ SettledInv(a)
    /\ \A r \in Request : WorksOn(r, a) => HandlerInv(r, a)
    /\ \A t \in Task : RunInv(t, a)

Sure(a) == ~Crowded(a) /\ SiteInv(a)

SureInv == TypeOK /\ \A a \in App \ unsure : Sure(a)

LEMMA InitSure == LedgerInit => SureInv
<1> SUFFICES ASSUME LedgerInit PROVE SureInv
    OBVIOUS
<1>1. TypeOK
    BY InitTypes DEF LedgerInit
<1>2. ASSUME NEW a \in App PROVE Sure(a)
  <2>1. Usage(a) = 0
    <3>1. DOMAIN objects[a] = Path /\ \A p \in Path : objects[a][p] = 0
        BY DEF LedgerInit, Init
    <3> QED BY <3>1, EmptySiteSum, PathAssumption DEF Usage
  <2>2. used[a] = 0 /\ \A r \in Request : ~WorksOn(r, a)
      BY DEF LedgerInit, Init, WorksOn
  <2>3. \A t \in Task : RunInv(t, a)
      BY DEF LedgerInit, Init, RunInv, HasWritten, IdleJob
  <2> QED BY <2>1, <2>2, <2>3 DEF Sure, Crowded, SiteInv, SettledInv
<1> QED BY <1>1, <1>2 DEF SureInv

(* Where the column is exact and nobody is at work, all is well whatever   *)
(* has happened before.                                                    *)
LEMMA ExactIsSure ==
    ASSUME TypeOK', NEW a \in App, Exact(a)'
    PROVE  Sure(a)'
<1>1. /\ \A r \in Request : ~WorksOn(r, a)'
      /\ \A t \in Task : ~Holds(t, a)'
      /\ used'[a] = Usage(a)'
    BY DEF Exact, Attended
<1>2. used'[a] \in Nat
    BY DEF TypeOK
<1>3. \A t \in Task : RunInv(t, a)'
    BY <1>1 DEF RunInv, Holds
<1> QED BY <1>1, <1>2, <1>3 DEF Sure, Crowded, SiteInv, SettledInv

-----------------------------------------------------------------------------
(* What a step of a handler is about.                                      *)

(* A step of a handler leaves alone what is not its own app's.             *)
LEMMA Frame ==
    ASSUME TypeOK, NEW r \in Request, HandlerStep(r)
    PROVE  /\ job' = job
           /\ \A s \in Request \ {r} : call'[s] = call[s]
           /\ \A a \in App : ~WorksOn(r, a) =>
                 objects'[a] = objects[a] /\ used'[a] = used[a] /\ deleted'[a] = deleted[a]
<1>0. /\ call[r].pc # "idle" => call[r] # IdleCall
      /\ \A a \in App : ~WorksOn(r, a) /\ call[r] # IdleCall => a # call[r].app
    BY DEF IdleCall, WorksOn
<1>1. ASSUME NEW b, NEW c, Begin(r, b, c)
      PROVE  /\ job' = job /\ UNCHANGED <<deleted, used, objects>>
             /\ \A s \in Request \ {r} : call'[s] = call[s]
    BY <1>1 DEF Begin, TypeOK
<1>2. ASSUME NEW c, Goto(r, c) PROVE \A s \in Request \ {r} : call'[s] = call[s]
    BY <1>2 DEF Goto, TypeOK
<1>3. ASSUME NEW b, NEW f, PutObject(b, f)
      PROVE  \A a \in App : a # b => objects'[a] = objects[a]
    BY <1>3 DEF PutObject, TypeOK
<1>4. ASSUME NEW b, NEW seen, NEW want, WriteUsed(b, seen, want)
      PROVE  \A a \in App : a # b => used'[a] = used[a]
    BY <1>4 DEF WriteUsed, TypeOK
<1>5. ASSUME NEW b, NEW batch, SendBatch(b, batch)
      PROVE  \A a \in App : a # b => objects'[a] = objects[a]
    BY <1>5 DEF SendBatch, TypeOK
<1>6. ASSUME NEW a \in App, NEW f \in File, BeginUpload(r, a, f)
      PROVE  \E b, c : Begin(r, b, c)
    BY <1>6 DEF BeginUpload
<1>7. ASSUME NEW a \in App, NEW files \in Archive, BeginDeploy(r, a, files)
      PROVE  \E b, c : Begin(r, b, c)
    BY <1>7 DEF BeginDeploy
<1>8. ASSUME NEW a \in App, NEW p \in Path, BeginDeleteFile(r, a, p)
      PROVE  \E b, c : Begin(r, b, c)
    BY <1>8 DEF BeginDeleteFile
<1>9. ASSUME NEW a \in App, BeginDeleteApp(r, a)
      PROVE  \E b, c : Begin(r, b, c)
    BY <1>9 DEF BeginDeleteApp
<1>10. CASE \E b, c : Begin(r, b, c)
    BY <1>1, <1>10
<1>11. CASE PutFile(r)
    BY <1>0, <1>2, <1>3, <1>11 DEF PutFile
<1>12. CASE CommitUsed(r)
    BY <1>0, <1>2, <1>4, <1>12 DEF CommitUsed
<1>13. CASE PutEntry(r)
    BY <1>0, <1>2, <1>3, <1>13 DEF PutEntry
<1>14. CASE Measure(r)
    BY <1>2, <1>14 DEF Measure
<1>15. CASE DeleteFile(r)
  <2>1. \A a \in App : a # call[r].app => objects'[a] = objects[a]
      BY <1>15 DEF DeleteFile, TypeOK
  <2> QED BY <1>0, <1>2, <1>15, <2>1 DEF DeleteFile
<1>16. CASE ListPrefix(r)
    BY <1>2, <1>16 DEF ListPrefix
<1>17. CASE DeleteBatch(r)
    BY <1>0, <1>2, <1>5, <1>17 DEF DeleteBatch
<1>18. CASE CommitDelete(r)
  <2>1. \A a \in App : a # call[r].app => deleted'[a] = deleted[a]
      BY <1>18 DEF CommitDelete, TypeOK
  <2> QED BY <1>0, <1>2, <1>4, <1>18, <2>1 DEF CommitDelete
<1>19. CASE AbortCall(r)
    BY <1>2, <1>19 DEF AbortCall
<1> QED BY <1>6, <1>7, <1>8, <1>9, <1>10, <1>11, <1>12, <1>13, <1>14, <1>15, <1>16, <1>17,
           <1>18, <1>19 DEF HandlerStep

(* A handler stays with its app until it ends.                             *)
LEMMA SameApp ==
    ASSUME TypeOK, NEW r \in Request, call[r] # IdleCall, HandlerStep(r)
    PROVE  call'[r] = IdleCall \/ call'[r].app = call[r].app
<1>1. call[r] \in Call /\ \A b, c : ~Begin(r, b, c)
    BY DEF TypeOK, Begin
<1>2. /\ call[r].pc = "put_entries" => \A v : [call[r] EXCEPT !.todo = v].app = call[r].app
      /\ call[r].pc = "delete_batch" => \A v : [call[r] EXCEPT !.keys = v].app = call[r].app
    BY <1>1 DEF Call, IdleCall
<1>3. ASSUME NEW c, Goto(r, c), c = IdleCall \/ c.app = call[r].app
      PROVE  call'[r] = IdleCall \/ call'[r].app = call[r].app
    BY <1>3 DEF Goto, TypeOK
<1>4. /\ \A b \in App, f \in File : ~BeginUpload(r, b, f)
      /\ \A b \in App, files \in Archive : ~BeginDeploy(r, b, files)
      /\ \A b \in App, p \in Path : ~BeginDeleteFile(r, b, p)
      /\ \A b \in App : ~BeginDeleteApp(r, b)
    BY <1>1 DEF BeginUpload, BeginDeploy, BeginDeleteFile, BeginDeleteApp
<1>5. CASE PutFile(r) \/ CommitUsed(r) \/ Measure(r) \/ DeleteFile(r) \/ ListPrefix(r)
           \/ CommitDelete(r) \/ AbortCall(r)
    BY <1>3, <1>5 DEF PutFile, CommitUsed, Measure, DeleteFile, ListPrefix, CommitDelete, AbortCall
<1>6. CASE PutEntry(r)
  <2>1. PICK f : Goto(r, IF call[r].todo \ {f} # {}
                         THEN [call[r] EXCEPT !.todo = call[r].todo \ {f}]
                         ELSE [pc |-> "measure", app |-> call[r].app, seen |-> call[r].seen])
      BY <1>6 DEF PutEntry
  <2>2. [call[r] EXCEPT !.todo = call[r].todo \ {f}].app = call[r].app
      BY <1>2, <1>6 DEF PutEntry
  <2>3. CASE call[r].todo \ {f} # {}
      BY <1>3, <2>1, <2>2, <2>3
  <2>4. CASE call[r].todo \ {f} = {}
      BY <1>3, <2>1, <2>4
  <2> QED BY <2>3, <2>4
<1>7. CASE DeleteBatch(r)
  <2>1. PICK batch : Goto(r, IF call[r].keys \ batch # {}
                             THEN [call[r] EXCEPT !.keys = call[r].keys \ batch]
                             ELSE [pc |-> "commit_delete", app |-> call[r].app,
                                   seen |-> call[r].seen])
      BY <1>7 DEF DeleteBatch
  <2>2. [call[r] EXCEPT !.keys = call[r].keys \ batch].app = call[r].app
      BY <1>2, <1>7 DEF DeleteBatch
  <2>3. CASE call[r].keys \ batch # {}
      BY <1>3, <2>1, <2>2, <2>3
  <2>4. CASE call[r].keys \ batch = {}
      BY <1>3, <2>1, <2>4
  <2> QED BY <2>3, <2>4
<1> QED BY <1>4, <1>5, <1>6, <1>7 DEF HandlerStep

(* What is known of a handler that is about to take a step on an app.      *)
LEMMA Known ==
    ASSUME TypeOK, NEW r \in Request, NEW a \in App, WorksOn(r, a)
    PROVE  /\ call[r] \in Call /\ call[r] # IdleCall
           /\ call[r].app = a /\ call[r].seen \in Nat
           /\ used[a] \in Nat /\ Usage(a) \in Nat
<1>1. call[r] \in Call /\ call[r] # IdleCall
    BY DEF WorksOn, TypeOK
<1> QED BY <1>1, CallFields, UsageNat DEF WorksOn, TypeOK

(* A handler that goes on, or begins, and is not crowded: what it knows is *)
(* all there is to know of the app.                                        *)
LEMMA AtWork ==
    ASSUME NEW r \in Request, NEW a \in App, ~Crowded(a)', WorksOn(r, a)', HandlerInv(r, a)'
    PROVE  SiteInv(a)'
<1>1. \A s \in Request : WorksOn(s, a)' => s = r
    BY DEF Crowded
<1>2. \A t \in Task : ~Holds(t, a)'
    BY DEF Crowded
<1>3. \A t \in Task : RunInv(t, a)'
    BY <1>2 DEF RunInv, Holds
<1> QED BY <1>1, <1>3 DEF SiteInv, SettledInv, Unattended

(* A handler that ends leaves a column that covers the objects.            *)
LEMMA Ends ==
    ASSUME TypeOK, NEW r \in Request, NEW a \in App, WorksOn(r, a), ~Crowded(a), job' = job,
           Goto(r, IdleCall), Usage(a)' <= used'[a]
    PROVE  SiteInv(a)'
<1>1. call'[r] = IdleCall /\ \A s \in Request \ {r} : call'[s] = call[s]
    BY DEF Goto, TypeOK
<1>2. \A s \in Request : WorksOn(s, a) => s = r
    BY DEF Crowded
<1>3. \A t \in Task : ~Holds(t, a)
    BY DEF Crowded
<1>4. \A t \in Task : RunInv(t, a)'
    BY <1>3 DEF RunInv, Holds, HasWritten
<1>5. \A s \in Request : ~WorksOn(s, a)'
    BY <1>1, <1>2 DEF WorksOn
<1> QED BY <1>4, <1>5 DEF SiteInv, SettledInv

(* What is not about the app leaves it as it is.                           *)
LEMMA Elsewhere ==
    ASSUME NEW a \in App, SiteInv(a), job' = job, objects'[a] = objects[a], used'[a] = used[a],
           \A s \in Request : WorksOn(s, a)' <=> WorksOn(s, a),
           \A s \in Request : WorksOn(s, a) => call'[s] = call[s]
    PROVE  SiteInv(a)'
<1>1. Usage(a)' = Usage(a)
    BY DEF Usage
<1>2. SettledInv(a)' /\ \A t \in Task : RunInv(t, a)'
    BY <1>1 DEF SiteInv, SettledInv, RunInv, HasWritten, Unattended
<1>3. ASSUME NEW s \in Request, WorksOn(s, a)' PROVE HandlerInv(s, a)'
  <2>1. HandlerInv(s, a) /\ call'[s] = call[s]
      BY <1>3 DEF SiteInv
  <2> QED BY <1>1, <2>1 DEF HandlerInv
<1> QED BY <1>2, <1>3 DEF SiteInv

-----------------------------------------------------------------------------
(* The steps of a handler on a site that nobody else is at work on.        *)

(* A request is admitted: it finds the app unattended, for otherwise two   *)
(* would be at work on it.                                                 *)
LEMMA Begins ==
    ASSUME TypeOK, NEW r \in Request, NEW a \in App, NEW c, Begin(r, a, c),
           c # IdleCall, c.app = a, SiteInv(a), ~Crowded(a)',
           Usage(a) <= used[a] => HandlerInv(r, a)'
    PROVE  SiteInv(a)'
<1>1. /\ call'[r] = c /\ \A s \in Request \ {r} : call'[s] = call[s]
      /\ ~WorksOn(r, a)
    BY DEF Begin, TypeOK, WorksOn
<1>2. WorksOn(r, a)'
    BY <1>1 DEF WorksOn
<1>3. \A s \in Request : WorksOn(s, a)' => s = r
    BY <1>2 DEF Crowded
<1>4. Unattended(a)
    BY <1>1, <1>3 DEF Unattended, WorksOn
<1>5. HandlerInv(r, a)'
    BY <1>4 DEF SiteInv, SettledInv
<1> QED BY <1>2, <1>5, AtWork

(* What a request knows that has just begun.                               *)
LEMMA Begun ==
    ASSUME TypeOK, NEW r \in Request, NEW a \in App, NEW c, Begin(r, a, c)
    PROVE  /\ call'[r] = c /\ Usage(a)' = Usage(a) /\ used'[a] = used[a]
           /\ Usage(a) \in Nat /\ used[a] \in Nat
BY UsageNat DEF Begin, TypeOK, Usage

LEMMA UploadBegins ==
    ASSUME TypeOK, NEW r \in Request, NEW a \in App, NEW f \in File, BeginUpload(r, a, f),
           SiteInv(a), ~Crowded(a)'
    PROVE  SiteInv(a)'
<1> DEFINE c == [pc |-> "put_file", app |-> a, seen |-> used[a], file |-> f]
<1>1. Begin(r, a, c) /\ used[a] + f.size <= Quota
    BY DEF BeginUpload, FitsQuota
<1>2. /\ call'[r] = c /\ Usage(a)' = Usage(a) /\ used'[a] = used[a]
      /\ Usage(a) \in Nat /\ used[a] \in Nat
    BY <1>1, Begun
<1>3. f.size \in Nat
    BY FileSize
<1>4. ASSUME Usage(a) <= used[a] PROVE HandlerInv(r, a)'
  <2>1. Usage(a)' + f.size <= Quota
      BY <1>1, <1>2, <1>3, <1>4, SizeAssumption
  <2> QED BY <1>2, <1>4, <2>1 DEF HandlerInv
<1> QED BY <1>1, <1>4, Begins DEF IdleCall

LEMMA DeployBegins ==
    ASSUME TypeOK, NEW r \in Request, NEW a \in App, NEW files \in Archive,
           BeginDeploy(r, a, files), SiteInv(a), ~Crowded(a)'
    PROVE  SiteInv(a)'
<1> DEFINE c == [pc |-> "put_entries", app |-> a, seen |-> used[a], todo |-> files]
<1>1. Begin(r, a, c) /\ used[a] + TotalOf(files) <= Quota
    BY DEF BeginDeploy, FitsQuota
<1>2. /\ call'[r] = c /\ Usage(a)' = Usage(a) /\ used'[a] = used[a]
      /\ Usage(a) \in Nat /\ used[a] \in Nat
    BY <1>1, Begun
<1>3. files \in SUBSET File /\ IsFiniteSet(files)
    BY ArchiveAssumption
<1>4. TotalOf(files) \in Nat
    BY <1>3, ArchiveTotal
<1>5. ASSUME Usage(a) <= used[a] PROVE HandlerInv(r, a)'
  <2>1. TotalOf(call[r].todo)' = TotalOf(files)
      BY <1>2
  <2>2. Usage(a)' + TotalOf(call[r].todo)' <= Quota
      BY <1>1, <1>2, <1>4, <1>5, <2>1, SizeAssumption
  <2> QED BY <1>2, <1>3, <2>2 DEF HandlerInv
<1> QED BY <1>1, <1>5, Begins DEF IdleCall

LEMMA DeleteFileBegins ==
    ASSUME TypeOK, NEW r \in Request, NEW a \in App, NEW p \in Path,
           BeginDeleteFile(r, a, p), SiteInv(a), ~Crowded(a)'
    PROVE  SiteInv(a)'
<1> DEFINE c == [pc |-> "delete_file", app |-> a, seen |-> used[a], path |-> p]
<1>1. Begin(r, a, c)
    BY DEF BeginDeleteFile
<1>2. call'[r] = c /\ used'[a] = used[a]
    BY <1>1, Begun
<1>3. HandlerInv(r, a)'
    BY <1>2 DEF HandlerInv
<1> QED BY <1>1, <1>3, Begins DEF IdleCall

LEMMA DeleteAppBegins ==
    ASSUME TypeOK, NEW r \in Request, NEW a \in App, BeginDeleteApp(r, a),
           SiteInv(a), ~Crowded(a)'
    PROVE  SiteInv(a)'
<1> DEFINE c == [pc |-> "list_prefix", app |-> a, seen |-> used[a]]
<1>1. Begin(r, a, c)
    BY DEF BeginDeleteApp
<1>2. call'[r] = c /\ used'[a] = used[a]
    BY <1>1, Begun
<1>3. HandlerInv(r, a)'
    BY <1>2 DEF HandlerInv
<1> QED BY <1>1, <1>3, Begins DEF IdleCall

(* A handler that goes on leaves the rest of its knowledge to be shown.    *)
LEMMA GoesOn ==
    ASSUME TypeOK, NEW r \in Request, NEW a \in App, NEW c, Goto(r, c), c # IdleCall,
           c.app = a, ~Crowded(a)',
           call'[r] = c => HandlerInv(r, a)'
    PROVE  SiteInv(a)'
<1>1. call'[r] = c
    BY DEF Goto, TypeOK
<1>2. WorksOn(r, a)'
    BY <1>1 DEF WorksOn
<1> QED BY <1>1, <1>2, AtWork

(* A PUT replaces what was at its key.                                     *)
LEMMA PutUsage ==
    ASSUME TypeOK, NEW a \in App, NEW f \in File, PutObject(a, f)
    PROVE  Usage(a)' \in Nat /\ Usage(a)' <= Usage(a) + f.size
<1>1. objects[a] \in [Path -> Nat] /\ f.path \in Path /\ f.size \in Nat
    BY UsageNat, FileSize
<1>2. objects'[a] = [objects[a] EXCEPT ![f.path] = f.size]
    BY DEF PutObject, TypeOK
<1>3. /\ SumFunction(objects[a]) \in Nat
      /\ objects[a][f.path] <= SumFunction(objects[a])
      /\ SumFunction([objects[a] EXCEPT ![f.path] = f.size])
            = SumFunction(objects[a]) - objects[a][f.path] + f.size
    BY <1>1, SiteSum, PathAssumption
<1>4. objects[a][f.path] \in Nat
    BY <1>1
<1> QED BY <1>1, <1>2, <1>3, <1>4 DEF Usage

(* What a PUT of an admitted handler leaves room for.                      *)
LEMMA PutFileFits ==
    ASSUME TypeOK, NEW r \in Request, NEW a \in App, WorksOn(r, a), HandlerInv(r, a), PutFile(r)
    PROVE  /\ call[r].file \in File /\ call[r].file.size \in Nat
           /\ Usage(a)' \in Nat /\ Usage(a)' <= Quota
           /\ Usage(a)' <= call[r].seen + call[r].file.size
<1>1. call[r].pc = "put_file" /\ PutObject(call[r].app, call[r].file)
    BY DEF PutFile
<1>2. /\ call[r] \in Call /\ call[r].app = a /\ call[r].seen \in Nat
      /\ Usage(a) \in Nat
    BY Known
<1>3. call[r].file \in File /\ call[r].file.size \in Nat
    BY <1>1, <1>2, CallFields, FileSize
<1>4. Usage(a) <= call[r].seen /\ Usage(a) + call[r].file.size <= Quota
    BY <1>1 DEF HandlerInv
<1>5. Usage(a)' \in Nat /\ Usage(a)' <= Usage(a) + call[r].file.size
    BY <1>1, <1>2, <1>3, PutUsage
<1> QED BY <1>2, <1>3, <1>4, <1>5, SizeAssumption

LEMMA PutFileKeeps ==
    ASSUME TypeOK, NEW r \in Request, NEW a \in App, WorksOn(r, a), HandlerInv(r, a),
           ~Crowded(a)', PutFile(r)
    PROVE  SiteInv(a)'
<1> DEFINE c == [pc |-> "commit_used", app |-> a, seen |-> call[r].seen,
                 want |-> call[r].seen + call[r].file.size]
<1>1. call[r].app = a
    BY Known
<1>2. Goto(r, c) /\ used'[a] = used[a]
    BY <1>1 DEF PutFile
<1>3. call[r].seen = used[a]
    BY DEF HandlerInv
<1>4. Usage(a)' <= call[r].seen + call[r].file.size
    BY PutFileFits
<1>5. ASSUME call'[r] = c PROVE HandlerInv(r, a)'
    BY <1>2, <1>3, <1>4, <1>5 DEF HandlerInv
<1> QED BY <1>2, <1>5, GoesOn DEF IdleCall

LEMMA CommitUsedKeeps ==
    ASSUME TypeOK, NEW r \in Request, NEW a \in App, WorksOn(r, a), HandlerInv(r, a),
           ~Crowded(a), CommitUsed(r)
    PROVE  SiteInv(a)'
<1>1. call[r].app = a
    BY Known
<1>2. /\ call[r].pc = "commit_used" /\ Goto(r, IdleCall) /\ job' = job /\ objects' = objects
      /\ WriteUsed(a, call[r].seen, call[r].want)
    BY <1>1 DEF CommitUsed
<1>3. call[r].seen = used[a] /\ Usage(a) <= call[r].want
    BY <1>2 DEF HandlerInv
<1>4. used'[a] = call[r].want
    BY <1>2, <1>3 DEF WriteUsed, TypeOK
<1>5. Usage(a)' <= used'[a]
    BY <1>2, <1>3, <1>4 DEF Usage
<1> QED BY <1>2, <1>5, Ends

(* An entry of an archive that has been put leaves room for the others.    *)
LEMMA PutEntryFits ==
    ASSUME TypeOK, NEW r \in Request, NEW a \in App, WorksOn(r, a), HandlerInv(r, a),
           call[r].pc = "put_entries", NEW f \in call[r].todo, PutObject(call[r].app, f)
    PROVE  /\ IsFiniteSet(call[r].todo \ {f}) /\ TotalOf(call[r].todo \ {f}) \in Nat
           /\ Usage(a)' \in Nat /\ Usage(a)' + TotalOf(call[r].todo \ {f}) <= Quota
<1>todo. PICK todo : todo = call[r].todo
    OBVIOUS
<1>1. /\ call[r] \in Call /\ call[r].app = a /\ Usage(a) \in Nat
    BY Known
<1>2. todo \in SUBSET File
    BY <1>todo, <1>1, CallFields
<1>3. IsFiniteSet(todo) /\ Usage(a) + TotalOf(todo) <= Quota
    BY <1>todo DEF HandlerInv
<1>4. f \in File /\ f.size \in Nat
    BY <1>2, <1>todo, FileSize
<1>5. IsFiniteSet(todo \ {f})
    BY <1>3, FS_Subset
<1>6. TotalOf(todo) = f.size + TotalOf(todo \ {f})
    BY <1>2, <1>3, <1>todo, ArchiveTotal
<1>7. TotalOf(todo \ {f}) \in Nat
    BY <1>2, <1>5, ArchiveTotal
<1>8. Usage(a)' \in Nat /\ Usage(a)' <= Usage(a) + f.size
    BY <1>1, <1>4, PutUsage
<1>9. Usage(a)' + TotalOf(todo \ {f}) <= Quota
    BY <1>1, <1>3, <1>4, <1>6, <1>7, <1>8, SizeAssumption
<1> QED BY <1>todo, <1>5, <1>7, <1>8, <1>9

LEMMA PutEntryKeeps ==
    ASSUME TypeOK, NEW r \in Request, NEW a \in App, WorksOn(r, a), HandlerInv(r, a),
           ~Crowded(a)', PutEntry(r)
    PROVE  SiteInv(a)'
<1>todo. PICK todo : todo = call[r].todo
    OBVIOUS
<1>1. /\ call[r] \in Call /\ call[r].app = a /\ call[r].pc = "put_entries" /\ used'[a] = used[a]
    BY Known DEF PutEntry
<1>2. PICK f \in todo :
          /\ PutObject(call[r].app, f)
          /\ Goto(r, IF todo \ {f} # {} THEN [call[r] EXCEPT !.todo = todo \ {f}]
                     ELSE [pc |-> "measure", app |-> a, seen |-> call[r].seen])
    BY <1>1, <1>todo DEF PutEntry
<1>3. call[r].seen = used[a]
    BY DEF HandlerInv
<1>4. IsFiniteSet(todo \ {f}) /\ Usage(a)' + TotalOf(todo \ {f}) <= Quota
    BY <1>todo, <1>1, <1>2, PutEntryFits
<1>5. DOMAIN call[r] = {"pc", "app", "seen", "todo"}
    BY <1>1 DEF Call, IdleCall
<1>6. CASE todo \ {f} # {}
  <2> DEFINE c == [call[r] EXCEPT !.todo = todo \ {f}]
  <2>1. Goto(r, c)
      BY <1>2, <1>6
  <2>2. /\ c.pc = "put_entries" /\ c.app = a /\ c.seen = call[r].seen /\ c.todo = todo \ {f}
        /\ c # IdleCall
      BY <1>1, <1>5 DEF IdleCall
  <2> HIDE DEF c
  <2>3. ASSUME call'[r] = c PROVE HandlerInv(r, a)'
    <3>1. TotalOf(call[r].todo)' = TotalOf(todo \ {f})
        BY <2>2, <2>3
    <3> QED BY <1>1, <1>3, <1>4, <2>2, <2>3, <3>1 DEF HandlerInv
  <2> QED BY <2>1, <2>2, <2>3, GoesOn
<1>7. CASE todo \ {f} = {}
  <2> DEFINE c == [pc |-> "measure", app |-> a, seen |-> call[r].seen]
  <2>1. Goto(r, c)
      BY <1>2, <1>7
  <2>2. ASSUME call'[r] = c PROVE HandlerInv(r, a)'
      BY <1>1, <1>3, <2>2 DEF HandlerInv
  <2> QED BY <2>1, <2>2, GoesOn DEF IdleCall
<1> QED BY <1>6, <1>7

LEMMA MeasureKeeps ==
    ASSUME TypeOK, NEW r \in Request, NEW a \in App, WorksOn(r, a), HandlerInv(r, a),
           ~Crowded(a)', Measure(r)
    PROVE  SiteInv(a)'
<1> DEFINE c == [pc |-> "commit_used", app |-> a, seen |-> call[r].seen, want |-> Usage(a)]
<1>1. call[r].app = a /\ Usage(a) \in Nat
    BY Known
<1>2. Goto(r, c) /\ used'[a] = used[a] /\ Usage(a)' = Usage(a)
    BY <1>1 DEF Measure, Usage
<1>3. call[r].seen = used[a]
    BY DEF HandlerInv
<1>4. ASSUME call'[r] = c PROVE HandlerInv(r, a)'
    BY <1>1, <1>2, <1>3, <1>4 DEF HandlerInv
<1> QED BY <1>2, <1>4, GoesOn DEF IdleCall

LEMMA DeleteFileKeeps ==
    ASSUME TypeOK, NEW r \in Request, NEW a \in App, WorksOn(r, a), HandlerInv(r, a),
           ~Crowded(a)', DeleteFile(r)
    PROVE  SiteInv(a)'
<1> DEFINE c == [pc |-> "measure", app |-> a, seen |-> call[r].seen]
<1>1. call[r].app = a
    BY Known
<1>2. Goto(r, c) /\ used'[a] = used[a]
    BY <1>1 DEF DeleteFile
<1>3. call[r].seen = used[a]
    BY DEF HandlerInv
<1>4. ASSUME call'[r] = c PROVE HandlerInv(r, a)'
    BY <1>2, <1>3, <1>4 DEF HandlerInv
<1> QED BY <1>2, <1>4, GoesOn DEF IdleCall

LEMMA ListPrefixKeeps ==
    ASSUME TypeOK, NEW r \in Request, NEW a \in App, WorksOn(r, a), HandlerInv(r, a),
           ~Crowded(a)', ListPrefix(r)
    PROVE  SiteInv(a)'
<1> DEFINE c == [pc |-> "delete_batch", app |-> a, seen |-> call[r].seen,
                 keys |-> {p \in Path : objects[a][p] # 0}]
<1>1. call[r].app = a
    BY Known
<1>2. Goto(r, c) /\ used'[a] = used[a] /\ objects' = objects
    BY <1>1 DEF ListPrefix
<1>3. call[r].seen = used[a]
    BY DEF HandlerInv
<1>4. ASSUME call'[r] = c PROVE HandlerInv(r, a)'
  <2>1. \A p \in Path \ c.keys : objects'[a][p] = 0
      BY <1>2
  <2> QED BY <1>2, <1>3, <1>4, <2>1 DEF HandlerInv
<1> QED BY <1>2, <1>4, GoesOn DEF IdleCall

(* A batch that R2 deletes whole: what is left to delete is still all that *)
(* is there.                                                               *)
LEMMA WholeBatch ==
    ASSUME TypeOK, NEW a \in App, NEW keys \in SUBSET Path, NEW batch \in Batches(keys),
           SendBatch(a, batch), faults' = faults,
           \A p \in Path \ keys : objects[a][p] = 0
    PROVE  /\ batch \subseteq keys /\ DOMAIN objects'[a] = Path
           /\ \A p \in Path \ (keys \ batch) : objects'[a][p] = 0
<1>1. batch \subseteq keys
    BY DEF Batches, kSubset
<1>2. objects' = [objects EXCEPT ![a] = Emptied(@, batch)]
    BY DEF SendBatch, TypeOK
<1>3. objects'[a] = Emptied(objects[a], batch)
    BY <1>2 DEF TypeOK
<1> QED BY <1>1, <1>3 DEF Emptied

(* A batch of which R2 keeps something is a fault, and the deletion goes   *)
(* on: it is then at another place, or has less to do.                     *)
LEMMA FaultyBatch ==
    ASSUME TypeOK, NEW r \in Request, DeleteBatch(r), faults' # faults
    PROVE  call'[r] # call[r] /\ call'[r] # IdleCall
<1>1. call[r].pc = "delete_batch" /\ call[r] \in Call
    BY DEF DeleteBatch, TypeOK
<1>2. PICK batch \in Batches(call[r].keys) :
          /\ SendBatch(call[r].app, batch)
          /\ Goto(r, IF call[r].keys \ batch # {}
                     THEN [call[r] EXCEPT !.keys = call[r].keys \ batch]
                     ELSE [pc |-> "commit_delete", app |-> call[r].app, seen |-> call[r].seen])
    BY DEF DeleteBatch
<1>3. batch # {} /\ batch \subseteq call[r].keys
    BY <1>2 DEF SendBatch, Batches, kSubset
<1>4. DOMAIN call[r] = {"pc", "app", "seen", "keys"}
    BY <1>1 DEF Call, IdleCall
<1>5. /\ [call[r] EXCEPT !.keys = call[r].keys \ batch].keys # call[r].keys
      /\ [call[r] EXCEPT !.keys = call[r].keys \ batch].pc # "idle"
    BY <1>1, <1>3, <1>4
<1> QED BY <1>1, <1>2, <1>5 DEF Goto, TypeOK, IdleCall

LEMMA DeleteBatchKeeps ==
    ASSUME TypeOK, NEW r \in Request, NEW a \in App, WorksOn(r, a), HandlerInv(r, a),
           ~Crowded(a)', ~Struck(a), DeleteBatch(r)
    PROVE  SiteInv(a)'
<1>keys. PICK keys : keys = call[r].keys
    OBVIOUS
<1>1. /\ call[r] \in Call /\ call[r].app = a /\ call[r].pc = "delete_batch" /\ used'[a] = used[a]
    BY Known DEF DeleteBatch
<1>2. PICK batch \in Batches(keys) :
          /\ SendBatch(a, batch)
          /\ Goto(r, IF keys \ batch # {} THEN [call[r] EXCEPT !.keys = keys \ batch]
                     ELSE [pc |-> "commit_delete", app |-> a, seen |-> call[r].seen])
    BY <1>1, <1>keys DEF DeleteBatch
<1>3. faults' = faults
    BY FaultyBatch DEF Struck
<1>4. call[r].seen = used[a] /\ \A p \in Path \ keys : objects[a][p] = 0
    BY <1>1, <1>keys DEF HandlerInv
<1>5. keys \in SUBSET Path
    BY <1>1, <1>keys, CallFields
<1>6. /\ batch \subseteq keys /\ DOMAIN objects'[a] = Path
      /\ \A p \in Path \ (keys \ batch) : objects'[a][p] = 0
    BY <1>2, <1>3, <1>4, <1>5, WholeBatch
<1>7. DOMAIN call[r] = {"pc", "app", "seen", "keys"}
    BY <1>1 DEF Call, IdleCall
<1>8. CASE keys \ batch # {}
  <2> DEFINE c == [call[r] EXCEPT !.keys = keys \ batch]
  <2>1. Goto(r, c)
      BY <1>2, <1>8
  <2>2. /\ c.pc = "delete_batch" /\ c.app = a /\ c.seen = call[r].seen /\ c.keys = keys \ batch
        /\ c # IdleCall
      BY <1>1, <1>7 DEF IdleCall
  <2> HIDE DEF c
  <2>3. ASSUME call'[r] = c PROVE HandlerInv(r, a)'
      BY <1>1, <1>4, <1>6, <2>2, <2>3 DEF HandlerInv
  <2> QED BY <2>1, <2>2, <2>3, GoesOn
<1>9. CASE keys \ batch = {}
  <2> DEFINE c == [pc |-> "commit_delete", app |-> a, seen |-> call[r].seen]
  <2>1. Goto(r, c)
      BY <1>2, <1>9
  <2>2. \A p \in Path : objects'[a][p] = 0
      BY <1>6, <1>9
  <2>3. Usage(a)' = 0
      BY <1>6, <2>2, EmptySiteSum, PathAssumption DEF Usage
  <2>4. ASSUME call'[r] = c PROVE HandlerInv(r, a)'
      BY <1>1, <1>4, <2>3, <2>4 DEF HandlerInv
  <2> QED BY <2>1, <2>4, GoesOn DEF IdleCall
<1> QED BY <1>8, <1>9

LEMMA CommitDeleteKeeps ==
    ASSUME TypeOK, NEW r \in Request, NEW a \in App, WorksOn(r, a), HandlerInv(r, a),
           ~Crowded(a), CommitDelete(r)
    PROVE  SiteInv(a)'
<1>1. call[r].app = a
    BY Known
<1>2. /\ call[r].pc = "commit_delete" /\ Goto(r, IdleCall) /\ job' = job /\ objects' = objects
      /\ WriteUsed(a, call[r].seen, 0)
    BY <1>1 DEF CommitDelete
<1>3. call[r].seen = used[a] /\ Usage(a) = 0
    BY <1>2 DEF HandlerInv
<1>4. used'[a] = 0
    BY <1>2, <1>3 DEF WriteUsed, TypeOK
<1>5. Usage(a)' <= used'[a]
    BY <1>2, <1>3, <1>4 DEF Usage
<1> QED BY <1>2, <1>5, Ends

LEMMA HandlerKeeps ==
    ASSUME TypeOK, NEW a \in App, Sure(a), ~Crowded(a)', ~Struck(a),
           NEW r \in Request, HandlerStep(r)
    PROVE  SiteInv(a)'
<1>1. /\ job' = job
      /\ \A s \in Request \ {r} : call'[s] = call[s]
      /\ ~WorksOn(r, a) => objects'[a] = objects[a] /\ used'[a] = used[a]
    BY Frame
<1>2. CASE ~WorksOn(r, a) /\ ~WorksOn(r, a)'
  <2>1. \A s \in Request : WorksOn(s, a)' <=> WorksOn(s, a)
      BY <1>1, <1>2 DEF WorksOn
  <2> QED BY <1>1, <1>2, <2>1, Elsewhere DEF Sure
<1>3. CASE ~WorksOn(r, a) /\ WorksOn(r, a)'
  <2>1. call'[r] # IdleCall /\ call'[r].app = a
      BY <1>3 DEF WorksOn
  <2>2. ASSUME NEW b, NEW c, Begin(r, b, c), c.app = b PROVE b = a
      BY <2>1, <2>2 DEF Begin, TypeOK
  <2>3. \A b \in App, f \in File : BeginUpload(r, b, f) => b = a
      BY <2>2 DEF BeginUpload
  <2>4. \A b \in App, files \in Archive : BeginDeploy(r, b, files) => b = a
      BY <2>2 DEF BeginDeploy
  <2>5. \A b \in App, p \in Path : BeginDeleteFile(r, b, p) => b = a
      BY <2>2 DEF BeginDeleteFile
  <2>6. \A b \in App : BeginDeleteApp(r, b) => b = a
      BY <2>2 DEF BeginDeleteApp
  <2>7. call[r] = IdleCall
      BY <1>3, <2>1, SameApp DEF WorksOn
  <2>8. /\ ~PutFile(r) /\ ~CommitUsed(r) /\ ~PutEntry(r) /\ ~Measure(r) /\ ~DeleteFile(r)
        /\ ~ListPrefix(r) /\ ~DeleteBatch(r) /\ ~CommitDelete(r) /\ ~AbortCall(r)
      BY <2>7 DEF IdleCall, PutFile, CommitUsed, PutEntry, Measure, DeleteFile, ListPrefix,
                  DeleteBatch, CommitDelete, AbortCall
  <2> QED BY <2>3, <2>4, <2>5, <2>6, <2>8, UploadBegins, DeployBegins, DeleteFileBegins,
             DeleteAppBegins DEF HandlerStep, Sure
<1>4. CASE WorksOn(r, a)
  <2>1. HandlerInv(r, a) /\ ~Crowded(a)
      BY <1>4 DEF Sure, SiteInv
  <2>2. \A b, c : ~Begin(r, b, c)
      BY <1>4 DEF Begin, WorksOn
  <2>3. /\ \A b \in App, f \in File : ~BeginUpload(r, b, f)
        /\ \A b \in App, files \in Archive : ~BeginDeploy(r, b, files)
        /\ \A b \in App, p \in Path : ~BeginDeleteFile(r, b, p)
        /\ \A b \in App : ~BeginDeleteApp(r, b)
      BY <2>2 DEF BeginUpload, BeginDeploy, BeginDeleteFile, BeginDeleteApp
  <2>4. ~AbortCall(r)
      BY <1>4 DEF AbortCall, Struck, Goto, TypeOK
  <2> QED BY <1>4, <2>1, <2>3, <2>4, PutFileKeeps, CommitUsedKeeps, PutEntryKeeps, MeasureKeeps,
             DeleteFileKeeps, ListPrefixKeeps, DeleteBatchKeeps, CommitDeleteKeeps
          DEF HandlerStep
<1> QED BY <1>2, <1>3, <1>4

-----------------------------------------------------------------------------
(* The runs of recalc_quota.                                               *)

(* While nobody is at work on the site, a run that has measured it still   *)
(* knows what the bucket holds, and what it commits is that.               *)
LEMMA RunKeeps ==
    ASSUME TypeOK, NEW a \in App, SiteInv(a), Unattended(a), JobStep
    PROVE  SiteInv(a)'
<1>0. /\ \A t \in Task : RunInv(t, a) /\ job[t] \in Job /\ (job[t].pc # "idle" => job[t] # IdleJob)
      /\ Usage(a) \in Nat /\ used[a] \in Nat /\ Usage(a) <= used[a]
    BY UsageNat DEF SiteInv, SettledInv, TypeOK, IdleJob
<1>1. /\ UNCHANGED <<objects, call>> /\ Usage(a)' = Usage(a)
      /\ \A r \in Request : ~WorksOn(r, a)'
  <2>1. UNCHANGED <<objects, call>>
      BY DEF JobStep, StartJob, StartJobFor, StartTask, JobRun, JobMeasure, JobWrite, JobCommit,
             AbortJob, Proceed
  <2> QED BY <2>1 DEF Usage, Unattended, WorksOn
<1>2. ASSUME NEW t \in Task, NEW j, job' = [job EXCEPT ![t] = j], Usage(a) <= used'[a],
             j # IdleJob /\ j.written[a] # NoWrite => j.written[a] = Usage(a),
             j.pc = "write" /\ j.app = a => j.found = Usage(a)
      PROVE  SiteInv(a)'
  <2>1. job'[t] = j /\ \A u \in Task \ {t} : job'[u] = job[u]
      BY <1>2 DEF TypeOK
  <2>2. RunInv(t, a)'
      BY <1>1, <1>2, <2>1 DEF RunInv, HasWritten
  <2>3. ASSUME NEW u \in Task \ {t} PROVE RunInv(u, a)'
      BY <1>0, <1>1, <2>1 DEF RunInv, HasWritten
  <2> QED BY <1>1, <1>2, <2>2, <2>3 DEF SiteInv, SettledInv
<1>3. ASSUME NEW t \in Task, NEW apps, StartTask(t, apps) PROVE SiteInv(a)'
  <2> DEFINE j == [pc |-> "measure", todo |-> apps, seen |-> used,
                   written |-> [b \in App |-> NoWrite]]
  <2>1. job' = [job EXCEPT ![t] = j] /\ used' = used
      BY <1>3 DEF StartTask
  <2>2. j.written[a] = NoWrite /\ j.pc # "write"
      OBVIOUS
  <2> HIDE DEF j
  <2> QED BY <1>0, <1>2, <2>1, <2>2
<1>4. ASSUME NEW t \in Task, NEW b \in App, JobMeasure(t, b) PROVE SiteInv(a)'
  <2>1. /\ job[t] \in [pc: {"measure"}, todo: SUBSET App, seen: [App -> Nat],
                       written: [App -> Nat \cup {NoWrite}]]
        /\ job[t] # IdleJob
      BY <1>0, <1>4 DEF JobMeasure, Job, IdleJob
  <2>2. job[t].written[a] # NoWrite => job[t].written[a] = Usage(a)
      BY <1>0, <2>1 DEF RunInv, HasWritten
  <2>3. CASE Usage(b) = job[t].seen[b]
    <3> DEFINE j == [job[t] EXCEPT !.todo = @ \ {b}]
    <3>1. job' = [job EXCEPT ![t] = j] /\ used' = used
        BY <1>4, <2>3 DEF JobMeasure, Proceed
    <3>2. j.pc = "measure" /\ j.written = job[t].written
        BY <2>1
    <3> HIDE DEF j
    <3> QED BY <1>0, <1>2, <2>2, <3>1, <3>2
  <2>4. CASE Usage(b) # job[t].seen[b]
    <3>1. job' = [job EXCEPT ![t] = ToWrite(t, b)] /\ used' = used
        BY <1>4, <2>4 DEF JobMeasure, Proceed
    <3>2. /\ ToWrite(t, b).written = job[t].written /\ ToWrite(t, b).app = b
          /\ ToWrite(t, b).found = Usage(b)
        BY DEF ToWrite
    <3> QED BY <1>0, <1>2, <2>2, <3>1, <3>2
  <2> QED BY <2>3, <2>4
<1>5. ASSUME NEW t \in Task, JobWrite(t) PROVE SiteInv(a)'
  <2>1. /\ job[t].written \in [App -> Nat \cup {NoWrite}] /\ job[t].app \in App
        /\ job[t] # IdleJob /\ job[t].pc = "write"
      BY <1>0, <1>5, JobFields DEF JobWrite
  <2> DEFINE j == [pc |-> "measure", todo |-> job[t].todo, seen |-> job[t].seen,
                   written |-> [job[t].written EXCEPT ![job[t].app] = job[t].found]]
  <2>2. job' = [job EXCEPT ![t] = j] /\ used' = used
      BY <1>5 DEF JobWrite, Proceed
  <2>3. j.pc = "measure" /\ (j.written[a] # NoWrite => j.written[a] = Usage(a))
      BY <1>0, <2>1 DEF RunInv, HasWritten
  <2> HIDE DEF j
  <2> QED BY <1>0, <1>2, <2>2, <2>3
<1>6. ASSUME NEW t \in Task, JobCommit(t) PROVE SiteInv(a)'
  <2>1. used'[a] = IF HasWritten(t, a) THEN job[t].written[a] ELSE used[a]
      BY <1>6 DEF JobCommit
  <2>2. Usage(a) <= used'[a]
      BY <1>0, <2>1 DEF RunInv
  <2> QED BY <1>2, <1>6, <2>2 DEF JobCommit, IdleJob
<1>7. ASSUME NEW t \in Task, AbortJob(t) PROVE SiteInv(a)'
    BY <1>0, <1>2, <1>7 DEF AbortJob, IdleJob
<1> QED BY <1>3, <1>4, <1>5, <1>6, <1>7, TaskAssumption DEF JobStep, JobRun, StartJob, StartJobFor

(* While a handler is alone at work on the site, no run has measured it,   *)
(* and none writes its column.                                             *)
LEMMA RunStaysAway ==
    ASSUME TypeOK, NEW a \in App, Sure(a), ~Crowded(a)', NEW r \in Request, WorksOn(r, a), JobStep
    PROVE  SiteInv(a)'
<1>1. HandlerInv(r, a) /\ \A t \in Task : ~Holds(t, a)
    BY DEF Sure, SiteInv, Crowded
<1>2. UNCHANGED <<objects, call>>
    BY DEF JobStep, StartJob, StartJobFor, StartTask, JobRun, JobMeasure, JobWrite, JobCommit,
           AbortJob, Proceed
<1>3. used'[a] = used[a]
  <2>1. ASSUME NEW t \in Task, JobCommit(t) PROVE used'[a] = used[a]
      BY <1>1, <2>1 DEF JobCommit, Holds
  <2> QED BY <2>1 DEF JobStep, StartJob, StartJobFor, StartTask, JobRun, JobMeasure, JobWrite,
                      AbortJob, Proceed
<1>4. Usage(a)' = Usage(a) /\ WorksOn(r, a)' /\ HandlerInv(r, a)'
    BY <1>1, <1>2, <1>3 DEF Usage, WorksOn, HandlerInv
<1> QED BY <1>4, AtWork

-----------------------------------------------------------------------------
(* The column falls short, and a site outgrows its plan, only by a race.   *)

LEMMA NextSure ==
    ASSUME SureInv, [LedgerNext]_ledgerVars
    PROVE  SureInv'
<1>1. TypeOK /\ TypeOK'
    BY NextTypes DEF SureInv, LedgerNext, ledgerVars, vars
<1>2. CASE UNCHANGED ledgerVars
  <2>1. ASSUME NEW a \in App \ unsure PROVE Sure(a)'
    <3>1. Sure(a)
        BY DEF SureInv
    <3>2. SiteInv(a)'
        BY <1>2, <3>1, Elsewhere DEF Sure, ledgerVars, WorksOn
    <3> QED BY <1>2, <3>1, <3>2 DEF Sure, Crowded, WorksOn, Holds, HasWritten, ledgerVars
  <2> QED BY <1>1, <1>2, <2>1 DEF SureInv, ledgerVars
<1>3. CASE Next /\ RecordDoubt
  <2> SUFFICES ASSUME NEW a \in App, a \notin unsure' PROVE Sure(a)'
      BY <1>1 DEF SureInv
  <2>1. Exact(a)' \/ (a \notin unsure /\ ~Crowded(a)' /\ ~Struck(a))
      BY <1>3 DEF RecordDoubt
  <2>2. CASE Exact(a)'
      BY <1>1, <2>2, ExactIsSure
  <2>3. CASE a \notin unsure /\ ~Crowded(a)' /\ ~Struck(a)
    <3>1. Sure(a)
        BY <2>3 DEF SureInv
    <3>2. CASE \E r \in Request : HandlerStep(r)
        BY <1>1, <2>3, <3>1, <3>2, HandlerKeeps DEF Sure
    <3>3. CASE JobStep
      <4>1. CASE Unattended(a)
          BY <1>1, <2>3, <3>1, <3>3, <4>1, RunKeeps DEF Sure
      <4>2. CASE ~Unattended(a)
          BY <1>1, <2>3, <3>1, <3>3, <4>2, RunStaysAway DEF Sure, Unattended
      <4> QED BY <4>1, <4>2
    <3> QED BY <1>3, <3>2, <3>3 DEF Next
  <2> QED BY <2>1, <2>2, <2>3
<1> QED BY <1>2, <1>3 DEF LedgerNext

LEMMA SureInvariance == LedgerSpec => []SureInv
<1>1. LedgerInit => SureInv
    BY InitSure
<1>2. SureInv /\ [LedgerNext]_ledgerVars => SureInv'
    BY NextSure
<1> QED BY <1>1, <1>2, PTL DEF LedgerSpec

(* Whatever fails and however many requests and runs overlap: the column   *)
(* of an app that nobody is at work on covers what the bucket holds,       *)
(* unless requests or runs overlapped on that app, or a request was cut    *)
(* off, since the column was last exact.                                   *)
THEOREM LedgerShort == LedgerSpec => []ShortOnlyByRace
<1>1. SureInv => ShortOnlyByRace
    BY DEF SureInv, Sure, SiteInv, SettledInv, Unattended, ShortOnlyByRace
<1> QED BY <1>1, SureInvariance, PTL

(* A DELETE removes what was at its key, or nothing.                       *)
LEMMA DeleteUsage ==
    ASSUME TypeOK, NEW a \in App, NEW new \in [Path -> Nat], objects'[a] = new,
           \A p \in Path : new[p] <= objects[a][p]
    PROVE  Usage(a)' <= Usage(a)
<1>1. objects[a] \in [Path -> Nat]
    BY UsageNat
<1>2. SumFunction(new) <= SumFunction(objects[a])
    BY <1>1, SiteSumMonotone, PathAssumption
<1> QED BY <1>2 DEF Usage

(* Only a PUT makes a site grow, and only its own.                         *)
LEMMA OnlyPutsGrow ==
    ASSUME TypeOK, NEW a \in App, NEW r \in Request, HandlerStep(r), ~PutFile(r), ~PutEntry(r)
    PROVE  Usage(a)' <= Usage(a)
<1>1. objects[a] \in [Path -> Nat] /\ Usage(a) \in Nat
    BY UsageNat
<1>2. CASE objects' = objects
    BY <1>1, <1>2 DEF Usage
<1>3. CASE \E b, p : objects' = [objects EXCEPT ![b][p] = 0]
  <2>1. PICK b, p : objects' = [objects EXCEPT ![b][p] = 0]
      BY <1>3
  <2>2. objects'[a] = IF a = b THEN [objects[a] EXCEPT ![p] = 0] ELSE objects[a]
      BY <2>1 DEF TypeOK
  <2>3. PICK new : new = objects'[a]
      OBVIOUS
  <2>4. new \in [Path -> Nat] /\ \A q \in Path : new[q] <= objects[a][q]
    <3>1. PICK site \in [Path -> Nat] : site = objects[a]
        BY <1>1
    <3>2. new = [site EXCEPT ![p] = 0] \/ new = site
        BY <2>2, <2>3, <3>1
    <3>3. \A q \in Path : new[q] \in Nat /\ new[q] <= site[q]
        BY <3>1, <3>2
    <3>4. new = [q \in Path |-> new[q]]
        BY <3>1, <3>2
    <3> QED BY <3>1, <3>3, <3>4
  <2> QED BY <2>3, <2>4, DeleteUsage
<1>4. CASE \E b, keys : objects' = [objects EXCEPT ![b] = Emptied(@, keys)]
  <2>1. PICK b, keys : objects' = [objects EXCEPT ![b] = Emptied(@, keys)]
      BY <1>4
  <2>2. objects'[a] = IF a = b THEN Emptied(objects[a], keys) ELSE objects[a]
      BY <2>1 DEF TypeOK
  <2>3. PICK new : new = objects'[a]
      OBVIOUS
  <2>4. new \in [Path -> Nat] /\ \A q \in Path : new[q] <= objects[a][q]
      BY <1>1, <2>2, <2>3 DEF Emptied
  <2> QED BY <2>3, <2>4, DeleteUsage
<1>5. DeleteFile(r) => \E b, p : objects' = [objects EXCEPT ![b][p] = 0]
    BY DEF DeleteFile
<1>6. DeleteBatch(r) => \E b, keys : objects' = [objects EXCEPT ![b] = Emptied(@, keys)]
    BY DEF DeleteBatch, SendBatch
<1>7. ~DeleteFile(r) /\ ~DeleteBatch(r) => objects' = objects
    BY DEF HandlerStep, BeginUpload, CommitUsed, BeginDeploy, Measure, BeginDeleteFile,
           BeginDeleteApp, ListPrefix, CommitDelete, AbortCall, Begin
<1> QED BY <1>2, <1>3, <1>4, <1>5, <1>6, <1>7

LEMMA LaterUsageNat ==
    ASSUME TypeOK', NEW a \in App
    PROVE  Usage(a)' \in Nat
<1>1. objects'[a] \in [Path -> Size \cup {0}] /\ Size \cup {0} \subseteq Nat
    BY SizeAssumption DEF TypeOK
<1>2. objects'[a] \in [Path -> Nat]
    BY <1>1
<1> QED BY <1>2, SiteSumNat, PathAssumption DEF Usage

LEMMA NextWithin ==
    ASSUME SureInv, [LedgerNext]_ledgerVars, NEW a \in App,
           Usage(a)' > Usage(a), Usage(a)' > Quota
    PROVE  a \in unsure
<1> SUFFICES ASSUME a \notin unsure PROVE FALSE
    OBVIOUS
<1>1. TypeOK /\ Sure(a) /\ Usage(a) \in Nat
    BY UsageNat DEF SureInv
<1>2. TypeOK'
    BY <1>1, NextTypes DEF LedgerNext, ledgerVars, vars
<1>3. objects' # objects
    BY <1>1 DEF Usage
<1>4. PICK r \in Request : HandlerStep(r)
    BY <1>3 DEF LedgerNext, ledgerVars, Next, JobStep, StartJob, StartJobFor, StartTask, JobRun,
                JobMeasure, JobWrite, JobCommit, AbortJob, Proceed
<1>5. ~WorksOn(r, a) => Usage(a)' = Usage(a)
    BY <1>1, <1>4, Frame DEF Usage
<1>6. WorksOn(r, a) /\ HandlerInv(r, a)
    BY <1>1, <1>5 DEF Sure, SiteInv
<1>7. CASE PutFile(r)
  <2>1. Usage(a)' \in Nat /\ Usage(a)' <= Quota
      BY <1>1, <1>6, <1>7, PutFileFits
  <2> QED BY <2>1, SizeAssumption
<1>8. CASE PutEntry(r)
  <2>1. call[r].pc = "put_entries" /\ \E f \in call[r].todo : PutObject(call[r].app, f)
      BY <1>8 DEF PutEntry
  <2>2. PICK f \in call[r].todo : PutObject(call[r].app, f)
      BY <2>1
  <2>3. /\ TotalOf(call[r].todo \ {f}) \in Nat /\ Usage(a)' \in Nat
        /\ Usage(a)' + TotalOf(call[r].todo \ {f}) <= Quota
      BY <1>1, <1>6, <2>1, <2>2, PutEntryFits
  <2> QED BY <2>3, SizeAssumption
<1>9. CASE ~PutFile(r) /\ ~PutEntry(r)
  <2>1. Usage(a)' <= Usage(a) /\ Usage(a)' \in Nat
      BY <1>1, <1>2, <1>4, <1>9, OnlyPutsGrow, LaterUsageNat
  <2> QED BY <1>1, <2>1
<1> QED BY <1>7, <1>8, <1>9

(* Whatever fails and however many requests and runs overlap: a step that  *)
(* makes a site grow to more than its plan allows is one on an app whose   *)
(* column an overlap or a cut-off request had put in doubt before.         *)
THEOREM OverrunByRace == LedgerSpec => OverrunOnlyByRace
<1>1. SureInv /\ [LedgerNext]_ledgerVars =>
          [\A a \in App : Usage(a)' > Usage(a) /\ Usage(a)' > Quota => a \in unsure]_ledgerVars
    BY NextWithin
<1> QED BY <1>1, SureInvariance, PTL DEF LedgerSpec, OverrunOnlyByRace

-----------------------------------------------------------------------------
(* A deletion that no upload crosses leaves nothing behind.                *)

Vacant(a) == \A p \in Path : objects[a][p] = 0

(* The deletion has listed all there was, and nothing has come since.      *)
DeletionInv(r, a) ==
    Deletes(r, a) =>
        /\ call[r].pc = "delete_batch" => \A p \in Path \ call[r].keys : objects[a][p] = 0
        /\ call[r].pc = "commit_delete" => Vacant(a)

OrphanInv(a) ==
    /\ ~Crossing(a)
    /\ deleted[a] => Vacant(a) /\ \A r \in Request : ~Puts(r, a)
    /\ \A r \in Request : DeletionInv(r, a)

UncrossedInv == TypeOK /\ \A a \in App \ crossed : OrphanInv(a)

LEMMA InitUncrossed == LedgerInit => UncrossedInv
<1> SUFFICES ASSUME LedgerInit PROVE UncrossedInv
    OBVIOUS
<1>1. TypeOK
    BY InitTypes DEF LedgerInit
<1>2. ASSUME NEW a \in App PROVE OrphanInv(a)
    BY DEF LedgerInit, Init, OrphanInv, Crossing, DeletionInv, Deletes, Puts, WorksOn
<1> QED BY <1>1, <1>2 DEF UncrossedInv

(* A step that puts nothing, deletes nothing but objects, and whose        *)
(* handler has nothing to show, or shows it.                               *)
LEMMA NothingComes ==
    ASSUME NEW a \in App, OrphanInv(a), ~Crossing(a)', NEW r \in Request,
           \A s \in Request \ {r} : call'[s] = call[s],
           deleted'[a] = deleted[a],
           \A p \in Path : objects[a][p] = 0 => objects'[a][p] = 0,
           Puts(r, a)' => Puts(r, a) \/ ~deleted[a],
           DeletionInv(r, a)'
    PROVE  OrphanInv(a)'
<1>1. \A s \in Request \ {r} : /\ Puts(s, a)' <=> Puts(s, a)
                               /\ Deletes(s, a)' <=> Deletes(s, a)
    BY DEF Puts, Deletes, WorksOn
<1>2. Vacant(a) => Vacant(a)'
    BY DEF Vacant
<1>3. ASSUME NEW s \in Request PROVE DeletionInv(s, a)'
  <2>1. CASE s = r
      BY <2>1
  <2>2. CASE s # r
    <3>1. DeletionInv(s, a)
        BY DEF OrphanInv
    <3> QED BY <1>1, <1>2, <2>2, <3>1 DEF DeletionInv
  <2> QED BY <2>1, <2>2
<1>4. deleted'[a] => Vacant(a)' /\ \A s \in Request : ~Puts(s, a)'
    BY <1>1, <1>2 DEF OrphanInv
<1> QED BY <1>3, <1>4 DEF OrphanInv

(* While an upload or a deploy is at work no deletion is.                  *)
LEMMA PutsUncrossed ==
    ASSUME TypeOK, NEW a \in App, OrphanInv(a), ~Crossing(a)', NEW r \in Request, Puts(r, a),
           NEW c, Goto(r, c), c.pc \notin {"list_prefix", "delete_batch", "commit_delete"},
           deleted'[a] = deleted[a]
    PROVE  OrphanInv(a)'
<1>1. call'[r] = c /\ \A s \in Request \ {r} : call'[s] = call[s]
    BY DEF Goto, TypeOK
<1>2. \A s \in Request : ~Deletes(s, a)
    BY DEF OrphanInv, Crossing
<1>3. \A s \in Request : ~Deletes(s, a)'
    BY <1>1, <1>2 DEF Deletes, WorksOn
<1>4. ~deleted'[a]
    BY DEF OrphanInv
<1> QED BY <1>3, <1>4 DEF OrphanInv, DeletionInv

LEMMA DeleteBatchUncrossed ==
    ASSUME TypeOK, NEW a \in App, OrphanInv(a), ~Crossing(a)', ~KeptKeys(a),
           NEW r \in Request, WorksOn(r, a), DeleteBatch(r)
    PROVE  OrphanInv(a)'
<1>keys. PICK keys : keys = call[r].keys
    OBVIOUS
<1>1. /\ call[r] \in Call /\ call[r].app = a /\ call[r].pc = "delete_batch"
      /\ deleted'[a] = deleted[a] /\ Deletes(r, a)
    BY Known DEF DeleteBatch, Deletes
<1>2. PICK batch \in Batches(keys) :
          /\ SendBatch(a, batch)
          /\ Goto(r, IF keys \ batch # {} THEN [call[r] EXCEPT !.keys = keys \ batch]
                     ELSE [pc |-> "commit_delete", app |-> a, seen |-> call[r].seen])
    BY <1>1, <1>keys DEF DeleteBatch
<1>3. faults' = faults
    BY <1>1, FaultyBatch DEF KeptKeys
<1>4. \A p \in Path \ keys : objects[a][p] = 0
    BY <1>1, <1>keys DEF OrphanInv, DeletionInv
<1>5. keys \in SUBSET Path
    BY <1>1, <1>keys, CallFields
<1>6. /\ batch \subseteq keys
      /\ \A p \in Path \ (keys \ batch) : objects'[a][p] = 0
    BY <1>2, <1>3, <1>4, <1>5, WholeBatch
<1>7. \A p \in Path : objects[a][p] = 0 => objects'[a][p] = 0
  <2>1. objects' = [objects EXCEPT ![a] = Emptied(@, batch)]
      BY <1>2, <1>3 DEF SendBatch, TypeOK
  <2>2. objects'[a] = Emptied(objects[a], batch)
      BY <2>1 DEF TypeOK
  <2> QED BY <2>2 DEF Emptied
<1>8. DOMAIN call[r] = {"pc", "app", "seen", "keys"}
    BY <1>1 DEF Call, IdleCall
<1>9. /\ call'[r].pc \in {"delete_batch", "commit_delete"}
      /\ call'[r].pc = "delete_batch" => call'[r].keys = keys \ batch
      /\ call'[r].pc = "commit_delete" => keys \ batch = {}
      /\ \A s \in Request \ {r} : call'[s] = call[s]
  <2>1. CASE keys \ batch # {}
    <3>1. call'[r] = [call[r] EXCEPT !.keys = keys \ batch]
        BY <1>2, <2>1 DEF Goto, TypeOK
    <3>2. call'[r].pc = "delete_batch" /\ call'[r].keys = keys \ batch
        BY <1>1, <1>8, <3>1
    <3> QED BY <1>2, <3>2 DEF Goto
  <2>2. CASE keys \ batch = {}
      BY <1>2, <2>2 DEF Goto, TypeOK
  <2> QED BY <2>1, <2>2
<1>10. DeletionInv(r, a)' /\ ~Puts(r, a)'
    BY <1>6, <1>9 DEF DeletionInv, Vacant, Puts
<1> QED BY <1>1, <1>7, <1>9, <1>10, NothingComes

LEMMA CommitDeleteUncrossed ==
    ASSUME TypeOK, NEW a \in App, OrphanInv(a), ~Crossing(a)',
           NEW r \in Request, WorksOn(r, a), CommitDelete(r)
    PROVE  OrphanInv(a)'
<1>1. /\ call[r].pc = "commit_delete" /\ call'[r] = IdleCall /\ objects' = objects
      /\ \A s \in Request \ {r} : call'[s] = call[s]
    BY DEF CommitDelete, Goto, TypeOK
<1>2. Deletes(r, a)
    BY <1>1 DEF Deletes
<1>3. Vacant(a) /\ \A s \in Request : ~Puts(s, a)
    BY <1>1, <1>2 DEF OrphanInv, DeletionInv, Crossing
<1>4. Vacant(a)' /\ \A s \in Request : ~Puts(s, a)'
    BY <1>1, <1>3 DEF Vacant, Puts, WorksOn
<1>5. \A s \in Request : DeletionInv(s, a)'
    BY <1>4 DEF DeletionInv, Vacant
<1> QED BY <1>4, <1>5 DEF OrphanInv

LEMMA HandlerUncrossed ==
    ASSUME TypeOK, NEW a \in App, OrphanInv(a), ~Crossing(a)', ~KeptKeys(a),
           NEW r \in Request, HandlerStep(r)
    PROVE  OrphanInv(a)'
<1>1. /\ \A s \in Request \ {r} : call'[s] = call[s]
      /\ ~WorksOn(r, a) => objects'[a] = objects[a] /\ deleted'[a] = deleted[a]
    BY Frame
<1>2. /\ call[r].pc # "idle" => call[r] # IdleCall
      /\ WorksOn(r, a) => a = call[r].app
    BY DEF IdleCall, WorksOn
<1>3. ASSUME ~WorksOn(r, a), ~WorksOn(r, a)' PROVE OrphanInv(a)'
  <2>1. ~Puts(r, a)' /\ DeletionInv(r, a)'
      BY <1>3 DEF Puts, DeletionInv, Deletes
  <2> QED BY <1>1, <1>3, <2>1, NothingComes
<1>4. ASSUME NEW b \in App, NEW c, Begin(r, b, c), c.app = b,
             c.pc \notin {"delete_batch", "commit_delete"}
      PROVE  OrphanInv(a)'
  <2>1. call'[r] = c /\ ~deleted[b] /\ UNCHANGED <<deleted, objects>>
      BY <1>4 DEF Begin, TypeOK
  <2>2. Puts(r, a)' => ~deleted[a]
      BY <1>4, <2>1 DEF Puts, WorksOn
  <2>3. DeletionInv(r, a)'
      BY <1>4, <2>1 DEF DeletionInv
  <2> QED BY <1>1, <2>1, <2>2, <2>3, NothingComes
<1>5. ASSUME NEW c, Goto(r, c), UNCHANGED <<deleted, objects>>,
             c.pc \in {"idle", "measure", "commit_used"}
      PROVE  OrphanInv(a)'
  <2>1. call'[r] = c
      BY <1>5 DEF Goto, TypeOK
  <2>2. ~Puts(r, a)' /\ DeletionInv(r, a)'
      BY <1>5, <2>1 DEF Puts, DeletionInv, Deletes
  <2> QED BY <1>1, <1>5, <2>2, NothingComes
<1>6. ASSUME NEW b \in App, NEW f \in File, BeginUpload(r, b, f) PROVE OrphanInv(a)'
    BY <1>4, <1>6 DEF BeginUpload
<1>7. ASSUME NEW b \in App, NEW files \in Archive, BeginDeploy(r, b, files) PROVE OrphanInv(a)'
    BY <1>4, <1>7 DEF BeginDeploy
<1>8. ASSUME NEW b \in App, NEW p \in Path, BeginDeleteFile(r, b, p) PROVE OrphanInv(a)'
    BY <1>4, <1>8 DEF BeginDeleteFile
<1>9. ASSUME NEW b \in App, BeginDeleteApp(r, b) PROVE OrphanInv(a)'
    BY <1>4, <1>9 DEF BeginDeleteApp
<1>10. CASE CommitUsed(r)
    BY <1>5, <1>10 DEF CommitUsed, IdleCall
<1>11. CASE Measure(r)
    BY <1>5, <1>11 DEF Measure
<1>12. CASE AbortCall(r)
    BY <1>5, <1>12 DEF AbortCall, IdleCall
<1>13. CASE ListPrefix(r)
  <2> DEFINE c == [pc |-> "delete_batch", app |-> call[r].app, seen |-> call[r].seen,
                   keys |-> {p \in Path : objects[call[r].app][p] # 0}]
  <2>1. call'[r] = c /\ UNCHANGED <<deleted, objects>>
      BY <1>13 DEF ListPrefix, Goto, TypeOK
  <2>2. ~Puts(r, a)'
      BY <2>1 DEF Puts
  <2>3. DeletionInv(r, a)'
      BY <2>1 DEF DeletionInv, Deletes, WorksOn
  <2> QED BY <1>1, <2>1, <2>2, <2>3, NothingComes
<1>14. ASSUME WorksOn(r, a), PutFile(r) PROVE OrphanInv(a)'
  <2>1. Puts(r, a) /\ deleted' = deleted
      BY <1>14 DEF Puts, PutFile
  <2> QED BY <1>14, <2>1, PutsUncrossed DEF PutFile
<1>15. ASSUME WorksOn(r, a), PutEntry(r) PROVE OrphanInv(a)'
  <2>1. Puts(r, a) /\ deleted' = deleted /\ call[r] \in Call /\ call[r].pc = "put_entries"
      BY <1>15 DEF Puts, PutEntry, TypeOK
  <2>2. PICK f : Goto(r, IF call[r].todo \ {f} # {}
                         THEN [call[r] EXCEPT !.todo = call[r].todo \ {f}]
                         ELSE [pc |-> "measure", app |-> call[r].app, seen |-> call[r].seen])
      BY <1>15 DEF PutEntry
  <2>3. [call[r] EXCEPT !.todo = call[r].todo \ {f}].pc = "put_entries"
      BY <2>1 DEF Call, IdleCall
  <2>4. CASE call[r].todo \ {f} # {}
      BY <2>1, <2>2, <2>3, <2>4, PutsUncrossed
  <2>5. CASE call[r].todo \ {f} = {}
      BY <2>1, <2>2, <2>5, PutsUncrossed
  <2> QED BY <2>4, <2>5
<1>16. ASSUME WorksOn(r, a), DeleteFile(r) PROVE OrphanInv(a)'
  <2>1. /\ call'[r] = [pc |-> "measure", app |-> call[r].app, seen |-> call[r].seen]
        /\ deleted' = deleted
      BY <1>16 DEF DeleteFile, Goto, TypeOK
  <2>2. PICK site : site = objects[a]
      OBVIOUS
  <2>3. site \in [Path -> Size \cup {0}] /\ objects'[a] = [site EXCEPT ![call[r].path] = 0]
      BY <1>2, <1>16, <2>2 DEF DeleteFile, TypeOK
  <2>4. \A p \in Path : site[p] = 0 => objects'[a][p] = 0
      BY <2>3
  <2>5. ~Puts(r, a)' /\ DeletionInv(r, a)'
      BY <2>1 DEF Puts, DeletionInv, Deletes
  <2> QED BY <1>1, <2>1, <2>2, <2>4, <2>5, NothingComes
<1>17. ASSUME call[r] # IdleCall, ~WorksOn(r, a), PutFile(r) \/ PutEntry(r) \/ DeleteFile(r)
                                                  \/ DeleteBatch(r) \/ CommitDelete(r)
       PROVE  ~WorksOn(r, a)'
  <2>1. call'[r].app = call[r].app \/ call'[r] = IdleCall
      BY <1>17, SameApp
  <2> QED BY <1>17, <2>1 DEF WorksOn
<1>18. CASE ~WorksOn(r, a) /\ (PutFile(r) \/ PutEntry(r) \/ DeleteFile(r) \/ DeleteBatch(r)
                               \/ CommitDelete(r))
  <2>1. call[r] # IdleCall
      BY <1>2, <1>18 DEF PutFile, PutEntry, DeleteFile, DeleteBatch, CommitDelete
  <2> QED BY <1>3, <1>17, <1>18, <2>1
<1>19. CASE WorksOn(r, a) /\ DeleteBatch(r)
    BY <1>19, DeleteBatchUncrossed
<1>20. CASE WorksOn(r, a) /\ CommitDelete(r)
    BY <1>20, CommitDeleteUncrossed
<1> QED BY <1>6, <1>7, <1>8, <1>9, <1>10, <1>11, <1>12, <1>13, <1>14, <1>15, <1>16, <1>18,
           <1>19, <1>20 DEF HandlerStep

LEMMA NextUncrossed ==
    ASSUME UncrossedInv, [LedgerNext]_ledgerVars
    PROVE  UncrossedInv'
<1>1. TypeOK /\ TypeOK'
    BY NextTypes DEF UncrossedInv, LedgerNext, ledgerVars, vars
<1>2. ASSUME NEW a \in App, UNCHANGED <<deleted, objects, call>>, OrphanInv(a) PROVE OrphanInv(a)'
    BY <1>2 DEF OrphanInv, Crossing, DeletionInv, Deletes, Puts, WorksOn, Vacant
<1>3. CASE UNCHANGED ledgerVars
    BY <1>1, <1>2, <1>3 DEF UncrossedInv, ledgerVars
<1>4. CASE Next /\ RecordCrossing
  <2> SUFFICES ASSUME NEW a \in App, a \notin crossed' PROVE OrphanInv(a)'
      BY <1>1 DEF UncrossedInv
  <2>1. a \notin crossed /\ ~Crossing(a)' /\ ~KeptKeys(a)
      BY <1>4 DEF RecordCrossing
  <2>2. OrphanInv(a)
      BY <2>1 DEF UncrossedInv
  <2>3. CASE \E r \in Request : HandlerStep(r)
      BY <1>1, <2>1, <2>2, <2>3, HandlerUncrossed
  <2>4. CASE JobStep
    <3>1. UNCHANGED <<deleted, objects, call>>
        BY <2>4 DEF JobStep, StartJob, StartJobFor, StartTask, JobRun, JobMeasure, JobWrite,
                    JobCommit, AbortJob, Proceed
    <3> QED BY <1>2, <2>2, <3>1
  <2> QED BY <1>4, <2>3, <2>4 DEF Next
<1> QED BY <1>3, <1>4 DEF LedgerNext

(* Whatever else overlaps and fails: a deletion that no upload or deploy   *)
(* of the app overlaps, and of whose keys R2 keeps none, leaves nothing in *)
(* the bucket, and nothing comes there afterwards.                         *)
THEOREM Orphans == LedgerSpec => []OrphansOnlyByOverlap
<1>1. LedgerInit => UncrossedInv
    BY InitUncrossed
<1>2. UncrossedInv /\ [LedgerNext]_ledgerVars => UncrossedInv'
    BY NextUncrossed
<1>3. UncrossedInv => OrphansOnlyByOverlap
  <2> SUFFICES ASSUME UncrossedInv, NEW a \in App \ crossed, deleted[a] PROVE Usage(a) = 0
      BY DEF OrphansOnlyByOverlap
  <2>1. DOMAIN objects[a] = Path /\ \A p \in Path : objects[a][p] = 0
      BY DEF UncrossedInv, OrphanInv, Vacant, TypeOK
  <2> QED BY <2>1, EmptySiteSum, PathAssumption DEF Usage
<1> QED BY <1>1, <1>2, <1>3, PTL DEF LedgerSpec

=============================================================================

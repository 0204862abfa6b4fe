------------------------- MODULE SiteAddressesProofs -------------------------
(***************************************************************************)
(* Theorems about SiteAddresses.                                           *)
(*                                                                         *)
(* The functions of SitePaths flatten sequences, and FlattenSeq is a       *)
(* recursive function on indices, so what they return is shown by          *)
(* induction on the length of a path.  The induction lemmas take the set   *)
(* of the values that have the property, and not the property, so that     *)
(* they can be cited.                                                      *)
(***************************************************************************)
EXTENDS SiteAddresses, FiniteSetTheorems, SequenceTheorems, WellFoundedInduction, TLAPS

-----------------------------------------------------------------------------
(* Induction on numbers and on sequences.                                  *)

LEMMA SmallestOf ==
    ASSUME NEW T \in SUBSET Nat, T # {}
    PROVE  \E m \in T : \A k \in T : m <= k
<1>1. IsWellFoundedOn(OpToRel(<, Nat), Nat)
    BY NatLessThanWellFounded
<1>2. PICK m \in T : \A k \in T : <<k, m>> \notin OpToRel(<, Nat)
    BY <1>1, WFMin
<1>3. \A k \in T : ~(k < m)
    BY <1>2 DEF OpToRel
<1> QED BY <1>3

LEMMA Induction ==
    ASSUME NEW Good, 0 \in Good, \A n \in Nat : n \in Good => n + 1 \in Good
    PROVE  \A n \in Nat : n \in Good
<1> SUFFICES ASSUME Nat \ Good # {} PROVE FALSE
    OBVIOUS
<1>1. PICK m \in Nat \ Good : \A k \in Nat \ Good : m <= k
    BY SmallestOf
<1>2. m # 0 /\ m - 1 \in Nat /\ m = (m - 1) + 1
    BY <1>1
<1>3. m - 1 \in Good
    BY <1>1, <1>2
<1> QED BY <1>1, <1>2, <1>3

LEMMA SequenceInduction ==
    ASSUME NEW S, NEW Good, <<>> \in Good,
           \A s \in Seq(S), e \in S : s \in Good => Append(s, e) \in Good
    PROVE  \A s \in Seq(S) : s \in Good
<1> DEFINE Lengths == {n \in Nat : \A s \in Seq(S) : Len(s) = n => s \in Good}
<1>1. 0 \in Lengths
    BY EmptySeq
<1>2. ASSUME NEW n \in Nat, n \in Lengths PROVE n + 1 \in Lengths
  <2> SUFFICES ASSUME NEW s \in Seq(S), Len(s) = n + 1 PROVE s \in Good
      OBVIOUS
  <2>1. s # <<>>
      BY EmptySeq
  <2>2. PICK t \in Seq(S), e \in S : s = Append(t, e)
      BY <2>1, SequenceEmptyOrAppend
  <2>3. Len(t) = n
      BY <2>2, AppendProperties, LenProperties
  <2> QED BY <1>2, <2>2, <2>3
<1> HIDE DEF Lengths
<1>3. \A n \in Nat : n \in Lengths
    BY <1>1, <1>2, Induction
<1> QED BY <1>3, LenProperties DEF Lengths

-----------------------------------------------------------------------------
(* FlattenSeq, a recursive function on the indices; Flattens is the        *)
(* equation it satisfies.                                                  *)

Flattens(h, seqs, n) ==
    h = [i \in 1..n |-> IF i = 1 THEN seqs[i] ELSE h[i - 1] \o seqs[i]]

LEMMA FlattensExists ==
    ASSUME NEW seqs, NEW n \in Nat
    PROVE  \E h : Flattens(h, seqs, n)
<1> DEFINE Good == {k \in Nat : \E h : Flattens(h, seqs, k)}
<1>1. 0 \in Good
  <2>1. Flattens([i \in 1..0 |-> {}], seqs, 0)
      BY DEF Flattens
  <2> QED BY <2>1
<1>2. ASSUME NEW k \in Nat, k \in Good PROVE k + 1 \in Good
  <2>1. PICK h : Flattens(h, seqs, k)
      BY <1>2
  <2> DEFINE g == [i \in 1..(k + 1) |->
                      IF i = k + 1 THEN (IF i = 1 THEN seqs[i] ELSE h[k] \o seqs[i]) ELSE h[i]]
  <2>2. ASSUME NEW i \in 1..(k + 1) PROVE g[i] = IF i = 1 THEN seqs[i] ELSE g[i - 1] \o seqs[i]
    <3>1. CASE i = k + 1
        BY <3>1
    <3>2. CASE i # k + 1
      <4>1. i \in 1..k
          BY <3>2
      <4>2. h[i] = IF i = 1 THEN seqs[i] ELSE h[i - 1] \o seqs[i]
          BY <2>1, <4>1 DEF Flattens
      <4>3. g[i] = h[i] /\ (i # 1 => g[i - 1] = h[i - 1])
          BY <4>1
      <4> QED BY <4>2, <4>3
    <3> QED BY <3>1, <3>2
  <2>3. g = [i \in 1..(k + 1) |-> g[i]]
      OBVIOUS
  <2> HIDE DEF g
  <2>4. Flattens(g, seqs, k + 1)
      BY <2>2, <2>3 DEF Flattens
  <2> QED BY <2>4
<1> HIDE DEF Good
<1>3. \A k \in Nat : k \in Good
    BY <1>1, <1>2, Induction
<1> QED BY <1>3 DEF Good

LEMMA FlattensAgree ==
    ASSUME NEW s, NEW t, NEW n \in Nat, NEW m \in Nat, NEW g, NEW h,
           Flattens(g, s, n), Flattens(h, t, m), n <= m, \A i \in 1..n : s[i] = t[i]
    PROVE  \A i \in 1..n : g[i] = h[i]
<1> DEFINE Good == {k \in Nat : k \in 1..n => g[k] = h[k]}
<1>1. 0 \in Good
    OBVIOUS
<1>2. ASSUME NEW k \in Nat, k \in Good PROVE k + 1 \in Good
  <2> SUFFICES ASSUME k + 1 \in 1..n PROVE g[k + 1] = h[k + 1]
      OBVIOUS
  <2>0. k + 1 \in 1..m /\ (k + 1) - 1 = k
      OBVIOUS
  <2>1. g[k + 1] = IF k + 1 = 1 THEN s[k + 1] ELSE g[k] \o s[k + 1]
    <3>1. \A i \in 1..n : g[i] = IF i = 1 THEN s[i] ELSE g[i - 1] \o s[i]
        BY DEF Flattens
    <3> QED BY <2>0, <3>1
  <2>2. h[k + 1] = IF k + 1 = 1 THEN t[k + 1] ELSE h[k] \o t[k + 1]
    <3>1. \A i \in 1..m : h[i] = IF i = 1 THEN t[i] ELSE h[i - 1] \o t[i]
        BY DEF Flattens
    <3> QED BY <2>0, <3>1
  <2>3. k + 1 # 1 => g[k] = h[k]
      BY <1>2
  <2> QED BY <2>1, <2>2, <2>3
<1> HIDE DEF Good
<1>3. \A k \in Nat : k \in Good
    BY <1>1, <1>2, Induction
<1> QED BY <1>3 DEF Good

FlattenedTo(seqs, n) == (CHOOSE h : Flattens(h, seqs, n))[n]

LEMMA FlattenDef ==
    ASSUME NEW seqs, Len(seqs) # 0
    PROVE  FlattenSeq(seqs) = FlattenedTo(seqs, Len(seqs))
BY DEF FlattenSeq, Flattens, FlattenedTo

LEMMA FlattenedOne ==
    ASSUME NEW seqs
    PROVE  FlattenedTo(seqs, 1) = seqs[1]
<1>1. PICK h : h = CHOOSE k : Flattens(k, seqs, 1)
    OBVIOUS
<1>2. Flattens(h, seqs, 1)
    BY <1>1, FlattensExists
<1> QED BY <1>1, <1>2 DEF Flattens, FlattenedTo

BeginsWith(all, seqs, n) == \A i \in 1..n : seqs[i] = all[i]

LEMMA FlattenedMore ==
    ASSUME NEW seqs, NEW all, NEW n \in Nat \ {0}, NEW m, m = n + 1, BeginsWith(all, seqs, n)
    PROVE  FlattenedTo(all, m) = FlattenedTo(seqs, n) \o all[m]
<1>1. PICK g, h : /\ g = CHOOSE k : Flattens(k, seqs, n)
                  /\ h = CHOOSE k : Flattens(k, all, m)
    OBVIOUS
<1>2. m \in Nat /\ n \in Nat /\ n <= m
    OBVIOUS
<1>3. Flattens(g, seqs, n) /\ Flattens(h, all, m)
    BY <1>1, <1>2, FlattensExists
<1>4. \A i \in 1..n : g[i] = h[i]
    BY <1>2, <1>3, FlattensAgree DEF BeginsWith
<1>5. \A i \in 1..m : h[i] = IF i = 1 THEN all[i] ELSE h[i - 1] \o all[i]
    BY <1>3 DEF Flattens
<1>6. m \in 1..m /\ n \in 1..n /\ m # 1 /\ m - 1 = n
    OBVIOUS
<1>7. h[m] = g[n] \o all[m]
  <2>1. h[m] = h[m - 1] \o all[m]
      BY <1>5, <1>6
  <2>2. h[n] = g[n]
      BY <1>4, <1>6
  <2> QED BY <1>6, <2>1, <2>2
<1> QED BY <1>1, <1>7 DEF FlattenedTo

LEMMA FlattenEmpty == FlattenSeq(<<>>) = <<>>
BY DEF FlattenSeq

LEMMA FlattenAppend ==
    ASSUME NEW S, NEW seqs \in Seq(Seq(S)), NEW last \in Seq(S)
    PROVE  FlattenSeq(Append(seqs, last)) = FlattenSeq(seqs) \o last
<1>1. PICK all, n, m : all = Append(seqs, last) /\ n = Len(seqs) /\ m = n + 1
    OBVIOUS
<1>2. /\ n \in Nat /\ m = n + 1 /\ Len(all) = m /\ all[m] = last
      /\ \A i \in 1..n : seqs[i] = all[i]
    BY <1>1, AppendProperties, LenProperties
<1>3. FlattenSeq(all) = FlattenedTo(all, m)
  <2>1. Len(all) # 0
      BY <1>1, <1>2
  <2> QED BY <1>2, <2>1, FlattenDef
<1>4. CASE n = 0
  <2>1. seqs = <<>>
      BY <1>1, <1>4, EmptySeq
  <2>2. FlattenSeq(all) = last
    <3>1. m = 1 /\ all[1] = last
        BY <1>2, <1>4
    <3> QED BY <1>3, <3>1, FlattenedOne
  <2> QED BY <1>1, <2>1, <2>2, FlattenEmpty, ConcatEmptySeq
<1>5. CASE n # 0
  <2>1. FlattenSeq(seqs) = FlattenedTo(seqs, n)
      BY <1>1, <1>5, FlattenDef
  <2>2. FlattenedTo(all, m) = FlattenedTo(seqs, n) \o all[m]
    <3>1. n \in Nat \ {0} /\ m = n + 1 /\ BeginsWith(all, seqs, n)
        BY <1>2, <1>5 DEF BeginsWith
    <3> QED BY <3>1, FlattenedMore
  <2> QED BY <1>1, <1>2, <1>3, <2>1, <2>2
<1> QED BY <1>4, <1>5

-----------------------------------------------------------------------------
(* Replacing each element of a sequence by a sequence.                     *)

Spread(g, s) == FlattenSeq([i \in DOMAIN s |-> g[s[i]]])

LEMMA SpreadEmpty == \A g : Spread(g, <<>>) = <<>>
<1> SUFFICES ASSUME NEW g PROVE Spread(g, <<>>) = <<>>
    OBVIOUS
<1>1. [i \in DOMAIN <<>> |-> g[<<>>[i]]] = <<>>
    OBVIOUS
<1> QED BY <1>1, FlattenEmpty DEF Spread

LEMMA SpreadAppend ==
    ASSUME NEW P, NEW g \in [P -> Seq(P)], NEW s \in Seq(P), NEW e \in P
    PROVE  Spread(g, Append(s, e)) = Spread(g, s) \o g[e]
<1> DEFINE images == [i \in DOMAIN s |-> g[s[i]]]
<1>1. images \in Seq(Seq(P)) /\ g[e] \in Seq(P)
    OBVIOUS
<1>2. [i \in DOMAIN Append(s, e) |-> g[Append(s, e)[i]]] = Append(images, g[e])
    OBVIOUS
<1>3. FlattenSeq(Append(images, g[e])) = FlattenSeq(images) \o g[e]
    BY <1>1, FlattenAppend
<1> QED BY <1>2, <1>3 DEF Spread

LEMMA SpreadType ==
    ASSUME NEW P, NEW g \in [P -> Seq(P)]
    PROVE  \A s \in Seq(P) : Spread(g, s) \in Seq(P)
<1> DEFINE Good == {s \in Seq(P) : Spread(g, s) \in Seq(P)}
<1>1. <<>> \in Good
    BY SpreadEmpty, EmptySeq
<1>2. ASSUME NEW s \in Seq(P), NEW e \in P, s \in Good PROVE Append(s, e) \in Good
  <2>1. Spread(g, Append(s, e)) = Spread(g, s) \o g[e]
      BY SpreadAppend
  <2>2. g[e] \in Seq(P) /\ Append(s, e) \in Seq(P)
      BY AppendProperties
  <2>3. Spread(g, s) \o g[e] \in Seq(P)
      BY <1>2, <2>2, ConcatProperties
  <2> QED BY <2>1, <2>2, <2>3
<1> HIDE DEF Good
<1>3. \A s \in Seq(P) : s \in Good
    BY <1>1, <1>2, SequenceInduction
<1> QED BY <1>3 DEF Good

Regroups(x, y, z) == (x \o y) \o z = x \o (y \o z)

LEMMA Regrouping ==
    ASSUME NEW S, NEW x \in Seq(S), NEW y \in Seq(S), NEW z \in Seq(S)
    PROVE  Regroups(x, y, z)
BY ConcatAssociative DEF Regroups

LEMMA SpreadConcat ==
    ASSUME NEW P, NEW g \in [P -> Seq(P)], NEW s \in Seq(P)
    PROVE  \A t \in Seq(P) : Spread(g, s \o t) = Spread(g, s) \o Spread(g, t)
<1> DEFINE Good == {t \in Seq(P) : Spread(g, s \o t) = Spread(g, s) \o Spread(g, t)}
<1>1. <<>> \in Good
  <2>1. s \o <<>> = s /\ Spread(g, <<>>) = <<>> /\ Spread(g, s) \in Seq(P) /\ <<>> \in Seq(P)
      BY SpreadEmpty, SpreadType, ConcatEmptySeq, EmptySeq
  <2> QED BY <2>1, ConcatEmptySeq
<1>2. ASSUME NEW t \in Seq(P), NEW e \in P, t \in Good PROVE Append(t, e) \in Good
  <2>1. s \o Append(t, e) = Append(s \o t, e) /\ s \o t \in Seq(P) /\ Append(t, e) \in Seq(P)
      OBVIOUS
  <2>2. Spread(g, Append(s \o t, e)) = Spread(g, s \o t) \o g[e]
      BY <2>1, SpreadAppend
  <2>3. Spread(g, Append(t, e)) = Spread(g, t) \o g[e]
      BY SpreadAppend
  <2>4. Spread(g, s) \in Seq(P) /\ Spread(g, t) \in Seq(P) /\ g[e] \in Seq(P)
      BY SpreadType
  <2>5. (Spread(g, s) \o Spread(g, t)) \o g[e] = Spread(g, s) \o (Spread(g, t) \o g[e])
    <3>1. Regroups(Spread(g, s), Spread(g, t), g[e])
        BY <2>4, Regrouping
    <3> QED BY <3>1 DEF Regroups
  <2> QED BY <1>2, <2>1, <2>2, <2>3, <2>5
<1> HIDE DEF Good
<1>3. \A t \in Seq(P) : t \in Good
    BY <1>1, <1>2, SequenceInduction
<1> QED BY <1>3 DEF Good

LEMMA SpreadOne ==
    ASSUME NEW P, NEW g \in [P -> Seq(P)], NEW e \in P
    PROVE  Spread(g, <<e>>) = g[e]
<1>1. <<e>> = Append(<<>>, e) /\ <<>> \in Seq(P) /\ g[e] \in Seq(P)
    OBVIOUS
<1>2. Spread(g, Append(<<>>, e)) = Spread(g, <<>>) \o g[e]
    BY <1>1, SpreadAppend
<1>3. <<>> \o g[e] = g[e]
    BY <1>1, ConcatEmptySeq
<1> QED BY <1>1, <1>2, <1>3, SpreadEmpty

KeepsOrDrops(g, P) == \A p \in P : g[p] \in {<<>>, <<p>>}

KeptFrom(g, s, q) == \E i \in 1..Len(s) : g[s[i]] = <<s[i]>> /\ q = s[i]

LEMMA SpreadKeeps ==
    ASSUME NEW P, NEW g \in [P -> Seq(P)], KeepsOrDrops(g, P)
    PROVE  \A s \in Seq(P) : \A j \in 1..Len(Spread(g, s)) : KeptFrom(g, s, Spread(g, s)[j])
<1> DEFINE From(s, q) == \E i \in 1..Len(s) : g[s[i]] = <<s[i]>> /\ q = s[i]
<1> DEFINE Good == {s \in Seq(P) : \A j \in 1..Len(Spread(g, s)) : From(s, Spread(g, s)[j])}
<1>0. \A p \in P : g[p] \in {<<>>, <<p>>}
    BY DEF KeepsOrDrops
<1>1. <<>> \in Good
  <2>1. <<>> \in Seq(P) /\ Len(Spread(g, <<>>)) = 0
      BY SpreadEmpty, EmptySeq
  <2> QED BY <2>1
<1>2. ASSUME NEW s \in Seq(P), NEW e \in P, s \in Good PROVE Append(s, e) \in Good
  <2>1. PICK x, y, n, t : /\ x = Spread(g, s) /\ y = g[e] /\ n = Len(s)
                          /\ t = Append(s, e)
      OBVIOUS
  <2>2. /\ x \in Seq(P) /\ y \in Seq(P) /\ n \in Nat /\ t \in Seq(P) /\ Len(t) = n + 1
        /\ t[n + 1] = e /\ \A i \in 1..n : t[i] = s[i]
    <3>1. x \in Seq(P) /\ y \in Seq(P)
        BY <2>1, SpreadType
    <3> QED BY <2>1, <3>1, AppendProperties, LenProperties
  <2>3. Spread(g, t) = x \o y
      BY <2>1, SpreadAppend
  <2>4. ASSUME NEW j \in 1..Len(x \o y) PROVE From(t, (x \o y)[j])
    <3>1. CASE j <= Len(x)
      <4>1. (x \o y)[j] = x[j] /\ j \in 1..Len(x)
          BY <2>2, <3>1, ConcatProperties, LenProperties
      <4>2. PICK i : i \in 1..Len(s) /\ g[s[i]] = <<s[i]>> /\ x[j] = s[i]
          BY <1>2, <2>1, <4>1
      <4>3. i \in 1..Len(t) /\ t[i] = s[i]
          BY <2>1, <2>2, <4>2
      <4> QED BY <4>1, <4>2, <4>3
    <3>2. CASE ~(j <= Len(x))
      <4>1. (x \o y)[j] = y[j - Len(x)] /\ j - Len(x) \in 1..Len(y)
          BY <2>2, <3>2, ConcatProperties, LenProperties
      <4>2. n + 1 \in 1..Len(t) /\ t[n + 1] = e
          BY <2>2
      <4>3. y \in {<<>>, <<e>>}
          BY <1>0, <2>1
      <4>4. PICK k : k = j - Len(x)
          OBVIOUS
      <4>5. y = <<e>>
        <5>1. k \in 1..Len(y)
            BY <4>1, <4>4
        <5> QED BY <4>3, <5>1
      <4>6. k = 1
        <5>1. k \in 1..Len(<<e>>)
            BY <4>1, <4>4, <4>5
        <5> QED BY <5>1
      <4>7. (x \o y)[j] = e
        <5>1. <<e>>[1] = e
            OBVIOUS
        <5> QED BY <4>1, <4>4, <4>5, <4>6, <5>1
      <4> QED BY <2>1, <4>2, <4>5, <4>7
    <3> QED BY <3>1, <3>2
  <2> HIDE DEF From
  <2> QED BY <2>1, <2>2, <2>3, <2>4
<1> HIDE DEF Good
<1>3. \A s \in Seq(P) : s \in Good
    BY <1>1, <1>2, SequenceInduction
<1> QED BY <1>3 DEF Good, KeptFrom

LEMMA SpreadSame ==
    ASSUME NEW P, NEW g \in [P -> Seq(P)]
    PROVE  \A s \in Seq(P) : (\A i \in 1..Len(s) : g[s[i]] = <<s[i]>>) => Spread(g, s) = s
<1> DEFINE Alone(s) == \A i \in 1..Len(s) : g[s[i]] = <<s[i]>>
<1> DEFINE Good == {s \in Seq(P) : Alone(s) => Spread(g, s) = s}
<1>1. <<>> \in Good
    BY SpreadEmpty, EmptySeq
<1>2. ASSUME NEW s \in Seq(P), NEW e \in P, s \in Good PROVE Append(s, e) \in Good
  <2> SUFFICES ASSUME Alone(Append(s, e)) PROVE Spread(g, Append(s, e)) = Append(s, e)
      BY AppendProperties
  <2>1. PICK n, t : n = Len(s) /\ t = Append(s, e)
      OBVIOUS
  <2>2. n \in Nat /\ Len(t) = n + 1 /\ t[n + 1] = e /\ \A i \in 1..n : t[i] = s[i]
      BY <2>1, AppendProperties, LenProperties
  <2>3. Alone(s)
      BY <2>1, <2>2
  <2>4. g[e] = <<e>>
    <3>1. n + 1 \in 1..Len(t)
        BY <2>2
    <3> QED BY <2>1, <2>2, <3>1
  <2>5. Spread(g, t) = s \o <<e>>
    <3>1. Spread(g, t) = Spread(g, s) \o g[e]
        BY <2>1, SpreadAppend
    <3> QED BY <1>2, <2>3, <2>4, <3>1
  <2> QED BY <2>1, <2>5, AppendIsConcat
<1> HIDE DEF Good
<1>3. \A s \in Seq(P) : s \in Good
    BY <1>1, <1>2, SequenceInduction
<1> QED BY <1>3 DEF Good

-----------------------------------------------------------------------------
(* Names.                                                                  *)

LEMMA MinOf ==
    ASSUME NEW T \in SUBSET Nat, T # {}
    PROVE  Min(T) \in T /\ \A k \in T : Min(T) <= k
BY SmallestOf DEF Min

LEMMA MaxOf ==
    ASSUME NEW n \in Nat, NEW T \in SUBSET 0..n, T # {}
    PROVE  Max(T) \in T /\ \A k \in T : k <= Max(T)
<1> DEFINE U == {n - k : k \in T}
<1>1. U \in SUBSET Nat /\ U # {}
  <2>1. \A k \in T : n - k \in Nat
      OBVIOUS
  <2> QED BY <2>1
<1> HIDE DEF U
<1>2. PICK u \in U : \A v \in U : u <= v
    BY <1>1, SmallestOf
<1>3. PICK m \in T : u = n - m
    BY <1>2 DEF U
<1>4. ASSUME NEW k \in T PROVE k <= m
  <2>1. n - m <= n - k
      BY <1>2, <1>3 DEF U
  <2> QED BY <2>1
<1>5. m \in T /\ \A k \in T : m >= k
    BY <1>4
<1>6. Max(T) \in T /\ \A k \in T : Max(T) >= k
    BY <1>5 DEF Max
<1> QED BY <1>6

LEMMA TrimmedType ==
    ASSUME NEW t \in Seq(Char)
    PROVE  Trimmed(t) \in Seq(Char)
<1>1. PICK ink : ink = {i \in DOMAIN t : t[i] # Space}
    OBVIOUS
<1>2. CASE ink = {}
    BY <1>1, <1>2 DEF Trimmed
<1>3. CASE ink # {}
  <2>1. ink \in SUBSET (1..Len(t)) /\ Len(t) \in Nat
      BY <1>1
  <2>2. Min(ink) \in ink
      BY <1>3, <2>1, MinOf
  <2>3. Max(ink) \in ink
    <3>1. ink \in SUBSET (0..Len(t))
        BY <2>1
    <3> QED BY <1>3, <2>1, <3>1, MaxOf
  <2>4. PICK m, n : m = Min(ink) /\ n = Max(ink)
      OBVIOUS
  <2>5. m \in 1..Len(t) /\ n \in 1..Len(t)
      BY <2>1, <2>2, <2>3, <2>4
  <2>6. SubSeq(t, m, n) \in Seq(Char)
      BY <2>5
  <2> QED BY <1>1, <1>3, <2>4, <2>6 DEF Trimmed
<1> QED BY <1>2, <1>3

LEMMA LoweredType ==
    ASSUME NEW t \in Seq(Char)
    PROVE  /\ Lowered(t) \in Seq(Char) /\ Len(Lowered(t)) = Len(t)
           /\ \A i \in 1..Len(t) : Lowered(t)[i] = IF t[i] = Capital THEN Letter ELSE t[i]
BY DEF Lowered, Char

(* A name without spaces is not trimmed.                                   *)
LEMMA TrimmedSame ==
    ASSUME NEW t \in Seq(Char), t # <<>>, \A i \in 1..Len(t) : t[i] # Space
    PROVE  Trimmed(t) = t
<1>1. PICK ink : ink = {i \in DOMAIN t : t[i] # Space}
    OBVIOUS
<1>2. PICK n : n = Len(t)
    OBVIOUS
<1>3. n \in Nat \ {0} /\ ink = 1..n
    BY <1>1, <1>2, EmptySeq, LenProperties
<1>4. ink \in SUBSET Nat /\ ink \in SUBSET (0..n) /\ 1 \in ink /\ n \in ink
    BY <1>3
<1>5. Min(ink) = 1
  <2>1. Min(ink) \in ink /\ \A k \in ink : Min(ink) <= k
      BY <1>4, MinOf
  <2>2. Min(ink) <= 1 /\ Min(ink) \in 1..n
      BY <1>3, <1>4, <2>1
  <2> QED BY <1>3, <2>2
<1>6. Max(ink) = n
  <2>1. Max(ink) \in ink /\ \A k \in ink : k <= Max(ink)
      BY <1>3, <1>4, MaxOf
  <2>2. n <= Max(ink) /\ Max(ink) \in 1..n
      BY <1>3, <1>4, <2>1
  <2> QED BY <1>3, <2>2
<1>7. SubSeq(t, 1, Len(t)) = t
    BY SubSeqFull
<1> QED BY <1>1, <1>2, <1>4, <1>5, <1>6, <1>7 DEF Trimmed

ValidLabel(t) == t \in Seq(Char) /\ MatchesRegex(t) /\ t \notin Reserved

LEMMA ValidatedIsValid ==
    ASSUME NEW t \in Seq(Char), ValidateSubdomain(t) # NoTenant
    PROVE  ValidLabel(ValidateSubdomain(t))
BY TrimmedType, LoweredType DEF ValidateSubdomain, ValidLabel

LEMMA ReachedAs ==
    ASSUME NEW name, ValidLabel(name), NEW t \in Seq(Char), Lowered(t) = name
    PROVE  ExtractSubdomain(LiveHost(t)) = name
<1>1. PICK n : n = Len(t)
    OBVIOUS
<1>2. /\ n \in Nat \ {0} /\ Len(name) = n /\ name \in Seq(Char)
      /\ \A i \in 1..n : /\ name[i] = IF t[i] = Capital THEN Letter ELSE t[i]
                         /\ name[i] \in {Letter, Hyphen}
    BY <1>1, LoweredType, LenProperties DEF ValidLabel, MatchesRegex
<1>3. PICK x : x = t \o <<Dot>>
    OBVIOUS
<1>4. /\ x \in Seq(Char) /\ Len(x) = n + 1 /\ x # <<>>
      /\ \A i \in 1..n : x[i] = t[i]
      /\ x[n + 1] = Dot
  <2>1. <<Dot>> \in Seq(Char)
      BY DEF Char
  <2> QED BY <1>1, <1>2, <1>3, <2>1
<1>5. \A i \in 1..Len(x) : x[i] # Space
    BY <1>2, <1>4, CharAssumption
<1>6. Trimmed(x) = x
    BY <1>4, <1>5, TrimmedSame
<1>7. PICK y : y = Lowered(x)
    OBVIOUS
<1>8. /\ y \in Seq(Char) /\ Len(y) = n + 1
      /\ \A i \in 1..n : y[i] = name[i]
    BY <1>2, <1>4, <1>7, LoweredType
<1>9. Front(y) = name
  <2>1. Front(y) = SubSeq(y, 1, n)
      BY <1>2, <1>8 DEF Front
  <2>2. /\ SubSeq(y, 1, n) \in Seq(Char) /\ Len(SubSeq(y, 1, n)) = n
        /\ \A i \in 1..n : SubSeq(y, 1, n)[i] = y[i]
      BY <1>2, <1>8
  <2> QED BY <1>2, <1>8, <2>1, <2>2, SeqEqual
<1>10. name # <<>> /\ ~Contains(name, Dot)
    BY <1>2, CharAssumption DEF Contains
<1> QED BY <1>3, <1>6, <1>7, <1>9, <1>10 DEF ExtractSubdomain, LiveHost, ValidLabel

LabelInv == Exists => ValidLabel(label)

(* Every app that can be created can be visited, whatever the reserved     *)
(* names, the lengths and the environment: what validate_subdomain lets    *)
(* through, extract_subdomain finds again in the live URL, in any case.    *)
THEOREM AppsAreReachable == Spec => []LiveUrlReaches
<1>1. Init => LabelInv
    BY DEF Init, LabelInv, Exists
<1>2. LabelInv /\ [Next]_vars => LabelInv'
  <2> SUFFICES ASSUME LabelInv, [Next]_vars PROVE LabelInv'
      OBVIOUS
  <2>1. ASSUME NEW t \in Label, CreateApp(t) PROVE LabelInv'
    <3>1. t \in Seq(Char) /\ label' = ValidateSubdomain(t)
        BY <2>1, AddressAssumption DEF CreateApp
    <3> QED BY <3>1, ValidatedIsValid DEF LabelInv, Exists
  <2>2. CASE label' = label
      BY <2>2 DEF LabelInv, Exists
  <2> QED BY <2>1, <2>2 DEF Next, SetIndex, Upload, Deploy, DeleteFile, vars
<1>3. LabelInv => LiveUrlReaches
    BY ReachedAs, AddressAssumption DEF LabelInv, LiveUrlReaches
<1> QED BY <1>1, <1>2, <1>3, PTL DEF Spec

-----------------------------------------------------------------------------
(* Pieces, decoding and splitting.                                         *)

LEMMA RawPieces ==
    /\ \A w \in Word : Raw(w) \in Piece /\ Raw(w).esc = 0 /\ Raw(w).names = <<w>>
    /\ \A v, w : Raw(v) = Raw(w) => v = w
    /\ \A p \in Piece : p.esc = 0 => \E w \in Word : p = Raw(w)
BY DEF Raw, Piece

SpecialWords == {Empty, Here, Parent, Ellipsis, Null, Blank}

LEMMA SpecialPieces ==
    /\ \A w \in SpecialWords : Raw(w) \in Piece
    /\ \A w \in Hidden : /\ Raw(w) \in Piece /\ w \notin SpecialWords
                         /\ Bare[w] \in Word \ (SpecialWords \cup Hidden)
BY WordAssumption, RawPieces DEF SpecialWords

Decoding == [p \in Piece |-> DecodedPiece(p)]

Keeping == [p \in Piece |-> Kept(p)]

LEMMA DecodingType ==
    /\ Decoding \in [Piece -> Seq(Piece)]
    /\ \A p \in Piece : Decoding[p] # <<>>
    /\ \A p \in Piece : p.esc = 0 => Decoding[p] = <<p>>
<1>1. ASSUME NEW p \in Piece
      PROVE  /\ DecodedPiece(p) \in Seq(Piece) /\ DecodedPiece(p) # <<>>
             /\ p.esc = 0 => DecodedPiece(p) = <<p>>
  <2>1. CASE p.esc = 0
    <3>1. PICK w \in Word : p = Raw(w)
        BY <2>1, RawPieces
    <3>2. [p EXCEPT !.esc = IF @ = 0 THEN 0 ELSE @ - 1] = p
        BY <2>1, <3>1 DEF Raw
    <3>3. DecodedPiece(p) = <<p>>
        BY <2>1, <3>2 DEF DecodedPiece
    <3> QED BY <3>3
  <2>2. CASE p.esc # 0
    <3>1. p \in [names: Seq(Word) \ {<<>>}, esc: Nat \ {0}]
        BY <2>2 DEF Piece, Raw
    <3>2. CASE p.esc = 1
      <4>1. PICK names : names = p.names
          OBVIOUS
      <4>2. names \in Seq(Word) /\ names # <<>>
          BY <3>1, <4>1
      <4>3. DecodedPiece(p) = [j \in DOMAIN names |-> Raw(names[j])]
          BY <3>2, <4>1 DEF DecodedPiece
      <4>4. [j \in DOMAIN names |-> Raw(names[j])] \in Seq(Piece)
          BY <4>2, RawPieces
      <4>5. Len([j \in DOMAIN names |-> Raw(names[j])]) = Len(names) /\ Len(names) # 0
          BY <4>2, EmptySeq
      <4> QED BY <2>2, <4>3, <4>4, <4>5, EmptySeq
    <3>3. CASE p.esc # 1
      <4>1. DecodedPiece(p) = <<[p EXCEPT !.esc = p.esc - 1]>>
          BY <2>2, <3>3 DEF DecodedPiece
      <4>2. [p EXCEPT !.esc = p.esc - 1] \in Piece
        <5>1. [p EXCEPT !.esc = p.esc - 1] \in [names: Seq(Word) \ {<<>>}, esc: Nat \ {0}]
            BY <3>1, <3>3
        <5> QED BY <5>1 DEF Piece
      <4> QED BY <2>2, <4>1, <4>2
    <3> QED BY <3>2, <3>3
  <2> QED BY <2>1, <2>2
<1> QED BY <1>1 DEF Decoding

LEMMA KeepingType ==
    /\ Keeping \in [Piece -> Seq(Piece)]
    /\ \A p \in Piece : Keeping[p] \in {<<>>, <<p>>}
    /\ \A p \in Piece : Keeping[p] = <<p>> => p \notin {Raw(Empty), Raw(Here)}
    /\ \A p \in Piece : p \notin {Raw(Empty), Raw(Here)} => Keeping[p] = <<p>>
    /\ Keeping[Raw(Empty)] = <<>>
<1>1. Raw(Empty) \in Piece
    BY SpecialPieces DEF SpecialWords
<1> QED BY <1>1 DEF Keeping, Kept

LEMMA DecodedIsSpread ==
    ASSUME NEW path \in Seq(Piece)
    PROVE  Decoded(path) = Spread(Decoding, path) /\ Parts(path) = Spread(Keeping, path)
<1>1. \A i \in DOMAIN path : path[i] \in Piece
    OBVIOUS
<1>2. [i \in DOMAIN path |-> DecodedPiece(path[i])] = [i \in DOMAIN path |-> Decoding[path[i]]]
    BY <1>1 DEF Decoding
<1>3. [i \in DOMAIN path |-> Kept(path[i])] = [i \in DOMAIN path |-> Keeping[path[i]]]
    BY <1>1 DEF Keeping
<1> QED BY <1>2, <1>3 DEF Decoded, Parts, Spread

LEMMA DecodedType ==
    ASSUME NEW path \in Seq(Piece)
    PROVE  Decoded(path) \in Seq(Piece)
BY DecodedIsSpread, DecodingType, SpreadType

LEMMA DecodedConcat ==
    ASSUME NEW x \in Seq(Piece), NEW y \in Seq(Piece)
    PROVE  Decoded(x \o y) = Decoded(x) \o Decoded(y)
<1>1. x \o y \in Seq(Piece)
    BY ConcatProperties
<1>2. Spread(Decoding, x \o y) = Spread(Decoding, x) \o Spread(Decoding, y)
  <2>1. Decoding \in [Piece -> Seq(Piece)]
      BY DecodingType
  <2> QED BY <2>1, SpreadConcat
<1> QED BY <1>1, <1>2, DecodedIsSpread

LEMMA DecodedRaw ==
    ASSUME NEW path \in Seq(Piece), IsRaw(path)
    PROVE  Decoded(path) = path
<1>1. \A i \in 1..Len(path) : Decoding[path[i]] = <<path[i]>>
    BY DecodingType DEF IsRaw
<1>2. Spread(Decoding, path) = path
    BY <1>1, DecodingType, SpreadSame
<1> QED BY <1>2, DecodedIsSpread

LEMMA DecodedNonEmpty ==
    ASSUME NEW path \in Seq(Piece), path # <<>>
    PROVE  Decoded(path) # <<>>
<1>1. PICK s \in Seq(Piece), e \in Piece : path = Append(s, e)
    BY SequenceEmptyOrAppend
<1>2. Decoded(path) = Spread(Decoding, s) \o Decoding[e]
    BY <1>1, DecodedIsSpread, DecodingType, SpreadAppend
<1>3. Spread(Decoding, s) \in Seq(Piece) /\ Decoding[e] \in Seq(Piece) /\ Decoding[e] # <<>>
    BY DecodingType, SpreadType
<1> QED BY <1>2, <1>3, ConcatEqualIffEmpty

LEMMA PartsType ==
    ASSUME NEW path \in Seq(Piece)
    PROVE  /\ Parts(path) \in Seq(Piece)
           /\ \A j \in 1..Len(Parts(path)) :
                 /\ Parts(path)[j] \notin {Raw(Empty), Raw(Here)}
                 /\ \E i \in 1..Len(path) : Parts(path)[j] = path[i]
<1>1. Parts(path) = Spread(Keeping, path)
    BY DecodedIsSpread
<1>2. Parts(path) \in Seq(Piece)
    BY <1>1, KeepingType, SpreadType
<1>3. ASSUME NEW j \in 1..Len(Parts(path))
      PROVE  /\ Parts(path)[j] \notin {Raw(Empty), Raw(Here)}
             /\ \E i \in 1..Len(path) : Parts(path)[j] = path[i]
  <2>1. PICK i \in 1..Len(path) : Keeping[path[i]] = <<path[i]>> /\ Spread(Keeping, path)[j] = path[i]
    <3>1. Keeping \in [Piece -> Seq(Piece)] /\ KeepsOrDrops(Keeping, Piece)
        BY KeepingType DEF KeepsOrDrops
    <3>2. \A s \in Seq(Piece) : \A q \in 1..Len(Spread(Keeping, s)) :
              KeptFrom(Keeping, s, Spread(Keeping, s)[q])
        BY <3>1, SpreadKeeps
    <3>3. j \in 1..Len(Spread(Keeping, path))
        BY <1>1
    <3> QED BY <3>2, <3>3 DEF KeptFrom
  <2>2. path[i] \in Piece
      OBVIOUS
  <2>3. path[i] \notin {Raw(Empty), Raw(Here)}
      BY <2>1, <2>2, KeepingType
  <2> QED BY <1>1, <2>1, <2>3
<1> QED BY <1>2, <1>3

LEMMA PartsConcat ==
    ASSUME NEW x \in Seq(Piece), NEW y \in Seq(Piece)
    PROVE  Parts(x \o y) = Parts(x) \o Parts(y)
<1>1. x \o y \in Seq(Piece)
    BY ConcatProperties
<1>2. Spread(Keeping, x \o y) = Spread(Keeping, x) \o Spread(Keeping, y)
  <2>1. Keeping \in [Piece -> Seq(Piece)]
      BY KeepingType
  <2> QED BY <2>1, SpreadConcat
<1> QED BY <1>1, <1>2, DecodedIsSpread

LEMMA PartsSame ==
    ASSUME NEW path \in Seq(Piece), \A i \in 1..Len(path) : path[i] \notin {Raw(Empty), Raw(Here)}
    PROVE  Parts(path) = path
<1>1. \A i \in 1..Len(path) : Keeping[path[i]] = <<path[i]>>
    BY KeepingType
<1>2. Spread(Keeping, path) = path
    BY <1>1, KeepingType, SpreadSame
<1> QED BY <1>2, DecodedIsSpread

-----------------------------------------------------------------------------
(* lstrip.                                                                 *)

LEMMA UnhiddenFacts ==
    ASSUME NEW parts \in Seq(Piece), parts # <<>>
    PROVE  /\ Unhidden(parts) \in Seq(Piece) /\ Len(Unhidden(parts)) = Len(parts)
           /\ \A i \in 2..Len(parts) : Unhidden(parts)[i] = parts[i]
           /\ \/ \E w \in Hidden : parts[1] = Raw(w) /\ Unhidden(parts)[1] = Raw(Bare[w])
              \/ (\A w \in Hidden : parts[1] # Raw(w)) /\ Unhidden(parts) = parts
<1>1. Head(parts) = parts[1] /\ Len(parts) \in Nat \ {0}
    BY EmptySeq, LenProperties
<1>2. CASE \E w \in Hidden : parts[1] = Raw(w)
  <2>1. PICK w \in Hidden : parts[1] = Raw(w)
      BY <1>2
  <2>2. parts[1].names[1] = w
      BY <2>1 DEF Raw
  <2>3. PICK b : b = Raw(Bare[w])
      OBVIOUS
  <2>4. b \in Piece
      BY <2>3, SpecialPieces, RawPieces
  <2>5. Unhidden(parts) = <<b>> \o Tail(parts)
      BY <1>1, <1>2, <2>2, <2>3 DEF Unhidden
  <2>6. PICK t : t = Tail(parts)
      OBVIOUS
  <2>7. /\ t \in Seq(Piece) /\ Len(t) = Len(parts) - 1
        /\ \A i \in 1..Len(t) : t[i] = parts[i + 1]
      BY <1>1, <2>6
  <2>8. /\ <<b>> \o t \in Seq(Piece) /\ Len(<<b>> \o t) = Len(parts)
        /\ (<<b>> \o t)[1] = b
        /\ \A i \in 2..Len(parts) : (<<b>> \o t)[i] = t[i - 1]
      BY <1>1, <2>4, <2>7
  <2>9. \A i \in 2..Len(parts) : t[i - 1] = parts[i]
    <3> SUFFICES ASSUME NEW i \in 2..Len(parts) PROVE t[i - 1] = parts[i]
        OBVIOUS
    <3>1. i - 1 \in 1..Len(t) /\ (i - 1) + 1 = i
        BY <1>1, <2>7
    <3> QED BY <2>7, <3>1
  <2> QED BY <2>1, <2>3, <2>5, <2>6, <2>8, <2>9
<1>3. CASE \A w \in Hidden : parts[1] # Raw(w)
    BY <1>1, <1>3 DEF Unhidden
<1> QED BY <1>2, <1>3

LEMMA UnhiddenConcat ==
    ASSUME NEW x \in Seq(Piece), x # <<>>, NEW y \in Seq(Piece)
    PROVE  Unhidden(x \o y) = Unhidden(x) \o y
<1>1. PICK n : n = Len(x) /\ n \in Nat \ {0}
    BY EmptySeq, LenProperties
<1>2. PICK z, u, v : z = x \o y /\ u = Unhidden(z) /\ v = Unhidden(x)
    OBVIOUS
<1>3. /\ z \in Seq(Piece) /\ Len(z) = n + Len(y) /\ z # <<>>
      /\ \A i \in 1..n : z[i] = x[i]
      /\ \A i \in (n + 1)..Len(z) : z[i] = y[i - n]
    BY <1>1, <1>2, ConcatProperties, LenProperties, EmptySeq
<1>4. /\ u \in Seq(Piece) /\ Len(u) = Len(z) /\ v \in Seq(Piece) /\ Len(v) = n
      /\ \A i \in 2..Len(z) : u[i] = z[i]
      /\ \A i \in 2..n : v[i] = x[i]
    BY <1>1, <1>2, <1>3, UnhiddenFacts
<1>5. u[1] = v[1]
  <2>1. \/ \E w \in Hidden : z[1] = Raw(w) /\ u[1] = Raw(Bare[w])
        \/ (\A w \in Hidden : z[1] # Raw(w)) /\ u = z
      BY <1>2, <1>3, UnhiddenFacts
  <2>2. \/ \E w \in Hidden : x[1] = Raw(w) /\ v[1] = Raw(Bare[w])
        \/ (\A w \in Hidden : x[1] # Raw(w)) /\ v = x
      BY <1>2, UnhiddenFacts
  <2>3. z[1] = x[1]
      BY <1>1, <1>3
  <2> QED BY <2>1, <2>2, <2>3, RawPieces
<1>6. /\ v \o y \in Seq(Piece) /\ Len(v \o y) = Len(z)
      /\ \A i \in 1..n : (v \o y)[i] = v[i]
      /\ \A i \in (n + 1)..Len(z) : (v \o y)[i] = y[i - n]
  <2>1. v \in Seq(Piece) /\ Len(v) = n /\ Len(z) = n + Len(y) /\ n \in Nat
      BY <1>1, <1>3, <1>4
  <2>2. v \o y \in Seq(Piece) /\ Len(v \o y) = Len(z)
      BY <2>1, ConcatProperties
  <2>3. \A i \in 1..Len(v) : (v \o y)[i] = v[i]
      BY ConcatProperties, <1>4
  <2>4. \A i \in (Len(v) + 1)..(Len(v) + Len(y)) : (v \o y)[i] = y[i - Len(v)]
      BY ConcatProperties, <1>4, LenProperties
  <2> QED BY <2>1, <2>2, <2>3, <2>4
<1>7. \A i \in 1..Len(z) : u[i] = (v \o y)[i]
  <2> SUFFICES ASSUME NEW i \in 1..Len(z) PROVE u[i] = (v \o y)[i]
      OBVIOUS
  <2>1. CASE i = 1
      BY <1>1, <1>5, <1>6, <2>1
  <2>2. CASE i \in 2..n
    <3>1. u[i] = z[i] /\ v[i] = x[i] /\ z[i] = x[i] /\ (v \o y)[i] = v[i]
        BY <1>1, <1>3, <1>4, <1>6, <2>2
    <3> QED BY <3>1
  <2>3. CASE i \in (n + 1)..Len(z)
    <3>1. u[i] = z[i] /\ z[i] = y[i - n] /\ (v \o y)[i] = y[i - n]
        BY <1>1, <1>3, <1>4, <1>6, <2>3
    <3> QED BY <3>1
  <2>4. n \in Nat /\ Len(z) \in Nat
      BY <1>1, <1>3, LenProperties
  <2>5. i = 1 \/ i \in 2..n \/ i \in (n + 1)..Len(z)
      BY <2>4
  <2> QED BY <2>1, <2>2, <2>3, <2>5
<1> QED BY <1>2, <1>4, <1>6, <1>7, SeqEqual

(* How many names of dots come first.                                      *)
DotsFirst(parts, n) ==
    /\ n \in 0..Len(parts) /\ \A i \in 1..n : parts[i] = Raw(Ellipsis)
    /\ n < Len(parts) => parts[n + 1] # Raw(Ellipsis)

LEMMA DotsFirstExist ==
    ASSUME NEW parts \in Seq(Piece)
    PROVE  \E n : DotsFirst(parts, n)
<1>1. PICK T, l : T = {i \in 1..Len(parts) : parts[i] # Raw(Ellipsis)} /\ l = Len(parts)
    OBVIOUS
<1>2. l \in Nat /\ T \in SUBSET Nat
    BY <1>1, LenProperties
<1>3. CASE T = {}
    BY <1>1, <1>2, <1>3 DEF DotsFirst
<1>4. CASE T # {}
  <2>1. PICK m \in T : \A k \in T : m <= k
      BY <1>2, <1>4, SmallestOf
  <2>2. m \in 1..l /\ parts[m] # Raw(Ellipsis)
      BY <1>1, <2>1
  <2>3. ASSUME NEW i \in 1..(m - 1) PROVE parts[i] = Raw(Ellipsis)
    <3>1. i \in 1..l /\ ~(m <= i)
        BY <1>2, <2>2
    <3> QED BY <1>1, <2>1, <3>1
  <2>4. m - 1 \in 0..l /\ (m - 1) + 1 = m
      BY <1>2, <2>2
  <2> QED BY <1>1, <2>2, <2>3, <2>4 DEF DotsFirst
<1> QED BY <1>3, <1>4

LEMMA StrippedBy ==
    ASSUME NEW parts \in Seq(Piece)
    PROVE  \E n : /\ DotsFirst(parts, n)
                  /\ Stripped(parts) = Unhidden(SubSeq(parts, n + 1, Len(parts)))
<1>1. PICK l : l = Len(parts)
    OBVIOUS
<1>2. l \in Nat
    BY <1>1, LenProperties
<1> DEFINE Dots(k) == \A i \in 1..k : parts[i] = Raw(Ellipsis)
           First(k) == Dots(k) /\ (k < l => ~Dots(k + 1))
<1>3. ASSUME NEW k \in 0..l PROVE First(k) <=> DotsFirst(parts, k)
  <2>1. Dots(k + 1) <=> Dots(k) /\ parts[k + 1] = Raw(Ellipsis)
      BY <1>2
  <2> QED BY <1>1, <2>1 DEF DotsFirst
<1>4. PICK n : n = CHOOSE k \in 0..l : First(k)
    OBVIOUS
<1>5. Stripped(parts) = Unhidden(SubSeq(parts, n + 1, l))
    BY <1>1, <1>4 DEF Stripped
<1>6. \E k \in 0..l : First(k)
    BY <1>1, <1>3, DotsFirstExist DEF DotsFirst
<1> HIDE DEF First
<1>7. n \in 0..l /\ First(n)
    BY <1>4, <1>6
<1> QED BY <1>1, <1>3, <1>5, <1>7

LEMMA DotsFirstUnique ==
    ASSUME NEW parts \in Seq(Piece), NEW m, NEW n, DotsFirst(parts, m), DotsFirst(parts, n)
    PROVE  m = n
<1>1. m \in Nat /\ n \in Nat /\ Len(parts) \in Nat
    BY LenProperties DEF DotsFirst
<1>2. ~(m < n) /\ ~(n < m)
    BY <1>1 DEF DotsFirst
<1> QED BY <1>1, <1>2

LEMMA StrippedConcat ==
    ASSUME NEW x \in Seq(Piece), NEW y \in Seq(Piece), Stripped(x) # <<>>
    PROVE  Stripped(x \o y) = Stripped(x) \o y
<1>1. PICK l, k, z : l = Len(x) /\ k = Len(y) /\ z = x \o y
    OBVIOUS
<1>2. l \in Nat /\ k \in Nat
    BY <1>1, LenProperties
<1>3. z \in Seq(Piece) /\ Len(z) = l + k
    BY <1>1, ConcatProperties
<1>4. \A i \in 1..(l + k) : z[i] = IF i <= l THEN x[i] ELSE y[i - l]
    BY <1>1, ConcatProperties
<1>5. PICK n : DotsFirst(x, n) /\ Stripped(x) = Unhidden(SubSeq(x, n + 1, l))
    BY <1>1, StrippedBy
<1>6. n \in 0..l
    BY <1>1, <1>5 DEF DotsFirst
<1>7. n < l
  <2> SUFFICES ASSUME n = l PROVE FALSE
      BY <1>2, <1>6
  <2>1. SubSeq(x, n + 1, l) = <<>>
      BY <1>2, <1>6, SubSeqEmpty
  <2>2. Unhidden(<<>>) = <<>>
      BY DEF Unhidden
  <2> QED BY <1>5, <2>1, <2>2
<1>8. DotsFirst(z, n)
  <2>1. \A i \in 1..n : z[i] = Raw(Ellipsis)
    <3>1. \A i \in 1..n : x[i] = Raw(Ellipsis)
        BY <1>5 DEF DotsFirst
    <3> QED BY <1>2, <1>4, <1>7, <3>1, <1>6
  <2>2. z[n + 1] # Raw(Ellipsis)
    <3>1. x[n + 1] # Raw(Ellipsis)
        BY <1>1, <1>5, <1>7 DEF DotsFirst
    <3>2. n + 1 \in 1..(l + k) /\ n + 1 <= l
        BY <1>2, <1>6, <1>7
    <3> QED BY <1>4, <3>1, <3>2
  <2>3. n \in 0..Len(z)
      BY <1>2, <1>3, <1>6
  <2> QED BY <2>1, <2>2, <2>3 DEF DotsFirst
<1>9. Stripped(z) = Unhidden(SubSeq(z, n + 1, l + k))
    BY <1>3, <1>8, StrippedBy, DotsFirstUnique
<1>10. SubSeq(z, n + 1, l + k) = SubSeq(x, n + 1, l) \o y
  <2>1. PICK u, v : u = SubSeq(z, n + 1, l + k) /\ v = SubSeq(x, n + 1, l)
      OBVIOUS
  <2>2. /\ u \in Seq(Piece) /\ Len(u) = (l + k) - n
        /\ \A i \in 1..((l + k) - n) : u[i] = z[n + i]
    <3>1. n + 1 \in 1..(Len(z) + 1) /\ l + k \in n..Len(z)
        BY <1>2, <1>3, <1>6
    <3> QED BY <1>2, <1>3, <1>6, <2>1, <3>1
  <2>3. /\ v \in Seq(Piece) /\ Len(v) = l - n
        /\ \A i \in 1..(l - n) : v[i] = x[n + i]
      BY <1>1, <1>2, <1>6, <2>1
  <2>4. /\ v \o y \in Seq(Piece) /\ Len(v \o y) = (l - n) + k
        /\ \A i \in 1..((l - n) + k) : (v \o y)[i] = IF i <= l - n THEN v[i] ELSE y[i - (l - n)]
    <3>1. v \in Seq(Piece) /\ Len(v) = l - n /\ Len(y) = k
        BY <1>1, <2>3
    <3>2. /\ v \o y \in Seq(Piece) /\ Len(v \o y) = Len(v) + Len(y)
          /\ \A i \in 1..(Len(v) + Len(y)) :
                 (v \o y)[i] = IF i <= Len(v) THEN v[i] ELSE y[i - Len(v)]
        BY <3>1, ConcatProperties
    <3> QED BY <3>1, <3>2
  <2>5. (l + k) - n = (l - n) + k
      BY <1>2, <1>6
  <2>6. ASSUME NEW i \in 1..((l - n) + k) PROVE u[i] = (v \o y)[i]
    <3>1. u[i] = z[n + i] /\ n + i \in 1..(l + k)
        BY <1>2, <1>6, <2>2, <2>5
    <3>2. CASE i <= l - n
      <4>1. z[n + i] = x[n + i] /\ v[i] = x[n + i] /\ (v \o y)[i] = v[i]
          BY <1>2, <1>4, <1>6, <2>3, <2>4, <3>1, <3>2
      <4> QED BY <3>1, <4>1
    <3>3. CASE ~(i <= l - n)
      <4>1. z[n + i] = y[(n + i) - l] /\ (v \o y)[i] = y[i - (l - n)] /\ (n + i) - l = i - (l - n)
          BY <1>2, <1>4, <1>6, <2>4, <3>1, <3>3
      <4> QED BY <3>1, <4>1
    <3> QED BY <3>2, <3>3
  <2> QED BY <2>1, <2>2, <2>4, <2>5, <2>6, SeqEqual
<1>11. Unhidden(SubSeq(x, n + 1, l) \o y) = Unhidden(SubSeq(x, n + 1, l)) \o y
  <2>1. SubSeq(x, n + 1, l) \in Seq(Piece) /\ SubSeq(x, n + 1, l) # <<>>
    <3>1. PICK v : v = SubSeq(x, n + 1, l)
        OBVIOUS
    <3>2. v \in Seq(Piece) /\ Len(v) = l - n
        BY <1>1, <1>2, <1>6, <3>1
    <3>3. v # <<>>
        BY <1>2, <1>6, <1>7, <3>2, EmptySeq
    <3> QED BY <3>1, <3>2, <3>3
  <2> QED BY <2>1, UnhiddenConcat
<1> QED BY <1>1, <1>5, <1>9, <1>10, <1>11

(* What sanitize_relative_path returns when it accepts.                    *)
Plain(p) == p \notin {Raw(Empty), Raw(Here), Raw(Parent), Raw(Null)}

Clean(key) ==
    /\ key \in Seq(Piece) /\ key # <<>> /\ \A i \in 1..Len(key) : Plain(key[i])
    /\ key[1] # Raw(Ellipsis) /\ \A w \in Hidden : key[1] # Raw(w)

LEMMA StrippedClean ==
    ASSUME NEW parts \in Seq(Piece), \A i \in 1..Len(parts) : Plain(parts[i]),
           Stripped(parts) # <<>>
    PROVE  Clean(Stripped(parts))
<1>1. PICK l : l = Len(parts) /\ l \in Nat
    BY LenProperties
<1>2. PICK n : DotsFirst(parts, n) /\ Stripped(parts) = Unhidden(SubSeq(parts, n + 1, l))
    BY <1>1, StrippedBy
<1>3. n \in 0..l
    BY <1>1, <1>2 DEF DotsFirst
<1>4. n < l
  <2> SUFFICES ASSUME n = l PROVE FALSE
      BY <1>1, <1>3
  <2>1. SubSeq(parts, n + 1, l) = <<>>
      BY <1>1, <1>3, SubSeqEmpty
  <2>2. Unhidden(<<>>) = <<>>
      BY DEF Unhidden
  <2> QED BY <1>2, <2>1, <2>2
<1>5. PICK v, u : v = SubSeq(parts, n + 1, l) /\ u = Unhidden(v)
    OBVIOUS
<1>6. /\ v \in Seq(Piece) /\ Len(v) = l - n
      /\ \A i \in 1..(l - n) : v[i] = parts[n + i]
    BY <1>1, <1>3, <1>5
<1>7. v # <<>>
    BY <1>1, <1>3, <1>4, <1>6, EmptySeq
<1>8. \A i \in 1..(l - n) : Plain(v[i])
  <2> SUFFICES ASSUME NEW i \in 1..(l - n) PROVE Plain(v[i])
      OBVIOUS
  <2>1. n + i \in 1..l
      BY <1>1, <1>3
  <2> QED BY <1>1, <1>6, <2>1
<1>9. v[1] # Raw(Ellipsis)
  <2>1. parts[n + 1] # Raw(Ellipsis)
      BY <1>1, <1>2, <1>4 DEF DotsFirst
  <2>2. 1 \in 1..(l - n)
      BY <1>1, <1>3, <1>4
  <2> QED BY <1>6, <2>1, <2>2
<1>10. u \in Seq(Piece) /\ Len(u) = l - n /\ \A i \in 2..(l - n) : u[i] = v[i]
    BY <1>5, <1>6, <1>7, UnhiddenFacts
<1>11. Plain(u[1]) /\ u[1] # Raw(Ellipsis) /\ \A w \in Hidden : u[1] # Raw(w)
  <2>1. CASE \E w \in Hidden : v[1] = Raw(w) /\ u[1] = Raw(Bare[w])
    <3>1. PICK w \in Hidden : u[1] = Raw(Bare[w])
        BY <2>1
    <3>2. Bare[w] \notin SpecialWords \cup Hidden
        BY SpecialPieces
    <3> QED BY <3>1, <3>2, RawPieces DEF Plain, SpecialWords
  <2>2. CASE (\A w \in Hidden : v[1] # Raw(w)) /\ u = v
    <3>1. 1 \in 1..(l - n)
        BY <1>1, <1>3, <1>4
    <3> QED BY <1>8, <1>9, <2>2, <3>1
  <2> QED BY <1>5, <1>6, <1>7, <2>1, <2>2, UnhiddenFacts
<1>12. \A i \in 1..Len(u) : Plain(u[i])
  <2> SUFFICES ASSUME NEW i \in 1..(l - n) PROVE Plain(u[i])
      BY <1>10
  <2>1. i = 1 \/ i \in 2..(l - n)
      BY <1>1, <1>3
  <2> QED BY <1>8, <1>10, <1>11, <2>1
<1>13. u # <<>>
    BY <1>1, <1>3, <1>4, <1>10, EmptySeq
<1> QED BY <1>2, <1>5, <1>10, <1>11, <1>12, <1>13 DEF Clean

LEMMA SanitizeClean ==
    ASSUME NEW path \in Seq(Piece), Sanitize(path) # Refused
    PROVE  Clean(Sanitize(path))
<1>1. PICK d, parts : d = Decoded(path) /\ parts = Parts(d)
    OBVIOUS
<1>2. d \in Seq(Piece)
    BY <1>1, DecodedType
<1>3. ~Mentions(d, Null) /\ ~Mentions(d, Parent) /\ Sanitize(path) = Stripped(parts)
      /\ Stripped(parts) # <<>>
    BY <1>1 DEF Sanitize
<1>4. \A i \in 1..Len(d) : d[i] \notin {Raw(Null), Raw(Parent)}
    BY <1>3 DEF Mentions, Contains
<1>5. parts \in Seq(Piece)
    BY <1>1, <1>2, PartsType
<1>6. ASSUME NEW j \in 1..Len(parts) PROVE Plain(parts[j])
  <2>1. parts[j] \notin {Raw(Empty), Raw(Here)} /\ \E i \in 1..Len(d) : parts[j] = d[i]
      BY <1>1, <1>2, PartsType
  <2> QED BY <1>4, <2>1 DEF Plain
<1> QED BY <1>3, <1>5, <1>6, StrippedClean

LEMMA CleanMentions ==
    ASSUME NEW key, Clean(key)
    PROVE  \A w \in {Empty, Here, Parent, Null} : ~Mentions(key, w)
BY DEF Clean, Plain, Mentions, Contains

LEMMA CleanHead ==
    ASSUME NEW key, Clean(key)
    PROVE  Head(key) = key[1] /\ 1 \in 1..Len(key)
BY EmptySeq, LenProperties DEF Clean

LEMMA CleanStripped ==
    ASSUME NEW key, Clean(key)
    PROVE  Parts(key) = key /\ Stripped(key) = key
<1>1. key \in Seq(Piece) /\ Len(key) \in Nat /\ 1 \in 1..Len(key) /\ key # <<>>
    BY CleanHead, LenProperties DEF Clean
<1>2. Parts(key) = key
    BY <1>1, PartsSame DEF Clean, Plain
<1>3. DotsFirst(key, 0)
    BY <1>1 DEF DotsFirst, Clean
<1>4. Stripped(key) = Unhidden(SubSeq(key, 1, Len(key)))
    BY <1>1, <1>3, StrippedBy, DotsFirstUnique
<1>5. SubSeq(key, 1, Len(key)) = key
    BY <1>1, SubSeqFull
<1>6. Unhidden(key) = key
    BY CleanHead DEF Unhidden, Clean
<1> QED BY <1>2, <1>4, <1>5, <1>6

LEMMA CleanFixed ==
    ASSUME NEW key, Clean(key), Faithful(key)
    PROVE  Sanitize(key) = key
<1>1. Decoded(key) = key
    BY DecodedRaw DEF Clean, Faithful
<1>2. key # <<Raw(Empty)>>
    BY DEF Clean, Plain
<1>3. Head(key) # Raw(Empty)
    BY CleanHead DEF Clean, Plain
<1>4. key # <<>> /\ key # <<Raw(Blank)>>
    BY DEF Clean, Faithful
<1> QED BY <1>1, <1>2, <1>3, <1>4, CleanMentions, CleanStripped DEF Sanitize

LEMMA MentionsConcat ==
    ASSUME NEW x \in Seq(Piece), NEW y \in Seq(Piece), NEW w
    PROVE  Mentions(x \o y, w) <=> Mentions(x, w) \/ Mentions(y, w)
<1>1. PICK l, k, z, e : l = Len(x) /\ k = Len(y) /\ z = x \o y /\ e = Raw(w)
    OBVIOUS
<1>2. l \in Nat /\ k \in Nat
    BY <1>1, LenProperties
<1>3. /\ Len(z) = l + k
      /\ \A i \in 1..(l + k) : z[i] = IF i <= l THEN x[i] ELSE y[i - l]
    BY <1>1, ConcatProperties
<1>4. ASSUME NEW i \in 1..(l + k), z[i] = e
      PROVE  (\E j \in 1..l : x[j] = e) \/ (\E j \in 1..k : y[j] = e)
  <2>1. CASE i <= l
      BY <1>2, <1>3, <1>4, <2>1
  <2>2. CASE ~(i <= l)
    <3>1. i - l \in 1..k /\ y[i - l] = e
        BY <1>2, <1>3, <1>4, <2>2
    <3> QED BY <3>1
  <2> QED BY <2>1, <2>2
<1>5. ASSUME NEW j \in 1..l, x[j] = e PROVE \E i \in 1..(l + k) : z[i] = e
  <2>1. j \in 1..(l + k) /\ z[j] = e
      BY <1>2, <1>3, <1>5
  <2> QED BY <2>1
<1>6. ASSUME NEW j \in 1..k, y[j] = e PROVE \E i \in 1..(l + k) : z[i] = e
  <2>1. j + l \in 1..(l + k) /\ ~(j + l <= l) /\ (j + l) - l = j
      BY <1>2
  <2>2. z[j + l] = e
      BY <1>3, <1>6, <2>1
  <2> QED BY <2>1, <2>2
<1> QED BY <1>1, <1>3, <1>4, <1>5, <1>6 DEF Mentions, Contains

(* A directory, with its slash and with a name after it.                   *)
LEMMA UnderDirectory ==
    ASSUME NEW p \in Seq(Piece), p # <<>>, IsDirectory(p), ~IsRoot(p), Sanitize(p) # Refused,
           NEW key, Clean(key), Faithful(key)
    PROVE  Sanitize(Front(p) \o key) = Sanitize(p) \o key
<1>1. PICK f \in Seq(Piece), e \in Piece : p = Append(f, e)
    BY SequenceEmptyOrAppend
<1>2. PICK slash : slash = Raw(Empty)
    OBVIOUS
<1>3. slash \in Piece /\ slash.esc = 0
    BY <1>2, WordAssumption, RawPieces
<1>4. e = slash /\ Front(p) = f /\ p = f \o <<slash>> /\ <<slash>> \in Seq(Piece)
  <2>1. Last(p) = e /\ Front(p) = f
    <3>1. Len(p) = Len(f) + 1 /\ p[Len(f) + 1] = e /\ Len(f) \in Nat
        BY <1>1, AppendProperties, LenProperties
    <3>2. Last(p) = e
        BY <3>1 DEF Last
    <3>3. Front(p) = SubSeq(Append(f, e), 1, Len(f))
        BY <1>1, <3>1 DEF Front
    <3>4. SubSeq(Append(f, e), 1, Len(f)) = f
        OBVIOUS
    <3> QED BY <3>2, <3>3, <3>4
  <2>2. e = slash
      BY <1>2, <2>1 DEF IsDirectory
  <2>3. p = f \o <<slash>> /\ <<slash>> \in Seq(Piece)
      BY <1>1, <1>3, <2>2, AppendIsConcat
  <2> QED BY <2>1, <2>2, <2>3
<1>5. f # <<>>
  <2> SUFFICES ASSUME f = <<>> PROVE FALSE
      OBVIOUS
  <2>1. p = <<slash>>
      BY <1>1, <1>4
  <2> QED BY <1>2, <2>1 DEF IsRoot
<1>6. PICK d, q, parts : d = Decoded(f) /\ q = f \o key /\ parts = Parts(d)
    OBVIOUS
<1>7. key \in Seq(Piece) /\ IsRaw(key) /\ q \in Seq(Piece) /\ d \in Seq(Piece) /\ d # <<>>
      /\ parts \in Seq(Piece)
  <2>1. key \in Seq(Piece) /\ IsRaw(key)
      BY DEF Clean, Faithful
  <2>2. d \in Seq(Piece) /\ d # <<>>
      BY <1>5, <1>6, DecodedType, DecodedNonEmpty
  <2>3. q \in Seq(Piece)
      BY <1>6, <2>1, ConcatProperties
  <2>4. parts \in Seq(Piece)
      BY <1>6, <2>2, PartsType
  <2> QED BY <2>1, <2>2, <2>3, <2>4
<1>8. Decoded(p) = d \o <<slash>>
  <2>1. IsRaw(<<slash>>)
      BY <1>3 DEF IsRaw
  <2>2. Decoded(<<slash>>) = <<slash>>
      BY <1>4, <2>1, DecodedRaw
  <2> QED BY <1>4, <1>6, <2>2, DecodedConcat
<1>9. Decoded(q) = d \o key
  <2>1. Decoded(key) = key
      BY <1>7, DecodedRaw
  <2>2. Decoded(f \o key) = Decoded(f) \o Decoded(key)
      BY <1>7, DecodedConcat
  <2> QED BY <1>6, <2>1, <2>2
<1>10. Parts(d \o <<slash>>) = parts
  <2>1. Parts(<<slash>>) = <<>>
    <3>1. Parts(<<slash>>) = Spread(Keeping, <<slash>>)
        BY <1>4, DecodedIsSpread
    <3>2. Spread(Keeping, <<slash>>) = Keeping[slash]
        BY <1>3, KeepingType, SpreadOne
    <3> QED BY <1>2, <3>1, <3>2, KeepingType
  <2>2. Parts(d \o <<slash>>) = parts \o <<>>
    <3>1. d \in Seq(Piece) /\ <<slash>> \in Seq(Piece)
        BY <1>4, <1>7
    <3>2. Parts(d \o <<slash>>) = Parts(d) \o Parts(<<slash>>)
        BY <3>1, PartsConcat
    <3> QED BY <1>6, <2>1, <3>2
  <2> QED BY <1>7, <2>2, ConcatEmptySeq
<1>11. Parts(d \o key) = parts \o key
  <2>1. Parts(d \o key) = Parts(d) \o Parts(key)
      BY <1>7, PartsConcat
  <2> QED BY <1>6, <2>1, CleanStripped
<1>12. /\ ~Mentions(p, Null) /\ ~Mentions(d \o <<slash>>, Null)
       /\ ~Mentions(d \o <<slash>>, Parent) /\ Head(d \o <<slash>>) # Raw(Empty)
       /\ Sanitize(p) = Stripped(parts) /\ Stripped(parts) # <<>>
    BY <1>8, <1>10 DEF Sanitize
<1>13. Stripped(parts \o key) = Stripped(parts) \o key
    BY <1>7, <1>12, StrippedConcat
<1>14. Head(d \o key) = Head(d \o <<slash>>)
  <2>1. Len(d) \in Nat \ {0}
      BY <1>7, EmptySeq, LenProperties
  <2>2. ASSUME NEW y \in Seq(Piece) PROVE Head(d \o y) = d[1]
    <3>1. PICK z : z = d \o y
        OBVIOUS
    <3>2. z \in Seq(Piece) /\ Len(z) = Len(d) + Len(y) /\ z[1] = d[1]
        BY <1>7, <2>1, <3>1
    <3>3. z # <<>>
        BY <2>1, <3>2, EmptySeq, LenProperties
    <3>4. Head(z) = z[1]
        BY <3>2, <3>3
    <3> QED BY <3>1, <3>2, <3>4
  <2> QED BY <1>4, <1>7, <2>2
<1>15. /\ ~Mentions(q, Null) /\ ~Mentions(d \o key, Null) /\ ~Mentions(d \o key, Parent)
  <2>1. ~Mentions(f, Null) /\ ~Mentions(d, Null) /\ ~Mentions(d, Parent)
    <3>1. <<slash>> \in Seq(Piece) /\ f \in Seq(Piece) /\ d \in Seq(Piece)
        BY <1>4, <1>7
    <3>2. Mentions(p, Null) <=> Mentions(f, Null) \/ Mentions(<<slash>>, Null)
      <4>1. Mentions(f \o <<slash>>, Null) <=> Mentions(f, Null) \/ Mentions(<<slash>>, Null)
          BY <3>1, MentionsConcat
      <4> QED BY <1>4, <4>1
    <3>3. ASSUME NEW w
          PROVE  Mentions(d \o <<slash>>, w) <=> Mentions(d, w) \/ Mentions(<<slash>>, w)
        BY <3>1, MentionsConcat
    <3> QED BY <1>12, <3>2, <3>3
  <2> QED BY <1>6, <1>7, <2>1, CleanMentions, MentionsConcat
<1>16. Len(q) >= 2
  <2>1. Len(f) \in Nat \ {0} /\ Len(key) \in Nat \ {0}
      BY <1>5, <1>7, EmptySeq, LenProperties DEF Clean
  <2>2. Len(q) = Len(f) + Len(key)
      BY <1>6, <1>7, ConcatProperties
  <2> QED BY <2>1, <2>2
<1>17. q \notin {<<Raw(Empty)>>, <<Raw(Blank)>>}
  <2>1. ASSUME NEW a, q = <<a>> PROVE FALSE
    <3>1. Len(<<a>>) = 1
        OBVIOUS
    <3> QED BY <1>16, <2>1, <3>1
  <2> QED BY <2>1
<1>18. Stripped(parts) \o key # <<>>
  <2>1. Stripped(parts) \in Seq(Piece)
    <3>1. Clean(Sanitize(p))
        BY SanitizeClean
    <3> QED BY <1>12, <3>1 DEF Clean
  <2> QED BY <1>7, <1>12, <2>1, ConcatEqualIffEmpty
<1>19. Sanitize(q) = Stripped(parts) \o key
    BY <1>9, <1>11, <1>12, <1>13, <1>14, <1>15, <1>17, <1>18 DEF Sanitize
<1> QED BY <1>4, <1>6, <1>12, <1>19

-----------------------------------------------------------------------------
(* The inductive invariant: every key is what sanitize_relative_path has   *)
(* returned for some path.                                                 *)

Returned(key) == key # Refused /\ Clean(key)

KeysInv == Returned(index) /\ \A k \in files : Returned(k)

LEMMA ReturnedBySanitize ==
    ASSUME NEW p \in Path, Sanitize(p) # Refused
    PROVE  Returned(Sanitize(p))
BY AddressAssumption, SanitizeClean DEF Returned

LEMMA KeysInitially == Init => KeysInv
<1>1. /\ DefaultIndex \in Seq(Piece) /\ DefaultIndex # Refused
      /\ Sanitize(DefaultIndex) = DefaultIndex
    BY AddressAssumption
<1>2. Returned(DefaultIndex)
    BY <1>1, SanitizeClean DEF Returned
<1> QED BY <1>2 DEF Init, KeysInv

LEMMA KeysStep == KeysInv /\ [Next]_vars => KeysInv'
<1> SUFFICES ASSUME KeysInv, [Next]_vars PROVE KeysInv'
    OBVIOUS
<1>1. ASSUME NEW p \in Path, SetIndex(p) PROVE KeysInv'
    BY <1>1, ReturnedBySanitize DEF SetIndex, KeysInv
<1>2. ASSUME NEW p \in Path, Upload(p) PROVE KeysInv'
  <2>1. Returned(Sanitize(p))
      BY <1>2, ReturnedBySanitize DEF Upload
  <2> QED BY <1>2, <2>1 DEF Upload, KeysInv
<1>3. ASSUME NEW p \in Path, DeleteFile(p) PROVE KeysInv'
    BY <1>3 DEF DeleteFile, KeysInv
<1>4. ASSUME NEW entries \in Archive, Deploy(entries) PROVE KeysInv'
  <2>1. \A k \in Deployed(entries) : k # Refused
      BY <1>4 DEF Deploy, IsDeployable
  <2>2. entries \subseteq Path
      BY AddressAssumption
  <2>3. ASSUME NEW k \in Deployed(entries) PROVE Returned(k)
    <3>1. PICK e \in entries : k = Sanitize(e)
        BY DEF Deployed
    <3> QED BY <2>1, <2>2, <3>1, ReturnedBySanitize
  <2> QED BY <1>4, <2>3 DEF Deploy, KeysInv
<1>5. CASE UNCHANGED <<index, files>>
    BY <1>5 DEF KeysInv
<1> QED BY <1>1, <1>2, <1>3, <1>4, <1>5 DEF Next, CreateApp, vars

LEMMA KeysHold == Spec => []KeysInv
BY KeysInitially, KeysStep, PTL DEF Spec

(* "keys never escape apps/{app_id}/", for paths of any length in which    *)
(* anything is encoded any number of times: what is stored as a key or as  *)
(* the index is relative and in normal form.                               *)
THEOREM KeysAreCanonical == Spec => []KeysCanonical
<1>1. ASSUME NEW key, Returned(key) PROVE IsCanonical(key)
    BY <1>1, CleanMentions, CleanHead DEF Returned, Clean, IsCanonical
<1>2. KeysInv => KeysCanonical
    BY <1>1 DEF KeysInv, KeysCanonical
<1> QED BY <1>2, KeysHold, PTL

LEMMA NotADirectory ==
    ASSUME NEW key, Clean(key), Faithful(key)
    PROVE  ~IsRoot(key) /\ ~IsDirectory(key)
<1>1. Len(key) \in 1..Len(key) /\ key[1] # Raw(Empty)
    BY CleanHead, LenProperties DEF Clean, Plain
<1>2. Last(key) # Raw(Empty)
    BY <1>1 DEF Last, Clean, Plain
<1>3. key # <<Raw(Empty)>> /\ key # <<Raw(Empty), Raw(Empty)>> /\ key # <<Raw(Blank)>>
    BY <1>1 DEF Faithful
<1> QED BY <1>2, <1>3 DEF IsRoot, IsDirectory

(* The names that the listing shows lead back to their files, in the file  *)
(* endpoints and in a visitor's request, for every site whose names hold   *)
(* nothing encoded: sanitize_relative_path is idempotent on its results.   *)
THEOREM ListedNamesLeadBack == Spec => []ListedNamesWork
<1>1. ASSUME NEW key, Returned(key), Faithful(key)
      PROVE  Sanitize(key) = key /\ Target(key, index, DefaultIndex) = key
    BY <1>1, CleanFixed, NotADirectory DEF Returned, Target
<1>2. KeysInv => ListedNamesWork
    BY <1>1 DEF KeysInv, ListedNamesWork, Listing
<1> QED BY <1>2, KeysHold, PTL

(* The index file is found at the root and under every directory that a    *)
(* visitor may name, whatever is encoded in the name: a path with a slash  *)
(* at its end and the path with the index written out lead to one key.     *)
THEOREM IndexesAreFound == Spec => []IndexIsFound
<1>1. ASSUME Returned(index), Faithful(index)
      PROVE  IndexKey(index, DefaultIndex) = index
    BY <1>1, CleanFixed DEF Returned, IndexKey
<1>2. ASSUME Returned(index), Faithful(index), NEW p \in Path, IsDirectory(p), ~IsRoot(p),
             Sanitize(p) # Refused
      PROVE  Target(p, index, DefaultIndex) = Sanitize(Front(p) \o index)
  <2>1. Target(p, index, DefaultIndex) = Sanitize(p) \o index
      BY <1>1, <1>2 DEF Target
  <2>2. p \in Seq(Piece) /\ p # <<>>
      BY AddressAssumption
  <2> QED BY <1>2, <2>1, <2>2, UnderDirectory DEF Returned
<1>3. KeysInv => IndexIsFound
    BY <1>1, <1>2 DEF KeysInv, IndexIsFound, Target, IsRoot
<1> QED BY <1>3, KeysHold, PTL
=============================================================================

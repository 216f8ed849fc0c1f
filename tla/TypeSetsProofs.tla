---------------------------- MODULE TypeSetsProofs ----------------------------
(***************************************************************************)
(* Proofs about TypeSets, for all types and all programs of interfaces:    *)
(* the operations on lists of terms are those on the sets of types they    *)
(* stand for, and the stored type sets solve the language's equations.     *)
(***************************************************************************)
EXTENDS TypeSets, TLAPS, SequenceTheorems, WellFoundedInduction

-----------------------------------------------------------------------------
(* Terms.                                                                    *)

\* A term of a list is empty, all types, one type or those with an underlying type.
RealTerms == {x \in [tilde : BOOLEAN, typ : Types] : x.tilde => Under[x.typ] = x.typ}
AnyTerms == RealTerms \cup {Nil, Univ}

\* nil, the universe and the other terms are different.
LEMMA Different ==
    ASSUME TypesOK
    PROVE  Nil # Univ /\ Nil \notin RealTerms /\ Univ \notin RealTerms
BY DEF TypesOK, Nil, Univ, RealTerms

\* Two terms overlap just if some type is in both.
LEMMA OverlapIs ==
    ASSUME TypesOK, NEW x \in RealTerms, NEW y \in RealTerms
    PROVE  /\ Disjoint(x, y) <=> \A t \in Types : ~(TermIncludes(x, t) /\ TermIncludes(y, t))
           /\ Disjoint(x, y) <=> Disjoint(y, x)
           /\ ~Disjoint(x, x)
           /\ \E t \in Types : TermIncludes(x, t)
BY Different DEF TypesOK, RealTerms, Disjoint, TermIncludes

\* The union of terms is one of them, or they are disjoint.
LEMMA UnionIs ==
    ASSUME TypesOK, NEW x \in AnyTerms \ {Nil}, NEW y \in AnyTerms \ {Nil}
    PROVE  /\ TermUnion(x, y) \in {<<x>>, <<y>>, <<x, y>>}
           /\ Len(TermUnion(x, y)) = 1 <=> TermUnion(x, y) # <<x, y>>
           /\ TermUnion(x, y) = <<x, y>> <=> Univ \notin {x, y} /\ Disjoint(x, y)
           /\ TermUnion(x, y) = <<x>> =>
                \A t \in Types : TermIncludes(y, t) => TermIncludes(x, t)
           /\ TermUnion(x, y) = <<y>> =>
                \A t \in Types : TermIncludes(x, t) => TermIncludes(y, t)
<1>1. <<x>> # <<x, y>> /\ <<y>> # <<x, y>> /\ Len(<<x, y>>) = 2 /\ Len(<<x>>) = 1 /\ Len(<<y>>) = 1
  OBVIOUS
<1>2. <<x>> = <<y>> => x = y
  OBVIOUS
<1>3. Univ = x \/ Univ = y \/ (x \in RealTerms /\ y \in RealTerms)
  BY DEF AnyTerms
<1>4. CASE Univ \in {x, y}
  <2>1. TermUnion(x, y) = <<Univ>>
    BY <1>4, Different DEF TermUnion, AllTermlist
  <2>2. \A t \in Types : TermIncludes(Univ, t)
    BY Different DEF TermIncludes
  <2> QED
    BY <1>1, <1>2, <1>4, <2>1, <2>2
<1>5. CASE x \in RealTerms /\ y \in RealTerms /\ Disjoint(x, y)
  <2>1. TermUnion(x, y) = <<x, y>>
    BY <1>5, Different DEF TermUnion
  <2> QED
    BY <1>1, <1>5, <2>1, Different
<1>6. CASE x \in RealTerms /\ y \in RealTerms /\ ~Disjoint(x, y)
  <2>1. TermUnion(x, y) = IF x.tilde \/ ~y.tilde THEN <<x>> ELSE <<y>>
    BY <1>6, Different DEF TermUnion
  <2>2. x.tilde \/ ~y.tilde => \A t \in Types : TermIncludes(y, t) => TermIncludes(x, t)
    BY <1>6, Different DEF TypesOK, RealTerms, Disjoint, TermIncludes
  <2>3. ~(x.tilde \/ ~y.tilde) => \A t \in Types : TermIncludes(x, t) => TermIncludes(y, t)
    BY <1>6, Different DEF TypesOK, RealTerms, Disjoint, TermIncludes
  <2>4. x = y => (x.tilde \/ ~y.tilde)
    BY <1>6 DEF RealTerms
  <2> QED
    BY <1>1, <1>2, <1>6, <2>1, <2>2, <2>3, <2>4
<1> QED
  BY <1>3, <1>4, <1>5, <1>6

\* The intersection of terms is one of them or empty, and has the types of both.
LEMMA IntersectIs ==
    ASSUME TypesOK, NEW x \in AnyTerms, NEW y \in AnyTerms
    PROVE  /\ TermIntersect(x, y) \in {x, y, Nil}
           /\ \A t \in Types : TermIncludes(TermIntersect(x, y), t) <=>
                                  TermIncludes(x, t) /\ TermIncludes(y, t)
           /\ TermIntersect(x, y) = Univ <=> x = Univ /\ y = Univ
<1>1. CASE Nil \in {x, y}
  <2>1. ~(x = Univ /\ y # Nil) /\ ~(y = Univ /\ x \notin {Nil, Univ})
    BY <1>1, Different
  <2>2. TermIntersect(x, y) = Nil
    BY <1>1, <2>1 DEF TermIntersect
  <2> QED
    BY <1>1, <2>2, Different DEF TermIncludes
<1>2. CASE Nil \notin {x, y} /\ x = Univ
  <2>1. TermIntersect(x, y) = y
    BY <1>2 DEF TermIntersect
  <2> QED
    BY <1>2, <2>1, Different DEF TermIncludes
<1>3. CASE Nil \notin {x, y} /\ x # Univ /\ y = Univ
  <2>1. TermIntersect(x, y) = x
    BY <1>3 DEF TermIntersect
  <2> QED
    BY <1>3, <2>1, Different DEF TermIncludes
<1>4. CASE x \in RealTerms /\ y \in RealTerms
  <2>1. TermIntersect(x, y) = IF Disjoint(x, y) THEN Nil ELSE IF ~x.tilde \/ y.tilde THEN x ELSE y
    BY <1>4, Different DEF TermIntersect
  <2>2. \A t \in Types : ~TermIncludes(Nil, t)
    BY DEF TermIncludes
  <2>3. CASE Disjoint(x, y)
    BY <1>4, <2>1, <2>2, <2>3, OverlapIs, Different
  <2>4. CASE ~Disjoint(x, y)
    <3>1. ~x.tilde \/ y.tilde => \A t \in Types : TermIncludes(x, t) => TermIncludes(y, t)
      BY <1>4, <2>4, Different DEF TypesOK, RealTerms, Disjoint, TermIncludes
    <3>2. ~(~x.tilde \/ y.tilde) => \A t \in Types : TermIncludes(y, t) => TermIncludes(x, t)
      BY <1>4, <2>4, Different DEF TypesOK, RealTerms, Disjoint, TermIncludes
    <3> QED
      BY <1>4, <2>1, <2>4, <3>1, <3>2, Different
  <2> QED
    BY <2>3, <2>4
<1> QED
  BY <1>1, <1>2, <1>3, <1>4 DEF AnyTerms

-----------------------------------------------------------------------------
(* norm.                                                                     *)

\* The least element of a set of numbers.
LEMMA Least ==
    ASSUME NEW S \in SUBSET Nat, S # {}
    PROVE  \E m \in S : \A x \in S : m <= x
<1>1. PICK m \in S : \A y \in S : ~(<<y, m>> \in OpToRel(<, Nat))
  BY WFMin, NatLessThanWellFounded
<1>2. \A y \in S : ~(y < m)
  BY <1>1 DEF OpToRel
<1>3. \A y \in S : m <= y
  BY <1>2
<1> QED
  BY <1>3

NonNil(xl) == {j \in DOMAIN xl : xl[j] # Nil}
Taken(xl, free, i) == IF i \in free THEN free \ Absorbed(xl, free, i) ELSE free

\* The recursive function of norm exists.
LEMMA FreeExists ==
    ASSUME NEW xl, Len(xl) \in Nat
    PROVE  \E g : g = [i \in 0 .. Len(xl) |-> IF i = 0 THEN NonNil(xl) ELSE Taken(xl, g[i - 1], i)]
<1> DEFINE D == 0 .. Len(xl)
           Upto(m) == \E g : /\ g = [i \in D |-> g[i]] /\ g[0] = NonNil(xl)
                             /\ \A i \in 1 .. m : g[i] = Taken(xl, g[i - 1], i)
           Bad == {m \in D : ~Upto(m)}
<1>1. Upto(0)
  <2>1. [i \in D |-> NonNil(xl)] = [i \in D |-> [j \in D |-> NonNil(xl)][i]]
    OBVIOUS
  <2>2. [i \in D |-> NonNil(xl)][0] = NonNil(xl)
    OBVIOUS
  <2>3. 1 .. 0 = {}
    OBVIOUS
  <2> QED
    BY <2>1, <2>2, <2>3
<1>2. ASSUME NEW m \in D, m + 1 \in D, Upto(m)
      PROVE  Upto(m + 1)
  <2>1. PICK g : /\ g = [i \in D |-> g[i]] /\ g[0] = NonNil(xl)
                 /\ \A i \in 1 .. m : g[i] = Taken(xl, g[i - 1], i)
    BY <1>2
  <2> DEFINE h == [i \in D |-> IF i = m + 1 THEN Taken(xl, g[m], m + 1) ELSE g[i]]
  <2>2. h = [i \in D |-> h[i]] /\ h[0] = NonNil(xl)
    BY <2>1, <1>2
  <2>3. ASSUME NEW i \in 1 .. m + 1 PROVE h[i] = Taken(xl, h[i - 1], i)
    <3>1. i \in D /\ i - 1 \in D /\ i - 1 # m + 1 /\ h[i - 1] = g[i - 1]
      BY <1>2
    <3>2. CASE i = m + 1
      BY <3>1, <3>2
    <3>3. CASE i \in 1 .. m
      BY <2>1, <3>1, <3>3
    <3> QED
      BY <3>2, <3>3
  <2> HIDE DEF h
  <2> QED
    BY <2>2, <2>3
<1>3. Bad = {}
  <2>1. SUFFICES ASSUME Bad # {} PROVE FALSE
    OBVIOUS
  <2> HIDE DEF Upto
  <2>2. PICK m \in Bad : \A x \in Bad : m <= x
    <3>1. Bad \in SUBSET Nat
      OBVIOUS
    <3> QED
      BY <2>1, <3>1, Least
  <2>3. m # 0
    BY <1>1, <2>2
  <2>4. m - 1 \in D /\ m - 1 \notin Bad /\ m = (m - 1) + 1
    BY <2>2, <2>3
  <2>5. Upto(m - 1)
    BY <2>4
  <2>6. Upto((m - 1) + 1)
    BY <1>2, <2>2, <2>4, <2>5
  <2> QED
    BY <2>2, <2>4, <2>6
<1>4. Upto(Len(xl))
  <2> HIDE DEF Upto
  <2> QED
    BY <1>3
<1>5. PICK g : /\ g = [i \in D |-> g[i]] /\ g[0] = NonNil(xl)
               /\ \A i \in 1 .. Len(xl) : g[i] = Taken(xl, g[i - 1], i)
  BY <1>4
<1>6. \A i \in D : g[i] = IF i = 0 THEN NonNil(xl) ELSE Taken(xl, g[i - 1], i)
  BY <1>5
<1>7. g = [i \in D |-> IF i = 0 THEN NonNil(xl) ELSE Taken(xl, g[i - 1], i)]
  BY <1>5, <1>6
<1> QED
  BY <1>7

\* The function of norm is what its definition says.
LEMMA FreeIs ==
    ASSUME NEW xl, Len(xl) \in Nat
    PROVE  /\ Free(xl)[0] = NonNil(xl)
           /\ \A i \in 1 .. Len(xl) : Free(xl)[i] = Taken(xl, Free(xl)[i - 1], i)
<1> DEFINE Body(g) == [i \in 0 .. Len(xl) |-> IF i = 0 THEN NonNil(xl) ELSE Taken(xl, g[i - 1], i)]
<1>1. Free(xl) = CHOOSE g : g = Body(g)
  BY DEF Free, NonNil, Taken
<1>2. \E g : g = Body(g)
  BY FreeExists
<1>3. Free(xl) = Body(Free(xl))
  <2> HIDE DEF Body
  <2> QED
    BY <1>1, <1>2
<1>4. \A i \in 0 .. Len(xl) : Free(xl)[i] = IF i = 0 THEN NonNil(xl) ELSE Taken(xl, Free(xl)[i - 1], i)
  BY <1>3
<1> QED
  BY <1>4

\* Terms that are free have not been absorbed by one before.
LEMMA FreeShrinks ==
    ASSUME NEW xl \in Seq(AnyTerms)
    PROVE  LET F == Free(xl)
           IN  /\ \A i \in 0 .. Len(xl) : F[i] \subseteq NonNil(xl)
               /\ \A i, j \in 0 .. Len(xl) : i <= j => F[j] \subseteq F[i]
               /\ \A i \in 1 .. Len(xl) : \A j \in F[i - 1] \ F[i] :
                      i \in F[i - 1] /\ j \in Absorbed(xl, F[i - 1], i)
<1> DEFINE F == Free(xl)
           n == Len(xl)
<1>1. F[0] = NonNil(xl) /\ \A i \in 1 .. n : F[i] = Taken(xl, F[i - 1], i)
  BY FreeIs
<1> HIDE DEF F
<1>2. n \in Nat
  OBVIOUS
<1>3. \A i \in 1 .. n : F[i] \subseteq F[i - 1]
  BY <1>1 DEF Taken
<1>4. ASSUME NEW i \in 0 .. n, NEW j \in 0 .. n, i <= j PROVE F[j] \subseteq F[i]
  <2> DEFINE Bad == {k \in i .. n : ~(F[k] \subseteq F[i])}
  <2>1. SUFFICES ASSUME Bad # {} PROVE FALSE
    BY <1>4
  <2>2. Bad \in SUBSET Nat
    BY <1>4
  <2>3. PICK k \in Bad : \A l \in Bad : k <= l
    BY <2>1, <2>2, Least
  <2>4. k # i /\ k - 1 \in i .. n /\ k \in 1 .. n
    BY <2>3, <1>4
  <2>5. k - 1 \notin Bad
    BY <2>3, <2>4
  <2>6. F[k] \subseteq F[k - 1] /\ F[k - 1] \subseteq F[i]
    BY <1>3, <2>4, <2>5
  <2> QED
    BY <2>3, <2>6
<1>5. \A i \in 0 .. n : F[i] \subseteq NonNil(xl)
  BY <1>1, <1>2, <1>4
<1>6. \A i \in 1 .. n : \A j \in F[i - 1] \ F[i] : i \in F[i - 1] /\ j \in Absorbed(xl, F[i - 1], i)
  BY <1>1 DEF Taken
<1> QED
  BY <1>4, <1>5, <1>6 DEF F

\* A term that is wider than another is that of an underlying type; it takes all that overlaps.
LEMMA WiderIs ==
    ASSUME TypesOK, NEW x \in RealTerms, NEW y \in RealTerms, TermUnion(x, y) = <<y>>, x # y
    PROVE  /\ y.tilde /\ ~x.tilde /\ ~Disjoint(x, y)
           /\ \A z \in RealTerms : TermUnion(y, z) # <<y, z>> => TermUnion(y, z) = <<y>>
<1>1. TermUnion(x, y) # <<x, y>> /\ TermUnion(x, y) # <<x>>
  OBVIOUS
<1>2. ~Disjoint(x, y)
  BY <1>1, Different DEF TermUnion
<1>3. ~(x.tilde \/ ~y.tilde)
  BY <1>1, <1>2, Different DEF TermUnion
<1>4. ASSUME NEW z \in RealTerms, TermUnion(y, z) # <<y, z>> PROVE TermUnion(y, z) = <<y>>
  BY <1>3, <1>4, Different DEF TermUnion
<1> QED
  BY <1>2, <1>3, <1>4

\* The term of i, grown, is its own or that of the first that is wider.
LEMMA GrownIs ==
    ASSUME NEW xl, NEW free \in SUBSET Nat, NEW i, NEW j
    PROVE  \/ Wider(xl, free, i, j) = {} /\ Grown(xl, free, i, j) = xl[i]
           \/ \E k \in Wider(xl, free, i, j) :
                  (\A l \in Wider(xl, free, i, j) : k <= l) /\ Grown(xl, free, i, j) = xl[k]
<1> DEFINE W == Wider(xl, free, i, j)
<1>1. W \in SUBSET Nat
  BY DEF Wider
<1>2. Grown(xl, free, i, j) = IF W = {} THEN xl[i] ELSE xl[CHOOSE k \in W : \A l \in W : k <= l]
  BY DEF Grown
<1> HIDE DEF W
<1>3. ASSUME W # {}
      PROVE  \E k \in W : (\A l \in W : k <= l) /\ Grown(xl, free, i, j) = xl[k]
  <2>1. \E k \in W : \A l \in W : k <= l
    BY <1>1, <1>3, Least
  <2> DEFINE m == CHOOSE k \in W : \A l \in W : k <= l
  <2>2. m \in W /\ \A l \in W : m <= l
    BY <2>1
  <2> QED
    BY <1>2, <1>3, <2>2
<1> QED
  BY <1>2, <1>3 DEF W

\* The term of i, grown over a part of the list, is between its own and the final one.
LEMMA GrowsOnce ==
    ASSUME TypesOK, NEW xl \in Seq(AnyTerms), ~IsAll(xl),
           NEW free \in SUBSET NonNil(xl), NEW i \in free, NEW j \in free, i < j
    PROVE  LET g == Grown(xl, free, i, j)
               v == Grown(xl, free, i, Len(xl) + 1)
           IN  /\ g \in RealTerms /\ v \in RealTerms
               /\ g = xl[i] \/ g = v
               /\ v = xl[i] \/ (v.tilde /\ TermUnion(xl[i], v) = <<v>>)
               /\ \A t \in Types : TermIncludes(xl[i], t) => TermIncludes(v, t)
               /\ TermUnion(g, xl[j]) # <<g, xl[j]>> =>
                     \A t \in Types : TermIncludes(xl[j], t) => TermIncludes(v, t)
<1> DEFINE n == Len(xl)
           g == Grown(xl, free, i, j)
           v == Grown(xl, free, i, n + 1)
           W(m) == Wider(xl, free, i, m)
<1>1. /\ n \in Nat /\ free \subseteq 1 .. n /\ free \in SUBSET Nat
      /\ \A k \in free : xl[k] \in RealTerms
  BY DEF NonNil, IsAll, AnyTerms
<1>2. \/ W(j) = {} /\ g = xl[i]
      \/ \E k \in W(j) : (\A l \in W(j) : k <= l) /\ g = xl[k]
  BY <1>1, GrownIs
<1>3. \/ W(n + 1) = {} /\ v = xl[i]
      \/ \E k \in W(n + 1) : (\A l \in W(n + 1) : k <= l) /\ v = xl[k]
  BY <1>1, GrownIs
<1> HIDE DEF g, v, W
<1>a. \A k \in free : k \in 1 .. n /\ k \in Nat /\ k < n + 1
  BY <1>1
<1>b. \A k \in W(j) : k < j /\ k \in free /\ xl[k] # xl[i] /\ TermUnion(xl[i], xl[k]) = <<xl[k]>> /\ i < k
  BY DEF W, Wider
<1>c. W(j) \subseteq W(n + 1)
  BY <1>a, <1>b DEF W, Wider
<1>4. W(j) \subseteq W(n + 1) /\ \A k \in W(j) : k < j /\ k \in free /\ xl[k] # xl[i]
  BY <1>b, <1>c
<1>5. \A k \in W(n + 1) : k \in free /\ (k < j => k \in W(j)) /\ TermUnion(xl[i], xl[k]) = <<xl[k]>>
  BY DEF W, Wider
<1>6. ASSUME NEW k \in W(n + 1), NEW m \in W(j), \A l \in W(n + 1) : k <= l, \A l \in W(j) : m <= l
      PROVE  k = m
  <2>1. k <= m /\ m < j /\ k \in Nat /\ m \in Nat /\ j \in Nat
    BY <1>a, <1>4, <1>5, <1>6
  <2>2. m <= k
    BY <1>5, <1>6, <2>1
  <2> QED
    BY <2>1, <2>2
<1>7. g = xl[i] \/ g = v
  BY <1>2, <1>3, <1>4, <1>6
<1>8. g \in RealTerms /\ v \in RealTerms /\ xl[i] \in RealTerms /\ xl[j] \in RealTerms
  BY <1>1, <1>2, <1>3, <1>4, <1>5
<1>9. v = xl[i] \/ (v.tilde /\ TermUnion(xl[i], v) = <<v>>)
  <2>1. CASE v # xl[i]
    <3>1. TermUnion(xl[i], v) = <<v>>
      BY <1>3, <1>5, <2>1
    <3> QED
      BY <1>8, <2>1, <3>1, WiderIs
  <2> QED
    BY <2>1
<1>10. \A t \in Types : TermIncludes(xl[i], t) => TermIncludes(v, t)
  <2>1. CASE v # xl[i]
    <3>1. TermUnion(xl[i], v) = <<v>>
      BY <1>9, <2>1
    <3> QED
      BY <1>8, <3>1, UnionIs, Different DEF AnyTerms
  <2> QED
    BY <2>1
<1>11. ASSUME TermUnion(g, xl[j]) # <<g, xl[j]>>, NEW t \in Types, TermIncludes(xl[j], t)
       PROVE  TermIncludes(v, t)
  <2>1. TermUnion(g, xl[j]) \in {<<g>>, <<xl[j]>>}
    BY <1>8, <1>11, UnionIs, Different DEF AnyTerms
  <2>2. CASE TermUnion(g, xl[j]) = <<g>>
    <3>1. TermIncludes(g, t)
      BY <1>8, <1>11, <2>2, UnionIs, Different DEF AnyTerms
    <3> QED
      BY <1>7, <1>10, <3>1
  <2>3. CASE TermUnion(g, xl[j]) = <<xl[j]>> /\ xl[j] # g /\ g # xl[i]
    <3>1. g = v /\ g.tilde /\ TermUnion(xl[i], g) = <<g>> /\ xl[i] # g
      BY <1>7, <1>9, <2>3
    <3>2. TermUnion(g, xl[j]) = <<g>>
      BY <1>8, <1>11, <3>1, WiderIs
    <3> QED
      BY <2>3, <3>2
  <2>4. CASE TermUnion(g, xl[j]) = <<xl[j]>> /\ xl[j] # g /\ g = xl[i]
    <3>1. j \in W(n + 1)
      BY <1>1, <2>4 DEF W, Wider
    <3>2. W(j) = {}
      <4>1. ASSUME NEW k \in W(j), g = xl[k] PROVE FALSE
        BY <1>4, <2>4, <4>1
      <4> QED
        BY <1>2, <4>1
    <3>3. \A k \in W(n + 1) : j <= k
      <4>1. SUFFICES ASSUME NEW k \in W(n + 1), ~(j <= k) PROVE FALSE
        OBVIOUS
      <4>2. k < j
        BY <1>a, <1>5, <4>1
      <4> QED
        BY <1>5, <3>2, <4>2
    <3>4. v = xl[j]
      <4>1. PICK k \in W(n + 1) : (\A l \in W(n + 1) : k <= l) /\ v = xl[k]
        BY <1>3, <3>1
      <4>2. k <= j /\ j <= k /\ k \in Nat /\ j \in Nat
        BY <1>1, <3>1, <3>3, <4>1
      <4> QED
        BY <4>1, <4>2
    <3> QED
      BY <1>11, <3>4
  <2>5. CASE TermUnion(g, xl[j]) = <<xl[j]>> /\ xl[j] = g
    BY <2>2, <2>5
  <2> QED
    BY <2>1, <2>2, <2>3, <2>4, <2>5
<1> QED
  BY <1>7, <1>8, <1>9, <1>10, <1>11 DEF g, v

\* The entries of a normal form: a term is kept, grown, or empty.
LEMMA NormEntry ==
    ASSUME TypesOK, NEW xl \in Seq(AnyTerms), ~IsAll(xl)
    PROVE  LET F == Free(xl)
               v == Norm(xl)
           IN  /\ v = [i \in 1 .. Len(xl) |-> v[i]]
               /\ \A i \in 1 .. Len(xl) :
                     /\ i \notin F[i - 1] => v[i] = Nil
                     /\ i \in F[i - 1] => v[i] = Grown(xl, F[i - 1], i, Len(xl) + 1)
                     /\ i \in F[i - 1] => i \in NonNil(xl) /\ v[i] \in RealTerms
                     /\ i \in F[i - 1] => v[i] = xl[i] \/ (v[i].tilde /\ TermUnion(xl[i], v[i]) = <<v[i]>>)
                     /\ i \in F[i - 1] => \E k \in 1 .. Len(xl) : v[i] = xl[k]
<1> DEFINE F == Free(xl)
           n == Len(xl)
           v == Norm(xl)
<1>1. v = [i \in 1 .. n |-> IF i \in F[i - 1] THEN Grown(xl, F[i - 1], i, n + 1) ELSE Nil]
  BY DEF Norm
<1> HIDE DEF v
<1>2. n \in Nat /\ DOMAIN xl = 1 .. n /\ \A i \in 1 .. n : F[i - 1] \in SUBSET NonNil(xl)
  <2>1. \A i \in 0 .. n : F[i] \subseteq NonNil(xl)
    BY FreeShrinks
  <2>2. \A i \in 1 .. n : i - 1 \in 0 .. n
    OBVIOUS
  <2> QED
    BY <2>1, <2>2
<1> HIDE DEF F
<1>3. NonNil(xl) \in SUBSET (1 .. n) /\ \A k \in NonNil(xl) : xl[k] \in RealTerms
  BY <1>2 DEF NonNil, IsAll, AnyTerms
<1>4. ASSUME NEW i \in 1 .. n, i \in F[i - 1]
      PROVE  /\ \E k \in 1 .. n : v[i] = xl[k]
             /\ v[i] \in RealTerms
             /\ v[i] = xl[i] \/ (v[i].tilde /\ TermUnion(xl[i], v[i]) = <<v[i]>>)
  <2>1. F[i - 1] \in SUBSET Nat /\ F[i - 1] \subseteq NonNil(xl)
    BY <1>2, <1>3
  <2>2. v[i] = Grown(xl, F[i - 1], i, n + 1)
    BY <1>1, <1>4
  <2>3. \/ v[i] = xl[i]
        \/ \E k \in Wider(xl, F[i - 1], i, n + 1) : v[i] = xl[k]
    <3> DEFINE W == Wider(xl, F[i - 1], i, n + 1)
               g == Grown(xl, F[i - 1], i, n + 1)
    <3>1. \/ W = {} /\ g = xl[i]
          \/ \E k \in W : (\A l \in W : k <= l) /\ g = xl[k]
      <4>1. F[i - 1] \in SUBSET Nat
        BY <2>1
      <4> QED
        BY ONLY <4>1, GrownIs
    <3> HIDE DEF W, g
    <3>2. v[i] = g
      BY <2>2 DEF g
    <3>3. v[i] = xl[i] \/ \E k \in W : v[i] = xl[k]
      BY <3>1, <3>2
    <3> QED
      BY <3>3 DEF W
  <2>4. CASE v[i] = xl[i]
    BY <1>3, <1>4, <2>1, <2>4
  <2>5. ASSUME NEW k \in Wider(xl, F[i - 1], i, n + 1), v[i] = xl[k]
        PROVE  k \in NonNil(xl) /\ TermUnion(xl[i], v[i]) = <<v[i]>> /\ xl[i] # v[i]
    BY <2>1, <2>5 DEF Wider
  <2>6. ASSUME NEW k \in Wider(xl, F[i - 1], i, n + 1), v[i] = xl[k]
        PROVE  /\ \E l \in 1 .. n : v[i] = xl[l]
               /\ v[i] \in RealTerms
               /\ v[i].tilde /\ TermUnion(xl[i], v[i]) = <<v[i]>>
    <3>1. v[i] \in RealTerms /\ xl[i] \in RealTerms
      BY <1>3, <1>4, <2>1, <2>5, <2>6
    <3> QED
      BY <1>3, <2>5, <2>6, <3>1, WiderIs
  <2> QED
    BY <2>3, <2>4, <2>6
<1> QED
  BY <1>1, <1>2, <1>3, <1>4 DEF F, v

\* A normal form has the types of the list.
LEMMA NormIncludes ==
    ASSUME TypesOK, NEW xl \in Seq(AnyTerms), NEW t \in Types
    PROVE  Includes(Norm(xl), t) <=> Includes(xl, t)
<1> DEFINE F == Free(xl)
           n == Len(xl)
           v == Norm(xl)
<1>1. ~TermIncludes(Nil, t) /\ TermIncludes(Univ, t)
  BY Different DEF TermIncludes
<1>2. CASE IsAll(xl)
  <2>1. v = <<Univ>>
    BY <1>2 DEF Norm, AllTermlist
  <2>2. 1 \in DOMAIN v /\ v[1] = Univ
    BY <2>1
  <2> QED
    BY <1>1, <1>2, <2>2 DEF Includes, IsAll
<1>3. CASE ~IsAll(xl)
  <2>1. /\ DOMAIN v = 1 .. n /\ n \in Nat /\ DOMAIN xl = 1 .. n
        /\ \A i \in 1 .. n :
              /\ i \notin F[i - 1] => v[i] = Nil
              /\ i \in F[i - 1] => v[i] = Grown(xl, F[i - 1], i, n + 1)
              /\ i \in F[i - 1] => i \in NonNil(xl) /\ v[i] \in RealTerms
              /\ i \in F[i - 1] => v[i] = xl[i] \/ (v[i].tilde /\ TermUnion(xl[i], v[i]) = <<v[i]>>)
              /\ i \in F[i - 1] => \E k \in 1 .. n : v[i] = xl[k]
    BY <1>3, NormEntry
  <2>2. /\ F[0] = NonNil(xl)
        /\ \A i \in 0 .. n : F[i] \subseteq NonNil(xl)
        /\ \A i \in 1 .. n : \A j \in F[i - 1] \ F[i] :
              i \in F[i - 1] /\ j \in Absorbed(xl, F[i - 1], i)
    BY <2>1, FreeIs, FreeShrinks
  <2> HIDE DEF F, v
  <2>3. ASSUME NEW i \in 1 .. n, TermIncludes(v[i], t) PROVE Includes(xl, t)
    <3>1. i \in F[i - 1]
      BY <1>1, <2>1, <2>3
    <3>2. PICK k \in 1 .. n : v[i] = xl[k]
      BY <2>1, <3>1
    <3> QED
      BY <2>1, <2>3, <3>2 DEF Includes
  <2>4. ASSUME NEW j \in 1 .. n, TermIncludes(xl[j], t) PROVE Includes(v, t)
    <3>1. j \in NonNil(xl) /\ xl[j] \in AnyTerms \ {Nil}
      BY <1>1, <2>1, <2>4 DEF NonNil
    <3>2. CASE j \in F[j - 1]
      <4>1. v[j] \in AnyTerms \ {Nil}
        BY <2>1, <3>2, Different DEF AnyTerms
      <4>2. CASE v[j] # xl[j]
        <5>1. TermUnion(xl[j], v[j]) = <<v[j]>>
          BY <2>1, <3>2, <4>2
        <5>2. TermIncludes(v[j], t)
          BY <2>4, <3>1, <4>1, <5>1, UnionIs
        <5> QED
          BY <2>1, <5>2 DEF Includes
      <4> QED
        BY <2>1, <2>4, <4>2 DEF Includes
    <3>3. CASE j \notin F[j - 1]
      <4> DEFINE Used == {k \in 0 .. j - 1 : j \notin F[k]}
      <4>1. PICK i \in Used : \A l \in Used : i <= l
        <5>1. Used \in SUBSET Nat /\ j - 1 \in Used
          BY <3>3
        <5> QED
          BY <5>1, Least
      <4>2. i # 0 /\ i \in 1 .. j - 1 /\ i \in 1 .. n /\ i - 1 \in 0 .. j - 1 /\ ~(i <= i - 1)
        BY <2>1, <2>2, <3>1, <4>1
      <4>3. j \in F[i - 1] /\ j \notin F[i]
        BY <4>1, <4>2
      <4>4. i \in F[i - 1] /\ j \in Absorbed(xl, F[i - 1], i) /\ F[i - 1] \in SUBSET NonNil(xl)
        <5>1. i - 1 \in 0 .. n
          BY <4>2
        <5> QED
          BY <2>2, <4>2, <4>3, <5>1
      <4>5. i < j /\ Len(TermUnion(Grown(xl, F[i - 1], i, j), xl[j])) = 1
        BY <4>4 DEF Absorbed
      <4>6. TermUnion(Grown(xl, F[i - 1], i, j), xl[j]) # <<Grown(xl, F[i - 1], i, j), xl[j]>>
        BY <4>5
      <4>7. TermIncludes(Grown(xl, F[i - 1], i, n + 1), t)
        BY <1>3, <2>4, <4>3, <4>4, <4>5, <4>6, GrowsOnce
      <4> QED
        BY <2>1, <4>2, <4>4, <4>7 DEF Includes
    <3> QED
      BY <3>2, <3>3
  <2> QED
    BY <2>1, <2>3, <2>4 DEF Includes, v
<1> QED
  BY <1>2, <1>3

\* No term that is kept overlaps what one before has grown to when it came to it.
LEMMA KeptApart ==
    ASSUME TypesOK, NEW xl \in Seq(AnyTerms), ~IsAll(xl),
           NEW i \in 1 .. Len(xl), NEW k \in 1 .. Len(xl), i < k,
           i \in Free(xl)[i - 1], k \in Free(xl)[k - 1]
    PROVE  /\ k \in Free(xl)[i - 1] /\ Free(xl)[k - 1] \subseteq Free(xl)[i - 1]
           /\ Free(xl)[i - 1] \in SUBSET NonNil(xl)
           /\ Grown(xl, Free(xl)[i - 1], i, k) \in RealTerms
           /\ xl[k] \in RealTerms
           /\ Disjoint(Grown(xl, Free(xl)[i - 1], i, k), xl[k])
<1> DEFINE F == Free(xl)
           g == Grown(xl, F[i - 1], i, k)
<1>a. Len(xl) \in Nat
  OBVIOUS
<1>b. \A m \in 1 .. Len(xl) : F[m] = Taken(xl, F[m - 1], m)
  BY <1>a, FreeIs
<1>c. /\ \A m \in 0 .. Len(xl) : F[m] \subseteq NonNil(xl)
      /\ \A m, l \in 0 .. Len(xl) : m <= l => F[l] \subseteq F[m]
  BY FreeShrinks
<1>1. /\ \A m \in 0 .. Len(xl) : F[m] \subseteq NonNil(xl)
      /\ \A m, l \in 0 .. Len(xl) : m <= l => F[l] \subseteq F[m]
      /\ \A m \in 1 .. Len(xl) : F[m] = Taken(xl, F[m - 1], m)
  BY <1>b, <1>c
<1>2. i - 1 \in 0 .. Len(xl) /\ i \in 0 .. Len(xl) /\ k - 1 \in 0 .. Len(xl) /\ i <= k - 1 /\ i - 1 <= k - 1
  OBVIOUS
<1>3. F[k - 1] \subseteq F[i] /\ F[k - 1] \subseteq F[i - 1] /\ F[i - 1] \in SUBSET NonNil(xl)
  BY <1>1, <1>2
<1>4. k \in F[i] /\ k \in F[i - 1]
  BY <1>3
<1>5. k \notin Absorbed(xl, F[i - 1], i)
  BY <1>1, <1>4 DEF Taken
<1>6. Len(TermUnion(g, xl[k])) # 1
  BY <1>4, <1>5 DEF Absorbed
<1>7. g \in RealTerms
  BY <1>3, <1>4, GrowsOnce
<1>8. xl[k] \in RealTerms
  <2>1. k \in NonNil(xl)
    BY <1>3, <1>4
  <2> QED
    BY <2>1 DEF NonNil, IsAll, AnyTerms
<1>9. Disjoint(g, xl[k])
  BY <1>6, <1>7, <1>8, UnionIs, Different DEF AnyTerms
<1> QED
  BY <1>3, <1>4, <1>7, <1>8, <1>9

\* Terms of a list do not overlap; the later ones of an ordered list are wider than none before.
Apart(xl) ==
    \A j, k \in DOMAIN xl : j # k /\ Nil \notin {xl[j], xl[k]} =>
        Univ \notin {xl[j], xl[k]} /\ Disjoint(xl[j], xl[k])
Ordered(xl) ==
    \A j, k \in DOMAIN xl : j < k /\ Nil \notin {xl[j], xl[k]} =>
        /\ Univ \notin {xl[j], xl[k]}
        /\ Disjoint(xl[j], xl[k]) \/ xl[j].tilde \/ ~xl[k].tilde

\* Terms of a program, with nil and the universe.
Closed(X) == X \subseteq AnyTerms /\ {Nil, Univ} \subseteq X

\* norm makes a list of its terms.
LEMMA NormType ==
    ASSUME TypesOK, NEW X, Closed(X), NEW xl \in Seq(X)
    PROVE  Norm(xl) \in Seq(X)
<1>1. CASE IsAll(xl)
  BY <1>1 DEF Norm, AllTermlist, Closed
<1>2. CASE ~IsAll(xl)
  <2>1. xl \in Seq(AnyTerms) /\ Len(xl) \in Nat
    BY SeqDef DEF Closed
  <2>2. /\ Norm(xl) = [i \in 1 .. Len(xl) |-> Norm(xl)[i]]
        /\ \A i \in 1 .. Len(xl) :
              /\ i \notin Free(xl)[i - 1] => Norm(xl)[i] = Nil
              /\ i \in Free(xl)[i - 1] => \E k \in 1 .. Len(xl) : Norm(xl)[i] = xl[k]
    BY <1>2, <2>1, NormEntry
  <2>3. \A i \in 1 .. Len(xl) : Norm(xl)[i] \in X
    BY <2>2 DEF Closed
  <2> DEFINE w == Norm(xl)
  <2> HIDE DEF w
  <2>4. w = [i \in 1 .. Len(xl) |-> w[i]] /\ \A i \in 1 .. Len(xl) : w[i] \in X
    BY <2>2, <2>3 DEF w
  <2>5. w \in [1 .. Len(xl) -> X]
    BY <2>4
  <2>6. w \in Seq(X)
    BY <2>1, <2>5
  <2> QED
    BY <2>6 DEF w
<1> QED
  BY <1>1, <1>2

\* A list of one term is normal.
LEMMA AloneApart == Apart(AllTermlist) /\ Ordered(AllTermlist)
BY DEF Apart, Ordered, AllTermlist

\* A normal list is ordered.
LEMMA ApartOrdered ==
    ASSUME NEW xl, DOMAIN xl \subseteq Nat, Apart(xl) PROVE Ordered(xl)
BY DEF Apart, Ordered

\* norm orders a list: one that is not wide has been widened by all that are behind it.
LEMMA NormOrdered ==
    ASSUME TypesOK, NEW xl \in Seq(AnyTerms)
    PROVE  Ordered(Norm(xl))
<1>1. CASE IsAll(xl)
  BY <1>1, AloneApart DEF Norm
<1>2. CASE ~IsAll(xl)
  <2> DEFINE F == Free(xl)
             n == Len(xl)
             v == Norm(xl)
  <2>1. /\ DOMAIN v = 1 .. n /\ n \in Nat
        /\ \A i \in 1 .. n :
              /\ i \notin F[i - 1] => v[i] = Nil
              /\ i \in F[i - 1] => v[i] = Grown(xl, F[i - 1], i, n + 1)
              /\ i \in F[i - 1] => i \in NonNil(xl) /\ v[i] \in RealTerms
    BY <1>2, NormEntry
  <2>2. ASSUME NEW i \in 1 .. n, NEW k \in 1 .. n, i < k, v[i] # Nil, v[k] # Nil,
               ~v[i].tilde, v[k].tilde
        PROVE  Disjoint(v[i], v[k])
    <3>1. i \in F[i - 1] /\ k \in F[k - 1]
      BY <2>1, <2>2
    <3>2. /\ k \in F[i - 1] /\ F[k - 1] \subseteq F[i - 1] /\ F[i - 1] \in SUBSET NonNil(xl)
          /\ Disjoint(Grown(xl, F[i - 1], i, k), xl[k])
      BY <1>2, <2>2, <3>1, KeptApart
    <3>3. /\ v[i] = Grown(xl, F[i - 1], i, n + 1) /\ v[k] = Grown(xl, F[k - 1], k, n + 1)
          /\ v[i] \in RealTerms /\ v[k] \in RealTerms
      BY <2>1, <3>1
    <3>4. F[i - 1] \in SUBSET Nat /\ F[k - 1] \in SUBSET Nat
      BY <3>2 DEF NonNil
    <3>5. \A m \in F[i - 1] : xl[m] \in RealTerms
      BY <1>2, <3>2 DEF NonNil, IsAll, AnyTerms
    <3> HIDE DEF F, v, n
    <3>6. \/ Wider(xl, F[i - 1], i, n + 1) = {} /\ v[i] = xl[i]
          \/ \E m \in Wider(xl, F[i - 1], i, n + 1) : v[i] = xl[m]
      BY <3>3, <3>4, GrownIs
    <3>7. Wider(xl, F[i - 1], i, n + 1) = {} /\ v[i] = xl[i]
      <4>1. ASSUME NEW m \in Wider(xl, F[i - 1], i, n + 1), v[i] = xl[m] PROVE FALSE
        <5>1. m \in F[i - 1] /\ xl[m] # xl[i] /\ TermUnion(xl[i], xl[m]) = <<xl[m]>>
          BY <4>1 DEF Wider
        <5>2. xl[m].tilde
          BY <3>1, <3>5, <5>1, WiderIs
        <5> QED
          BY <2>2, <4>1, <5>2
      <4> QED
        BY <3>6, <4>1
    <3>8. \/ v[k] = xl[k]
          \/ \E m \in Wider(xl, F[k - 1], k, n + 1) : v[k] = xl[m]
      BY <3>3, <3>4, GrownIs
    <3>9. Wider(xl, F[i - 1], i, k) = {}
      BY <2>1, <2>2, <3>4, <3>7 DEF Wider
    <3>10. Grown(xl, F[i - 1], i, k) = xl[i]
      BY <3>9 DEF Grown
    <3>11. CASE v[k] = xl[k]
      BY <3>2, <3>7, <3>10, <3>11
    <3>12. ASSUME NEW m \in Wider(xl, F[k - 1], k, n + 1), v[k] = xl[m]
           PROVE  Disjoint(v[i], v[k])
      <4>1. SUFFICES ASSUME ~Disjoint(v[i], v[k]) PROVE FALSE
        OBVIOUS
      <4>2. m \in F[i - 1] /\ k < m /\ m < n + 1
        BY <3>2, <3>12 DEF Wider
      <4>3. i < m
        BY <3>4, <4>2, <2>2
      <4>4. xl[m] # xl[i]
        BY <2>2, <3>7, <3>12
      <4>5. TermUnion(xl[i], xl[m]) = <<xl[m]>>
        BY <2>2, <3>3, <3>7, <3>12, <4>1, Different DEF TermUnion
      <4>6. m \in Wider(xl, F[i - 1], i, n + 1)
        BY <4>2, <4>3, <4>4, <4>5 DEF Wider
      <4> QED
        BY <3>7, <4>6
    <3> QED
      BY <3>8, <3>11, <3>12
  <2>3. \A i \in 1 .. n : v[i] # Nil => v[i] # Univ
    BY <2>1, Different
  <2> HIDE DEF v, n
  <2> QED
    BY <2>1, <2>2, <2>3 DEF Ordered, v
<1> QED
  BY <1>1, <1>2

\* Of an ordered list, norm makes a normal form.
LEMMA NormApart ==
    ASSUME TypesOK, NEW xl \in Seq(AnyTerms), Ordered(xl)
    PROVE  Apart(Norm(xl))
<1>1. CASE IsAll(xl)
  BY <1>1, AloneApart DEF Norm
<1>2. CASE ~IsAll(xl)
  <2> DEFINE F == Free(xl)
             n == Len(xl)
             v == Norm(xl)
  <2>1. /\ DOMAIN v = 1 .. n /\ n \in Nat
        /\ \A i \in 1 .. n :
              /\ i \notin F[i - 1] => v[i] = Nil
              /\ i \in F[i - 1] => v[i] = Grown(xl, F[i - 1], i, n + 1)
              /\ i \in F[i - 1] => i \in NonNil(xl) /\ v[i] \in RealTerms
    BY <1>2, NormEntry
  <2>2. ASSUME NEW i \in 1 .. n, NEW free \in SUBSET NonNil(xl), i \in free, NEW j
        PROVE  Grown(xl, free, i, j) = xl[i]
    <3>1. SUFFICES ASSUME NEW k \in Wider(xl, free, i, j) PROVE FALSE
      BY DEF Grown
    <3>2. k \in free /\ i < k /\ xl[k] # xl[i] /\ TermUnion(xl[i], xl[k]) = <<xl[k]>>
      BY <3>1 DEF Wider
    <3>3. xl[i] \in RealTerms /\ xl[k] \in RealTerms /\ k \in 1 .. n /\ xl[i] # Nil /\ xl[k] # Nil
      BY <1>2, <2>2, <3>2 DEF NonNil, IsAll, AnyTerms
    <3>4. xl[k].tilde /\ ~xl[i].tilde /\ ~Disjoint(xl[i], xl[k])
      BY <3>2, <3>3, WiderIs
    <3>5. DOMAIN xl = 1 .. n
      OBVIOUS
    <3> QED
      BY <3>2, <3>3, <3>4, <3>5 DEF Ordered
  <2>3. ASSUME NEW i \in 1 .. n, NEW k \in 1 .. n, i < k, v[i] # Nil, v[k] # Nil
        PROVE  Disjoint(v[i], v[k]) /\ Disjoint(v[k], v[i])
    <3>1. i \in F[i - 1] /\ k \in F[k - 1]
      BY <2>1, <2>3
    <3>2. /\ k \in F[i - 1] /\ F[k - 1] \subseteq F[i - 1] /\ F[i - 1] \in SUBSET NonNil(xl)
          /\ Disjoint(Grown(xl, F[i - 1], i, k), xl[k])
      BY <1>2, <2>3, <3>1, KeptApart
    <3>3. Grown(xl, F[i - 1], i, k) = xl[i] /\ v[i] = xl[i]
      BY <2>1, <2>2, <3>1, <3>2
    <3>4. v[k] = xl[k]
      <4>1. F[k - 1] \in SUBSET NonNil(xl)
        BY <3>2
      <4> QED
        BY <2>1, <2>2, <3>1, <4>1
    <3>5. v[i] \in RealTerms /\ v[k] \in RealTerms
      BY <2>1, <3>1
    <3> QED
      BY <3>2, <3>3, <3>4, <3>5, OverlapIs
  <2>4. \A i \in 1 .. n : v[i] # Nil => v[i] # Univ
    BY <2>1, Different
  <2> HIDE DEF v, n
  <2>5. \A i, k \in 1 .. n : i # k => i < k \/ k < i
    BY <2>1
  <2> QED
    BY <2>1, <2>3, <2>4, <2>5 DEF Apart, v
<1> QED
  BY <1>1, <1>2

-----------------------------------------------------------------------------
(* Unions and intersections of lists.                                        *)

\* The union of lists has the types of both.
THEOREM UnionOfLists ==
    ASSUME TypesOK, NEW X, Closed(X), NEW xl \in Seq(X), NEW yl \in Seq(X)
    PROVE  /\ Union(xl, yl) \in Seq(X) /\ Ordered(Union(xl, yl))
           /\ \A t \in Types : Includes(Union(xl, yl), t) <=> Includes(xl, t) \/ Includes(yl, t)
<1> DEFINE zl == xl \o yl
<1>1. zl \in Seq(X) /\ zl \in Seq(AnyTerms) /\ Len(zl) = Len(xl) + Len(yl)
  BY SeqDef DEF Closed
<1>2. /\ \A i \in 1 .. Len(xl) : zl[i] = xl[i]
      /\ \A i \in 1 .. Len(yl) : zl[Len(xl) + i] = yl[i]
      /\ \A i \in 1 .. Len(zl) : i \in 1 .. Len(xl) \/ i - Len(xl) \in 1 .. Len(yl)
      /\ \A i \in 1 .. Len(zl) : i \notin 1 .. Len(xl) => zl[i] = yl[i - Len(xl)]
  OBVIOUS
<1> DEFINE m == Len(xl)
           n == Len(yl)
<1>3. /\ m \in Nat /\ n \in Nat /\ DOMAIN zl = 1 .. m + n /\ DOMAIN xl = 1 .. m /\ DOMAIN yl = 1 .. n
      /\ \A i \in 1 .. m : zl[i] = xl[i]
      /\ \A i \in 1 .. n : zl[m + i] = yl[i]
      /\ \A i \in 1 .. m + n : i \notin 1 .. m => zl[i] = yl[i - m]
  BY <1>1, <1>2
<1> HIDE DEF zl, m, n
<1>4. ASSUME NEW t \in Types PROVE Includes(zl, t) <=> Includes(xl, t) \/ Includes(yl, t)
  <2>1. ASSUME NEW i \in 1 .. m, TermIncludes(xl[i], t) PROVE Includes(zl, t)
    <3>1. i \in 1 .. m + n
      BY <1>3
    <3> QED
      BY <1>3, <2>1, <3>1 DEF Includes
  <2>2. ASSUME NEW i \in 1 .. n, TermIncludes(yl[i], t) PROVE Includes(zl, t)
    <3>1. m + i \in 1 .. m + n
      BY <1>3
    <3> QED
      BY <1>3, <2>2, <3>1 DEF Includes
  <2>3. ASSUME NEW i \in 1 .. m + n, TermIncludes(zl[i], t) PROVE Includes(xl, t) \/ Includes(yl, t)
    <3>1. CASE i \in 1 .. m
      BY <1>3, <2>3, <3>1 DEF Includes
    <3>2. CASE i \notin 1 .. m
      <4>1. i - m \in 1 .. n
        BY <1>3, <3>2
      <4> QED
        BY <1>3, <2>3, <3>2, <4>1 DEF Includes
    <3> QED
      BY <3>1, <3>2
  <2> QED
    BY <1>3, <2>1, <2>2, <2>3 DEF Includes
<1>5. Union(xl, yl) = Norm(zl)
  BY DEF Union, zl
<1> QED
  BY <1>1, <1>4, <1>5, NormType, NormOrdered, NormIncludes

\* Where the pair of a and b is, of two lists, the second of length n.
Place(a, b, n) == (a - 1) * n + b

\* The pairs of two lists, row by row.
LEMMA PairsIs ==
    ASSUME TypesOK, NEW X, Closed(X), NEW xl \in Seq(X), NEW yl \in Seq(X), Len(yl) # 0
    PROVE  /\ Pairs(xl, yl) \in Seq(X)
           /\ \A k \in DOMAIN Pairs(xl, yl) : \E a \in DOMAIN xl, b \in DOMAIN yl :
                  k = Place(a, b, Len(yl)) /\ Pairs(xl, yl)[k] = TermIntersect(xl[a], yl[b])
           /\ \A a \in DOMAIN xl, b \in DOMAIN yl : \E k \in DOMAIN Pairs(xl, yl) :
                  Pairs(xl, yl)[k] = TermIntersect(xl[a], yl[b])
<1> DEFINE p == Pairs(xl, yl)
           m == Len(xl)
           n == Len(yl)
<1>1. /\ m \in Nat /\ n \in Nat /\ n > 0 /\ DOMAIN xl = 1 .. m /\ DOMAIN yl = 1 .. n
      /\ \A a \in 1 .. m : xl[a] \in X /\ xl[a] \in AnyTerms
      /\ \A b \in 1 .. n : yl[b] \in X /\ yl[b] \in AnyTerms
  BY DEF Closed
<1>2. p = [k \in 1 .. m * n |-> TermIntersect(xl[((k - 1) \div n) + 1], yl[((k - 1) % n) + 1])]
  BY DEF Pairs
<1> HIDE DEF p, m, n
<1>3. m * n \in Nat
  BY <1>1
<1>4. ASSUME NEW k \in 1 .. m * n
      PROVE  \E a \in 1 .. m, b \in 1 .. n :
                 k = Place(a, b, n) /\ p[k] = TermIntersect(xl[a], yl[b])
  <2> DEFINE q == (k - 1) \div n
             r == (k - 1) % n
  <2>1. q \in Int /\ r \in 0 .. n - 1 /\ k - 1 = n * q + r
    BY <1>1, <1>3
  <2> HIDE DEF q, r
  <2>2. q >= 0
    BY <1>1, <1>3, <2>1
  <2>3. q < m
    BY <1>1, <1>3, <2>1
  <2>4. q + 1 \in 1 .. m /\ r + 1 \in 1 .. n /\ k = Place(q + 1, r + 1, n)
    BY <1>1, <2>1, <2>2, <2>3 DEF Place
  <2>5. p[k] = TermIntersect(xl[q + 1], yl[r + 1])
    BY <1>2 DEF q, r
  <2> QED
    BY <2>4, <2>5
<1>5. ASSUME NEW a \in 1 .. m, NEW b \in 1 .. n
      PROVE  \E k \in 1 .. m * n : p[k] = TermIntersect(xl[a], yl[b])
  <2> DEFINE k == (a - 1) * n + b
  <2>1. (a - 1) * n \in Nat /\ (a - 1) * n + n <= m * n
    BY <1>1
  <2>2. k \in 1 .. m * n
    BY <1>1, <1>3, <2>1
  <2>3. (k - 1) \div n = a - 1 /\ (k - 1) % n = b - 1
    BY <1>1, <2>1
  <2>4. p[k] = TermIntersect(xl[((k - 1) \div n) + 1], yl[((k - 1) % n) + 1])
    BY <1>2, <2>2
  <2>5. (a - 1) + 1 = a /\ (b - 1) + 1 = b
    BY <1>1
  <2> QED
    BY <2>2, <2>3, <2>4, <2>5
<1>6. ASSUME NEW k \in 1 .. m * n PROVE p[k] \in X
  <2>1. PICK a \in 1 .. m, b \in 1 .. n : p[k] = TermIntersect(xl[a], yl[b])
    BY <1>4
  <2>2. p[k] \in {xl[a], yl[b], Nil}
    BY <1>1, <2>1, IntersectIs
  <2> QED
    BY <1>1, <2>2 DEF Closed
<1>7. p \in Seq(X) /\ DOMAIN p = 1 .. m * n
  <2>1. DOMAIN p = 1 .. m * n /\ p = [k \in 1 .. m * n |-> p[k]]
    BY <1>2
  <2>2. PICK L \in Nat : L = m * n
    BY <1>3
  <2>3. \A k \in 1 .. L : p[k] \in X
    BY <1>6, <2>2
  <2>4. p = [k \in 1 .. L |-> p[k]]
    BY <2>1, <2>2
  <2>5. p \in [1 .. L -> X]
    BY <2>3, <2>4
  <2> QED
    BY <2>1, <2>2, <2>5, SeqDef
<1>8. DOMAIN xl = 1 .. m /\ DOMAIN yl = 1 .. n
  BY <1>1
<1>9. \A k \in DOMAIN p : \E a \in DOMAIN xl, b \in DOMAIN yl :
          k = Place(a, b, n) /\ p[k] = TermIntersect(xl[a], yl[b])
  BY <1>4, <1>7, <1>8
<1>10. \A a \in DOMAIN xl, b \in DOMAIN yl : \E k \in DOMAIN p : p[k] = TermIntersect(xl[a], yl[b])
  BY <1>5, <1>7, <1>8
<1> QED
  BY <1>7, <1>9, <1>10 DEF p, n

\* The terms of the intersections of two lists are apart, if one is normal, the other ordered.
LEMMA PairsOrdered ==
    ASSUME TypesOK, NEW xl \in Seq(AnyTerms), NEW yl \in Seq(AnyTerms), Len(yl) # 0,
           Apart(xl), Ordered(yl)
    PROVE  Ordered(Pairs(xl, yl))
<1> DEFINE p == Pairs(xl, yl)
           n == Len(yl)
<1>1. Closed(AnyTerms)
  BY DEF Closed, AnyTerms
<1>2. \A k \in DOMAIN p : \E a \in DOMAIN xl, b \in DOMAIN yl :
          k = Place(a, b, n) /\ p[k] = TermIntersect(xl[a], yl[b])
  BY <1>1, PairsIs
<1> HIDE DEF p
<1>3. SUFFICES ASSUME NEW j \in DOMAIN p, NEW k \in DOMAIN p, j < k, p[j] # Nil, p[k] # Nil
               PROVE  /\ Univ \notin {p[j], p[k]}
                      /\ Disjoint(p[j], p[k]) \/ p[j].tilde \/ ~p[k].tilde
  BY DEF Ordered, p
<1>4. PICK a \in DOMAIN xl, b \in DOMAIN yl : j = Place(a, b, n) /\ p[j] = TermIntersect(xl[a], yl[b])
  BY <1>2
<1>5. PICK c \in DOMAIN xl, d \in DOMAIN yl : k = Place(c, d, n) /\ p[k] = TermIntersect(xl[c], yl[d])
  BY <1>2
<1>6. xl[a] \in AnyTerms /\ xl[c] \in AnyTerms /\ yl[b] \in AnyTerms /\ yl[d] \in AnyTerms
  OBVIOUS
<1>7. xl[a] # Nil /\ xl[c] # Nil /\ yl[b] # Nil /\ yl[d] # Nil
  <2>1. \A y : TermIntersect(Nil, y) = Nil /\ TermIntersect(y, Nil) = Nil
    <3>1. ASSUME NEW y PROVE TermIntersect(Nil, y) = Nil
      BY Different DEF TermIntersect
    <3>2. ASSUME NEW y PROVE TermIntersect(y, Nil) = Nil
      BY Different DEF TermIntersect
    <3> QED
      BY <3>1, <3>2
  <2> QED
    BY <1>3, <1>4, <1>5, <2>1
<1>8. /\ p[j] \in AnyTerms /\ p[k] \in AnyTerms
      /\ p[j] = Univ => xl[a] = Univ /\ yl[b] = Univ
      /\ p[k] = Univ => xl[c] = Univ /\ yl[d] = Univ
      /\ \A t \in Types : TermIncludes(p[j], t) => TermIncludes(xl[a], t) /\ TermIncludes(yl[b], t)
      /\ \A t \in Types : TermIncludes(p[k], t) => TermIncludes(xl[c], t) /\ TermIncludes(yl[d], t)
  <2>1. Nil \in AnyTerms
    BY DEF AnyTerms
  <2>2. /\ p[j] \in {xl[a], yl[b], Nil}
        /\ p[j] = Univ => xl[a] = Univ /\ yl[b] = Univ
        /\ \A t \in Types : TermIncludes(p[j], t) => TermIncludes(xl[a], t) /\ TermIncludes(yl[b], t)
    BY <1>4, <1>6, IntersectIs
  <2>3. /\ p[k] \in {xl[c], yl[d], Nil}
        /\ p[k] = Univ => xl[c] = Univ /\ yl[d] = Univ
        /\ \A t \in Types : TermIncludes(p[k], t) => TermIncludes(xl[c], t) /\ TermIncludes(yl[d], t)
    BY <1>5, <1>6, IntersectIs
  <2> QED
    BY <1>6, <2>1, <2>2, <2>3
<1>9. CASE a # c
  <2>1. Univ \notin {xl[a], xl[c]} /\ Disjoint(xl[a], xl[c])
    BY <1>7, <1>9 DEF Apart
  <2>2. xl[a] \in RealTerms /\ xl[c] \in RealTerms /\ p[j] \in RealTerms /\ p[k] \in RealTerms
    BY <1>3, <1>6, <1>7, <1>8, <2>1 DEF AnyTerms
  <2>3. \A t \in Types : ~(TermIncludes(xl[a], t) /\ TermIncludes(xl[c], t))
    BY <2>1, <2>2, OverlapIs
  <2>4. \A t \in Types : ~(TermIncludes(p[j], t) /\ TermIncludes(p[k], t))
    BY <1>8, <2>3
  <2> QED
    BY <2>2, <2>4, OverlapIs, Different
<1>10. CASE a = c
  <2>1. b < d
    <3> DEFINE r == (a - 1) * n
    <3>1. n \in Nat /\ a \in Nat /\ b \in Nat /\ d \in Nat
      OBVIOUS
    <3>2. r \in Int
      BY <3>1
    <3>3. j = r + b /\ k = r + d
      BY <1>4, <1>5, <1>10 DEF Place
    <3> HIDE DEF r
    <3> QED
      BY <1>3, <3>1, <3>2, <3>3
  <2>2. /\ Univ \notin {yl[b], yl[d]}
        /\ Disjoint(yl[b], yl[d]) \/ yl[b].tilde \/ ~yl[d].tilde
    BY <1>7, <2>1 DEF Ordered
  <2>3. yl[b] \in RealTerms /\ yl[d] \in RealTerms /\ p[j] \in RealTerms /\ p[k] \in RealTerms
    BY <1>3, <1>6, <1>7, <1>8, <2>2 DEF AnyTerms
  <2>4. CASE Disjoint(yl[b], yl[d])
    <3>1. \A t \in Types : ~(TermIncludes(yl[b], t) /\ TermIncludes(yl[d], t))
      BY <2>3, <2>4, OverlapIs
    <3>2. \A t \in Types : ~(TermIncludes(p[j], t) /\ TermIncludes(p[k], t))
      BY <1>8, <3>1
    <3> QED
      BY <2>3, <3>2, OverlapIs, Different
  <2>5. CASE yl[b].tilde \/ ~yl[d].tilde
    <3>1. CASE xl[a] = Univ
      <4>1. p[j] = yl[b] /\ p[k] = yl[d]
        BY <1>4, <1>5, <1>7, <1>10, <3>1, Different DEF TermIntersect
      <4> QED
        BY <2>3, <2>5, <4>1, Different
    <3>2. CASE xl[a] # Univ
      <4>1. xl[a] \in RealTerms
        BY <1>6, <1>7, <3>2 DEF AnyTerms
      <4>2. /\ p[j] = IF ~xl[a].tilde \/ yl[b].tilde THEN xl[a] ELSE yl[b]
            /\ p[k] = IF ~xl[a].tilde \/ yl[d].tilde THEN xl[a] ELSE yl[d]
        BY <1>3, <1>4, <1>5, <1>10, <2>3, <4>1, Different DEF TermIntersect
      <4>3. p[j].tilde \/ ~p[k].tilde
        BY <2>5, <4>2
      <4> QED
        BY <2>3, <4>3, Different
    <3> QED
      BY <3>1, <3>2
  <2> QED
    BY <2>2, <2>4, <2>5
<1> QED
  BY <1>9, <1>10

\* The intersection of lists has the types of both, and is normal.
THEOREM IntersectOfLists ==
    ASSUME TypesOK, NEW X, Closed(X), NEW xl \in Seq(X), NEW yl \in Seq(X), Apart(xl), Ordered(yl)
    PROVE  /\ Intersect(xl, yl) \in Seq(X) /\ Apart(Intersect(xl, yl))
           /\ \A t \in Types : Includes(Intersect(xl, yl), t) <=> Includes(xl, t) /\ Includes(yl, t)
<1>1. \A t : ~TermIncludes(Nil, t)
  BY DEF TermIncludes
<1>2. CASE IsEmpty(xl) \/ IsEmpty(yl)
  <2>1. Intersect(xl, yl) = <<>>
    BY <1>2 DEF Intersect
  <2>2. \A t \in Types : ~Includes(<<>>, t) /\ ~(Includes(xl, t) /\ Includes(yl, t))
    BY <1>1, <1>2 DEF Includes, IsEmpty
  <2>3. Apart(<<>>)
    BY DEF Apart
  <2> QED
    BY <2>1, <2>2, <2>3
<1>3. CASE ~(IsEmpty(xl) \/ IsEmpty(yl))
  <2>1. Len(yl) # 0
    BY <1>3 DEF IsEmpty
  <2> DEFINE p == Pairs(xl, yl)
  <2>2. xl \in Seq(AnyTerms) /\ yl \in Seq(AnyTerms)
    BY SeqDef DEF Closed
  <2>3. p \in Seq(X) /\ Ordered(p)
    BY <2>1, <2>2, PairsIs, PairsOrdered
  <2>4. p \in Seq(AnyTerms)
    BY <2>3, SeqDef DEF Closed
  <2>5. /\ \A k \in DOMAIN p : \E a \in DOMAIN xl, b \in DOMAIN yl : p[k] = TermIntersect(xl[a], yl[b])
        /\ \A a \in DOMAIN xl, b \in DOMAIN yl : \E k \in DOMAIN p : p[k] = TermIntersect(xl[a], yl[b])
    <3>1. \A k \in DOMAIN p : \E a \in DOMAIN xl, b \in DOMAIN yl :
                 k = Place(a, b, Len(yl)) /\ p[k] = TermIntersect(xl[a], yl[b])
      BY <2>1, PairsIs
    <3>2. \A a \in DOMAIN xl, b \in DOMAIN yl : \E k \in DOMAIN p : p[k] = TermIntersect(xl[a], yl[b])
      BY <2>1, PairsIs
    <3> HIDE DEF p
    <3> QED
      BY <3>1, <3>2
  <2> HIDE DEF p
  <2>6. \A a \in DOMAIN xl, b \in DOMAIN yl : \A t \in Types :
            TermIncludes(TermIntersect(xl[a], yl[b]), t) <=> TermIncludes(xl[a], t) /\ TermIncludes(yl[b], t)
    BY <2>2, IntersectIs
  <2>7. ASSUME NEW t \in Types
        PROVE  Includes(p, t) <=> Includes(xl, t) /\ Includes(yl, t)
    <3>1. ASSUME Includes(p, t) PROVE Includes(xl, t) /\ Includes(yl, t)
      <4>1. PICK k \in DOMAIN p : TermIncludes(p[k], t)
        BY <3>1 DEF Includes
      <4>2. PICK a \in DOMAIN xl, b \in DOMAIN yl : p[k] = TermIntersect(xl[a], yl[b])
        BY <2>5
      <4>3. TermIncludes(xl[a], t) /\ TermIncludes(yl[b], t)
        BY <2>6, <4>1, <4>2
      <4> QED
        BY <4>3 DEF Includes
    <3>2. ASSUME Includes(xl, t), Includes(yl, t) PROVE Includes(p, t)
      <4>1. PICK a \in DOMAIN xl, b \in DOMAIN yl : TermIncludes(xl[a], t) /\ TermIncludes(yl[b], t)
        BY <3>2 DEF Includes
      <4>2. PICK k \in DOMAIN p : p[k] = TermIntersect(xl[a], yl[b])
        BY <2>5
      <4>3. TermIncludes(p[k], t)
        BY <2>6, <4>1, <4>2
      <4> QED
        BY <4>3 DEF Includes
    <3> QED
      BY <3>1, <3>2
  <2>8. Intersect(xl, yl) = Norm(p)
    BY <1>3 DEF Intersect, p
  <2> QED
    BY <2>3, <2>4, <2>7, <2>8, NormType, NormApart, NormIncludes
<1> QED
  BY <1>2, <1>3

-----------------------------------------------------------------------------
(* Type sets.                                                                *)

\* A type set, of terms in X: its list is normal, comparable is for all types only, and a
\* name has one method.
OneForName(ms) == \A m, o \in ms : m.name = o.name => m = o
Sets(X) ==
    {s \in [methods : SUBSET Method, terms : Seq(X), comparable : BOOLEAN,
            errors : SUBSET {m.name : m \in Method}] :
        /\ Apart(s.terms)
        /\ s.comparable => IsAll(s.terms)
        /\ OneForName(s.methods)}

\* A term has a comparable type only if all its types are.
LEMMA TermComparable ==
    ASSUME TypesOK, NEW x \in RealTerms, NEW t \in Types, TermIncludes(x, t)
    PROVE  x.typ \in Comparable <=> t \in Comparable
BY Different DEF TypesOK, RealTerms, TermIncludes

\* Terms and the bit for comparable are intersected, and the latter is dropped into the terms.
LEMMA TermListsIs ==
    ASSUME TypesOK, NEW X, Closed(X), NEW x \in Sets(X),
           NEW terms \in Seq(X), Ordered(terms), NEW comparable \in BOOLEAN
    PROVE  LET y == IntersectTermLists(x, terms, comparable)
           IN  /\ y \in Sets(X) /\ y.methods = x.methods /\ y.errors = x.errors
               /\ \A t \in Types : t \in TypesIn(y) <=>
                     t \in TypesIn(x) /\ Includes(terms, t) /\ (comparable => t \in Comparable)
<1> DEFINE both == Intersect(x.terms, terms)
           comp == x.comparable \/ comparable
           kept == [i \in DOMAIN both |-> IF both[i].typ \in Comparable THEN both[i] ELSE Nil]
           y == IntersectTermLists(x, terms, comparable)
<1>1. /\ both \in Seq(X) /\ Apart(both)
      /\ \A t \in Types : Includes(both, t) <=> Includes(x.terms, t) /\ Includes(terms, t)
  BY IntersectOfLists DEF Sets
<1>2. y = IF comp /\ ~IsAll(both) THEN [x EXCEPT !.terms = kept, !.comparable = FALSE]
                                  ELSE [x EXCEPT !.terms = both, !.comparable = comp]
  BY DEF IntersectTermLists
<1> HIDE DEF both, y
<1>3. CASE comp /\ ~IsAll(both)
  <2>1. DOMAIN both = 1 .. Len(both) /\ Len(both) \in Nat /\ \A i \in DOMAIN both : both[i] \in X /\ both[i] \in AnyTerms
    BY <1>1 DEF Closed
  <2>2. kept \in Seq(X) /\ DOMAIN kept = DOMAIN both
    <3>1. \A i \in DOMAIN both : kept[i] \in X
      BY <2>1 DEF Closed
    <3>2. kept = [i \in 1 .. Len(both) |-> kept[i]]
      BY <2>1
    <3> HIDE DEF kept
    <3>3. kept \in [1 .. Len(both) -> X]
      BY <2>1, <3>1, <3>2
    <3> QED
      BY <2>1, <3>3
  <2>3. Apart(kept)
    BY <1>1, <2>2 DEF Apart
  <2>4. \A i \in DOMAIN both : both[i] = Nil \/ both[i] \in RealTerms
    BY <1>3, <2>1 DEF IsAll, AnyTerms
  <2>5. \A t \in Types, i \in DOMAIN both :
            TermIncludes(kept[i], t) <=> TermIncludes(both[i], t) /\ t \in Comparable
    <3>1. \A t : ~TermIncludes(Nil, t)
      BY DEF TermIncludes
    <3> QED
      BY <2>4, <3>1, TermComparable
  <2> HIDE DEF kept
  <2>6. \A t \in Types : Includes(kept, t) <=> Includes(both, t) /\ t \in Comparable
    BY <2>2, <2>5 DEF Includes
  <2>7. /\ y.terms = kept /\ y.comparable = FALSE /\ y.methods = x.methods /\ y.errors = x.errors
        /\ y \in Sets(X)
    BY <1>2, <1>3, <2>2, <2>3 DEF Sets
  <2>8. \A t \in Types : t \in TypesIn(y) <=> Includes(kept, t)
    BY <2>7 DEF TypesIn
  <2>9. \A t \in Types : t \in TypesIn(x) <=> Includes(x.terms, t) /\ (x.comparable => t \in Comparable)
    BY DEF TypesIn
  <2> QED
    BY <1>1, <1>3, <2>6, <2>7, <2>8, <2>9 DEF y
<1>4. CASE ~(comp /\ ~IsAll(both))
  <2>1. /\ y.terms = both /\ y.comparable = comp /\ y.methods = x.methods /\ y.errors = x.errors
        /\ y \in Sets(X)
    BY <1>1, <1>2, <1>4 DEF Sets
  <2>2. \A t \in Types : t \in TypesIn(y) <=> Includes(both, t) /\ (comp => t \in Comparable)
    BY <2>1 DEF TypesIn
  <2>3. \A t \in Types : t \in TypesIn(x) <=> Includes(x.terms, t) /\ (x.comparable => t \in Comparable)
    BY DEF TypesIn
  <2> QED
    BY <1>1, <2>1, <2>2, <2>3 DEF y
<1> QED
  BY <1>3, <1>4

\* The names that are declared twice, and those that have different methods.
Doubles(ms) ==
    {ms[j].name : j \in {j \in DOMAIN ms : \E k \in 1 .. j - 1 : ms[k].name = ms[j].name}}
Differing(A) == {m.name : m \in {m \in A : \E o \in A : o # m /\ o.name = m.name}}

\* A type set has one method for each name in A, and reports clashes, and those in D.
Merges(s, A, D) ==
    /\ s.methods \subseteq A
    /\ \A m \in A : \E o \in s.methods : o.name = m.name
    /\ OneForName(s.methods)
    /\ s.errors = Differing(A) \cup D

\* The set of all types is a type set.
LEMMA TopIsSet ==
    ASSUME NEW X, Closed(X)
    PROVE  /\ TopTypeSet \in Sets(X)
           /\ \A t \in Types : t \in TypesIn(TopTypeSet)
<1>1. AllTermlist \in Seq(X) /\ IsAll(AllTermlist) /\ DOMAIN AllTermlist = {1} /\ AllTermlist[1] = Univ
  BY DEF AllTermlist, Closed, IsAll
<1>2. \A t \in Types : Includes(AllTermlist, t)
  <2>1. Univ # Nil
    BY DEF Univ, Nil
  <2> QED
    BY <1>1, <2>1 DEF Includes, TermIncludes
<1> QED
  BY <1>1, <1>2, AloneApart DEF TopTypeSet, Sets, OneForName, TypesIn

\* The methods and errors of a type set are replaced.
LEMMA Replaced ==
    ASSUME NEW ms, NEW terms, NEW comparable, NEW errors, NEW M, NEW E
    PROVE  [[methods |-> ms, terms |-> terms, comparable |-> comparable, errors |-> errors]
               EXCEPT !.methods = M, !.errors = E]
           = [methods |-> M, terms |-> terms, comparable |-> comparable, errors |-> E]
<1> DEFINE r == [methods |-> ms, terms |-> terms, comparable |-> comparable, errors |-> errors]
           q == [methods |-> M, terms |-> terms, comparable |-> comparable, errors |-> errors]
<1>1. [r EXCEPT !.methods = M] = q
  OBVIOUS
<1>2. [q EXCEPT !.errors = E] = [methods |-> M, terms |-> terms, comparable |-> comparable, errors |-> E]
  OBVIOUS
<1> HIDE DEF r, q
<1>3. [r EXCEPT !.methods = M, !.errors = E]
      = [methods |-> M, terms |-> terms, comparable |-> comparable, errors |-> E]
  BY <1>1, <1>2
<1> QED
  BY <1>3 DEF r

\* The methods that an interface declares.
LEMMA OwnMethodsIs ==
    ASSUME NEW X, Closed(X), NEW ms \in Seq(Method)
    PROVE  /\ OwnMethods(ms) \in Sets(X)
           /\ Merges(OwnMethods(ms), Range(ms), Doubles(ms))
           /\ \A t \in Types : t \in TypesIn(OwnMethods(ms))
<1> DEFINE s == OwnMethods(ms)
           seen == {j \in DOMAIN ms : \E k \in 1 .. j - 1 : ms[k].name = ms[j].name}
<1>1. /\ s.methods = {ms[j] : j \in DOMAIN ms \ seen}
      /\ s.errors = {ms[j].name : j \in seen}
      /\ s.terms = AllTermlist /\ s.comparable = FALSE
      /\ s = [methods |-> s.methods, terms |-> s.terms, comparable |-> s.comparable, errors |-> s.errors]
  <2> DEFINE M == {ms[j] : j \in DOMAIN ms \ seen}
             E == {ms[j].name : j \in seen}
  <2>1. s = [TopTypeSet EXCEPT !.methods = M, !.errors = E]
    BY DEF OwnMethods
  <2> HIDE DEF s, M, E
  <2>2. s = [methods |-> M, terms |-> AllTermlist, comparable |-> FALSE, errors |-> E]
    BY <2>1, Replaced DEF TopTypeSet
  <2> QED
    BY <2>2 DEF M, E
<1> HIDE DEF s
<1>2. DOMAIN ms = 1 .. Len(ms) /\ Len(ms) \in Nat /\ \A j \in DOMAIN ms : ms[j] \in Method
  OBVIOUS
<1>3. ASSUME NEW j \in DOMAIN ms, NEW k \in DOMAIN ms, j \notin seen, k \notin seen, ms[j].name = ms[k].name
      PROVE  j = k
  <2>1. ~(j < k) /\ ~(k < j)
    <3>1. j < k => j \in 1 .. k - 1
      BY <1>2
    <3>2. k < j => k \in 1 .. j - 1
      BY <1>2
    <3> QED
      BY <1>3, <3>1, <3>2
  <2> QED
    BY <1>2, <2>1
<1>4. OneForName(s.methods)
  BY <1>1, <1>3 DEF OneForName
<1>5. ASSUME NEW j \in DOMAIN ms
      PROVE  \E o \in s.methods : o.name = ms[j].name
  <2> DEFINE Same == {k \in DOMAIN ms : ms[k].name = ms[j].name}
  <2>1. Same \in SUBSET Nat /\ Same # {}
    BY <1>2, <1>5
  <2>2. PICK k \in Same : \A l \in Same : k <= l
    BY <2>1, Least
  <2>3. ASSUME NEW l \in 1 .. k - 1 PROVE ms[l].name # ms[k].name
    <3>1. l \in DOMAIN ms /\ ~(k <= l)
      BY <1>2, <2>2
    <3> QED
      BY <2>2, <3>1
  <2>4. k \notin seen
    BY <2>3
  <2> QED
    BY <1>1, <2>2, <2>4
<1>6. Differing(Range(ms)) \subseteq s.errors
  <2>1. ASSUME NEW j \in DOMAIN ms, NEW k \in DOMAIN ms, ms[j] # ms[k], ms[j].name = ms[k].name
        PROVE  ms[j].name \in s.errors
    <3>1. j < k \/ k < j
      BY <1>2, <2>1
    <3>2. j < k => k \in seen
      BY <1>2, <2>1
    <3>3. k < j => j \in seen
      BY <1>2, <2>1
    <3> QED
      BY <1>1, <2>1, <3>1, <3>2, <3>3
  <2> QED
    BY <2>1 DEF Differing, Range
<1>7. Merges(s, Range(ms), Doubles(ms))
  BY <1>1, <1>4, <1>5, <1>6 DEF Merges, Doubles, Range
<1>8. /\ TopTypeSet \in Sets(X) /\ TopTypeSet.terms = AllTermlist /\ TopTypeSet.comparable = FALSE
      /\ \A t \in Types : t \in TypesIn(TopTypeSet)
  BY TopIsSet DEF TopTypeSet
<1>9. s \in Sets(X)
  <2>1. s.methods \subseteq Method /\ s.errors \subseteq {m.name : m \in Method}
    BY <1>1, <1>2
  <2> HIDE DEF seen
  <2> QED
    BY <1>1, <1>4, <1>8, <2>1 DEF Sets
<1>10. TypesIn(s) = TypesIn(TopTypeSet)
  BY <1>1, <1>8 DEF TypesIn
<1> QED
  BY <1>7, <1>8, <1>9, <1>10 DEF s

\* The methods of an embedded interface are added.
LEMMA AddMethodsIs ==
    ASSUME NEW X, NEW x \in Sets(X), NEW ms \in SUBSET Method, OneForName(ms)
    PROVE  LET y == AddMethods(x, ms)
           IN  /\ y \in Sets(X) /\ TypesIn(y) = TypesIn(x)
               /\ \A A, D : Merges(x, A, D) => Merges(y, A \cup ms, D)
<1> DEFINE y == AddMethods(x, ms)
           Seen(m) == \E o \in x.methods : o.name = m.name
<1>1. /\ y.methods = x.methods \cup {m \in ms : ~Seen(m)}
      /\ y.errors = x.errors \cup {m.name : m \in {m \in ms : Seen(m) /\ m \notin x.methods}}
      /\ y.terms = x.terms /\ y.comparable = x.comparable
      /\ y = [methods |-> y.methods, terms |-> y.terms, comparable |-> y.comparable, errors |-> y.errors]
  <2> DEFINE M == x.methods \cup {m \in ms : ~Seen(m)}
             E == x.errors \cup {m.name : m \in {m \in ms : Seen(m) /\ m \notin x.methods}}
  <2>1. y = [x EXCEPT !.methods = M, !.errors = E]
    BY DEF AddMethods
  <2>2. x = [methods |-> x.methods, terms |-> x.terms, comparable |-> x.comparable, errors |-> x.errors]
    BY DEF Sets
  <2> HIDE DEF y, M, E
  <2>3. y = [methods |-> M, terms |-> x.terms, comparable |-> x.comparable, errors |-> E]
    BY <2>1, <2>2, Replaced
  <2> QED
    BY <2>3 DEF M, E
<1> HIDE DEF y
<1>2. OneForName(x.methods) /\ x.methods \subseteq Method /\ x.errors \subseteq {m.name : m \in Method}
  BY DEF Sets
<1>3. OneForName(y.methods)
  BY <1>1, <1>2 DEF OneForName
<1>4. y.methods \subseteq Method /\ y.errors \subseteq {m.name : m \in Method}
  BY <1>1, <1>2
<1>5. y \in Sets(X)
  BY <1>1, <1>3, <1>4 DEF Sets
<1>6. ASSUME NEW A, NEW D, Merges(x, A, D) PROVE Merges(y, A \cup ms, D)
  <2>1. /\ x.methods \subseteq A /\ x.errors = Differing(A) \cup D
        /\ \A m \in A : \E o \in x.methods : o.name = m.name
    BY <1>6 DEF Merges
  <2>2. \A m \in A \cup ms : \E o \in y.methods : o.name = m.name
    BY <1>1, <2>1
  <2>3. ASSUME NEW m \in ms, Seen(m), m \notin x.methods PROVE m.name \in Differing(A \cup ms)
    BY <2>1, <2>3 DEF Differing
  <2>4. Differing(A) \subseteq Differing(A \cup ms)
    BY DEF Differing
  <2>5. ASSUME NEW m \in A \cup ms, NEW o \in A \cup ms, m # o, m.name = o.name
        PROVE  m.name \in y.errors \cup Differing(A)
    <3>1. CASE m \in A /\ o \in A
      BY <2>5, <3>1 DEF Differing
    <3>2. ASSUME NEW a \in A, NEW b \in ms, a # b, a.name = b.name
          PROVE  b.name \in y.errors \cup Differing(A)
      <4>1. Seen(b)
        BY <2>1, <3>2
      <4>2. CASE b \in x.methods
        BY <2>1, <3>2, <4>2 DEF Differing
      <4> QED
        BY <1>1, <4>1, <4>2
    <3>3. ~(m \in ms /\ o \in ms)
      BY <2>5 DEF OneForName
    <3> QED
      BY <2>5, <3>1, <3>2, <3>3
  <2>6. Differing(A \cup ms) \subseteq y.errors \cup Differing(A)
    BY <2>5 DEF Differing
  <2>7. y.errors = Differing(A \cup ms) \cup D
    BY <1>1, <2>1, <2>3, <2>4, <2>6
  <2>8. y.methods \subseteq A \cup ms
    BY <1>1, <2>1
  <2> QED
    BY <1>3, <2>2, <2>7, <2>8 DEF Merges
<1>7. TypesIn(y) = TypesIn(x)
  BY <1>1 DEF TypesIn
<1> QED
  BY <1>5, <1>6, <1>7 DEF y

-----------------------------------------------------------------------------
(* The inductive invariant.                                                  *)

\* The terms that are written in a program, with nil and the universe.
Written(p) ==
    {x \in RealTerms : \E i \in DOMAIN p : \E e \in Range(p[i].elems) :
        /\ e.kind = "union"
        /\ \E t \in Range(e.terms) : t.kind = "type" /\ t.tilde = x.tilde /\ t.typ = x.typ}
X == Written(ifaces) \cup {Nil, Univ}

\* The interfaces that an element uses, the methods of i with those of its first n elements.
Uses(e) ==
    CASE e.kind = "comparable" -> {}
      [] e.kind = "iface" -> {e.iface}
      [] e.kind = "union" -> {e.terms[j].iface : j \in {j \in DOMAIN e.terms : e.terms[j].kind = "iface"}}
MethodsUpTo(i, n) ==
    Range(ifaces[i].methods)
    \cup UNION {tset[ifaces[i].elems[j].iface].methods :
                   j \in {j \in 1 .. n : ifaces[i].elems[j].kind = "iface"}}

\* s is the type set of i as far as its first n elements go.
Exact(i, n, s) ==
    /\ \A j \in 1 .. n : Uses(ifaces[i].elems[j]) \subseteq Settled
    /\ \A t \in Types : t \in TypesIn(s) <=> \A j \in 1 .. n : t \in OfElem(ifaces[i].elems[j])
    /\ Merges(s, MethodsUpTo(i, n), Doubles(ifaces[i].methods))

\* The terms of c are those of the first terms of the union that it is at.
UnionExact(c) ==
    LET e == ifaces[c.iface].elems[c.elem + 1]
    IN  c.elem < Len(ifaces[c.iface].elems) /\ e.kind = "union" =>
            /\ \A j \in 1 .. c.term : e.terms[j].kind = "iface" => e.terms[j].iface \in Settled
            /\ \A t \in Types : Includes(c.terms, t) <=> \E j \in 1 .. c.term : t \in OfTerm(e.terms[j])

Frames == [iface : DOMAIN ifaces, set : Sets(X), elem : Nat, term : Nat, terms : Seq(X)]
FrameOK(c) ==
    LET elems == ifaces[c.iface].elems
    IN  /\ c \in Frames
        /\ c.elem <= Len(elems)
        /\ c.elem < Len(elems) /\ elems[c.elem + 1].kind = "union" =>
              c.term <= Len(elems[c.elem + 1].terms)
        /\ Ordered(c.terms)

TypeInv ==
    /\ ifaces \in Programs
    /\ complete \subseteq DOMAIN ifaces
    /\ tset \in [DOMAIN ifaces -> Sets(X) \cup {NoSet}]
    /\ loose \subseteq DOMAIN ifaces
    /\ calls \in Seq(Frames)
    /\ \A c \in Range(calls) : FrameOK(c)
StackInv ==
    /\ \A m \in DOMAIN calls : tset[calls[m].iface] # NoSet
    /\ \A m, l \in DOMAIN calls : m < l => calls[l].iface < calls[m].iface
IInv ==
    /\ TypeInv
    /\ StackInv
    /\ \A c \in Range(calls) : c.iface \notin loose => Exact(c.iface, c.elem, c.set) /\ UnionExact(c)
    /\ \A i \in Settled : Exact(i, Len(ifaces[i].elems), tset[i])

\* The terms of a program are a set of terms.
LEMMA XClosed == Closed(X)
BY DEF Closed, X, Written, AnyTerms

\* A set that is stored is not the nil pointer.
LEMMA NoSetIsNone == NoSet \notin Sets(X)
<1>1. NoSet.comparable = TRUE /\ ~IsAll(NoSet.terms)
  BY DEF NoSet, TopTypeSet, IsAll
<1> QED
  BY <1>1 DEF Sets

\* What IsProgram says of the interfaces.
LEMMA ProgramIs ==
    ASSUME ProgramsOK, ifaces \in Programs, NEW i \in DOMAIN ifaces
    PROVE  /\ TypesOK /\ i \in Nat /\ DOMAIN ifaces \subseteq Nat
           /\ ifaces[i].methods \in Seq(Method)
           /\ ifaces[i].elems \in Seq(Elements(i))
           /\ Len(ifaces[i].elems) \in Nat
           /\ \A j \in DOMAIN ifaces[i].elems :
                 LET e == ifaces[i].elems[j]
                 IN  /\ e.kind \in {"comparable", "iface", "union"}
                     /\ e.kind = "iface" => e.iface \in DOMAIN ifaces /\ e.iface < i
                     /\ e.kind = "union" =>
                           /\ Len(e.terms) \in Nat /\ DOMAIN e.terms = 1 .. Len(e.terms)
                           /\ \A k \in DOMAIN e.terms :
                                 LET t == e.terms[k]
                                 IN  /\ t.kind \in {"iface", "type"}
                                     /\ t.kind = "iface" => t.iface \in DOMAIN ifaces /\ t.iface < i
                                     /\ t.kind = "type" => t.tilde \in BOOLEAN /\ t.typ \in Types
<1>1. IsProgram(ifaces) /\ TypesOK
  BY DEF ProgramsOK
<1>2. DOMAIN ifaces = 1 .. Len(ifaces) /\ Len(ifaces) \in Nat
      /\ ifaces[i] \in [methods : Seq(Method), elems : Seq(Elements(i))]
  BY <1>1 DEF IsProgram
<1>3. \A k \in 1 .. i - 1 : k \in DOMAIN ifaces /\ k < i
  BY <1>2
<1>4. ASSUME NEW t \in Operands(i)
      PROVE  /\ t.kind \in {"iface", "type"}
             /\ t.kind = "iface" => t.iface \in 1 .. i - 1
             /\ t.kind = "type" => t.tilde \in BOOLEAN /\ t.typ \in Types
  <2>1. CASE t \in [kind : {"iface"}, iface : 1 .. i - 1]
    BY <2>1
  <2>2. CASE t \in [kind : {"type"}, tilde : BOOLEAN, typ : Types]
    BY <2>2
  <2> QED
    BY <2>1, <2>2 DEF Operands
<1>5. ASSUME NEW e \in Elements(i)
      PROVE  /\ e.kind \in {"comparable", "iface", "union"}
             /\ e.kind = "iface" => e.iface \in 1 .. i - 1
             /\ e.kind = "union" => e.terms \in Seq(Operands(i))
  <2>1. CASE e \in [kind : {"comparable"}]
    BY <2>1
  <2>2. CASE e \in [kind : {"iface"}, iface : 1 .. i - 1]
    BY <2>2
  <2>3. CASE e \in [kind : {"union"}, terms : Seq(Operands(i))]
    BY <2>3
  <2> QED
    BY <2>1, <2>2, <2>3 DEF Elements
<1>6. ASSUME NEW j \in DOMAIN ifaces[i].elems
      PROVE  ifaces[i].elems[j] \in Elements(i)
  BY <1>2
<1>7. ASSUME NEW j \in DOMAIN ifaces[i].elems, NEW e, e = ifaces[i].elems[j]
      PROVE  /\ e.kind \in {"comparable", "iface", "union"}
             /\ e.kind = "iface" => e.iface \in DOMAIN ifaces /\ e.iface < i
             /\ e.kind = "union" =>
                   /\ Len(e.terms) \in Nat /\ DOMAIN e.terms = 1 .. Len(e.terms)
                   /\ \A k \in DOMAIN e.terms :
                         LET t == e.terms[k]
                         IN  /\ t.kind \in {"iface", "type"}
                             /\ t.kind = "iface" => t.iface \in DOMAIN ifaces /\ t.iface < i
                             /\ t.kind = "type" => t.tilde \in BOOLEAN /\ t.typ \in Types
  <2>1. e \in Elements(i)
    BY <1>6, <1>7
  <2>2. /\ e.kind \in {"comparable", "iface", "union"}
        /\ e.kind = "iface" => e.iface \in 1 .. i - 1
        /\ e.kind = "union" => e.terms \in Seq(Operands(i))
    BY <1>5, <2>1
  <2>3. ASSUME e.kind = "union"
        PROVE  /\ Len(e.terms) \in Nat /\ DOMAIN e.terms = 1 .. Len(e.terms)
               /\ \A k \in DOMAIN e.terms : e.terms[k] \in Operands(i)
    BY <2>2, <2>3
  <2> QED
    BY <1>3, <1>4, <2>2, <2>3
<1> QED
  BY <1>1, <1>2, <1>7

\* What the elements of an interface are stays so while the sets that they use do.
LEMMA Stable ==
    ASSUME ProgramsOK, ifaces \in Programs, UNCHANGED ifaces, Settled \subseteq Settled',
           \A k \in Settled : tset'[k] = tset[k],
           NEW i \in DOMAIN ifaces, NEW n \in Nat, n <= Len(ifaces[i].elems), NEW s, Exact(i, n, s)
    PROVE  Exact(i, n, s)'
<1> DEFINE elems == ifaces[i].elems
<1>1. /\ \A j \in 1 .. n : Uses(elems[j]) \subseteq Settled
      /\ \A t \in Types : t \in TypesIn(s) <=> \A j \in 1 .. n : t \in OfElem(elems[j])
      /\ Merges(s, MethodsUpTo(i, n), Doubles(ifaces[i].methods))
  BY DEF Exact
<1>2. Len(elems) \in Nat /\ \A j \in 1 .. n : j \in DOMAIN elems
  BY ProgramIs
<1>3. ASSUME NEW j \in 1 .. n, elems[j].kind = "iface"
      PROVE  elems[j].iface \in Settled /\ tset'[elems[j].iface] = tset[elems[j].iface]
  BY <1>1, <1>3 DEF Uses
<1>4. ASSUME NEW j \in 1 .. n, elems[j].kind = "union", NEW k \in DOMAIN elems[j].terms,
             elems[j].terms[k].kind = "iface"
      PROVE  tset'[elems[j].terms[k].iface] = tset[elems[j].terms[k].iface]
  BY <1>1, <1>4 DEF Uses
<1>5. ASSUME NEW j \in 1 .. n PROVE OfElem(elems[j])' = OfElem(elems[j])
  <2> DEFINE e == elems[j]
  <2>1. e' = e
    OBVIOUS
  <2>2. e.kind \in {"comparable", "iface", "union"}
    BY <1>2, ProgramIs
  <2>3. CASE e.kind = "comparable"
    BY <2>1, <2>3 DEF OfElem
  <2>4. CASE e.kind = "iface"
    <3>1. OfElem(e) = TypesIn(tset[e.iface]) /\ OfElem(e)' = TypesIn(tset'[e.iface])
      BY <2>1, <2>4 DEF OfElem, TypesIn
    <3> QED
      BY <1>3, <2>4, <3>1
  <2>5. CASE e.kind = "union"
    <3>1. \A k \in DOMAIN e.terms : e.terms[k].kind \in {"iface", "type"}
      BY <1>2, <2>5, ProgramIs
    <3>2. \A k \in DOMAIN e.terms : OfTerm(e.terms[k])' = OfTerm(e.terms[k])
      <4> SUFFICES ASSUME NEW k \in DOMAIN e.terms PROVE OfTerm(e.terms[k])' = OfTerm(e.terms[k])
        OBVIOUS
      <4>1. CASE e.terms[k].kind = "iface"
        <5>1. /\ OfTerm(e.terms[k]) = TypesIn(tset[e.terms[k].iface])
              /\ OfTerm(e.terms[k])' = TypesIn(tset'[e.terms[k].iface])
          BY <4>1 DEF OfTerm, TypesIn
        <5> QED
          BY <1>4, <2>5, <4>1, <5>1
      <4>2. CASE e.terms[k].kind = "type"
        BY <4>2 DEF OfTerm
      <4> QED
        BY <3>1, <4>1, <4>2
    <3>3. /\ OfElem(e) = UNION {OfTerm(e.terms[k]) : k \in DOMAIN e.terms}
          /\ OfElem(e)' = UNION {OfTerm(e.terms[k])' : k \in DOMAIN e.terms}
      BY <2>1, <2>5 DEF OfElem
    <3> QED
      BY <3>2, <3>3
  <2> QED
    BY <2>2, <2>3, <2>4, <2>5
<1>6. MethodsUpTo(i, n)' = MethodsUpTo(i, n)
  BY <1>3 DEF MethodsUpTo
<1>7. \A j \in 1 .. n : (Uses(elems[j]) \subseteq Settled)'
  <2>1. \A j \in 1 .. n : Uses(elems[j])' = Uses(elems[j])
    BY DEF Uses
  <2> QED
    BY <1>1, <2>1
<1>8. (\A t \in Types : t \in TypesIn(s) <=> \A j \in 1 .. n : t \in OfElem(elems[j]))'
  BY <1>1, <1>5 DEF TypesIn
<1>9. Merges(s, MethodsUpTo(i, n), Doubles(ifaces[i].methods))'
  BY <1>1, <1>6 DEF Merges, Doubles
<1> QED
  BY <1>7, <1>8, <1>9 DEF Exact

\* The same of the union that a call is at.
LEMMA UnionStable ==
    ASSUME ProgramsOK, ifaces \in Programs, UNCHANGED ifaces, Settled \subseteq Settled',
           \A k \in Settled : tset'[k] = tset[k],
           NEW c, FrameOK(c), UnionExact(c)
    PROVE  UnionExact(c)'
<1> DEFINE e == ifaces[c.iface].elems[c.elem + 1]
<1>1. /\ c.iface \in DOMAIN ifaces /\ c.elem \in Nat /\ c.term \in Nat
      /\ (c.elem < Len(ifaces[c.iface].elems) /\ e.kind = "union") => c.term <= Len(e.terms)
  BY DEF FrameOK, Frames
<1>2. SUFFICES ASSUME c.elem < Len(ifaces[c.iface].elems), e.kind = "union"
               PROVE  /\ \A j \in 1 .. c.term : e.terms[j].kind = "iface" => e.terms[j].iface \in Settled'
                      /\ \A t \in Types : Includes(c.terms, t) <=>
                                             \E j \in 1 .. c.term : t \in OfTerm(e.terms[j])'
  BY DEF UnionExact, Includes
<1>3. /\ \A j \in 1 .. c.term : e.terms[j].kind = "iface" => e.terms[j].iface \in Settled
      /\ \A t \in Types : Includes(c.terms, t) <=> \E j \in 1 .. c.term : t \in OfTerm(e.terms[j])
  BY <1>2 DEF UnionExact
<1>4. \A j \in 1 .. c.term : e.terms[j].kind \in {"iface", "type"}
  <2>1. c.elem + 1 \in DOMAIN ifaces[c.iface].elems
    <3>1. Len(ifaces[c.iface].elems) \in Nat /\ DOMAIN ifaces[c.iface].elems = 1 .. Len(ifaces[c.iface].elems)
      BY <1>1, ProgramIs
    <3> QED
      BY <1>1, <1>2, <3>1
  <2>2. Len(e.terms) \in Nat /\ \A k \in 1 .. Len(e.terms) : e.terms[k].kind \in {"iface", "type"}
    <3> DEFINE i == c.iface
               j == c.elem + 1
    <3>1. i \in DOMAIN ifaces /\ j \in DOMAIN ifaces[i].elems /\ ifaces[i].elems[j].kind = "union"
      BY <1>1, <1>2, <2>1
    <3> HIDE DEF i, j
    <3>2. /\ Len(ifaces[i].elems[j].terms) \in Nat
          /\ DOMAIN ifaces[i].elems[j].terms = 1 .. Len(ifaces[i].elems[j].terms)
          /\ \A k \in DOMAIN ifaces[i].elems[j].terms :
                ifaces[i].elems[j].terms[k].kind \in {"iface", "type"}
      BY <3>1, ProgramIs
    <3> QED
      BY <3>2 DEF i, j
  <2>3. c.term <= Len(e.terms) /\ c.term \in Nat
    BY <1>1, <1>2
  <2> HIDE DEF e
  <2> QED
    BY <2>2, <2>3
<1>5. ASSUME NEW j \in 1 .. c.term PROVE OfTerm(e.terms[j])' = OfTerm(e.terms[j])
  <2>1. CASE e.terms[j].kind = "iface"
    <3>1. /\ OfTerm(e.terms[j]) = TypesIn(tset[e.terms[j].iface])
          /\ OfTerm(e.terms[j])' = TypesIn(tset'[e.terms[j].iface])
      BY <2>1 DEF OfTerm, TypesIn
    <3> QED
      BY <1>3, <2>1, <3>1
  <2>2. CASE e.terms[j].kind = "type"
    BY <2>2 DEF OfTerm
  <2> QED
    BY <1>4, <2>1, <2>2
<1> QED
  BY <1>3, <1>5

\* The innermost call, on the stack.
LEMMA TopIs ==
    ASSUME ProgramsOK, IInv, calls # <<>>
    PROVE  /\ Len(calls) \in Nat \ {0} /\ DOMAIN calls = 1 .. Len(calls) /\ Len(calls) \in DOMAIN calls
           /\ FrameOK(Top) /\ Top.iface \in DOMAIN ifaces /\ Top.iface \notin Settled
           /\ Top.iface \notin loose => Exact(Top.iface, Top.elem, Top.set) /\ UnionExact(Top)
           /\ \A m \in DOMAIN calls : m # Len(calls) => Top.iface < calls[m].iface
           /\ \A k \in DOMAIN ifaces : k < Top.iface /\ tset[k] # NoSet /\ k \notin loose => k \in Settled
<1>1. calls \in Seq(Frames) /\ \A c \in Range(calls) : FrameOK(c)
  BY DEF IInv, TypeInv
<1>2. Len(calls) \in Nat \ {0} /\ DOMAIN calls = 1 .. Len(calls) /\ Len(calls) \in DOMAIN calls
  BY <1>1
<1>a. Top \in Range(calls)
  BY <1>2 DEF Top, Range
<1>3. FrameOK(Top) /\ Top.iface \in DOMAIN ifaces
  BY <1>1, <1>a DEF FrameOK, Frames
<1>4. Top.iface \notin Settled
  BY <1>2 DEF Top, Settled
<1>5. Top.iface \notin loose => Exact(Top.iface, Top.elem, Top.set) /\ UnionExact(Top)
  BY <1>a DEF IInv
<1>6. \A m \in DOMAIN calls : m # Len(calls) => Top.iface < calls[m].iface
  BY <1>2 DEF IInv, StackInv, Top
<1>7. ASSUME NEW k \in DOMAIN ifaces, k < Top.iface, tset[k] # NoSet, k \notin loose
      PROVE  k \in Settled
  <2>1. \A m \in DOMAIN calls : calls[m].iface # k
    <3> SUFFICES ASSUME NEW m \in DOMAIN calls, calls[m].iface = k PROVE FALSE
      OBVIOUS
    <3>1. k \in Nat /\ Top.iface \in Nat
      BY <1>3, ProgramIs DEF IInv, TypeInv
    <3>2. CASE m = Len(calls)
      BY <1>7, <3>1, <3>2 DEF Top
    <3>3. CASE m # Len(calls)
      BY <1>6, <1>7, <3>1, <3>3
    <3> QED
      BY <3>2, <3>3
  <2> QED
    BY <1>7, <2>1 DEF Settled
<1> QED
  BY <1>2, <1>3, <1>4, <1>5, <1>6, <1>7

\* The innermost call goes on with what is exact.
LEMMA GoOnKeeps ==
    ASSUME ProgramsOK, IInv, calls # <<>>, NEW c, GoOn(c),
           FrameOK(c), c.iface = Top.iface,
           loose' \in {loose, loose \cup {Top.iface}},
           Top.iface \notin loose' => Exact(c.iface, c.elem, c.set) /\ UnionExact(c)
    PROVE  IInv'
<1> DEFINE n == Len(calls)
<1>1. /\ calls' = [calls EXCEPT ![n] = c] /\ UNCHANGED <<ifaces, complete, tset>>
      /\ n \in DOMAIN calls /\ DOMAIN calls = 1 .. n /\ calls \in Seq(Frames)
      /\ \A d \in Range(calls) : FrameOK(d)
  BY TopIs DEF GoOn, IInv, TypeInv
<1>2. /\ DOMAIN calls' = DOMAIN calls
      /\ \A m \in DOMAIN calls : calls'[m] = IF m = n THEN c ELSE calls[m]
      /\ \A m \in DOMAIN calls : calls'[m].iface = calls[m].iface
  BY <1>1 DEF Top
<1>3. X' = X /\ Frames' = Frames /\ Sets(X)' = Sets(X)
  <2>1. X' = X
    BY <1>1 DEF X, Written, RealTerms, Range
  <2>2. Sets(X)' = Sets(X)
    BY <2>1 DEF Sets, Apart, IsAll, OneForName, Disjoint
  <2> QED
    BY <1>1, <2>1, <2>2 DEF Frames
<1>4. calls' \in Seq(Frames)
  BY <1>1 DEF FrameOK
<1>a. Range(calls') \subseteq Range(calls) \cup {c}
  BY <1>2 DEF Range
<1>5. Settled' = Settled
  BY <1>1, <1>2 DEF Settled, Top
<1>b. Settled' = Settled /\ ifaces' = ifaces /\ tset' = tset
  BY <1>1, <1>5
<1>c. Settled \subseteq Settled' /\ \A k \in Settled : tset'[k] = tset[k]
  BY <1>b
<1>6. ASSUME NEW d, FrameOK(d), Exact(d.iface, d.elem, d.set), UnionExact(d)
      PROVE  Exact(d.iface, d.elem, d.set)' /\ UnionExact(d)'
  <2>1. d.iface \in DOMAIN ifaces /\ d.elem \in Nat /\ d.elem <= Len(ifaces[d.iface].elems)
    BY <1>6 DEF FrameOK, Frames
  <2> QED
    BY <1>6, <1>b, <1>c, <2>1, Stable, UnionStable DEF IInv, TypeInv
<1>8. ASSUME NEW d, FrameOK(d) PROVE FrameOK(d)'
  BY <1>1, <1>3, <1>8 DEF FrameOK, Ordered, Disjoint
<1>9. TypeInv'
  <2>1. \A d \in Range(calls') : FrameOK(d)'
    BY <1>1, <1>a, <1>8
  <2>2. loose \subseteq DOMAIN ifaces /\ Top.iface \in DOMAIN ifaces
    BY TopIs DEF IInv, TypeInv
  <2> QED
    BY <1>1, <1>3, <1>4, <2>1, <2>2 DEF IInv, TypeInv
<1>10. StackInv'
  BY <1>1, <1>2 DEF IInv, StackInv
<1>11. \A d \in Range(calls') : d.iface \notin loose' => Exact(d.iface, d.elem, d.set)' /\ UnionExact(d)'
  <2> SUFFICES ASSUME NEW d \in Range(calls'), d.iface \notin loose'
               PROVE  Exact(d.iface, d.elem, d.set)' /\ UnionExact(d)'
    OBVIOUS
  <2>1. FrameOK(d)
    BY <1>1, <1>a
  <2>2. Exact(d.iface, d.elem, d.set) /\ UnionExact(d)
    BY <1>a DEF IInv
  <2> QED
    BY <1>6, <2>1, <2>2
<1>12. \A i \in Settled' : Exact(i, Len(ifaces[i].elems), tset[i])'
  <2> SUFFICES ASSUME NEW i \in Settled PROVE Exact(i, Len(ifaces[i].elems), tset[i])'
    BY <1>b
  <2>1. PICK k, s : k = Len(ifaces[i].elems) /\ s = tset[i]
    OBVIOUS
  <2>2. Exact(i, k, s) /\ i \in DOMAIN ifaces /\ k \in Nat
    BY <2>1, ProgramIs DEF IInv, TypeInv, Settled
  <2>3. Exact(i, k, s)'
    BY <1>b, <1>c, <2>1, <2>2, Stable DEF IInv, TypeInv
  <2> QED
    BY <1>b, <2>1, <2>3
<1> QED
  BY <1>1, <1>9, <1>10, <1>11, <1>12 DEF IInv

\* A call that is begun.
LEMMA CallKeeps ==
    ASSUME ProgramsOK, IInv, NEW i \in DOMAIN ifaces, Call(i),
           \A m \in DOMAIN calls : i < calls[m].iface
    PROVE  IInv'
<1> DEFINE n == Len(calls)
           s0 == OwnMethods(ifaces[i].methods)
           c0 == [iface |-> i, set |-> s0, elem |-> 0, term |-> 0, terms |-> <<>>]
<1>1. /\ tset[i] = NoSet /\ i \in complete /\ tset' = [tset EXCEPT ![i] = TopTypeSet]
      /\ calls' = Append(calls, c0) /\ UNCHANGED <<ifaces, complete, loose>>
  BY DEF Call
<1>2. /\ ifaces \in Programs /\ complete \subseteq DOMAIN ifaces /\ loose \subseteq DOMAIN ifaces
      /\ tset \in [DOMAIN ifaces -> Sets(X) \cup {NoSet}]
      /\ calls \in Seq(Frames) /\ \A d \in Range(calls) : FrameOK(d)
  BY DEF IInv, TypeInv
<1>3. X' = X /\ Frames' = Frames /\ Sets(X)' = Sets(X)
  <2>1. X' = X
    BY <1>1 DEF X, Written, RealTerms, Range
  <2>2. Sets(X)' = Sets(X)
    BY <2>1 DEF Sets, Apart, IsAll, OneForName, Disjoint
  <2> QED
    BY <1>1, <2>1, <2>2 DEF Frames
<1>4. /\ ifaces[i].methods \in Seq(Method) /\ Len(ifaces[i].elems) \in Nat
      /\ i \in Nat /\ DOMAIN ifaces \subseteq Nat
  BY <1>2, ProgramIs
<1>5. /\ s0 \in Sets(X) /\ Merges(s0, Range(ifaces[i].methods), Doubles(ifaces[i].methods))
      /\ \A t \in Types : t \in TypesIn(s0)
  BY <1>4, XClosed, OwnMethodsIs
<1> HIDE DEF s0
<1>6. c0 \in Frames /\ c0.iface = i /\ c0.set = s0 /\ c0.elem = 0 /\ c0.term = 0 /\ c0.terms = <<>>
  BY <1>5 DEF Frames
<1> HIDE DEF c0
<1>7. FrameOK(c0)
  <2>1. \A e : 0 <= Len(e.terms) \/ Len(e.terms) \notin Nat
    OBVIOUS
  <2>2. 0 < Len(ifaces[i].elems) /\ ifaces[i].elems[0 + 1].kind = "union" =>
           0 <= Len(ifaces[i].elems[0 + 1].terms)
    <3> SUFFICES ASSUME 0 < Len(ifaces[i].elems), ifaces[i].elems[1].kind = "union"
                 PROVE  0 <= Len(ifaces[i].elems[1].terms)
      OBVIOUS
    <3>1. 1 \in DOMAIN ifaces[i].elems
      <4>1. ifaces[i].elems \in Seq(Elements(i))
        BY <1>2, ProgramIs
      <4> QED
        BY <1>4, <4>1
    <3>2. Len(ifaces[i].elems[1].terms) \in Nat
      BY <1>2, <3>1, ProgramIs
    <3> QED
      BY <3>2
  <2>3. Ordered(<<>>)
    BY DEF Ordered
  <2> QED
    BY <1>4, <1>6, <2>2, <2>3 DEF FrameOK
<1>8. /\ n \in Nat /\ DOMAIN calls = 1 .. n /\ calls' \in Seq(Frames)
      /\ DOMAIN calls' = 1 .. n + 1 /\ calls'[n + 1] = c0
      /\ \A m \in DOMAIN calls : calls'[m] = calls[m]
  BY <1>1, <1>2, <1>6
<1>9. Range(calls') \subseteq Range(calls) \cup {c0}
  <2>1. \A m \in 1 .. n + 1 : m \in 1 .. n \/ m = n + 1
    BY <1>8
  <2> QED
    BY <1>8, <2>1 DEF Range
<1>10. Settled' = Settled /\ \A k \in Settled : tset'[k] = tset[k]
  <2>1. i \notin Settled /\ i \notin Settled'
    <3>1. n + 1 \in DOMAIN calls' /\ calls'[n + 1].iface = i
      BY <1>6, <1>8
    <3> QED
      BY <1>1, <3>1 DEF Settled
  <2>2. \A k \in DOMAIN ifaces : k # i => tset'[k] = tset[k]
    BY <1>1, <1>2
  <2>3. \A k : (\A m \in DOMAIN calls' : calls'[m].iface # k) <=> k # i /\ \A m \in DOMAIN calls : calls[m].iface # k
    <3>1. \A m \in 1 .. n + 1 : m \in 1 .. n \/ m = n + 1
      BY <1>8
    <3>2. n + 1 \in 1 .. n + 1 /\ \A m \in 1 .. n : m \in 1 .. n + 1
      BY <1>8
    <3> QED
      BY <1>6, <1>8, <3>1, <3>2
  <2> QED
    BY <1>1, <2>1, <2>2, <2>3 DEF Settled
<1>11. ASSUME NEW d, FrameOK(d) PROVE FrameOK(d)'
  BY <1>1, <1>3, <1>11 DEF FrameOK, Ordered, Disjoint
<1>12. TypeInv'
  <2>1. TopTypeSet \in Sets(X)
    BY XClosed, TopIsSet
  <2>2. tset' \in [DOMAIN ifaces -> Sets(X) \cup {NoSet}]
    BY <1>1, <1>2, <2>1
  <2>3. \A d \in Range(calls') : FrameOK(d)'
    BY <1>2, <1>7, <1>9, <1>11
  <2> QED
    BY <1>1, <1>2, <1>3, <1>8, <2>2, <2>3 DEF TypeInv
<1>13. StackInv'
  <2>1. TopTypeSet # NoSet
    BY DEF NoSet, TopTypeSet
  <2>2. \A m \in DOMAIN calls : tset[calls[m].iface] # NoSet /\ calls[m].iface \in DOMAIN ifaces
    <3>1. \A m \in DOMAIN calls : calls[m] \in Frames
      BY <1>2
    <3> QED
      BY <3>1 DEF IInv, StackInv, Frames
  <2>3. \A m \in DOMAIN calls' : m \in DOMAIN calls \/ (m = n + 1 /\ calls'[m] = c0)
    BY <1>8
  <2>4. \A m \in DOMAIN calls' : tset'[calls'[m].iface] # NoSet
    BY <1>1, <1>2, <1>6, <1>8, <2>1, <2>2, <2>3
  <2>5. ASSUME NEW m \in DOMAIN calls', NEW l \in DOMAIN calls', m < l
        PROVE  calls'[l].iface < calls'[m].iface
    <3>1. m \in DOMAIN calls
      BY <1>8, <2>5
    <3>2. CASE l \in DOMAIN calls
      BY <1>8, <2>5, <3>1, <3>2 DEF IInv, StackInv
    <3>3. CASE l = n + 1
      BY <1>6, <1>8, <3>1, <3>3
    <3> QED
      BY <2>3, <3>2, <3>3
  <2> QED
    BY <2>4, <2>5 DEF StackInv
<1>14. ASSUME NEW d \in Range(calls'), d.iface \notin loose'
       PROVE  Exact(d.iface, d.elem, d.set)' /\ UnionExact(d)'
  <2>1. Exact(d.iface, d.elem, d.set) /\ UnionExact(d) /\ FrameOK(d)
    <3>1. CASE d \in Range(calls)
      BY <1>1, <1>2, <1>14, <3>1 DEF IInv
    <3>2. CASE d = c0
      <4>1. 1 .. 0 = {}
        OBVIOUS
      <4>2. MethodsUpTo(i, 0) = Range(ifaces[i].methods)
        BY <4>1 DEF MethodsUpTo
      <4>3. Exact(i, 0, s0)
        BY <1>5, <4>1, <4>2 DEF Exact
      <4>4. \A t \in Types : ~Includes(<<>>, t)
        BY DEF Includes
      <4>5. UnionExact(c0)
        BY <1>6, <4>1, <4>4 DEF UnionExact
      <4> QED
        BY <1>6, <1>7, <3>2, <4>3, <4>5
    <3> QED
      BY <1>9, <3>1, <3>2
  <2>2. d.iface \in DOMAIN ifaces /\ d.elem \in Nat /\ d.elem <= Len(ifaces[d.iface].elems)
    BY <2>1 DEF FrameOK, Frames
  <2> QED
    BY <1>1, <1>2, <1>10, <2>1, <2>2, Stable, UnionStable
<1>15. \A k \in Settled' : Exact(k, Len(ifaces[k].elems), tset[k])'
  <2> SUFFICES ASSUME NEW k \in Settled PROVE Exact(k, Len(ifaces[k].elems), tset[k])'
    BY <1>10
  <2>1. PICK m, s : m = Len(ifaces[k].elems) /\ s = tset[k]
    OBVIOUS
  <2>2. Exact(k, m, s) /\ k \in DOMAIN ifaces /\ m \in Nat
    BY <1>2, <2>1, ProgramIs DEF IInv, Settled
  <2>3. Exact(k, m, s)'
    BY <1>1, <1>2, <1>10, <2>1, <2>2, Stable
  <2> QED
    BY <1>1, <1>10, <2>1, <2>3
<1> QED
  BY <1>12, <1>13, <1>14, <1>15 DEF IInv

\* The innermost call returns.
LEMMA ReturnKeeps ==
    ASSUME ProgramsOK, IInv, Return
    PROVE  IInv'
<1> DEFINE n == Len(calls)
           i == Top.iface
<1>1. /\ calls # <<>> /\ Top.elem = Len(ifaces[i].elems) /\ tset' = [tset EXCEPT ![i] = Top.set]
      /\ calls' = SubSeq(calls, 1, n - 1) /\ UNCHANGED <<ifaces, complete, loose>>
  BY DEF Return, Elems
<1>2. /\ ifaces \in Programs /\ complete \subseteq DOMAIN ifaces /\ loose \subseteq DOMAIN ifaces
      /\ tset \in [DOMAIN ifaces -> Sets(X) \cup {NoSet}]
      /\ calls \in Seq(Frames) /\ \A d \in Range(calls) : FrameOK(d)
  BY DEF IInv, TypeInv
<1>3. /\ n \in Nat \ {0} /\ DOMAIN calls = 1 .. n
      /\ FrameOK(Top) /\ i \in DOMAIN ifaces /\ i \notin Settled
      /\ i \notin loose => Exact(i, Top.elem, Top.set)
      /\ \A m \in DOMAIN calls : m # n => i < calls[m].iface
  BY <1>1, TopIs
<1>4. X' = X /\ Frames' = Frames /\ Sets(X)' = Sets(X)
  <2>1. X' = X
    BY <1>1 DEF X, Written, RealTerms, Range
  <2>2. Sets(X)' = Sets(X)
    BY <2>1 DEF Sets, Apart, IsAll, OneForName, Disjoint
  <2> QED
    BY <1>1, <2>1, <2>2 DEF Frames
<1>5. /\ calls' \in Seq(Frames) /\ DOMAIN calls' = 1 .. n - 1
      /\ \A m \in DOMAIN calls' : m \in DOMAIN calls /\ m # n /\ calls'[m] = calls[m]
  BY <1>1, <1>2, <1>3
<1>6. Range(calls') \subseteq Range(calls)
  BY <1>5 DEF Range
<1>7. i \in Nat /\ DOMAIN ifaces \subseteq Nat
  BY <1>2, <1>3, ProgramIs
<1>8. \A m \in DOMAIN calls' : calls'[m].iface # i /\ calls'[m].iface \in DOMAIN ifaces
  <2> SUFFICES ASSUME NEW m \in DOMAIN calls' PROVE calls'[m].iface # i /\ calls'[m].iface \in DOMAIN ifaces
    OBVIOUS
  <2>1. calls[m].iface \in DOMAIN ifaces /\ i < calls[m].iface
    <3>1. m \in DOMAIN calls /\ m # n /\ calls[m] \in Frames
      BY <1>2, <1>5
    <3> QED
      BY <1>3, <3>1 DEF Frames
  <2> QED
    BY <1>5, <1>7, <2>1
<1> HIDE DEF i
<1>9. \A k \in DOMAIN ifaces : k # i => tset'[k] = tset[k]
  BY <1>1, <1>2
<1>10. tset'[i] = Top.set /\ Top.set \in Sets(X) /\ Top.set # NoSet
  BY <1>1, <1>2, <1>3, NoSetIsNone DEF FrameOK, Frames
<1>11. /\ Settled \subseteq Settled' /\ \A k \in Settled : tset'[k] = tset[k]
       /\ \A k \in Settled' : k \in Settled \/ (k = i /\ i \notin loose)
  <2>1. \A m \in DOMAIN calls : m \in DOMAIN calls' \/ m = n
    BY <1>3, <1>5
  <2>2. calls[n].iface = i
    BY DEF i, Top
  <2>3. \A k \in DOMAIN ifaces : k # i =>
            ((\A m \in DOMAIN calls' : calls'[m].iface # k) <=> \A m \in DOMAIN calls : calls[m].iface # k)
    BY <1>5, <2>1, <2>2
  <2> QED
    BY <1>1, <1>3, <1>9, <2>3 DEF Settled
<1>12. ASSUME NEW d, FrameOK(d) PROVE FrameOK(d)'
  BY <1>1, <1>4, <1>12 DEF FrameOK, Ordered, Disjoint
<1>13. TypeInv'
  <2>1. tset' \in [DOMAIN ifaces -> Sets(X) \cup {NoSet}]
    BY <1>1, <1>2, <1>10
  <2>2. \A d \in Range(calls') : FrameOK(d)'
    BY <1>2, <1>6, <1>12
  <2> QED
    BY <1>1, <1>2, <1>4, <1>5, <2>1, <2>2 DEF TypeInv
<1>14. StackInv'
  BY <1>5, <1>8, <1>9 DEF IInv, StackInv
<1>15. ASSUME NEW d \in Range(calls'), d.iface \notin loose'
       PROVE  Exact(d.iface, d.elem, d.set)' /\ UnionExact(d)'
  <2>1. Exact(d.iface, d.elem, d.set) /\ UnionExact(d) /\ FrameOK(d)
    BY <1>1, <1>2, <1>6, <1>15 DEF IInv
  <2>2. d.iface \in DOMAIN ifaces /\ d.elem \in Nat /\ d.elem <= Len(ifaces[d.iface].elems)
    BY <2>1 DEF FrameOK, Frames
  <2> QED
    BY <1>1, <1>2, <1>11, <2>1, <2>2, Stable, UnionStable
<1>16. ASSUME NEW k \in Settled' PROVE Exact(k, Len(ifaces[k].elems), tset[k])'
  <2>1. PICK m, s : m = Len(ifaces[k].elems) /\ s = tset'[k]
    OBVIOUS
  <2>2. k \in DOMAIN ifaces /\ m \in Nat
    BY <1>1, <1>2, <2>1, ProgramIs DEF Settled
  <2>3. Exact(k, m, s)
    <3>1. CASE k \in Settled
      BY <1>11, <2>1, <3>1 DEF IInv
    <3>2. CASE k = i /\ i \notin loose
      BY <1>1, <1>3, <1>10, <2>1, <3>2 DEF i
    <3> QED
      BY <1>11, <3>1, <3>2
  <2>4. Exact(k, m, s)'
    BY <1>1, <1>2, <1>11, <2>1, <2>2, <2>3, Stable
  <2> QED
    BY <1>1, <2>1, <2>4
<1> QED
  BY <1>13, <1>14, <1>15, <1>16 DEF IInv

\* A call that goes on to its next element.
LEMMA NextElement ==
    ASSUME ProgramsOK, IInv, HasElem, NEW c \in Frames,
           c.iface = Top.iface, c.elem = Top.elem + 1, c.term = 0, c.terms = <<>>
    PROVE  FrameOK(c)
<1> DEFINE i == Top.iface
           n == Top.elem
<1>1. calls # <<>> /\ n < Len(ifaces[i].elems)
  BY DEF HasElem, Elems
<1>2. FrameOK(Top) /\ i \in DOMAIN ifaces
  BY <1>1, TopIs
<1>3. ifaces \in Programs /\ Len(ifaces[i].elems) \in Nat /\ n \in Nat
  BY <1>2, ProgramIs DEF IInv, TypeInv, FrameOK, Frames
<1>4. n + 1 <= Len(ifaces[i].elems)
  BY <1>1, <1>3
<1>5. n + 1 < Len(ifaces[i].elems) /\ ifaces[i].elems[n + 1 + 1].kind = "union" =>
          0 <= Len(ifaces[i].elems[n + 1 + 1].terms)
  <2> SUFFICES ASSUME n + 1 < Len(ifaces[i].elems), ifaces[i].elems[n + 1 + 1].kind = "union"
               PROVE  0 <= Len(ifaces[i].elems[n + 1 + 1].terms)
    OBVIOUS
  <2>1. PICK k, j : k = i /\ j = n + 1 + 1
    OBVIOUS
  <2>2. j \in DOMAIN ifaces[k].elems
    <3>1. ifaces[k].elems \in Seq(Elements(k))
      BY <1>2, <1>3, <2>1, ProgramIs
    <3> QED
      BY <1>3, <2>1, <3>1
  <2>3. ifaces[k].elems[j].kind = "union"
    BY <2>1
  <2>4. Len(ifaces[k].elems[j].terms) \in Nat
    BY <1>2, <1>3, <2>1, <2>2, <2>3, ProgramIs
  <2> QED
    BY <2>1, <2>4
<1>6. Ordered(<<>>)
  BY DEF Ordered
<1> QED
  BY <1>4, <1>5, <1>6 DEF FrameOK

\* What has been computed of the elements is that of one more, when s is the set of it.
LEMMA EmbedIs ==
    ASSUME ProgramsOK, IInv, HasElem, NEW s,
           s.methods \in SUBSET Method, OneForName(s.methods), s.terms \in Seq(X), Ordered(s.terms),
           s.comparable \in BOOLEAN, Embed(s),
           loose' \in {loose, loose \cup {Top.iface}},
           Top.iface \notin loose' =>
              /\ Uses(Elem) \subseteq Settled
              /\ \A t \in Types : t \in OfElem(Elem) <=>
                    Includes(s.terms, t) /\ (s.comparable => t \in Comparable)
              /\ s.methods = IF Elem.kind = "iface" THEN tset[Elem.iface].methods ELSE {}
    PROVE  IInv'
<1> DEFINE i == Top.iface
           n == Top.elem
           y == AddMethods(Top.set, s.methods)
           z == IntersectTermLists(y, s.terms, s.comparable)
<1>1. calls # <<>> /\ n < Len(ifaces[i].elems) /\ Elem = ifaces[i].elems[n + 1]
  BY DEF HasElem, Elems, Elem
<1>2. /\ FrameOK(Top) /\ i \in DOMAIN ifaces
      /\ i \notin loose => Exact(i, n, Top.set)
  BY <1>1, TopIs
<1>3. ifaces \in Programs /\ TypesOK /\ Len(ifaces[i].elems) \in Nat /\ n \in Nat /\ Top.set \in Sets(X)
  BY <1>2, ProgramIs DEF IInv, TypeInv, FrameOK, Frames
<1>4. /\ y \in Sets(X) /\ TypesIn(y) = TypesIn(Top.set)
      /\ \A A, D : Merges(Top.set, A, D) => Merges(y, A \cup s.methods, D)
  BY <1>3, AddMethodsIs
<1> HIDE DEF y
<1>5. /\ z \in Sets(X) /\ z.methods = y.methods /\ z.errors = y.errors
      /\ \A t \in Types : t \in TypesIn(z) <=>
            t \in TypesIn(y) /\ Includes(s.terms, t) /\ (s.comparable => t \in Comparable)
  BY <1>3, <1>4, XClosed, TermListsIs
<1>6. PICK c : c = [Top EXCEPT !.set = z, !.elem = n + 1, !.term = 0, !.terms = <<>>]
  OBVIOUS
<1>7. GoOn(c)
  BY <1>6 DEF Embed, y, z
<1> HIDE DEF z
<1>8. Top \in Frames
  BY <1>2 DEF FrameOK
<1>9. c \in Frames /\ c.iface = i /\ c.set = z /\ c.elem = n + 1 /\ c.term = 0 /\ c.terms = <<>>
  <2>1. n + 1 \in Nat /\ <<>> \in Seq(X) /\ 0 \in Nat
    BY <1>3
  <2> QED
    BY <1>5, <1>6, <1>8, <2>1 DEF Frames
<1>10. FrameOK(c)
  BY <1>9, NextElement
<1>11. ASSUME i \notin loose' PROVE Exact(i, n + 1, z) /\ UnionExact(c)
  <2>1. i \notin loose
    BY <1>11
  <2>2. /\ \A j \in 1 .. n : Uses(ifaces[i].elems[j]) \subseteq Settled
        /\ \A t \in Types : t \in TypesIn(Top.set) <=> \A j \in 1 .. n : t \in OfElem(ifaces[i].elems[j])
        /\ Merges(Top.set, MethodsUpTo(i, n), Doubles(ifaces[i].methods))
    BY <1>2, <2>1 DEF Exact
  <2>3. /\ Uses(ifaces[i].elems[n + 1]) \subseteq Settled
        /\ \A t \in Types : t \in OfElem(ifaces[i].elems[n + 1]) <=>
              Includes(s.terms, t) /\ (s.comparable => t \in Comparable)
        /\ s.methods = IF ifaces[i].elems[n + 1].kind = "iface"
                       THEN tset[ifaces[i].elems[n + 1].iface].methods ELSE {}
    BY <1>1, <1>11
  <2>4. /\ \A j \in 1 .. n + 1 : j \in 1 .. n \/ j = n + 1
        /\ \A j \in 1 .. n : j \in 1 .. n + 1
        /\ n + 1 \in 1 .. n + 1
    BY <1>3
  <2>5. \A t \in Types : t \in TypesIn(z) <=> \A j \in 1 .. n + 1 : t \in OfElem(ifaces[i].elems[j])
    BY <1>4, <1>5, <2>2, <2>3, <2>4
  <2>6. MethodsUpTo(i, n + 1) = MethodsUpTo(i, n) \cup s.methods
    BY <2>3, <2>4 DEF MethodsUpTo
  <2>7. Merges(y, MethodsUpTo(i, n) \cup s.methods, Doubles(ifaces[i].methods))
    BY <1>4, <2>2
  <2>8. Merges(z, MethodsUpTo(i, n + 1), Doubles(ifaces[i].methods))
    BY <1>5, <2>6, <2>7 DEF Merges
  <2>9. \A j \in 1 .. n + 1 : Uses(ifaces[i].elems[j]) \subseteq Settled
    BY <2>2, <2>3, <2>4
  <2>10. Exact(i, n + 1, z)
    BY <2>5, <2>8, <2>9 DEF Exact
  <2>11. UnionExact(c)
    <3>1. 1 .. 0 = {}
      OBVIOUS
    <3>2. \A t \in Types : ~Includes(<<>>, t)
      BY DEF Includes
    <3> QED
      BY <1>9, <3>1, <3>2 DEF UnionExact
  <2> QED
    BY <2>10, <2>11
<1> QED
  BY <1>1, <1>7, <1>9, <1>10, <1>11, GoOnKeeps

\* The set that is returned of an interface is a type set, and exact if that has been settled.
LEMMA SetOfIs ==
    ASSUME ProgramsOK, IInv, NEW k \in DOMAIN ifaces
    PROVE  /\ SetOf(k) \in Sets(X) /\ Ordered(SetOf(k).terms)
           /\ tset[k] # NoSet => SetOf(k) = tset[k]
<1>1. tset[k] \in Sets(X) \cup {NoSet}
  BY DEF IInv, TypeInv
<1>2. TopTypeSet \in Sets(X)
  BY XClosed, TopIsSet
<1>3. SetOf(k) \in Sets(X)
  BY <1>1, <1>2 DEF SetOf
<1>4. Apart(SetOf(k).terms) /\ DOMAIN SetOf(k).terms \subseteq Nat
  BY <1>3 DEF Sets
<1> QED
  BY <1>3, <1>4, ApartOrdered DEF SetOf

\* comparable is embedded.
LEMMA EmbedComparableKeeps ==
    ASSUME ProgramsOK, IInv, EmbedComparable PROVE IInv'
<1>1. HasElem /\ Elem.kind = "comparable" /\ UNCHANGED loose
  BY DEF EmbedComparable
<1>2. PICK s : s = [TopTypeSet EXCEPT !.comparable = TRUE]
  OBVIOUS
<1>3. s.methods = {} /\ s.terms = AllTermlist /\ s.comparable = TRUE
  BY <1>2 DEF TopTypeSet
<1>4. Embed(s)
  BY <1>2 DEF EmbedComparable
<1>5. s.terms \in Seq(X) /\ Ordered(s.terms)
  BY <1>3, AloneApart DEF X, AllTermlist
<1>6. \A t \in Types : Includes(s.terms, t)
  BY <1>3, XClosed, TopIsSet DEF TypesIn, TopTypeSet
<1>7. TypesOK
  BY DEF ProgramsOK
<1>8. OfElem(Elem) = Comparable /\ Uses(Elem) = {}
  BY <1>1 DEF OfElem, Uses
<1>9. s.methods \in SUBSET Method /\ OneForName(s.methods)
  BY <1>3 DEF OneForName
<1> QED
  BY <1>1, <1>3, <1>4, <1>5, <1>6, <1>8, <1>9, EmbedIs

\* The interface that comes next.
LEMMA ComesIs ==
    ASSUME ProgramsOK, IInv, NEW k, Comes(k)
    PROVE  k \in DOMAIN ifaces /\ k < Top.iface
<1>1. calls # <<>> /\ Top.elem < Len(ifaces[Top.iface].elems) /\ Elem = ifaces[Top.iface].elems[Top.elem + 1]
  BY DEF Comes, HasTerm, HasElem, Elems, Elem
<1>2. PICK i, j : i = Top.iface /\ j = Top.elem + 1
  OBVIOUS
<1>3. i \in DOMAIN ifaces /\ Top.elem \in Nat /\ ifaces \in Programs
  BY <1>1, <1>2, TopIs DEF FrameOK, Frames, IInv, TypeInv
<1>4. j \in DOMAIN ifaces[i].elems /\ Elem = ifaces[i].elems[j]
  <2>1. ifaces[i].elems \in Seq(Elements(i))
    BY <1>3, ProgramIs
  <2> QED
    BY <1>1, <1>2, <1>3, <2>1
<1>5. CASE Elem.kind = "iface" /\ Elem.iface = k
  BY <1>2, <1>3, <1>4, <1>5, ProgramIs
<1>6. CASE HasTerm /\ Term.kind = "iface" /\ Term.iface = k
  <2>1. PICK l : l = Top.term + 1
    OBVIOUS
  <2>2. Elem.kind = "union" /\ Top.term < Len(Elem.terms) /\ Term = ifaces[i].elems[j].terms[l]
    BY <1>4, <1>6, <2>1 DEF HasTerm, Term
  <2>3. Len(ifaces[i].elems[j].terms) \in Nat /\ DOMAIN ifaces[i].elems[j].terms = 1 .. Len(ifaces[i].elems[j].terms)
    BY <1>3, <1>4, <2>2, ProgramIs
  <2>4. Top.term \in Nat
    BY <1>1, TopIs DEF FrameOK, Frames
  <2>5. l \in DOMAIN ifaces[i].elems[j].terms
    BY <1>4, <2>1, <2>2, <2>3, <2>4
  <2> QED
    BY <1>2, <1>3, <1>4, <1>6, <2>2, <2>5, ProgramIs
<1> QED
  BY <1>5, <1>6 DEF Comes

\* An interface is embedded.
LEMMA EmbedInterfaceKeeps ==
    ASSUME ProgramsOK, IInv, EmbedInterface PROVE IInv'
<1>1. HasElem /\ Elem.kind = "iface" /\ Embed(SetOf(Elem.iface)) /\ Loosen(IsLoose(Elem.iface))
  BY DEF EmbedInterface
<1>2. PICK k, s : k = Elem.iface /\ s = SetOf(k)
  OBVIOUS
<1>3. k \in DOMAIN ifaces /\ k < Top.iface
  BY <1>1, <1>2, ComesIs DEF Comes
<1>4. s \in Sets(X) /\ Ordered(s.terms) /\ (tset[k] # NoSet => s = tset[k])
  BY <1>2, <1>3, SetOfIs
<1>5. /\ s.methods \in SUBSET Method /\ OneForName(s.methods) /\ s.terms \in Seq(X)
      /\ s.comparable \in BOOLEAN
  BY <1>4 DEF Sets
<1>6. Embed(s)
  BY <1>1, <1>2
<1>7. loose' = IF IsLoose(k) THEN loose \cup {Top.iface} ELSE loose
  BY <1>1, <1>2 DEF Loosen
<1>8. ASSUME Top.iface \notin loose'
      PROVE  /\ Uses(Elem) \subseteq Settled
             /\ \A t \in Types : t \in OfElem(Elem) <=>
                   Includes(s.terms, t) /\ (s.comparable => t \in Comparable)
             /\ s.methods = tset[Elem.iface].methods
  <2>1. ~IsLoose(k)
    BY <1>7, <1>8
  <2>2. tset[k] # NoSet /\ k \notin loose
    BY <2>1 DEF IsLoose
  <2>3. calls # <<>>
    BY <1>1 DEF HasElem
  <2>4. k \in Settled
    BY <1>3, <2>2, <2>3, TopIs
  <2>5. s = tset[k]
    BY <1>4, <2>2
  <2>6. OfElem(Elem) = TypesIn(s) /\ Uses(Elem) = {k}
    BY <1>1, <1>2, <2>5 DEF OfElem, Uses
  <2> QED
    BY <1>2, <2>4, <2>5, <2>6 DEF TypesIn
<1> QED
  BY <1>1, <1>4, <1>5, <1>6, <1>7, <1>8, EmbedIs

\* A union is embedded.
LEMMA EmbedUnionKeeps ==
    ASSUME ProgramsOK, IInv, EmbedUnion PROVE IInv'
<1>1. HasElem /\ Elem.kind = "union" /\ Top.term = Len(Elem.terms) /\ UNCHANGED loose
  BY DEF EmbedUnion
<1>2. PICK s : s = [TopTypeSet EXCEPT !.terms = Top.terms]
  OBVIOUS
<1>3. s.methods = {} /\ s.terms = Top.terms /\ s.comparable = FALSE
  BY <1>2 DEF TopTypeSet
<1>4. Embed(s)
  BY <1>2 DEF EmbedUnion
<1>5. calls # <<>> /\ Top.elem < Len(ifaces[Top.iface].elems) /\ Elem = ifaces[Top.iface].elems[Top.elem + 1]
  BY <1>1 DEF HasElem, Elems, Elem
<1>6. FrameOK(Top) /\ (Top.iface \notin loose => UnionExact(Top))
  BY <1>5, TopIs
<1>7. s.terms \in Seq(X) /\ Ordered(s.terms)
  BY <1>3, <1>6 DEF FrameOK, Frames
<1>8. DOMAIN Elem.terms = 1 .. Top.term
  <2>1. PICK i, j : i = Top.iface /\ j = Top.elem + 1
    OBVIOUS
  <2>2. i \in DOMAIN ifaces /\ Top.elem \in Nat /\ ifaces \in Programs
    BY <1>6, <2>1 DEF FrameOK, Frames, IInv, TypeInv
  <2>3. j \in DOMAIN ifaces[i].elems /\ Elem = ifaces[i].elems[j]
    <3>1. ifaces[i].elems \in Seq(Elements(i))
      BY <2>2, ProgramIs
    <3> QED
      BY <1>5, <2>1, <2>2, <3>1
  <2>4. DOMAIN ifaces[i].elems[j].terms = 1 .. Len(ifaces[i].elems[j].terms)
    BY <1>1, <2>2, <2>3, ProgramIs
  <2> QED
    BY <1>1, <2>3, <2>4
<1>9. ASSUME Top.iface \notin loose'
      PROVE  /\ Uses(Elem) \subseteq Settled
             /\ \A t \in Types : t \in OfElem(Elem) <=> Includes(s.terms, t)
  <2>1. /\ \A j \in 1 .. Top.term : Elem.terms[j].kind = "iface" => Elem.terms[j].iface \in Settled
        /\ \A t \in Types : Includes(Top.terms, t) <=> \E j \in 1 .. Top.term : t \in OfTerm(Elem.terms[j])
    BY <1>1, <1>5, <1>6, <1>9 DEF UnionExact
  <2>2. OfElem(Elem) = UNION {OfTerm(Elem.terms[j]) : j \in 1 .. Top.term}
    BY <1>1, <1>8 DEF OfElem
  <2>3. Uses(Elem) = {Elem.terms[j].iface : j \in {j \in 1 .. Top.term : Elem.terms[j].kind = "iface"}}
    BY <1>1, <1>8 DEF Uses
  <2> QED
    BY <1>3, <2>1, <2>2, <2>3
<1>10. s.methods \in SUBSET Method /\ OneForName(s.methods)
  BY <1>3 DEF OneForName
<1>11. loose' \in {loose, loose \cup {Top.iface}}
  BY <1>1
<1>12. Top.iface \notin loose' =>
          /\ Uses(Elem) \subseteq Settled
          /\ \A t \in Types : t \in OfElem(Elem) <=>
                Includes(s.terms, t) /\ (s.comparable => t \in Comparable)
          /\ s.methods = IF Elem.kind = "iface" THEN tset[Elem.iface].methods ELSE {}
  BY <1>1, <1>3, <1>9
<1> QED
  BY <1>1, <1>3, <1>4, <1>7, <1>10, <1>11, <1>12, EmbedIs

\* The terms of one operand of a union; a type that is not its own underlying has no tilde.
LEMMA TermsOfIs ==
    ASSUME ProgramsOK, IInv, NEW i \in DOMAIN ifaces, NEW j \in DOMAIN ifaces[i].elems,
           ifaces[i].elems[j].kind = "union", NEW l \in DOMAIN ifaces[i].elems[j].terms,
           NEW t, t = ifaces[i].elems[j].terms[l], t.kind = "type"
    PROVE  /\ TermsOf(t) \in Seq(X)
           /\ \A u \in Types : Includes(TermsOf(t), u) <=> u \in OfTerm(t)
<1>1. ifaces \in Programs /\ TypesOK
  BY DEF IInv, TypeInv, ProgramsOK
<1>2. t.tilde \in BOOLEAN /\ t.typ \in Types
  BY <1>1, ProgramIs
<1> DEFINE x == [tilde |-> t.tilde, typ |-> t.typ]
<1>3. CASE t.tilde /\ Under[t.typ] # t.typ
  <2>1. TermsOf(t) = <<Nil>>
    BY <1>3 DEF TermsOf
  <2>2. OfTerm(t) = {}
    BY <1>1, <1>2, <1>3 DEF OfTerm, TypesOK
  <2>3. \A u \in Types : ~Includes(<<Nil>>, u)
    BY DEF Includes, TermIncludes
  <2> QED
    BY <2>1, <2>2, <2>3 DEF X
<1>4. CASE ~(t.tilde /\ Under[t.typ] # t.typ)
  <2>1. TermsOf(t) = <<x>>
    BY <1>4 DEF TermsOf
  <2>2. x \in RealTerms
    BY <1>2, <1>4 DEF RealTerms
  <2>3. x \in X
    <3>1. ifaces[i].elems[j] \in Range(ifaces[i].elems) /\ t \in Range(ifaces[i].elems[j].terms)
      BY DEF Range
    <3>2. x \in Written(ifaces)
      BY <2>2, <3>1 DEF Written
    <3> QED
      BY <3>2 DEF X
  <2>4. \A u \in Types : Includes(<<x>>, u) <=> TermIncludes(x, u)
    BY DEF Includes
  <2>5. \A u \in Types : TermIncludes(x, u) <=> u \in OfTerm(t)
    <3>1. x # Nil /\ x # Univ
      BY <1>1, <2>2, Different
    <3>2. OfTerm(t) = IF t.tilde THEN {u \in Types : Under[u] = t.typ} ELSE {t.typ}
      BY DEF OfTerm
    <3> QED
      BY <3>1, <3>2 DEF TermIncludes
  <2> QED
    BY <2>1, <2>3, <2>4, <2>5
<1> QED
  BY <1>3, <1>4

\* A term of a union is added.
LEMMA UnionTermKeeps ==
    ASSUME ProgramsOK, IInv, UnionTerm PROVE IInv'
<1>1. /\ HasElem /\ Elem.kind = "union" /\ Top.term < Len(Elem.terms)
      /\ GoOn([Top EXCEPT !.term = @ + 1, !.terms = Union(Top.terms, TermsOf(Term))])
      /\ Loosen(Term.kind = "iface" /\ (IsLoose(Term.iface) \/ IsMisused(Term.iface)))
  BY DEF UnionTerm, HasTerm, MoreTerms
<1>2. PICK i, j, l, t : i = Top.iface /\ j = Top.elem + 1 /\ l = Top.term + 1 /\ t = Term
  OBVIOUS
<1>3. calls # <<>> /\ Top.elem < Len(ifaces[i].elems) /\ Elem = ifaces[i].elems[j]
  BY <1>1, <1>2 DEF HasElem, Elems, Elem
<1>4. /\ FrameOK(Top) /\ i \in DOMAIN ifaces /\ Top.elem \in Nat /\ Top.term \in Nat /\ ifaces \in Programs
      /\ Top \in Frames /\ (i \notin loose => Exact(i, Top.elem, Top.set) /\ UnionExact(Top))
  BY <1>2, <1>3, TopIs DEF FrameOK, Frames, IInv, TypeInv
<1>5. j \in DOMAIN ifaces[i].elems
  <2>1. ifaces[i].elems \in Seq(Elements(i))
    BY <1>4, ProgramIs
  <2> QED
    BY <1>2, <1>3, <1>4, <2>1
<1>6. /\ Len(ifaces[i].elems[j].terms) \in Nat
      /\ DOMAIN ifaces[i].elems[j].terms = 1 .. Len(ifaces[i].elems[j].terms)
  BY <1>1, <1>3, <1>4, <1>5, ProgramIs
<1>7. l \in DOMAIN ifaces[i].elems[j].terms /\ l <= Len(Elem.terms) /\ t = ifaces[i].elems[j].terms[l]
  <2>1. PICK m, k : m = Len(ifaces[i].elems[j].terms) /\ k = Top.term
    OBVIOUS
  <2>2. k < m /\ m \in Nat /\ k \in Nat /\ l = k + 1
    BY <1>1, <1>2, <1>3, <1>4, <1>6, <2>1
  <2>3. l \in 1 .. m
    BY <2>2
  <2>4. l \in DOMAIN ifaces[i].elems[j].terms /\ l <= Len(Elem.terms)
    BY <1>3, <1>6, <2>1, <2>3
  <2> QED
    BY <1>2, <1>3, <2>4 DEF Term
<1>8. t.kind \in {"iface", "type"} /\ (t.kind = "iface" => t.iface \in DOMAIN ifaces /\ t.iface < i)
  BY <1>1, <1>3, <1>4, <1>5, <1>7, ProgramIs
<1>9. PICK terms : terms = TermsOf(t)
  OBVIOUS
<1>10. /\ terms \in Seq(X)
       /\ i \notin loose' =>
             /\ t.kind = "iface" => t.iface \in Settled
             /\ \A u \in Types : Includes(terms, u) <=> u \in OfTerm(t)
  <2>1. CASE t.kind = "type"
    BY <1>1, <1>3, <1>4, <1>5, <1>7, <1>9, <2>1, TermsOfIs
  <2>2. CASE t.kind = "iface"
    <3>1. PICK k : k = t.iface
      OBVIOUS
    <3>2. /\ SetOf(k) \in Sets(X) /\ (tset[k] # NoSet => SetOf(k) = tset[k])
      BY <1>8, <2>2, <3>1, SetOfIs
    <3>3. terms = SetOf(k).terms
      BY <1>9, <2>2, <3>1 DEF TermsOf
    <3>4. terms \in Seq(X)
      BY <3>2, <3>3 DEF Sets
    <3>5. ASSUME i \notin loose'
          PROVE  /\ t.iface \in Settled
                 /\ \A u \in Types : Includes(terms, u) <=> u \in OfTerm(t)
      <4>1. ~(IsLoose(k) \/ IsMisused(k))
        BY <1>1, <1>2, <2>2, <3>1, <3>5 DEF Loosen
      <4>2. tset[k] # NoSet /\ k \notin loose /\ ~tset[k].comparable
        BY <4>1 DEF IsLoose, IsMisused
      <4>3. k \in Settled
        BY <1>2, <1>3, <1>8, <2>2, <3>1, <4>2, TopIs
      <4>4. OfTerm(t) = TypesIn(tset[k])
        BY <2>2, <3>1 DEF OfTerm
      <4>5. terms = tset[k].terms
        BY <3>2, <3>3, <4>2
      <4> QED
        BY <3>1, <4>2, <4>3, <4>4, <4>5 DEF TypesIn
    <3> QED
      BY <2>2, <3>4, <3>5
  <2> QED
    BY <1>8, <2>1, <2>2
<1>11. PICK new : new = Union(Top.terms, terms)
  OBVIOUS
<1>12. /\ new \in Seq(X) /\ Ordered(new)
       /\ \A u \in Types : Includes(new, u) <=> Includes(Top.terms, u) \/ Includes(terms, u)
  <2>1. TypesOK /\ Top.terms \in Seq(X)
    BY <1>4 DEF ProgramsOK, Frames
  <2> QED
    BY <1>10, <1>11, <2>1, XClosed, UnionOfLists
<1>13. PICK c : c = [Top EXCEPT !.term = l, !.terms = new]
  OBVIOUS
<1>14. GoOn(c)
  BY <1>1, <1>2, <1>9, <1>11, <1>13
<1>15. /\ c \in Frames /\ c.iface = i /\ c.set = Top.set /\ c.elem = Top.elem /\ c.term = l /\ c.terms = new
       /\ l \in Nat
  <2>1. l \in Nat
    BY <1>2, <1>4
  <2> QED
    BY <1>2, <1>4, <1>12, <1>13, <2>1 DEF Frames
<1>16. FrameOK(c)
  <2>1. ifaces[i].elems[Top.elem + 1] = Elem
    BY <1>2, <1>3
  <2>2. Top.elem <= Len(ifaces[i].elems)
    BY <1>2, <1>4 DEF FrameOK
  <2> QED
    BY <1>7, <1>12, <1>15, <2>1, <2>2 DEF FrameOK
<1>17. ASSUME i \notin loose' PROVE Exact(i, Top.elem, Top.set) /\ UnionExact(c)
  <2>1. i \notin loose
    BY <1>1, <1>17 DEF Loosen
  <2>2. ifaces[i].elems[Top.elem + 1] = Elem
    BY <1>2, <1>3
  <2>3. /\ \A m \in 1 .. Top.term : Elem.terms[m].kind = "iface" => Elem.terms[m].iface \in Settled
        /\ \A u \in Types : Includes(Top.terms, u) <=> \E m \in 1 .. Top.term : u \in OfTerm(Elem.terms[m])
    BY <1>1, <1>2, <1>3, <1>4, <2>1, <2>2 DEF UnionExact
  <2>4. /\ \A m \in 1 .. l : m \in 1 .. Top.term \/ m = l
        /\ \A m \in 1 .. Top.term : m \in 1 .. l
        /\ l \in 1 .. l
    BY <1>2, <1>4
  <2>5. Elem.terms[l] = t
    BY <1>3, <1>7
  <2>6. \A m \in 1 .. l : Elem.terms[m].kind = "iface" => Elem.terms[m].iface \in Settled
    BY <1>10, <1>17, <2>3, <2>4, <2>5
  <2>7. \A u \in Types : Includes(new, u) <=> \E m \in 1 .. l : u \in OfTerm(Elem.terms[m])
    BY <1>10, <1>12, <1>17, <2>3, <2>4, <2>5
  <2>8. UnionExact(c)
    BY <1>15, <2>2, <2>6, <2>7 DEF UnionExact
  <2> QED
    BY <1>4, <2>1, <2>8
<1>18. loose' \in {loose, loose \cup {Top.iface}}
  BY <1>1 DEF Loosen
<1> QED
  BY <1>2, <1>3, <1>14, <1>15, <1>16, <1>17, <1>18, GoOnKeeps

\* A union with too many terms is ignored.
LEMMA UnionOverflowsKeeps ==
    ASSUME ProgramsOK, IInv, UnionOverflows PROVE IInv'
<1>1. HasElem /\ calls # <<>> /\ loose' = loose \cup {Top.iface}
  BY DEF UnionOverflows, HasTerm, HasElem, Loosen
<1>2. PICK c : c = [Top EXCEPT !.elem = @ + 1, !.term = 0, !.terms = <<>>]
  OBVIOUS
<1>3. GoOn(c)
  BY <1>2 DEF UnionOverflows
<1>4. Top \in Frames
  BY <1>1, TopIs DEF FrameOK
<1>5. c \in Frames /\ c.iface = Top.iface /\ c.elem = Top.elem + 1 /\ c.term = 0 /\ c.terms = <<>>
  <2>1. Top.elem + 1 \in Nat /\ <<>> \in Seq(X) /\ 0 \in Nat
    BY <1>4 DEF Frames
  <2> QED
    BY <1>2, <1>4, <2>1 DEF Frames
<1>6. FrameOK(c)
  BY <1>1, <1>5, NextElement
<1> QED
  BY <1>1, <1>3, <1>5, <1>6, GoOnKeeps

-----------------------------------------------------------------------------
\* At first there are no type sets.
LEMMA InitKeeps == ASSUME ProgramsOK, Init PROVE IInv
<1>1. /\ ifaces \in Programs /\ complete = {} /\ calls = <<>> /\ loose = {}
      /\ tset = [i \in DOMAIN ifaces |-> NoSet]
  BY DEF Init
<1>2. Range(calls) = {} /\ DOMAIN calls = {} /\ calls \in Seq(Frames)
  BY <1>1 DEF Range
<1>3. TypeInv
  BY <1>1, <1>2 DEF TypeInv
<1>4. StackInv
  BY <1>2 DEF StackInv
<1>5. Settled = {}
  BY <1>1 DEF Settled
<1> QED
  BY <1>2, <1>3, <1>4, <1>5 DEF IInv

\* Every step keeps the invariant.
LEMMA NextKeeps == ASSUME ProgramsOK, IInv, [Next]_vars PROVE IInv'
<1>1. CASE UNCHANGED <<ifaces, tset, calls, loose>> /\ complete' \subseteq DOMAIN ifaces
  <2>1. X' = X /\ Frames' = Frames /\ Sets(X)' = Sets(X)
    <3>1. X' = X
      BY <1>1 DEF X, Written, RealTerms, Range
    <3>2. Sets(X)' = Sets(X)
      BY <3>1 DEF Sets, Apart, IsAll, OneForName, Disjoint
    <3> QED
      BY <1>1, <3>1, <3>2 DEF Frames
  <2>2. ASSUME NEW d, FrameOK(d) PROVE FrameOK(d)'
    BY <1>1, <2>1, <2>2 DEF FrameOK, Ordered, Disjoint
  <2>3. TypeInv'
    BY <1>1, <2>1, <2>2 DEF IInv, TypeInv, Range
  <2>4. StackInv'
    BY <1>1 DEF IInv, StackInv
  <2>5. Settled' = Settled
    BY <1>1 DEF Settled
  <2>6. Settled \subseteq Settled' /\ \A k \in Settled : tset'[k] = tset[k]
    BY <1>1, <2>5
  <2>7. ASSUME NEW d \in Range(calls), d.iface \notin loose
        PROVE  Exact(d.iface, d.elem, d.set)' /\ UnionExact(d)'
    <3>1. Exact(d.iface, d.elem, d.set) /\ UnionExact(d) /\ FrameOK(d) /\ ifaces \in Programs
      BY <2>7 DEF IInv, TypeInv
    <3>2. d.iface \in DOMAIN ifaces /\ d.elem \in Nat /\ d.elem <= Len(ifaces[d.iface].elems)
      BY <3>1 DEF FrameOK, Frames
    <3> QED
      BY <1>1, <2>6, <3>1, <3>2, Stable, UnionStable
  <2>8. ASSUME NEW k \in Settled PROVE Exact(k, Len(ifaces[k].elems), tset[k])'
    <3>1. PICK m, s : m = Len(ifaces[k].elems) /\ s = tset[k]
      OBVIOUS
    <3>2. Exact(k, m, s) /\ k \in DOMAIN ifaces /\ m \in Nat /\ ifaces \in Programs
      BY <3>1, ProgramIs DEF IInv, TypeInv, Settled
    <3>3. Exact(k, m, s)'
      BY <1>1, <2>6, <3>1, <3>2, Stable
    <3> QED
      BY <1>1, <3>1, <3>3
  <2>9. Range(calls') = Range(calls)
    BY <1>1
  <2> QED
    BY <1>1, <2>3, <2>4, <2>5, <2>7, <2>8, <2>9 DEF IInv
<1>2. ASSUME NEW i \in DOMAIN ifaces, InterfaceType(i) PROVE IInv'
  BY <1>1, <1>2 DEF InterfaceType, IInv, TypeInv
<1>3. ASSUME NEW i \in DOMAIN ifaces, TypeSet(i) PROVE IInv'
  <2>1. DOMAIN calls = {} /\ Call(i)
    BY <1>3 DEF TypeSet
  <2> QED
    BY <2>1, CallKeeps
<1>4. ASSUME NEW i \in DOMAIN ifaces, Recurse(i) PROVE IInv'
  <2>1. Comes(i) /\ Call(i)
    BY <1>4 DEF Recurse
  <2>2. calls # <<>>
    BY <2>1 DEF Comes, HasTerm, HasElem
  <2>3. i < Top.iface /\ \A m \in DOMAIN calls : m # Len(calls) => Top.iface < calls[m].iface
    BY <2>1, <2>2, ComesIs, TopIs
  <2>4. \A m \in DOMAIN calls : i < calls[m].iface
    <3> SUFFICES ASSUME NEW m \in DOMAIN calls PROVE i < calls[m].iface
      OBVIOUS
    <3>1. calls[m] \in Frames /\ ifaces \in Programs
      BY DEF IInv, TypeInv
    <3>2. i \in Nat /\ calls[m].iface \in Nat /\ Top.iface \in Nat
      BY <2>2, <3>1, ProgramIs, TopIs DEF Frames
    <3>3. CASE m = Len(calls)
      BY <2>3, <3>3 DEF Top
    <3>4. CASE m # Len(calls)
      BY <2>3, <3>2, <3>4
    <3> QED
      BY <3>3, <3>4
  <2> QED
    BY <2>1, <2>4, CallKeeps
<1>5. CASE UNCHANGED vars
  BY <1>1, <1>5 DEF vars, IInv, TypeInv
<1> QED
  BY <1>2, <1>3, <1>4, <1>5, EmbedComparableKeeps, EmbedInterfaceKeeps, UnionTermKeeps,
     UnionOverflowsKeeps, EmbedUnionKeeps, ReturnKeeps DEF Next

\* The invariant says what the stored type sets are.
LEMMA SettledIsExact ==
    ASSUME ProgramsOK, IInv PROVE SetsAreExact
<1>1. ifaces \in Programs /\ tset \in [DOMAIN ifaces -> Sets(X) \cup {NoSet}]
  BY DEF IInv, TypeInv
<1> SUFFICES ASSUME NEW i \in Settled
             PROVE  LET s == tset[i]
                    IN  /\ Embedded(i) \cup InUnions(i) \subseteq Settled
                        /\ TypesIn(s) = {t \in Types : \A j \in DOMAIN ifaces[i].elems : t \in OfElem(ifaces[i].elems[j])}
                        /\ s.methods \subseteq AllMethods(i)
                        /\ \A m \in AllMethods(i) : \E o \in s.methods : o.name = m.name
                        /\ \A m, o \in s.methods : m.name = o.name => m = o
                        /\ s.errors = Clashes(i)
                        /\ s.comparable => IsAll(s.terms)
                        /\ \A j, k \in DOMAIN s.terms : j # k /\ Nil \notin {s.terms[j], s.terms[k]} =>
                                Univ \notin {s.terms[j], s.terms[k]} /\ Disjoint(s.terms[j], s.terms[k])
  BY DEF SetsAreExact
<1> DEFINE elems == ifaces[i].elems
           n == Len(elems)
           s == tset[i]
<1>2. i \in DOMAIN ifaces /\ s \in Sets(X)
  BY <1>1 DEF Settled
<1>3. n \in Nat /\ DOMAIN elems = 1 .. n
  <2>1. elems \in Seq(Elements(i))
    BY <1>1, <1>2, ProgramIs
  <2> QED
    BY <2>1
<1>4. /\ \A j \in DOMAIN elems : Uses(elems[j]) \subseteq Settled
      /\ \A t \in Types : t \in TypesIn(s) <=> \A j \in DOMAIN elems : t \in OfElem(elems[j])
      /\ Merges(s, MethodsUpTo(i, n), Doubles(ifaces[i].methods))
  BY <1>3 DEF IInv, Exact
<1>5. Apart(s.terms) /\ (s.comparable => IsAll(s.terms)) /\ OneForName(s.methods)
  BY <1>2 DEF Sets
<1>6. Embedded(i) \subseteq Settled
  <2> SUFFICES ASSUME NEW j \in DOMAIN elems, elems[j].kind = "iface" PROVE elems[j].iface \in Settled
    BY DEF Embedded, Range
  <2> QED
    BY <1>4 DEF Uses
<1>7. InUnions(i) \subseteq Settled
  <2> SUFFICES ASSUME NEW j \in DOMAIN elems, elems[j].kind = "union",
                      NEW l \in DOMAIN elems[j].terms, elems[j].terms[l].kind = "iface"
               PROVE  elems[j].terms[l].iface \in Settled
    BY DEF InUnions, Range
  <2>1. Uses(elems[j]) = {elems[j].terms[m].iface : m \in {m \in DOMAIN elems[j].terms : elems[j].terms[m].kind = "iface"}}
    BY DEF Uses
  <2> QED
    BY <1>4, <2>1
<1>8. TypesIn(s) = {t \in Types : \A j \in DOMAIN elems : t \in OfElem(elems[j])}
  BY <1>4 DEF TypesIn
<1>9. MethodsUpTo(i, n) = AllMethods(i)
  BY <1>3 DEF MethodsUpTo, AllMethods, Embedded, Range
<1>10. Clashes(i) = Differing(AllMethods(i)) \cup Doubles(ifaces[i].methods)
  BY DEF Clashes, Differing, Doubles
<1> QED
  BY <1>4, <1>5, <1>6, <1>7, <1>8, <1>9, <1>10 DEF Merges, OneForName, Apart

\* The stored type sets solve the equations of the language, for all types and programs.
THEOREM SetsExact == ASSUME ProgramsOK PROVE Spec => []SetsAreExact
<1>1. Init => IInv
  BY InitKeeps
<1>2. IInv /\ [Next]_vars => IInv'
  BY NextKeeps
<1>3. IInv => SetsAreExact
  BY SettledIsExact
<1> QED
  BY <1>1, <1>2, <1>3, PTL DEF Spec

-----------------------------------------------------------------------------
(* Implementing an interface.  There are always more types than a program     *)
(* writes down.                                                              *)

\* Some type of each underlying type, some comparable one, is in no plain term, in no term.
RichOK ==
    \A p \in Programs :
        /\ \A u \in Types : \E t \in Types :
              Under[t] = Under[u] /\ [tilde |-> FALSE, typ |-> t] \notin Written(p)
        /\ \E t \in Comparable : \A x \in Written(p) : ~TermIncludes(x, t)
        /\ Comparable # Types

\* The terms of a type set, and the types in it.
LEMMA InSet ==
    ASSUME ProgramsOK, NEW s \in Sets(X)
    PROVE  /\ \A j \in DOMAIN s.terms : s.terms[j] \in Written(ifaces) \cup {Nil, Univ}
           /\ IsAll(s.terms) => \A t \in Types : t \in TypesIn(s) <=> (s.comparable => t \in Comparable)
           /\ ~IsAll(s.terms) => ~s.comparable /\ \A t \in Types : t \in TypesIn(s) <=> Includes(s.terms, t)
           /\ IsEmpty(s.terms) => ~IsAll(s.terms) /\ TypesIn(s) = {}
           /\ HasTerms(s.terms) => ~IsEmpty(s.terms) /\ ~IsAll(s.terms)
           /\ ~IsEmpty(s.terms) /\ ~IsAll(s.terms) => HasTerms(s.terms)
<1>1. TypesOK /\ s.terms \in Seq(X) /\ (s.comparable => IsAll(s.terms)) /\ s.comparable \in BOOLEAN
  BY DEF ProgramsOK, Sets
<1>2. \A t : TermIncludes(Univ, t) /\ ~TermIncludes(Nil, t)
  BY <1>1, Different DEF TermIncludes
<1>3. IsAll(s.terms) => \A t \in Types : Includes(s.terms, t)
  BY <1>2 DEF IsAll, Includes
<1>4. IsEmpty(s.terms) => ~IsAll(s.terms) /\ \A t \in Types : ~Includes(s.terms, t)
  BY <1>1, <1>2, Different DEF IsEmpty, IsAll, Includes
<1>5. \A j \in DOMAIN s.terms : s.terms[j] \in Written(ifaces) \cup {Nil, Univ}
  BY <1>1 DEF X
<1> QED
  BY <1>1, <1>3, <1>4, <1>5 DEF TypesIn, HasTerms

\* A type set has comparable types only, just if it is a comparable one.
LEMMA ComparableIs ==
    ASSUME ProgramsOK, RichOK, ifaces \in Programs, NEW s \in Sets(X), ~IsEmpty(s.terms)
    PROVE  IsComparableSet(s) <=> TypesIn(s) \subseteq Comparable
<1>1. TypesOK /\ Comparable # Types /\ Comparable \subseteq Types
  BY DEF ProgramsOK, RichOK, TypesOK
<1>2. CASE IsAll(s.terms)
  <2>1. IsComparableSet(s) <=> s.comparable
    BY <1>2 DEF IsComparableSet
  <2>2. \A t \in Types : t \in TypesIn(s) <=> (s.comparable => t \in Comparable)
    BY <1>2, InSet
  <2>3. PICK u \in Types : u \notin Comparable
    BY <1>1
  <2>4. TypesIn(s) \subseteq Types /\ s.comparable \in BOOLEAN
    BY DEF TypesIn, Sets
  <2> QED
    BY <2>1, <2>2, <2>3, <2>4
<1>3. CASE ~IsAll(s.terms)
  <2>1. HasTerms(s.terms) /\ \A t \in Types : t \in TypesIn(s) <=> Includes(s.terms, t)
    BY <1>3, InSet
  <2>2. IsComparableSet(s) <=> \A j \in DOMAIN s.terms : s.terms[j] # Nil => s.terms[j].typ \in Comparable
    BY <1>3, <2>1 DEF IsComparableSet
  <2>3. \A j \in DOMAIN s.terms : s.terms[j] # Nil => s.terms[j] \in RealTerms
    <3>1. \A j \in DOMAIN s.terms : s.terms[j] \in Written(ifaces) \cup {Nil, Univ}
      BY InSet
    <3> QED
      BY <1>3, <3>1 DEF IsAll, Written
  <2>4. ASSUME IsComparableSet(s), NEW t \in TypesIn(s) PROVE t \in Comparable
    <3>1. t \in Types /\ Includes(s.terms, t)
      BY <2>1 DEF TypesIn
    <3>2. PICK j \in DOMAIN s.terms : TermIncludes(s.terms[j], t)
      BY <3>1 DEF Includes
    <3>3. s.terms[j] # Nil
      BY <3>2 DEF TermIncludes
    <3> QED
      BY <1>1, <2>2, <2>3, <2>4, <3>1, <3>2, <3>3, TermComparable
  <2>5. ASSUME TypesIn(s) \subseteq Comparable, NEW j \in DOMAIN s.terms, s.terms[j] # Nil
        PROVE  s.terms[j].typ \in Comparable
    <3>1. s.terms[j] \in RealTerms
      BY <2>3, <2>5
    <3>2. PICK t \in Types : TermIncludes(s.terms[j], t)
      BY <1>1, <3>1, OverlapIs
    <3>3. t \in Comparable
      BY <2>1, <2>5, <3>2 DEF Includes
    <3> QED
      BY <1>1, <3>1, <3>2, <3>3, TermComparable
  <2> QED
    BY <2>2, <2>4, <2>5
<1> QED
  BY <1>2, <1>3

\* Lists of terms are subsets, just if the sets of types are.
LEMMA SubsetIs ==
    ASSUME ProgramsOK, RichOK, ifaces \in Programs, NEW s \in Sets(X), NEW r \in Sets(X),
           HasTerms(r.terms), ~IsEmpty(s.terms)
    PROVE  SubsetOf(s.terms, r.terms) <=> TypesIn(s) \subseteq TypesIn(r)
<1>1. TypesOK /\ Comparable \subseteq Types
  BY DEF ProgramsOK, TypesOK
<1>2. ~IsEmpty(r.terms) /\ ~IsAll(r.terms) /\ \A t \in Types : t \in TypesIn(r) <=> Includes(r.terms, t)
  BY InSet
<1>3. \A j \in DOMAIN r.terms : r.terms[j] = Nil \/ (r.terms[j] \in Written(ifaces) /\ r.terms[j] \in RealTerms)
  <2>1. \A j \in DOMAIN r.terms : r.terms[j] \in Written(ifaces) \cup {Nil, Univ}
    BY InSet
  <2> QED
    BY <1>2, <2>1 DEF IsAll, Written
<1>4. SubsetOf(s.terms, r.terms) <=>
          \A i \in DOMAIN s.terms : \E j \in DOMAIN r.terms : TermSubset(s.terms[i], r.terms[j])
  BY <1>2 DEF SubsetOf
<1>5. \A t : ~TermIncludes(Nil, t)
  BY DEF TermIncludes
<1>6. CASE IsAll(s.terms)
  <2>1. PICK t \in Comparable : \A x \in Written(ifaces) : ~TermIncludes(x, t)
    BY DEF RichOK
  <2>2. t \in TypesIn(s) /\ t \in Types
    BY <1>1, <1>6, InSet
  <2>3. t \notin TypesIn(r)
    BY <1>2, <1>3, <1>5, <2>1, <2>2 DEF Includes
  <2>4. PICK i \in DOMAIN s.terms : s.terms[i] = Univ
    BY <1>6 DEF IsAll
  <2>5. ASSUME NEW j \in DOMAIN r.terms PROVE ~TermSubset(Univ, r.terms[j])
    <3>1. r.terms[j] # Univ /\ Univ # Nil
      BY <1>1, <1>3, Different
    <3> QED
      BY <3>1 DEF TermSubset
  <2> QED
    BY <1>4, <2>2, <2>3, <2>4, <2>5
<1>7. CASE ~IsAll(s.terms)
  <2>1. \A t \in Types : t \in TypesIn(s) <=> Includes(s.terms, t)
    BY <1>7, InSet
  <2>2. \A i \in DOMAIN s.terms : s.terms[i] = Nil \/ s.terms[i] \in RealTerms
    <3>1. \A j \in DOMAIN s.terms : s.terms[j] \in Written(ifaces) \cup {Nil, Univ}
      BY InSet
    <3> QED
      BY <1>7, <3>1 DEF IsAll, Written
  <2>3. ASSUME NEW x \in RealTerms, NEW y, y \in RealTerms \cup {Nil}
        PROVE  TermSubset(x, y) <=> y # Nil /\ ~Disjoint(x, y) /\ (~x.tilde \/ y.tilde)
    <3>1. x # Nil /\ x # Univ /\ y # Univ
      BY <1>1, <2>3, Different
    <3> QED
      BY <3>1 DEF TermSubset
  <2>4. ASSUME SubsetOf(s.terms, r.terms), NEW t \in Types, t \in TypesIn(s) PROVE t \in TypesIn(r)
    <3>1. PICK i \in DOMAIN s.terms : TermIncludes(s.terms[i], t)
      BY <2>1, <2>4 DEF Includes
    <3>2. PICK j \in DOMAIN r.terms : TermSubset(s.terms[i], r.terms[j])
      BY <1>4, <2>4
    <3>3. PICK x, y : x = s.terms[i] /\ y = r.terms[j]
      OBVIOUS
    <3>4. x \in RealTerms /\ TermIncludes(x, t)
      BY <1>5, <2>2, <3>1, <3>3
    <3>5. y \in RealTerms /\ ~Disjoint(x, y) /\ (~x.tilde \/ y.tilde)
      BY <1>3, <2>3, <3>2, <3>3, <3>4
    <3>6. TermIncludes(y, t)
      BY <1>1, <3>4, <3>5, Different DEF TypesOK, RealTerms, Disjoint, TermIncludes
    <3> QED
      BY <1>2, <3>3, <3>6 DEF Includes
  <2>5. ASSUME TypesIn(s) \subseteq TypesIn(r), NEW i \in DOMAIN s.terms
        PROVE  \E j \in DOMAIN r.terms : TermSubset(s.terms[i], r.terms[j])
    <3>1. CASE s.terms[i] = Nil
      <4>1. \A y : TermSubset(Nil, y)
        BY DEF TermSubset
      <4> QED
        BY <1>2, <3>1, <4>1 DEF IsEmpty
    <3>2. CASE s.terms[i] # Nil
      <4>1. PICK x : x = s.terms[i]
        OBVIOUS
      <4>2. x \in RealTerms
        BY <2>2, <3>2, <4>1
      <4>3. x.typ \in Types /\ x.tilde \in BOOLEAN /\ (x.tilde => Under[x.typ] = x.typ) /\ x # Nil /\ x # Univ
        BY <1>1, <4>2, Different DEF RealTerms
      <4>4. PICK t \in Types : /\ TermIncludes(x, t)
                               /\ x.tilde => [tilde |-> FALSE, typ |-> t] \notin Written(ifaces)
        <5>1. CASE ~x.tilde
          BY <4>3, <5>1 DEF TermIncludes
        <5>2. CASE x.tilde
          <6>1. PICK t \in Types : Under[t] = Under[x.typ] /\ [tilde |-> FALSE, typ |-> t] \notin Written(ifaces)
            BY <4>3 DEF RichOK
          <6> QED
            BY <4>3, <5>2, <6>1 DEF TermIncludes
        <5> QED
          BY <5>1, <5>2
      <4>5. Includes(r.terms, t)
        BY <1>2, <2>1, <2>5, <4>1, <4>4 DEF Includes
      <4>6. PICK j \in DOMAIN r.terms : TermIncludes(r.terms[j], t)
        BY <4>5 DEF Includes
      <4>7. PICK y : y = r.terms[j]
        OBVIOUS
      <4>8. y \in RealTerms /\ y \in Written(ifaces) /\ TermIncludes(y, t)
        BY <1>3, <1>5, <4>6, <4>7
      <4>9. ~Disjoint(x, y)
        BY <1>1, <4>2, <4>4, <4>8, OverlapIs
      <4>10. x.tilde => y.tilde
        <5> SUFFICES ASSUME x.tilde, ~y.tilde PROVE FALSE
          OBVIOUS
        <5>1. y.typ = t /\ y \in [tilde : BOOLEAN, typ : Types]
          BY <1>1, <4>8, Different DEF TermIncludes, RealTerms
        <5>2. y = [tilde |-> FALSE, typ |-> t]
          BY <5>1
        <5> QED
          BY <4>4, <4>8, <5>2
      <4>11. TermSubset(x, y)
        <5>1. y # Nil
          BY <1>1, <4>8, Different
        <5> QED
          BY <2>3, <4>2, <4>8, <4>9, <4>10, <5>1
      <4> QED
        BY <4>1, <4>7, <4>11
    <3> QED
      BY <3>1, <3>2
  <2>6. TypesIn(s) \subseteq Types
    BY DEF TypesIn
  <2> QED
    BY <1>4, <2>4, <2>5, <2>6
<1> QED
  BY <1>6, <1>7

\* A type implements an interface, just if it is in the set and has the methods.
LEMMA TypeImplements ==
    ASSUME ProgramsOK, RichOK, IInv, NEW i \in Settled, NEW t \in Types
    PROVE  Implements([iface |-> FALSE, typ |-> t], i, FALSE) <=>
               (t \in TypesIn(tset[i]) /\ tset[i].methods \subseteq Methods[t])
<1> DEFINE T == tset[i]
<1>1. ifaces \in Programs /\ TypesOK /\ T \in Sets(X)
  BY DEF IInv, TypeInv, ProgramsOK, Settled
<1> HIDE DEF T
<1>2. Implements([iface |-> FALSE, typ |-> t], i, FALSE) <=>
          \/ IsAll(T.terms) /\ ~T.comparable /\ T.methods = {}
          \/ /\ ~IsEmpty(T.terms)
             /\ T.methods \subseteq Methods[t]
             /\ HasTerms(T.terms) => Includes(T.terms, t)
             /\ IsComparableSet(T) => t \in Comparable
  BY DEF Implements, IsComparableType, T
<1>3. CASE IsEmpty(T.terms)
  BY <1>1, <1>2, <1>3, InSet DEF T
<1>4. CASE IsAll(T.terms)
  <2>1. IsComparableSet(T) <=> T.comparable
    BY <1>4 DEF IsComparableSet
  <2>2. t \in TypesIn(T) <=> (T.comparable => t \in Comparable)
    BY <1>1, <1>4, InSet
  <2>3. ~IsEmpty(T.terms) /\ ~HasTerms(T.terms)
    BY <1>1, <1>4, InSet
  <2> QED
    BY <1>2, <1>4, <2>1, <2>2, <2>3 DEF T
<1>5. CASE ~IsEmpty(T.terms) /\ ~IsAll(T.terms)
  <2>1. HasTerms(T.terms) /\ (t \in TypesIn(T) <=> Includes(T.terms, t))
    BY <1>1, <1>5, InSet
  <2>2. IsComparableSet(T) /\ t \in TypesIn(T) => t \in Comparable
    BY <1>1, <1>5, ComparableIs
  <2> QED
    BY <1>2, <1>5, <2>1, <2>2 DEF T
<1> QED
  BY <1>3, <1>4, <1>5

\* An interface with types implements another, just if it has fewer types and its methods.
LEMMA InterfaceImplements ==
    ASSUME ProgramsOK, RichOK, IInv, NEW i \in Settled, NEW j \in Settled, TypesIn(tset[j]) # {}
    PROVE  Implements([iface |-> TRUE, typ |-> j], i, FALSE) <=>
               (TypesIn(tset[j]) \subseteq TypesIn(tset[i]) /\ tset[i].methods \subseteq tset[j].methods)
<1> DEFINE T == tset[i]
           V == tset[j]
<1>1. ifaces \in Programs /\ TypesOK /\ T \in Sets(X) /\ V \in Sets(X)
  BY DEF IInv, TypeInv, ProgramsOK, Settled
<1>a. TypesIn(V) # {}
  OBVIOUS
<1>b. TypesIn(V) \subseteq Types /\ TypesIn(T) \subseteq Types
  BY DEF TypesIn
<1> HIDE DEF T, V
<1>2. ~IsEmpty(V.terms)
  BY <1>1, <1>a, InSet
<1>3. Implements([iface |-> TRUE, typ |-> j], i, FALSE) <=>
          \/ IsAll(T.terms) /\ ~T.comparable /\ T.methods = {}
          \/ /\ ~IsEmpty(T.terms)
             /\ T.methods \subseteq V.methods
             /\ HasTerms(T.terms) => SubsetOf(V.terms, T.terms)
             /\ IsComparableSet(T) => IsComparableSet(V)
  BY <1>2 DEF Implements, IsComparableType, T, V
<1>4. IsComparableSet(V) <=> TypesIn(V) \subseteq Comparable
  BY <1>1, <1>2, ComparableIs
<1>5. CASE IsEmpty(T.terms)
  <2>1. TypesIn(T) = {} /\ ~IsAll(T.terms)
    BY <1>1, <1>5, InSet
  <2> QED
    BY <1>3, <1>5, <1>a, <2>1 DEF T, V
<1>6. CASE IsAll(T.terms)
  <2>1. IsComparableSet(T) <=> T.comparable
    BY <1>6 DEF IsComparableSet
  <2>2. \A t \in Types : t \in TypesIn(T) <=> (T.comparable => t \in Comparable)
    BY <1>1, <1>6, InSet
  <2>3. ~IsEmpty(T.terms) /\ ~HasTerms(T.terms)
    BY <1>1, <1>6, InSet
  <2>4. (T.comparable => TypesIn(V) \subseteq Comparable) <=> TypesIn(V) \subseteq TypesIn(T)
    BY <1>b, <2>2
  <2> QED
    BY <1>3, <1>4, <1>6, <2>1, <2>3, <2>4 DEF T, V
<1>7. CASE ~IsEmpty(T.terms) /\ ~IsAll(T.terms)
  <2>1. HasTerms(T.terms)
    BY <1>1, <1>7, InSet
  <2>2. SubsetOf(V.terms, T.terms) <=> TypesIn(V) \subseteq TypesIn(T)
    BY <1>1, <1>2, <2>1, SubsetIs
  <2>3. IsComparableSet(T) <=> TypesIn(T) \subseteq Comparable
    BY <1>1, <1>7, ComparableIs
  <2> QED
    BY <1>3, <1>4, <1>7, <2>1, <2>2, <2>3 DEF T, V
<1> QED
  BY <1>5, <1>6, <1>7

\* To implement an interface is inclusion of methods and types.
THEOREM ImplementsExact == ASSUME ProgramsOK, RichOK PROVE Spec => []ImplementsIsInclusion
<1>1. Init => IInv
  BY InitKeeps
<1>2. IInv /\ [Next]_vars => IInv'
  BY NextKeeps
<1>3. IInv => ImplementsIsInclusion
  BY TypeImplements, InterfaceImplements DEF ImplementsIsInclusion
<1> QED
  BY <1>1, <1>2, <1>3, PTL DEF Spec

-----------------------------------------------------------------------------
(* What the invariant says of the computation itself.                        *)

\* Every stored type set is normal, of terms that the program writes; comparable only
\* goes with the universe; no two methods have one name.
THEOREM TypeCorrect == ASSUME ProgramsOK PROVE Spec => []TypeInv
<1>1. Init => IInv
  BY InitKeeps
<1>2. IInv /\ [Next]_vars => IInv'
  BY NextKeeps
<1>3. IInv => TypeInv
  BY DEF IInv
<1> QED
  BY <1>1, <1>2, <1>3, PTL DEF Spec

\* A call inside another one is about an interface before that: the set that is stored
\* early, against infinite recursion (computeInterfaceTypeSet), is never seen by a call inside.
THEOREM CallsGoDown == ASSUME ProgramsOK PROVE Spec => []StackInv
<1>1. Init => IInv
  BY InitKeeps
<1>2. IInv /\ [Next]_vars => IInv'
  BY NextKeeps
<1>3. IInv => StackInv
  BY DEF IInv
<1> QED
  BY <1>1, <1>2, <1>3, PTL DEF Spec

\* A type set that is exact is not computed again and does not change.
SetsStay == [][\A i \in Settled : i \in Settled' /\ tset'[i] = tset[i]]_vars

\* What a step writes: the set of an interface without one, or of the innermost call.
LEMMA StepWrites ==
    ASSUME ProgramsOK, IInv, Next, NEW i \in Settled
    PROVE  /\ tset'[i] = tset[i] /\ ifaces' = ifaces /\ i \notin loose'
           /\ \A m \in DOMAIN calls' : calls'[m].iface # i
<1>1. /\ i \in DOMAIN ifaces /\ tset[i] # NoSet /\ i \notin loose
      /\ \A m \in DOMAIN calls : calls[m].iface # i
      /\ calls \in Seq(Frames) /\ tset \in [DOMAIN ifaces -> Sets(X) \cup {NoSet}]
  BY DEF Settled, IInv, TypeInv
<1>2. calls # <<>> => Top.iface # i /\ Len(calls) \in DOMAIN calls /\ Len(calls) \in Nat
  BY <1>1, TopIs DEF Top
<1>3. ASSUME NEW k \in DOMAIN ifaces, Call(k)
      PROVE  /\ tset'[i] = tset[i] /\ ifaces' = ifaces /\ i \notin loose'
             /\ \A m \in DOMAIN calls' : calls'[m].iface # i
  <2>1. k # i /\ tset'[i] = tset[i] /\ ifaces' = ifaces /\ loose' = loose
    BY <1>1, <1>3 DEF Call
  <2>2. PICK c : c.iface = k /\ calls' = Append(calls, c)
    BY <1>3 DEF Call
  <2>3. \A m \in DOMAIN calls' : (m \in DOMAIN calls /\ calls'[m] = calls[m]) \/ calls'[m] = c
    BY <1>1, <2>2
  <2> QED
    BY <1>1, <2>1, <2>2, <2>3
<1>4. ASSUME NEW c, calls # <<>>, GoOn(c), c.iface = Top.iface, loose' \in {loose, loose \cup {Top.iface}}
      PROVE  /\ tset'[i] = tset[i] /\ ifaces' = ifaces /\ i \notin loose'
             /\ \A m \in DOMAIN calls' : calls'[m].iface # i
  BY <1>1, <1>2, <1>4 DEF GoOn
<1>5. ASSUME NEW s, calls # <<>>, Embed(s), loose' \in {loose, loose \cup {Top.iface}}
      PROVE  /\ tset'[i] = tset[i] /\ ifaces' = ifaces /\ i \notin loose'
             /\ \A m \in DOMAIN calls' : calls'[m].iface # i
  <2>1. PICK c : c.iface = Top.iface /\ GoOn(c)
    <3>1. Top \in Frames
      BY <1>1, <1>2, <1>5 DEF Top
    <3> QED
      BY <1>5, <3>1 DEF Embed, Frames
  <2> QED
    BY <1>4, <1>5, <2>1
<1>6. CASE EmbedComparable
  BY <1>5, <1>6 DEF EmbedComparable, HasElem
<1>7. CASE EmbedInterface
  BY <1>5, <1>7 DEF EmbedInterface, HasElem, Loosen
<1>8. CASE EmbedUnion
  BY <1>5, <1>8 DEF EmbedUnion, HasElem
<1>9. CASE UnionTerm
  <2>1. Top \in Frames /\ calls # <<>>
    BY <1>1, <1>2, <1>9 DEF Top, UnionTerm, HasTerm, HasElem
  <2>2. PICK c : c.iface = Top.iface /\ GoOn(c)
    BY <1>9, <2>1 DEF UnionTerm, Frames
  <2> QED
    BY <1>4, <1>9, <2>1, <2>2 DEF UnionTerm, Loosen
<1>12. CASE UnionOverflows
  <2>1. Top \in Frames /\ calls # <<>>
    BY <1>1, <1>2, <1>12 DEF Top, UnionOverflows, HasTerm, HasElem
  <2>2. PICK c : c.iface = Top.iface /\ GoOn(c)
    BY <1>12, <2>1 DEF UnionOverflows, Frames
  <2> QED
    BY <1>4, <1>12, <2>1, <2>2 DEF UnionOverflows, Loosen
<1>10. CASE Return
  <2>1. /\ calls # <<>> /\ tset' = [tset EXCEPT ![Top.iface] = Top.set]
        /\ calls' = SubSeq(calls, 1, Len(calls) - 1) /\ UNCHANGED <<ifaces, complete, loose>>
    BY <1>10 DEF Return
  <2>2. \A m \in DOMAIN calls' : m \in DOMAIN calls /\ calls'[m] = calls[m]
    BY <1>1, <1>2, <2>1
  <2> QED
    BY <1>1, <1>2, <2>1, <2>2
<1>11. ASSUME NEW k \in DOMAIN ifaces, InterfaceType(k)
       PROVE  /\ tset'[i] = tset[i] /\ ifaces' = ifaces /\ i \notin loose'
              /\ \A m \in DOMAIN calls' : calls'[m].iface # i
  BY <1>1, <1>11 DEF InterfaceType
<1> QED
  BY <1>3, <1>6, <1>7, <1>8, <1>9, <1>10, <1>11, <1>12 DEF Next, TypeSet, Recurse

\* It holds for all types and programs.
THEOREM SetsAreFinal == ASSUME ProgramsOK PROVE Spec => SetsStay
<1>1. Init => IInv
  BY InitKeeps
<1>2. IInv /\ [Next]_vars => IInv'
  BY NextKeeps
<1>3. IInv /\ [Next]_vars => [\A i \in Settled : i \in Settled' /\ tset'[i] = tset[i]]_vars
  <2> SUFFICES ASSUME IInv, Next, NEW i \in Settled PROVE i \in Settled' /\ tset'[i] = tset[i]
    OBVIOUS
  <2> QED
    BY StepWrites DEF Settled
<1> QED
  BY <1>1, <1>2, <1>3, PTL DEF Spec, SetsStay
==============================================================================

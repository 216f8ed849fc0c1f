------------------------- MODULE ElementBlocksProofs -------------------------
(***************************************************************************)
(* combineElemmentBlocks places every statement of every list exactly      *)
(* once.  The invariant says how far each list of statements under         *)
(* construction has got: the body of a level ends where the next level's   *)
(* open tag begins, the innermost one where `last` is.                     *)
(***************************************************************************)
EXTENDS ElementBlocks, TLAPS

\* Elements that end after they begin.
Elements(el) == \A n \in DOMAIN el : n \in Nat /\ el[n].end \in Nat /\ n < el[n].end

\* What the invariant needs of a node's end.
LEMMA EndOfType ==
    ASSUME NEW el, Elements(el), NEW n \in Nat
    PROVE  EndOf(el, n) \in Nat /\ n <= EndOf(el, n)
BY DEF EndOf, Elements

\* A tiling does not end before it begins.
LEMMA TilesOrder ==
    ASSUME NEW el, Elements(el), NEW s \in Seq(Nat), NEW a \in Nat, NEW b \in Nat,
           Tiles(el, s, a, b)
    PROVE  a <= b
<1>1. CASE s = <<>>
  BY <1>1 DEF Tiles
<1>2. CASE s # <<>>
  <2>1. 1 \in 1 .. Len(s) /\ s[1] \in Nat
    BY <1>2
  <2>2. s[1] <= EndOf(el, s[1])
    BY <2>1, EndOfType
  <2>3. a < s[1] /\ EndOf(el, s[1]) <= b /\ EndOf(el, s[1]) \in Nat
    BY <2>1, EndOfType DEF Tiles
  <2> QED
    BY <2>1, <2>2, <2>3
<1> QED
  BY <1>1, <1>2

\* Tilings of adjacent ranges make one of both.
LEMMA TilesConcat ==
    ASSUME NEW el, Elements(el), NEW s \in Seq(Nat), NEW t \in Seq(Nat),
           NEW a \in Nat, NEW b \in Nat, NEW c \in Nat,
           Tiles(el, s, a, b), Tiles(el, t, b, c)
    PROVE  Tiles(el, s \o t, a, c)
<1>1. a <= b /\ b <= c
  BY TilesOrder
<1>2. s \o t \in Seq(Nat) /\ Len(s \o t) = Len(s) + Len(t)
  OBVIOUS
<1>3. \A m \in 1 .. Len(s) : (s \o t)[m] = s[m]
  OBVIOUS
<1>4. \A m \in Len(s) + 1 .. Len(s) + Len(t) : (s \o t)[m] = t[m - Len(s)]
  OBVIOUS
<1>5. ASSUME NEW m \in 1 .. Len(s)
      PROVE  s[m] \in Nat /\ EndOf(el, s[m]) \in Nat
  <2>1. s[m] \in Nat
    OBVIOUS
  <2> QED
    BY <2>1, EndOfType
<1>6. ASSUME NEW m \in 1 .. Len(t)
      PROVE  t[m] \in Nat /\ EndOf(el, t[m]) \in Nat
  <2>1. t[m] \in Nat
    OBVIOUS
  <2> QED
    BY <2>1, EndOfType
<1>7. s \o t = <<>> => a = c
  <2>1. s \o t = <<>> => s = <<>> /\ t = <<>>
    BY <1>2
  <2> QED
    BY <2>1 DEF Tiles
<1>8. s \o t # <<>> => (s \o t)[1] = a + 1
  <2>1. CASE s = <<>>
    <3>1. s \o t = t /\ a = b
      BY <2>1 DEF Tiles
    <3> QED
      BY <3>1 DEF Tiles
  <2>2. CASE s # <<>>
    <3>1. 1 \in 1 .. Len(s)
      BY <2>2
    <3>2. (s \o t)[1] = s[1]
      BY <3>1, <1>3
    <3> QED
      BY <2>2, <3>2 DEF Tiles
  <2> QED
    BY <2>1, <2>2
<1>9. s \o t # <<>> => EndOf(el, (s \o t)[Len(s \o t)]) = c
  <2>1. CASE t = <<>>
    <3>1. s \o t = s /\ b = c
      BY <2>1 DEF Tiles
    <3> QED
      BY <3>1 DEF Tiles
  <2>2. CASE t # <<>>
    <3>1. Len(s) + Len(t) \in Len(s) + 1 .. Len(s) + Len(t) /\ Len(s) + Len(t) - Len(s) = Len(t)
      BY <2>2
    <3>2. (s \o t)[Len(s \o t)] = t[Len(t)]
      BY <3>1, <1>2, <1>4
    <3> QED
      BY <2>2, <3>2 DEF Tiles
  <2> QED
    BY <2>1, <2>2
<1>10. ASSUME NEW m \in 1 .. Len(s \o t)
       PROVE  a < (s \o t)[m] /\ EndOf(el, (s \o t)[m]) <= c
  <2>1. CASE m <= Len(s)
    <3>1. m \in 1 .. Len(s)
      BY <2>1
    <3>2. a < s[m] /\ EndOf(el, s[m]) <= b /\ EndOf(el, s[m]) \in Nat
      BY <3>1, <1>5 DEF Tiles
    <3>3. EndOf(el, s[m]) <= c
      BY <3>2, <1>1
    <3> QED
      BY <3>1, <3>2, <3>3, <1>3
  <2>2. CASE m > Len(s)
    <3>1. m \in Len(s) + 1 .. Len(s) + Len(t) /\ m - Len(s) \in 1 .. Len(t)
      BY <2>2, <1>2
    <3>2. b < t[m - Len(s)] /\ EndOf(el, t[m - Len(s)]) <= c /\ t[m - Len(s)] \in Nat
      BY <3>1, <1>6 DEF Tiles
    <3>3. a < t[m - Len(s)]
      BY <3>2, <1>1
    <3> QED
      BY <3>1, <3>2, <3>3, <1>4
  <2> QED
    BY <2>1, <2>2, <1>2
<1>11. ASSUME NEW m \in 1 .. Len(s \o t) - 1
       PROVE  (s \o t)[m + 1] = EndOf(el, (s \o t)[m]) + 1
  <2>1. CASE m < Len(s)
    <3>1. m \in 1 .. Len(s) - 1 /\ m \in 1 .. Len(s) /\ m + 1 \in 1 .. Len(s)
      BY <2>1
    <3>2. s[m + 1] = EndOf(el, s[m]) + 1
      BY <3>1 DEF Tiles
    <3> QED
      BY <3>1, <3>2, <1>3
  <2>2. CASE m = Len(s)
    <3>1. s # <<>> /\ t # <<>> /\ m \in 1 .. Len(s)
      BY <2>2, <1>2
    <3>2. m + 1 \in Len(s) + 1 .. Len(s) + Len(t) /\ m + 1 - Len(s) = 1
      BY <2>2, <1>2
    <3>3. (s \o t)[m + 1] = t[1] /\ (s \o t)[m] = s[Len(s)]
      BY <2>2, <3>1, <3>2, <1>3, <1>4
    <3>4. t[1] = b + 1 /\ EndOf(el, s[Len(s)]) = b
      BY <3>1 DEF Tiles
    <3> QED
      BY <3>3, <3>4
  <2>3. CASE m > Len(s)
    <3>1. m \in Len(s) + 1 .. Len(s) + Len(t) /\ m + 1 \in Len(s) + 1 .. Len(s) + Len(t)
      BY <2>3, <1>2
    <3>2. m - Len(s) \in 1 .. Len(t) - 1 /\ m + 1 - Len(s) = (m - Len(s)) + 1
      BY <2>3, <1>2
    <3>3. t[(m - Len(s)) + 1] = EndOf(el, t[m - Len(s)]) + 1
      BY <3>2 DEF Tiles
    <3> QED
      BY <3>1, <3>2, <3>3, <1>4
  <2> QED
    BY <2>1, <2>2, <2>3, <1>2
<1> QED
  BY <1>7, <1>8, <1>9, <1>10, <1>11 DEF Tiles

\* A single node tiles its own range, if it is the next statement.
LEMMA TilesSingle ==
    ASSUME NEW el, Elements(el), NEW n \in Nat, NEW a \in Nat, n = a + 1
    PROVE  Tiles(el, <<n>>, a, EndOf(el, n))
BY EndOfType DEF Tiles

\* Statements after the last element tile their range.
LEMMA TilesSlice ==
    ASSUME NEW el, Elements(el), NEW a \in Nat, NEW b \in Nat, a <= b,
           \A n \in DOMAIN el : n <= a
    PROVE  Slice(a, b) \in Seq(Nat) /\ Tiles(el, Slice(a, b), a, b)
<1> DEFINE s == Slice(a, b)
<1>1. s \in Seq(Nat) /\ Len(s) = b - a /\ \A m \in 1 .. Len(s) : s[m] = a + m
  BY DEF Slice
<1>2. \A m \in 1 .. Len(s) : EndOf(el, s[m]) = a + m
  BY <1>1 DEF EndOf
<1> HIDE DEF s
<1>3. s = <<>> <=> Len(s) = 0
  BY <1>1
<1>4. Len(s) > 0 => 1 \in 1 .. Len(s) /\ Len(s) \in 1 .. Len(s)
  BY <1>1
<1>5. \A m \in 1 .. Len(s) - 1 : m \in 1 .. Len(s) /\ m + 1 \in 1 .. Len(s)
  BY <1>1
<1>6. Tiles(el, s, a, b)
  BY <1>1, <1>2, <1>3, <1>4, <1>5 DEF Tiles
<1> QED
  BY <1>1, <1>6 DEF s

\* A tiling depends only on the elements in its range.
LEMMA TilesFrame ==
    ASSUME NEW el, Elements(el), NEW el2, NEW s \in Seq(Nat), NEW a \in Nat, NEW b \in Nat,
           NEW x \in Nat, x <= a \/ b < x,
           \A n \in Nat : n # x => EndOf(el2, n) = EndOf(el, n),
           Tiles(el, s, a, b)
    PROVE  Tiles(el2, s, a, b)
<1>1. \A m \in 1 .. Len(s) : s[m] \in Nat /\ a < s[m] /\ s[m] <= b
  <2>1. ASSUME NEW m \in 1 .. Len(s)
        PROVE  s[m] \in Nat /\ s[m] <= EndOf(el, s[m]) /\ EndOf(el, s[m]) \in Nat
    <3>1. s[m] \in Nat
      OBVIOUS
    <3> QED
      BY <3>1, EndOfType
  <2> QED
    BY <2>1 DEF Tiles
<1>2. \A m \in 1 .. Len(s) : EndOf(el2, s[m]) = EndOf(el, s[m])
  BY <1>1
<1>3. s # <<>> => EndOf(el2, s[Len(s)]) = b
  <2>1. s # <<>> => Len(s) \in 1 .. Len(s)
    OBVIOUS
  <2> QED
    BY <1>2, <2>1 DEF Tiles
<1>4. ASSUME NEW m \in 1 .. Len(s) - 1
      PROVE  s[m + 1] = EndOf(el2, s[m]) + 1
  <2>1. m \in 1 .. Len(s)
    OBVIOUS
  <2> QED
    BY <1>2, <2>1 DEF Tiles
<1> QED
  BY <1>2, <1>3, <1>4 DEF Tiles

-----------------------------------------------------------------------------
Level == [open : Nat, body : Seq(Nat)]

\* What level m of the stack extends to.
Upto(m) == IF m < Len(depth) THEN depth[m + 1].open - 1 ELSE last

\* How far the result has got.
OutUpto ==
    IF pc \in {"scan", "close"} THEN IF depth = <<>> THEN last ELSE depth[1].open - 1
    ELSE IF pc = "rest" THEN IF v <= Len(depth) THEN depth[v].open - 1 ELSE last
    ELSE Len(list)

ElemInv ==
    /\ \A n \in DOMAIN elem :
          /\ n \in Nat /\ elem[n].end \in Nat /\ n < elem[n].end
          /\ elem[n].end <= last
          /\ elem[n].body \in Seq(Nat)
          /\ Tiles(elem, elem[n].body, n, BodyEnd(n))
    /\ \A n \in DOMAIN elem, m \in DOMAIN depth :
          elem[n].end < depth[m].open \/ depth[m].open < n

StackInv ==
    /\ depth \in Seq(Level)
    /\ \A m \in DOMAIN depth : depth[m].open \in 1 .. last
    /\ \A m \in DOMAIN depth : Tiles(elem, depth[m].body, depth[m].open, Upto(m))
    /\ \A l, m \in DOMAIN depth : l < m => depth[l].open < depth[m].open

OutInv ==
    /\ out \in Seq(Nat)
    /\ Tiles(elem, out, 0, OutUpto)

CloseInv ==
    /\ pc = "close" =>
          /\ i <= Len(list)
          /\ j \in 1 .. Len(depth) /\ v \in j + 1 .. Len(depth) + 1
          /\ body \in Seq(Nat)
          /\ Tiles(elem, body, depth[j].open, Upto(v - 1))
    /\ pc = "rest" => v \in 1 .. Len(depth) + 1

IndexInv ==
    /\ list \in Seq(Stmt)
    /\ i \in 1 .. Len(list) + 1
    /\ last \in 0 .. i - 1
    /\ pc \in {"scan", "close", "rest", "done"}
    /\ pc \in {"rest", "done"} => i = Len(list) + 1
    /\ last = 0 => depth = <<>> /\ elem = <<>>

IInv == IndexInv /\ ElemInv /\ StackInv /\ OutInv /\ CloseInv

-----------------------------------------------------------------------------
\* Elements end after they begin.
LEMMA ElementsOK == IInv => Elements(elem)
BY DEF IInv, ElemInv, Elements

\* What the invariant says of level m of the stack.
LEMMA LevelFacts ==
    ASSUME IInv, NEW m \in DOMAIN depth
    PROVE  /\ m \in 1 .. Len(depth) /\ Len(depth) \in Nat
           /\ depth[m].open \in Nat /\ depth[m].open \in 1 .. last
           /\ depth[m].body \in Seq(Nat)
           /\ Upto(m) \in Nat
           /\ Tiles(elem, depth[m].body, depth[m].open, Upto(m))
<1>1. depth \in Seq(Level) /\ last \in Nat
  BY DEF IInv, StackInv, IndexInv
<1>2. m \in 1 .. Len(depth) /\ Len(depth) \in Nat
  BY <1>1
<1>3. depth[m] \in Level
  BY <1>1, <1>2
<1>4. depth[m].open \in 1 .. last
  BY DEF IInv, StackInv
<1>5. Tiles(elem, depth[m].body, depth[m].open, Upto(m))
  BY DEF IInv, StackInv
<1>6. Upto(m) \in Nat
  <2>1. CASE m < Len(depth)
    <3>1. m + 1 \in DOMAIN depth
      BY <1>1, <1>2, <2>1
    <3>2. depth[m + 1].open \in 1 .. last
      BY <3>1 DEF IInv, StackInv
    <3> QED
      BY <2>1, <3>2, <1>1 DEF Upto
  <2>2. CASE ~ (m < Len(depth))
    BY <2>2, <1>1 DEF Upto
  <2> QED
    BY <2>1, <2>2
<1> QED
  BY <1>2, <1>3, <1>4, <1>5, <1>6 DEF Level

\* The invariant holds for every list.
LEMMA InitIInv == Init => IInv
<1> SUFFICES ASSUME Init PROVE IInv
  OBVIOUS
<1>1. list \in Seq(Stmt) /\ Len(list) \in Nat
  BY ListsAssumption DEF Init
<1>2. IndexInv
  BY <1>1 DEF Init, IndexInv
<1>3. ElemInv /\ StackInv /\ CloseInv
  BY DEF Init, ElemInv, StackInv, CloseInv
<1>4. OutInv
  BY DEF Init, OutInv, OutUpto, Tiles
<1> QED
  BY <1>2, <1>3, <1>4 DEF IInv

\* Statements that are placed later change nothing.
LEMMA KeepStep ==
    IInv /\ (OtherStmt \/ NoMatch) => IInv'
<1> SUFFICES ASSUME IInv, OtherStmt \/ NoMatch PROVE IInv'
  OBVIOUS
<1>1. /\ pc = "scan" /\ i <= Len(list) /\ i' = i + 1
      /\ UNCHANGED <<list, last, depth, out, elem, pc, j, v, body>>
  BY DEF OtherStmt, NoMatch
<1>2. IndexInv'
  BY <1>1 DEF IInv, IndexInv
<1>3. ElemInv'
  BY <1>1 DEF IInv, ElemInv, BodyEnd
<1>4. StackInv'
  BY <1>1 DEF IInv, StackInv, Upto
<1>5. OutInv' /\ CloseInv'
  BY <1>1 DEF IInv, OutInv, CloseInv, OutUpto
<1> QED
  BY <1>2, <1>3, <1>4, <1>5 DEF IInv

\* The body of the element starts with what follows the matched open tag.
LEMMA MatchStep == IInv /\ Match => IInv'
<1> SUFFICES ASSUME IInv, Match PROVE IInv'
  OBVIOUS
<1>1. /\ pc = "scan" /\ i <= Len(list) /\ pc' = "close"
      /\ UNCHANGED <<list, i, last, depth, out, elem>>
      /\ j' \in DOMAIN depth /\ v' = j' + 1 /\ body' = depth[j'].body
  BY DEF Match, Matches
<1>2. IndexInv'
  BY <1>1 DEF IInv, IndexInv
<1>3. ElemInv'
  BY <1>1 DEF IInv, ElemInv, BodyEnd
<1>4. StackInv'
  BY <1>1 DEF IInv, StackInv, Upto
<1>5. OutInv'
  BY <1>1 DEF IInv, OutInv, OutUpto
<1>6. CloseInv'
  <2>1. PICK m \in DOMAIN depth : j' = m /\ v' = m + 1 /\ body' = depth[m].body
    BY <1>1
  <2>2. m \in 1 .. Len(depth) /\ Len(depth) \in Nat
    BY LevelFacts
  <2>3. depth[m].body \in Seq(Nat) /\ Tiles(elem, depth[m].body, depth[m].open, Upto(m))
    BY LevelFacts
  <2>4. (depth[j].open)' = depth[m].open /\ Upto(v - 1)' = Upto(m)
    BY <1>1, <2>1, <2>2 DEF Upto
  <2> QED
    BY <1>1, <2>1, <2>2, <2>3, <2>4 DEF CloseInv
<1> QED
  BY <1>2, <1>3, <1>4, <1>5, <1>6 DEF IInv

-----------------------------------------------------------------------------
\* A statement between two tilings.
LEMMA TilesNode ==
    ASSUME NEW el, Elements(el), NEW s \in Seq(Nat), NEW t \in Seq(Nat),
           NEW a \in Nat, NEW o \in Nat, o # 0, NEW b \in Nat,
           EndOf(el, o) = o, Tiles(el, s, a, o - 1), Tiles(el, t, o, b)
    PROVE  s \o <<o>> \o t \in Seq(Nat) /\ Tiles(el, s \o <<o>> \o t, a, b)
<1>1. <<o>> \in Seq(Nat) /\ o - 1 \in Nat
  OBVIOUS
<1>2. Tiles(el, <<o>>, o - 1, EndOf(el, o))
  BY <1>1, TilesSingle
<1>3. s \o <<o>> \in Seq(Nat)
  BY <1>1
<1>4. Tiles(el, s \o <<o>>, a, o)
  BY <1>1, <1>2, TilesConcat
<1>5. s \o <<o>> \o t \in Seq(Nat)
  BY <1>3
<1> QED
  BY <1>3, <1>4, <1>5, TilesConcat

\* An open tag that becomes a plain statement, with what follows it, extends a
\* tiling by one level.
LEMMA AddLevel ==
    ASSUME IInv, NEW m \in DOMAIN depth, NEW s \in Seq(Nat), NEW a \in Nat,
           Tiles(elem, s, a, depth[m].open - 1)
    PROVE  /\ s \o <<depth[m].open>> \o depth[m].body \in Seq(Nat)
           /\ Tiles(elem, s \o <<depth[m].open>> \o depth[m].body, a, Upto(m))
<1>1. Elements(elem)
  BY ElementsOK
<1>2. /\ depth[m].open \in Nat /\ depth[m].open # 0 /\ depth[m].body \in Seq(Nat)
      /\ Tiles(elem, depth[m].body, depth[m].open, Upto(m)) /\ Upto(m) \in Nat
  BY LevelFacts
<1>3. EndOf(elem, depth[m].open) = depth[m].open
  <2>1. SUFFICES ASSUME depth[m].open \in DOMAIN elem PROVE FALSE
    BY DEF EndOf
  <2>2. /\ elem[depth[m].open].end \in Nat /\ depth[m].open < elem[depth[m].open].end
        /\ \/ elem[depth[m].open].end < depth[m].open
           \/ depth[m].open < depth[m].open
    BY <2>1 DEF IInv, ElemInv
  <2> QED
    BY <2>2, <1>2
<1> QED
  BY <1>1, <1>2, <1>3, TilesNode

\* An inner open tag and what follows it extend the body.
LEMMA CloseInnerStep == IInv /\ CloseInner => IInv'
<1> SUFFICES ASSUME IInv, CloseInner PROVE IInv'
  OBVIOUS
<1>1. /\ pc = "close" /\ v <= Len(depth) /\ v' = v + 1
      /\ body' = body \o <<depth[v].open>> \o depth[v].body
      /\ UNCHANGED <<list, i, last, depth, out, elem, pc, j>>
  BY DEF CloseInner
<1>2. IndexInv'
  BY <1>1 DEF IInv, IndexInv
<1>3. ElemInv'
  BY <1>1 DEF IInv, ElemInv, BodyEnd
<1>4. StackInv'
  BY <1>1 DEF IInv, StackInv, Upto
<1>5. OutInv'
  BY <1>1 DEF IInv, OutInv, OutUpto
<1>6. CloseInv'
  <2>1. /\ i <= Len(list) /\ j \in 1 .. Len(depth) /\ v \in j + 1 .. Len(depth)
        /\ body \in Seq(Nat) /\ Tiles(elem, body, depth[j].open, Upto(v - 1))
    BY <1>1 DEF IInv, CloseInv
  <2>2. j \in DOMAIN depth /\ v \in DOMAIN depth
    <3>1. depth \in Seq(Level)
      BY DEF IInv, StackInv
    <3> QED
      BY <3>1, <2>1
  <2>3. depth[j].open \in Nat /\ depth[v].open \in Nat /\ Upto(v - 1) = depth[v].open - 1
    BY <2>1, <2>2, LevelFacts DEF Upto
  <2>4. body' \in Seq(Nat) /\ Tiles(elem, body', depth[j].open, Upto(v))
    BY <1>1, <2>1, <2>2, <2>3, AddLevel
  <2>5. Upto(v - 1)' = Upto(v) /\ v' \in j + 1 .. Len(depth) + 1
    BY <1>1, <2>1 DEF Upto
  <2> QED
    BY <1>1, <2>1, <2>4, <2>5 DEF CloseInv
<1> QED
  BY <1>2, <1>3, <1>4, <1>5, <1>6 DEF IInv

\* An open tag left over and what follows it extend the result.
LEMMA RestStep == IInv /\ Rest => IInv'
<1> SUFFICES ASSUME IInv, Rest PROVE IInv'
  OBVIOUS
<1>1. /\ pc = "rest" /\ v <= Len(depth) /\ v' = v + 1
      /\ out' = out \o <<depth[v].open>> \o depth[v].body
      /\ UNCHANGED <<list, i, last, depth, elem, pc, j, body>>
  BY DEF Rest
<1>2. IndexInv'
  BY <1>1 DEF IInv, IndexInv
<1>3. ElemInv'
  BY <1>1 DEF IInv, ElemInv, BodyEnd
<1>4. StackInv'
  BY <1>1 DEF IInv, StackInv, Upto
<1>5. v \in 1 .. Len(depth) /\ Len(depth) \in Nat /\ v \in DOMAIN depth
  BY <1>1 DEF IInv, CloseInv, StackInv
<1>6. out \in Seq(Nat) /\ Tiles(elem, out, 0, depth[v].open - 1) /\ 0 \in Nat
  BY <1>1 DEF IInv, OutInv, OutUpto
<1>7. out' \in Seq(Nat) /\ Tiles(elem, out', 0, Upto(v))
  BY <1>1, <1>5, <1>6, AddLevel
<1>8. OutUpto' = Upto(v)
  BY <1>1, <1>5 DEF OutUpto, Upto
<1>9. OutInv'
  BY <1>1, <1>7, <1>8 DEF OutInv
<1>10. CloseInv'
  BY <1>1, <1>5 DEF CloseInv
<1> QED
  BY <1>2, <1>3, <1>4, <1>9, <1>10 DEF IInv

-----------------------------------------------------------------------------
\* appendStmts changes the body of the innermost level only.
LEMMA AppendedFacts ==
    ASSUME NEW stack \in Seq(Level), NEW s \in Seq(Nat)
    PROVE  /\ Appended(stack, s) \in Seq(Level)
           /\ Len(Appended(stack, s)) = Len(stack)
           /\ \A m \in 1 .. Len(stack) :
                 /\ Appended(stack, s)[m].open = stack[m].open
                 /\ Appended(stack, s)[m].body =
                       IF m = Len(stack) THEN stack[m].body \o s ELSE stack[m].body
<1> DEFINE n == Len(stack)
<1>1. CASE stack = <<>>
  BY <1>1 DEF Appended
<1>2. CASE stack # <<>>
  <2>1. n \in 1 .. n /\ n \in Nat
    BY <1>2
  <2>2. Appended(stack, s) = [stack EXCEPT ![n] = [stack[n] EXCEPT !.body = @ \o s]]
    BY <1>2 DEF Appended
  <2>3. stack[n] \in Level
    BY <2>1
  <2>4. stack[n].body \o s \in Seq(Nat) /\ stack[n].open \in Nat
    BY <2>3 DEF Level
  <2>5. [stack[n] EXCEPT !.body = @ \o s] \in Level
    BY <2>3, <2>4 DEF Level
  <2>6. [stack EXCEPT ![n] = [stack[n] EXCEPT !.body = @ \o s]] \in Seq(Level)
    BY <2>1, <2>5
  <2>7. \A m \in 1 .. n : m # n => Appended(stack, s)[m] = stack[m]
    BY <2>1, <2>2
  <2>8. Appended(stack, s)[n] = [stack[n] EXCEPT !.body = @ \o s]
    <3> DEFINE e == [stack[n] EXCEPT !.body = @ \o s]
    <3>1. Appended(stack, s) = [stack EXCEPT ![n] = e]
      BY <2>2
    <3> HIDE DEF e
    <3>2. Appended(stack, s)[n] = e
      BY <2>1, <3>1
    <3> QED
      BY <3>2 DEF e
  <2>9. Appended(stack, s)[n].open = stack[n].open /\ Appended(stack, s)[n].body = stack[n].body \o s
    BY <2>3, <2>8 DEF Level
  <2>10. Appended(stack, s) \in Seq(Level) /\ Len(Appended(stack, s)) = n
    BY <2>2, <2>6
  <2> QED
    BY <2>7, <2>9, <2>10
<1> QED
  BY <1>1, <1>2

\* The statements between `last` and the one at hand are in no element yet.
LEMMA PendingSlice ==
    ASSUME IInv, NEW b \in Nat, last <= b
    PROVE  Slice(last, b) \in Seq(Nat) /\ Tiles(elem, Slice(last, b), last, b)
<1>1. last \in Nat
  BY DEF IInv, IndexInv
<1>2. \A n \in DOMAIN elem : n <= last
  BY <1>1 DEF IInv, ElemInv
<1> QED
  BY <1>1, <1>2, ElementsOK, TilesSlice

\* What precedes an open tag goes to the level around it.
LEMMA OpenTagStep == IInv /\ OpenTag => IInv'
<1> SUFFICES ASSUME IInv, OpenTag PROVE IInv'
  OBVIOUS
<1> DEFINE s == Slice(last, i - 1)
           stack == Appended(depth, s)
           new == [open |-> i, body |-> <<>>]
           n == Len(depth)
<1>1. /\ pc = "scan" /\ i <= Len(list) /\ list[i].k = "open"
      /\ depth' = Append(stack, new) /\ out' = AppendOut(depth, s)
      /\ last' = i /\ i' = i + 1
      /\ UNCHANGED <<list, elem, errors, pc, j, v, body>>
  BY DEF OpenTag
<1>2. /\ i \in Nat /\ i >= 1 /\ last \in Nat /\ last <= i - 1 /\ i - 1 \in Nat
      /\ depth \in Seq(Level) /\ n \in Nat
  BY DEF IInv, IndexInv, StackInv
<1>3. s \in Seq(Nat) /\ Tiles(elem, s, last, i - 1)
  BY <1>2, PendingSlice
<1>4. /\ stack \in Seq(Level) /\ Len(stack) = n
      /\ \A m \in 1 .. n :
            /\ stack[m].open = depth[m].open
            /\ stack[m].body = IF m = n THEN depth[m].body \o s ELSE depth[m].body
  BY <1>2, <1>3, AppendedFacts
<1>5. new \in Level /\ new.open = i /\ new.body = <<>>
  BY <1>2 DEF Level
<1> HIDE DEF s, stack, new, n
<1>6. /\ depth' \in Seq(Level) /\ Len(depth') = n + 1 /\ DOMAIN depth' = 1 .. n + 1
      /\ depth'[n + 1].open = i /\ depth'[n + 1].body = <<>>
      /\ \A m \in 1 .. n : depth'[m] = stack[m]
  BY <1>1, <1>2, <1>4, <1>5
<1>7. \A m \in 1 .. n :
         /\ depth[m].open \in 1 .. last /\ depth[m].open \in Nat /\ depth[m].body \in Seq(Nat)
         /\ Upto(m) \in Nat /\ Tiles(elem, depth[m].body, depth[m].open, Upto(m))
  <2>1. DOMAIN depth = 1 .. n
    BY <1>2 DEF n
  <2> QED
    BY <2>1, LevelFacts
<1>8. IndexInv'
  BY <1>1, <1>2 DEF IInv, IndexInv
<1>9. ElemInv'
  <2>1. \A m \in DOMAIN elem : elem[m].end \in Nat /\ elem[m].end <= last
    BY DEF IInv, ElemInv
  <2>2. \A m \in DOMAIN elem, l \in 1 .. n : elem[m].end < depth[l].open \/ depth[l].open < m
    BY <1>2 DEF IInv, ElemInv, n
  <2>3. \A m \in DOMAIN elem, l \in 1 .. n + 1 : elem[m].end < depth'[l].open \/ depth'[l].open < m
    BY <2>1, <2>2, <1>2, <1>4, <1>6
  <2>4. \A m \in DOMAIN elem :
          /\ m \in Nat /\ elem[m].end \in Nat /\ m < elem[m].end
          /\ elem[m].body \in Seq(Nat) /\ Tiles(elem, elem[m].body, m, BodyEnd(m))
    BY DEF IInv, ElemInv
  <2>5. \A m \in DOMAIN elem : elem[m].end <= last'
    BY <2>1, <1>1, <1>2
  <2>6. \A m : BodyEnd(m)' = BodyEnd(m)
    BY <1>1 DEF BodyEnd
  <2> QED
    BY <2>3, <2>4, <2>5, <2>6, <1>1, <1>6 DEF ElemInv
<1>10. StackInv'
  <2>1. ASSUME NEW m \in 1 .. n + 1
        PROVE  depth'[m].open \in 1 .. last'
    <3>1. CASE m = n + 1
      BY <3>1, <1>1, <1>2, <1>6
    <3>2. CASE m # n + 1
      <4>1. m \in 1 .. n /\ depth'[m].open = depth[m].open
        BY <3>2, <1>2, <1>4, <1>6
      <4>2. depth[m].open \in 1 .. last
        BY <4>1, <1>7
      <4> QED
        BY <4>1, <4>2, <1>1, <1>2
    <3> QED
      BY <3>1, <3>2
  <2>2. ASSUME NEW l \in 1 .. n + 1, NEW m \in 1 .. n + 1, l < m
        PROVE  depth'[l].open < depth'[m].open
    <3>1. l \in 1 .. n /\ depth'[l].open = depth[l].open
      BY <2>2, <1>2, <1>4, <1>6
    <3>2. CASE m = n + 1
      BY <3>1, <3>2, <1>2, <1>6, <1>7
    <3>3. CASE m # n + 1
      <4>1. m \in 1 .. n /\ depth'[m].open = depth[m].open
        BY <3>3, <1>2, <1>4, <1>6
      <4>2. depth[l].open < depth[m].open
        BY <3>1, <4>1, <2>2, <1>2 DEF IInv, StackInv, n
      <4> QED
        BY <3>1, <4>1, <4>2
    <3> QED
      BY <3>2, <3>3
  <2>3. ASSUME NEW m \in 1 .. n + 1
        PROVE  Tiles(elem, depth'[m].body, depth'[m].open, Upto(m)')
    <3>1. CASE m = n + 1
      <4>1. Upto(m)' = i
        BY <3>1, <1>1, <1>6, <1>2 DEF Upto
      <4> QED
        BY <4>1, <3>1, <1>6 DEF Tiles
    <3>2. CASE m = n
      <4>1. Upto(m)' = i - 1 /\ m \in 1 .. n
        BY <3>2, <1>1, <1>6, <1>2 DEF Upto
      <4>2. Upto(m) = last
        BY <3>2, <1>2 DEF Upto, n
      <4>3. depth'[m].open = depth[m].open /\ depth'[m].body = depth[m].body \o s
        BY <3>2, <4>1, <1>4, <1>6
      <4>4. Tiles(elem, depth[m].body \o s, depth[m].open, i - 1)
        BY <4>1, <4>2, <1>2, <1>3, <1>7, ElementsOK, TilesConcat
      <4> QED
        BY <4>1, <4>3, <4>4
    <3>3. CASE m # n /\ m # n + 1
      <4>1. m \in 1 .. n /\ m + 1 \in 1 .. n /\ m < n
        BY <3>3, <1>2
      <4>2. Upto(m) = depth[m + 1].open - 1
        BY <4>1 DEF Upto, n
      <4>3. Upto(m)' = depth[m + 1].open - 1
        BY <4>1, <1>2, <1>4, <1>6 DEF Upto
      <4>4. depth'[m].open = depth[m].open /\ depth'[m].body = depth[m].body
        BY <3>3, <4>1, <1>4, <1>6
      <4> QED
        BY <4>1, <4>2, <4>3, <4>4, <1>7
    <3> QED
      BY <3>1, <3>2, <3>3
  <2> QED
    BY <2>1, <2>2, <2>3, <1>1, <1>6 DEF StackInv
<1>11. OutInv'
  <2>1. out \in Seq(Nat) /\ Tiles(elem, out, 0, IF depth = <<>> THEN last ELSE depth[1].open - 1)
    BY <1>1 DEF IInv, OutInv, OutUpto
  <2>2. OutUpto' = depth'[1].open - 1
    BY <1>1, <1>6, <1>2 DEF OutUpto
  <2>3. CASE depth = <<>>
    <3>1. n = 0 /\ out' = out \o s /\ Tiles(elem, out, 0, last)
      BY <2>3, <1>1, <2>1 DEF AppendOut, n
    <3>2. OutUpto' = i - 1
      BY <2>2, <3>1, <1>6
    <3>3. out \o s \in Seq(Nat)
      BY <2>1, <1>3
    <3>4. Tiles(elem, out \o s, 0, i - 1)
      BY <3>1, <2>1, <1>2, <1>3, ElementsOK, TilesConcat
    <3> QED
      BY <3>1, <3>2, <3>3, <3>4, <1>1 DEF OutInv
  <2>4. CASE depth # <<>>
    <3>1. 1 \in 1 .. n /\ out' = out /\ Tiles(elem, out, 0, depth[1].open - 1)
      BY <2>4, <1>1, <1>2, <2>1 DEF AppendOut, n
    <3>2. OutUpto' = depth[1].open - 1
      BY <2>2, <3>1, <1>4, <1>6
    <3> QED
      BY <3>1, <3>2, <2>1, <1>1 DEF OutInv
  <2> QED
    BY <2>3, <2>4
<1>12. CloseInv'
  BY <1>1 DEF CloseInv
<1> QED
  BY <1>8, <1>9, <1>10, <1>11, <1>12 DEF IInv

\* An element replaces its statements at the level around it.
LEMMA CloseStep == IInv /\ Close => IInv'
<1> SUFFICES ASSUME IInv, Close PROVE IInv'
  OBVIOUS
<1> DEFINE label == IF list[i].label THEN <<i>> ELSE <<>>
           n == depth[j].open
           b == body \o Slice(last, i - 1) \o label
           rest == SubSeq(depth, 1, j - 1)
           end == IF list[i].label THEN i ELSE i - 1
<1>1. /\ pc = "close" /\ v > Len(depth)
      /\ elem' = [m \in DOMAIN elem \cup {n} |->
                    IF m = n THEN [end |-> i, body |-> b] ELSE elem[m]]
      /\ depth' = Appended(rest, <<n>>) /\ out' = AppendOut(rest, <<n>>)
      /\ last' = i /\ i' = i + 1 /\ pc' = "scan"
      /\ UNCHANGED <<list, errors>>
  BY DEF Close
<1>2. /\ i \in Nat /\ i >= 1 /\ i <= Len(list) /\ last \in Nat /\ last <= i - 1 /\ i - 1 \in Nat
      /\ depth \in Seq(Level) /\ j \in 1 .. Len(depth) /\ Len(depth) \in Nat
      /\ v = Len(depth) + 1
      /\ body \in Seq(Nat) /\ Tiles(elem, body, n, Upto(v - 1))
  BY <1>1 DEF IInv, IndexInv, StackInv, CloseInv
<1>3. /\ n \in Nat /\ n \in 1 .. last
      /\ \A m \in 1 .. Len(depth) :
            /\ m \in DOMAIN depth
            /\ depth[m].open \in 1 .. last /\ depth[m].open \in Nat /\ depth[m].body \in Seq(Nat)
            /\ Upto(m) \in Nat /\ Tiles(elem, depth[m].body, depth[m].open, Upto(m))
  <2>1. \A m \in 1 .. Len(depth) : m \in DOMAIN depth
    BY <1>2
  <2> QED
    BY <1>2, <2>1, LevelFacts
<1>4. Upto(v - 1) = last
  BY <1>2 DEF Upto
<1>5. Elements(elem) /\ \A m \in DOMAIN elem : elem[m].end <= last
  BY ElementsOK DEF IInv, ElemInv
<1>6. Slice(last, i - 1) \in Seq(Nat) /\ Tiles(elem, Slice(last, i - 1), last, i - 1)
  BY <1>2, PendingSlice
<1>7. label \in Seq(Nat) /\ Tiles(elem, label, i - 1, end) /\ end \in Nat /\ n <= end /\ end <= i
  <2>1. CASE list[i].label
    <3>1. i \notin DOMAIN elem
      <4>1. SUFFICES ASSUME i \in DOMAIN elem PROVE FALSE
        OBVIOUS
      <4>2. elem[i].end \in Nat /\ i < elem[i].end /\ elem[i].end <= last
        BY <4>1, <1>5 DEF Elements
      <4> QED
        BY <4>2, <1>2
    <3>2. EndOf(elem, i) = i
      BY <3>1 DEF EndOf
    <3>3. Tiles(elem, <<i>>, i - 1, i)
      BY <1>2, <1>5, <3>2, TilesSingle
    <3> QED
      BY <2>1, <3>3, <1>2, <1>3
  <2>2. CASE ~ list[i].label
    BY <2>2, <1>2, <1>3 DEF Tiles
  <2> QED
    BY <2>1, <2>2
<1> HIDE DEF label, end
<1>8. b \in Seq(Nat) /\ Tiles(elem, b, n, end)
  <2>1. body \o Slice(last, i - 1) \in Seq(Nat)
    BY <1>2, <1>6
  <2>2. Tiles(elem, body \o Slice(last, i - 1), n, i - 1)
    BY <1>2, <1>3, <1>4, <1>5, <1>6, TilesConcat
  <2>3. (body \o Slice(last, i - 1)) \o label \in Seq(Nat)
    BY <2>1, <1>7
  <2> QED
    BY <2>1, <2>2, <2>3, <1>2, <1>3, <1>5, <1>7, TilesConcat
<1> HIDE DEF b
<1>9. n \notin DOMAIN elem
  <2>1. SUFFICES ASSUME n \in DOMAIN elem PROVE FALSE
    OBVIOUS
  <2>2. /\ elem[n].end \in Nat /\ n < elem[n].end
        /\ elem[n].end < depth[j].open \/ depth[j].open < n
    BY <2>1, <1>2, <1>3 DEF IInv, ElemInv
  <2> QED
    BY <2>2, <1>3
<1> HIDE DEF n, rest
<1>10. /\ DOMAIN elem' = DOMAIN elem \cup {n}
       /\ elem'[n] = [end |-> i, body |-> b]
       /\ \A m \in DOMAIN elem : elem'[m] = elem[m]
  BY <1>1, <1>9
<1>11. elem'[n].end = i /\ elem'[n].body = b /\ n < i
  BY <1>10, <1>2, <1>3
<1>12. Elements(elem') /\ EndOf(elem', n) = i
       /\ \A m \in Nat : m # n => EndOf(elem', m) = EndOf(elem, m)
  BY <1>2, <1>3, <1>5, <1>10, <1>11 DEF Elements, EndOf
<1>13. ASSUME NEW s \in Seq(Nat), NEW x \in Nat, NEW y \in Nat, Tiles(elem, s, x, y),
              n <= x \/ y < n
       PROVE  Tiles(elem', s, x, y)
  BY <1>3, <1>5, <1>12, <1>13, TilesFrame
<1>14. \A l \in 1 .. j - 1 :
          l \in 1 .. Len(depth) /\ depth[l].open < n /\ depth[l + 1].open <= n /\ l + 1 \in 1 .. Len(depth)
  <2>1. TAKE l \in 1 .. j - 1
  <2>2. l \in 1 .. Len(depth) /\ l + 1 \in 1 .. Len(depth) /\ l < j
    BY <1>2
  <2>3. depth[l].open < depth[j].open
    BY <2>2, <1>2, <1>3 DEF IInv, StackInv
  <2>4. CASE l + 1 = j
    BY <2>2, <2>3, <2>4, <1>3 DEF n
  <2>5. CASE l + 1 # j
    <3>1. l + 1 < j
      BY <2>2, <2>5, <1>2
    <3>2. depth[l + 1].open < depth[j].open
      BY <2>2, <3>1, <1>2, <1>3 DEF IInv, StackInv
    <3> QED
      BY <2>2, <2>3, <3>2, <1>2, <1>3 DEF n
  <2> QED
    BY <2>4, <2>5
<1>15. /\ rest \in Seq(Level) /\ Len(rest) = j - 1
       /\ \A l \in 1 .. j - 1 : rest[l] = depth[l]
  BY <1>2 DEF rest
<1>16. <<n>> \in Seq(Nat) /\ Tiles(elem', <<n>>, n - 1, i) /\ n - 1 \in Nat
  <2>1. n - 1 \in Nat /\ n = (n - 1) + 1
    BY <1>3
  <2>2. Tiles(elem', <<n>>, n - 1, EndOf(elem', n))
    BY <2>1, <1>3, <1>12, TilesSingle
  <2> QED
    BY <2>1, <2>2, <1>3, <1>12
<1>17. /\ depth' \in Seq(Level) /\ Len(depth') = j - 1 /\ DOMAIN depth' = 1 .. j - 1
       /\ \A l \in 1 .. j - 1 :
             /\ depth'[l].open = depth[l].open
             /\ depth'[l].body = IF l = j - 1 THEN depth[l].body \o <<n>> ELSE depth[l].body
  <2> DEFINE app == Appended(rest, <<n>>)
  <2>1. /\ app \in Seq(Level) /\ Len(app) = Len(rest)
        /\ \A l \in 1 .. Len(rest) :
              /\ app[l].open = rest[l].open
              /\ app[l].body = IF l = Len(rest) THEN rest[l].body \o <<n>> ELSE rest[l].body
    BY <1>15, <1>16, AppendedFacts
  <2>2. depth' = app
    BY <1>1
  <2> HIDE DEF app
  <2>3. Len(app) = j - 1 /\ DOMAIN app = 1 .. j - 1
    BY <2>1, <1>15
  <2>4. ASSUME NEW l \in 1 .. j - 1
        PROVE  /\ app[l].open = depth[l].open
               /\ app[l].body = IF l = j - 1 THEN depth[l].body \o <<n>> ELSE depth[l].body
    BY <2>1, <1>15
  <2> QED
    BY <2>1, <2>2, <2>3, <2>4
<1>18. IndexInv'
  BY <1>1, <1>2 DEF IInv, IndexInv
<1>19. ElemInv'
  <2>1. ASSUME NEW m \in DOMAIN elem'
        PROVE  /\ m \in Nat /\ elem'[m].end \in Nat /\ m < elem'[m].end
               /\ elem'[m].end <= last' /\ elem'[m].body \in Seq(Nat)
               /\ Tiles(elem', elem'[m].body, m, BodyEnd(m)')
    <3>1. CASE m = n
      <4>1. BodyEnd(m)' = end
        BY <3>1, <1>1, <1>11 DEF BodyEnd, end
      <4>2. Tiles(elem', b, n, end)
        BY <1>3, <1>7, <1>8, <1>13
      <4> QED
        BY <3>1, <4>1, <4>2, <1>1, <1>2, <1>3, <1>8, <1>11
    <3>2. CASE m # n
      <4>1. m \in DOMAIN elem /\ elem'[m] = elem[m]
        BY <3>2, <1>10
      <4>2. /\ m \in Nat /\ elem[m].end \in Nat /\ m < elem[m].end /\ elem[m].end <= last
            /\ elem[m].body \in Seq(Nat) /\ Tiles(elem, elem[m].body, m, BodyEnd(m))
            /\ elem[m].end < n \/ n < m
        BY <4>1, <1>2, <1>3 DEF IInv, ElemInv, n
      <4>3. BodyEnd(m)' = BodyEnd(m) /\ BodyEnd(m) \in Nat /\ BodyEnd(m) <= elem[m].end
        BY <4>1, <4>2, <1>1 DEF BodyEnd
      <4>4. Tiles(elem', elem[m].body, m, BodyEnd(m))
        BY <4>2, <4>3, <1>3, <1>13
      <4> QED
        BY <4>1, <4>2, <4>3, <4>4, <1>1, <1>2
    <3> QED
      BY <3>1, <3>2
  <2>2. ASSUME NEW m \in DOMAIN elem', NEW l \in DOMAIN depth'
        PROVE  elem'[m].end < depth'[l].open \/ depth'[l].open < m
    <3>1. l \in 1 .. j - 1 /\ depth'[l].open = depth[l].open /\ l \in DOMAIN depth
      BY <1>3, <1>14, <1>17
    <3>2. CASE m = n
      BY <3>1, <3>2, <1>14
    <3>3. CASE m # n
      <4>1. m \in DOMAIN elem /\ elem'[m] = elem[m]
        BY <3>3, <1>10
      <4> QED
        BY <3>1, <4>1 DEF IInv, ElemInv
    <3> QED
      BY <3>2, <3>3
  <2> QED
    BY <2>1, <2>2 DEF ElemInv
<1>20. StackInv'
  <2>1. ASSUME NEW l \in 1 .. j - 1
        PROVE  depth'[l].open \in 1 .. last'
    <3>1. depth'[l].open = depth[l].open /\ depth[l].open \in 1 .. last
      BY <1>3, <1>14, <1>17
    <3> QED
      BY <3>1, <1>1, <1>2
  <2>2. ASSUME NEW l \in 1 .. j - 1, NEW m \in 1 .. j - 1, l < m
        PROVE  depth'[l].open < depth'[m].open
    <3>1. l \in DOMAIN depth /\ m \in DOMAIN depth
      BY <1>3, <1>14
    <3>2. depth[l].open < depth[m].open
      BY <3>1, <2>2 DEF IInv, StackInv
    <3> QED
      BY <3>2, <1>17
  <2>3. ASSUME NEW l \in 1 .. j - 1
        PROVE  Tiles(elem', depth'[l].body, depth'[l].open, Upto(l)')
    <3>1. /\ l \in 1 .. Len(depth) /\ depth[l].open < n /\ depth[l + 1].open <= n
          /\ l + 1 \in 1 .. Len(depth) /\ depth'[l].open = depth[l].open
          /\ depth[l].open \in Nat /\ depth[l + 1].open \in Nat /\ depth[l].body \in Seq(Nat)
          /\ Upto(l) \in Nat /\ Tiles(elem, depth[l].body, depth[l].open, Upto(l))
      BY <1>3, <1>14, <1>17
    <3>2. Upto(l) = depth[l + 1].open - 1
      BY <3>1, <1>2 DEF Upto
    <3>3. Tiles(elem', depth[l].body, depth[l].open, Upto(l))
      <4>1. Upto(l) < n
        BY <3>1, <3>2, <1>3
      <4> QED
        BY <3>1, <4>1, <1>13
    <3>4. CASE l = j - 1
      <4>1. Upto(l) = n - 1
        BY <3>2, <3>4, <1>2 DEF n
      <4>2. Upto(l)' = i
        BY <3>4, <1>1, <1>2, <1>17 DEF Upto
      <4>3. Tiles(elem', depth[l].body \o <<n>>, depth[l].open, i)
        BY <3>1, <3>3, <4>1, <1>2, <1>12, <1>16, TilesConcat
      <4> QED
        BY <3>1, <3>4, <4>2, <4>3, <1>17
    <3>5. CASE l # j - 1
      <4>1. l + 1 \in 1 .. j - 1 /\ l < j - 1
        BY <3>5, <1>2
      <4>2. Upto(l)' = depth[l + 1].open - 1
        BY <4>1, <1>17 DEF Upto
      <4> QED
        BY <3>1, <3>2, <3>3, <3>5, <4>2, <1>17
    <3> QED
      BY <3>4, <3>5
  <2> QED
    BY <2>1, <2>2, <2>3, <1>17 DEF StackInv
<1>21. OutInv'
  <2>1. /\ out \in Seq(Nat) /\ depth # <<>>
        /\ Tiles(elem, out, 0, depth[1].open - 1)
    BY <1>1, <1>2 DEF IInv, OutInv, OutUpto
  <2>2. CASE j = 1
    <3>1. rest = <<>> /\ depth' = <<>> /\ out' = out \o <<n>> /\ depth[1].open = n
      BY <2>2, <1>1, <1>15, <1>17 DEF AppendOut, n
    <3>2. OutUpto' = i
      BY <3>1, <1>1 DEF OutUpto
    <3>3. n - 1 < n
      BY <1>3
    <3>4. Tiles(elem', out, 0, n - 1)
      BY <2>1, <3>1, <3>3, <1>13, <1>16
    <3>5. out \o <<n>> \in Seq(Nat)
      BY <2>1, <1>16
    <3>6. Tiles(elem', out \o <<n>>, 0, i)
      BY <2>1, <3>4, <1>2, <1>12, <1>16, TilesConcat
    <3> QED
      BY <3>1, <3>2, <3>5, <3>6 DEF OutInv
  <2>3. CASE j # 1
    <3>1. 1 \in 1 .. j - 1 /\ j - 1 # 0
      BY <2>3, <1>2
    <3>2. rest # <<>> /\ depth' # <<>>
      BY <3>1, <1>15, <1>17
    <3>3. out' = out
      BY <3>2, <1>1 DEF AppendOut
    <3>4. OutUpto' = depth[1].open - 1
      BY <3>1, <3>2, <1>1, <1>17 DEF OutUpto
    <3>5. depth[1].open - 1 < n /\ depth[1].open - 1 \in Nat
      BY <3>1, <1>3, <1>14
    <3>6. Tiles(elem', out, 0, depth[1].open - 1)
      BY <2>1, <3>5, <1>13
    <3> QED
      BY <2>1, <3>3, <3>4, <3>6 DEF OutInv
  <2> QED
    BY <2>2, <2>3
<1>22. CloseInv'
  BY <1>1 DEF CloseInv
<1> QED
  BY <1>18, <1>19, <1>20, <1>21, <1>22 DEF IInv

\* At the end of the list, a list without tags is the result.
LEMMA EndStep == IInv /\ End => IInv'
<1> SUFFICES ASSUME IInv, End PROVE IInv'
  OBVIOUS
<1>1. /\ pc = "scan" /\ i > Len(list)
      /\ IF last = 0
         THEN out' = Slice(0, Len(list)) /\ pc' = "done" /\ UNCHANGED v
         ELSE pc' = "rest" /\ v' = 1 /\ UNCHANGED out
      /\ UNCHANGED <<list, i, last, depth, elem, errors, j, body>>
  BY DEF End
<1>2. /\ i = Len(list) + 1 /\ Len(list) \in Nat /\ last \in Nat /\ last <= Len(list)
      /\ depth \in Seq(Level) /\ Len(depth) \in Nat
      /\ last = 0 => depth = <<>>
  BY <1>1 DEF IInv, IndexInv, StackInv
<1>3. IndexInv'
  BY <1>1, <1>2 DEF IInv, IndexInv
<1>4. ElemInv'
  BY <1>1 DEF IInv, ElemInv, BodyEnd
<1>5. StackInv'
  BY <1>1 DEF IInv, StackInv, Upto
<1>6. OutInv'
  <2>1. CASE last = 0
    <3>1. OutUpto' = Len(list) /\ out' = Slice(last, Len(list))
      BY <2>1, <1>1 DEF OutUpto
    <3>2. out' \in Seq(Nat) /\ Tiles(elem, out', 0, Len(list))
      BY <2>1, <3>1, <1>2, PendingSlice
    <3> QED
      BY <3>1, <3>2, <1>1 DEF OutInv
  <2>2. CASE last # 0
    <3>1. pc' = "rest" /\ v' = 1 /\ out' = out
      BY <2>2, <1>1
    <3>2. OutUpto' = OutUpto
      BY <3>1, <1>1, <1>2 DEF OutUpto
    <3> QED
      BY <3>1, <3>2, <1>1 DEF IInv, OutInv
  <2> QED
    BY <2>1, <2>2
<1>7. CloseInv'
  BY <1>1, <1>2 DEF CloseInv
<1> QED
  BY <1>3, <1>4, <1>5, <1>6, <1>7 DEF IInv

\* What follows the last tag completes the result.
LEMMA FinishStep == IInv /\ Finish => IInv'
<1> SUFFICES ASSUME IInv, Finish PROVE IInv'
  OBVIOUS
<1>1. /\ pc = "rest" /\ v > Len(depth) /\ pc' = "done"
      /\ out' = out \o Slice(last, Len(list))
      /\ UNCHANGED <<list, i, last, depth, elem, errors, j, v, body>>
  BY DEF Finish
<1>2. /\ i = Len(list) + 1 /\ Len(list) \in Nat /\ last \in Nat /\ last <= Len(list)
      /\ v \in 1 .. Len(depth) + 1 /\ Len(depth) \in Nat
  BY <1>1 DEF IInv, IndexInv, StackInv, CloseInv
<1>3. IndexInv'
  BY <1>1, <1>2 DEF IInv, IndexInv
<1>4. ElemInv'
  BY <1>1 DEF IInv, ElemInv, BodyEnd
<1>5. StackInv'
  BY <1>1 DEF IInv, StackInv, Upto
<1>6. OutInv'
  <2>1. out \in Seq(Nat) /\ Tiles(elem, out, 0, last)
    BY <1>1, <1>2 DEF IInv, OutInv, OutUpto
  <2>2. /\ Slice(last, Len(list)) \in Seq(Nat)
        /\ Tiles(elem, Slice(last, Len(list)), last, Len(list))
    BY <1>2, PendingSlice
  <2>3. out' \in Seq(Nat) /\ Tiles(elem, out', 0, Len(list))
    BY <2>1, <2>2, <1>1, <1>2, ElementsOK, TilesConcat
  <2>4. OutUpto' = Len(list)
    BY <1>1 DEF OutUpto
  <2> QED
    BY <2>3, <2>4, <1>1 DEF OutInv
<1>7. CloseInv'
  BY <1>1 DEF CloseInv
<1> QED
  BY <1>3, <1>4, <1>5, <1>6, <1>7 DEF IInv

\* Every step keeps the invariant.
LEMMA IInvStep == IInv /\ [Next]_vars => IInv'
<1> SUFFICES ASSUME IInv, [Next]_vars PROVE IInv'
  OBVIOUS
<1>1. CASE UNCHANGED vars
  <2>1. UNCHANGED <<list, i, last, depth, out, elem, pc, j, v, body>>
    BY <1>1 DEF vars
  <2>2. IndexInv' /\ ElemInv'
    BY <2>1 DEF IInv, IndexInv, ElemInv, BodyEnd
  <2>3. StackInv'
    BY <2>1 DEF IInv, StackInv, Upto
  <2>4. OutInv'
    BY <2>1 DEF IInv, OutInv, OutUpto
  <2>5. CloseInv'
    BY <2>1 DEF IInv, CloseInv, Upto
  <2> QED
    BY <2>2, <2>3, <2>4, <2>5 DEF IInv
<1>2. CASE Next
  BY <1>2, KeepStep, OpenTagStep, MatchStep, CloseInnerStep, CloseStep,
     EndStep, RestStep, FinishStep DEF Next
<1> QED
  BY <1>1, <1>2

-----------------------------------------------------------------------------
\* The invariant holds throughout every call of combineElemmentBlocks.
THEOREM Inductive == Spec => []IInv
BY InitIInv, IInvStep, PTL DEF Spec

\* Whatever tags a list of statements has, and however they are mismatched,
\* the result and the bodies of its elements are the list again, in order.
THEOREM NothingIsLost == Spec => []EachStmtOnce
<1>1. IInv => EachStmtOnce
  <2> SUFFICES ASSUME IInv PROVE EachStmtOnce
    OBVIOUS
  <2>1. pc = "done" => Tiles(elem, out, 0, Len(list))
    BY DEF IInv, OutInv, OutUpto
  <2>2. \A n \in DOMAIN elem : Tiles(elem, elem[n].body, n, BodyEnd(n))
    BY DEF IInv, ElemInv
  <2> QED
    BY <2>1, <2>2 DEF EachStmtOnce
<1> QED
  BY <1>1, Inductive, PTL

-----------------------------------------------------------------------------
(* The stack after a step.                                                 *)

\* The levels, by number.
LEMMA Levels ==
    ASSUME IInv
    PROVE  /\ depth \in Seq(Level) /\ Len(depth) \in Nat /\ DOMAIN depth = 1 .. Len(depth)
           /\ i \in Nat /\ 1 <= i /\ last \in Nat /\ last < i /\ list \in Seq(Stmt)
           /\ \A m \in DOMAIN depth : depth[m].open \in Nat /\ 1 <= depth[m].open /\ depth[m].open < i
           /\ \A l, m \in DOMAIN depth : depth[l].open = depth[m].open => l = m
           /\ \A l, m \in DOMAIN depth : l < m => depth[l].open < depth[m].open
           /\ \A n \in DOMAIN elem : n \in Nat /\ elem[n].end \in Nat /\ n < elem[n].end /\ elem[n].end < i
<1>1. /\ depth \in Seq(Level) /\ Len(depth) \in Nat /\ DOMAIN depth = 1 .. Len(depth)
      /\ i \in Nat /\ 1 <= i /\ last \in Nat /\ last < i /\ list \in Seq(Stmt)
  BY DEF IInv, IndexInv, StackInv
<1>2. \A m \in DOMAIN depth : depth[m].open \in 1 .. last
  BY DEF IInv, StackInv
<1>3. \A l, m \in DOMAIN depth : l < m => depth[l].open < depth[m].open
  BY DEF IInv, StackInv
<1>4. \A m \in DOMAIN depth : depth[m].open \in Nat /\ 1 <= depth[m].open /\ depth[m].open < i
  BY <1>1, <1>2
<1>5. ASSUME NEW l \in DOMAIN depth, NEW m \in DOMAIN depth, depth[l].open = depth[m].open PROVE l = m
  <2>1. ~(l < m) /\ ~(m < l)
    BY <1>3, <1>4, <1>5
  <2> QED
    BY <1>1, <2>1
<1>6. \A n \in DOMAIN elem : n \in Nat /\ elem[n].end \in Nat /\ n < elem[n].end /\ elem[n].end <= last
  BY DEF IInv, ElemInv
<1>7. \A n \in DOMAIN elem : elem[n].end < i
  BY <1>1, <1>6
<1> QED
  BY <1>1, <1>3, <1>4, <1>5, <1>6, <1>7

\* An open tag is a new level.
LEMMA OpenTagLevels ==
    ASSUME IInv, OpenTag
    PROVE  /\ DOMAIN depth' = 1 .. Len(depth) + 1
           /\ depth'[Len(depth) + 1].open = i
           /\ \A m \in DOMAIN depth : depth'[m].open = depth[m].open
<1>1. PICK n, s, stack : n = Len(depth) /\ s = Slice(last, i - 1) /\ stack = Appended(depth, s)
  OBVIOUS
<1>2. depth' = Append(stack, [open |-> i, body |-> <<>>])
  BY <1>1 DEF OpenTag
<1>3. depth \in Seq(Level) /\ s \in Seq(Nat) /\ i \in Nat /\ n \in Nat /\ DOMAIN depth = 1 .. n
  <2>1. i - 1 \in Nat /\ last <= i - 1
    BY Levels
  <2> QED
    BY <1>1, <2>1, Levels, PendingSlice
<1>4. /\ stack \in Seq(Level) /\ Len(stack) = n /\ \A m \in 1 .. n : stack[m].open = depth[m].open
  BY <1>1, <1>3, AppendedFacts
<1>5. [open |-> i, body |-> <<>>] \in Level
  BY <1>3 DEF Level
<1>6. /\ DOMAIN depth' = 1 .. n + 1 /\ depth'[n + 1] = [open |-> i, body |-> <<>>]
      /\ \A m \in 1 .. n : depth'[m] = stack[m]
  BY <1>2, <1>3, <1>4, <1>5
<1> QED
  BY <1>1, <1>3, <1>4, <1>6

\* The element takes the levels from its open tag on.
LEMMA CloseLevels ==
    ASSUME IInv, Close
    PROVE  /\ DOMAIN depth' = 1 .. j - 1 /\ j \in DOMAIN depth
           /\ \A m \in 1 .. j - 1 : m \in DOMAIN depth /\ depth'[m].open = depth[m].open
<1>1. PICK rest, n : rest = SubSeq(depth, 1, j - 1) /\ n = depth[j].open
  OBVIOUS
<1>2. depth' = Appended(rest, <<n>>) /\ pc = "close"
  BY <1>1 DEF Close
<1>3. depth \in Seq(Level) /\ j \in DOMAIN depth /\ j \in 1 .. Len(depth) /\ n \in Nat
  <2>1. j \in 1 .. Len(depth) /\ DOMAIN depth = 1 .. Len(depth) /\ depth \in Seq(Level)
    BY <1>2, Levels DEF IInv, CloseInv
  <2> QED
    BY <1>1, <2>1, Levels
<1>4. rest \in Seq(Level) /\ Len(rest) = j - 1 /\ \A m \in 1 .. j - 1 : m \in DOMAIN depth /\ rest[m] = depth[m]
  BY <1>1, <1>3
<1>5. <<n>> \in Seq(Nat)
  BY <1>3
<1>6. /\ depth' \in Seq(Level) /\ Len(depth') = j - 1 /\ \A m \in 1 .. j - 1 : depth'[m].open = rest[m].open
  <2>1. PICK s, stack : s = <<n>> /\ stack = Appended(rest, s)
    OBVIOUS
  <2>2. s \in Seq(Nat)
    BY <1>5, <2>1
  <2>3. /\ stack \in Seq(Level) /\ Len(stack) = Len(rest)
        /\ \A m \in 1 .. Len(rest) : stack[m].open = rest[m].open
    BY <1>4, <2>1, <2>2, AppendedFacts
  <2>4. depth' = stack
    BY <1>2, <2>1
  <2> QED
    BY <1>4, <2>3, <2>4
<1> QED
  BY <1>3, <1>4, <1>6

-----------------------------------------------------------------------------
(* The tags of the elements.                                               *)

\* An element's tags have one name, and elements nest.  An open tag that has
\* been passed is an element's, waits on the stack, or is inside an element.
TagInv ==
    /\ \A n \in DOMAIN elem :
          /\ n \in StmtsOf("open") /\ elem[n].end \in StmtsOf("end")
          /\ list[elem[n].end].name = list[n].name
    /\ \A n, m \in DOMAIN elem : elem[n].end = elem[m].end => n = m
    /\ \A n, m \in DOMAIN elem : n < m /\ m < elem[n].end => elem[m].end < elem[n].end
    /\ \A m \in DOMAIN depth : depth[m].open \in StmtsOf("open")
    /\ \A o \in StmtsOf("open") : o < i =>
          \/ o \in DOMAIN elem
          \/ \E m \in DOMAIN depth : depth[m].open = o
          \/ \E n \in DOMAIN elem : n < o /\ o < elem[n].end
    /\ pc = "close" =>
          /\ i \in StmtsOf("end") /\ list[depth[j].open].name = list[i].name
          /\ \A m \in Matches : m <= j

\* The list stays, and the kinds of its statements.
LEMMA SameList ==
    ASSUME list' = list
    PROVE  /\ \A k : StmtsOf(k)' = StmtsOf(k)
           /\ \A pair : Nests(pair)' = Nests(pair)
           /\ WellFormed' = WellFormed
<1>1. \A k : StmtsOf(k)' = StmtsOf(k)
  BY DEF StmtsOf
<1>2. \A pair : Nests(pair)' = Nests(pair)
  BY <1>1 DEF Nests
<1> QED
  BY <1>1, <1>2 DEF WellFormed

\* What is passed by a step that makes no element and opens none.
LEMMA TagKeeps ==
    ASSUME IInv, TagInv, UNCHANGED <<list, depth, elem>>,
           i' = i \/ (i' = i + 1 /\ i \notin StmtsOf("open")),
           pc' = "close" => pc = "close" /\ j' = j /\ i' = i
    PROVE  TagInv'
<1>1. \A k : StmtsOf(k)' = StmtsOf(k)
  BY SameList
<1>2. \A o \in StmtsOf("open") : o < i' => o < i
  <2>1. i \in Nat /\ \A o \in StmtsOf("open") : o \in Nat
    BY Levels DEF StmtsOf
  <2> QED
    BY <2>1
<1>3. pc' = "close" => Matches' = Matches
  BY DEF Matches
<1> QED
  BY <1>1, <1>2, <1>3 DEF TagInv

\* An open tag waits.
LEMMA TagOpen ==
    ASSUME IInv, TagInv, OpenTag
    PROVE  TagInv'
<1>1. /\ pc = "scan" /\ i <= Len(list) /\ list[i].k = "open" /\ i' = i + 1
      /\ UNCHANGED <<list, elem, pc>>
  BY DEF OpenTag
<1>2. PICK n : n = Len(depth)
  OBVIOUS
<1>3. /\ n \in Nat /\ DOMAIN depth = 1 .. n /\ DOMAIN depth' = 1 .. n + 1 /\ depth'[n + 1].open = i
      /\ \A m \in 1 .. n : depth'[m].open = depth[m].open
      /\ i \in Nat /\ 1 <= i /\ list \in Seq(Stmt)
  BY <1>2, Levels, OpenTagLevels
<1>4. \A m \in 1 .. n + 1 : m \in 1 .. n \/ m = n + 1
  BY <1>3
<1>5. \A k : StmtsOf(k)' = StmtsOf(k)
  BY <1>1, SameList
<1>6. i \in StmtsOf("open") /\ \A o \in StmtsOf("open") : o \in Nat
  BY <1>1, <1>3 DEF StmtsOf
<1>7. \A m \in DOMAIN depth' : depth'[m].open \in StmtsOf("open")
  BY <1>3, <1>4, <1>6 DEF TagInv
<1>8. ASSUME NEW o \in StmtsOf("open"), o < i'
      PROVE  \/ o \in DOMAIN elem
             \/ \E m \in DOMAIN depth' : depth'[m].open = o
             \/ \E m \in DOMAIN elem : m < o /\ o < elem[m].end
  <2>1. CASE o = i
    <3>1. n + 1 \in DOMAIN depth'
      BY <1>3
    <3> QED
      BY <1>3, <2>1, <3>1
  <2>2. CASE o < i
    <3>1. \/ o \in DOMAIN elem
          \/ \E m \in DOMAIN depth : depth[m].open = o
          \/ \E m \in DOMAIN elem : m < o /\ o < elem[m].end
      BY <2>2 DEF TagInv
    <3>2. \A m \in DOMAIN depth : m \in DOMAIN depth' /\ depth'[m].open = depth[m].open
      BY <1>3
    <3> QED
      BY <3>1, <3>2
  <2>3. o = i \/ o < i
    BY <1>1, <1>3, <1>6, <1>8
  <2> QED
    BY <2>1, <2>2, <2>3
<1> QED
  BY <1>1, <1>5, <1>7, <1>8 DEF TagInv

\* An end tag finds its open tag.
LEMMA TagMatch ==
    ASSUME IInv, TagInv, Match
    PROVE  TagInv'
<1>1. PICK m \in Matches : (\A l \in Matches : l <= m) /\ j' = m
  BY DEF Match
<1>2. /\ pc = "scan" /\ i <= Len(list) /\ list[i].k = "end" /\ pc' = "close"
      /\ UNCHANGED <<list, i, depth, elem>>
  BY DEF Match
<1>3. \A k : StmtsOf(k)' = StmtsOf(k)
  BY <1>2, SameList
<1>4. i \in StmtsOf("end")
  BY <1>2, Levels DEF StmtsOf
<1>5. Matches' = Matches /\ list[depth[m].open].name = list[i].name
  BY <1>1, <1>2 DEF Matches
<1> QED
  BY <1>1, <1>2, <1>3, <1>4, <1>5 DEF TagInv

\* An element is made.
LEMMA TagClose ==
    ASSUME IInv, TagInv, Close
    PROVE  TagInv'
<1>1. PICK n : n = depth[j].open
  OBVIOUS
<1>2. /\ pc = "close" /\ pc' = "scan" /\ i' = i + 1 /\ list' = list
      /\ DOMAIN elem' = DOMAIN elem \cup {n} /\ elem'[n].end = i
      /\ \A m \in DOMAIN elem : m # n => elem'[m] = elem[m]
  BY <1>1 DEF Close
<1>3. /\ DOMAIN depth' = 1 .. j - 1 /\ j \in DOMAIN depth
      /\ \A m \in 1 .. j - 1 : m \in DOMAIN depth /\ depth'[m].open = depth[m].open
  BY CloseLevels
<1>4. /\ \A m \in DOMAIN depth : depth[m].open \in Nat /\ 1 <= depth[m].open /\ depth[m].open < i
      /\ \A l, m \in DOMAIN depth : l < m => depth[l].open < depth[m].open
      /\ \A m \in DOMAIN elem : m \in Nat /\ elem[m].end \in Nat /\ m < elem[m].end /\ elem[m].end < i
      /\ i \in Nat /\ DOMAIN depth = 1 .. Len(depth) /\ Len(depth) \in Nat
  BY Levels
<1>5. \A m \in DOMAIN elem : elem[m].end < n \/ n < m
  BY <1>1, <1>3 DEF IInv, ElemInv
<1>6. n \in Nat /\ n < i /\ n \notin DOMAIN elem
  BY <1>1, <1>3, <1>4, <1>5
<1>7. \A m \in DOMAIN elem : elem'[m] = elem[m]
  BY <1>2, <1>6
<1>8. \A k : StmtsOf(k)' = StmtsOf(k)
  BY <1>2, SameList
<1>9. n \in StmtsOf("open") /\ i \in StmtsOf("end") /\ list[i].name = list[n].name
  BY <1>1, <1>2, <1>3 DEF TagInv
<1>10. \A m \in DOMAIN elem' :
          /\ m \in StmtsOf("open") /\ elem'[m].end \in StmtsOf("end")
          /\ list[elem'[m].end].name = list[m].name
  BY <1>2, <1>7, <1>9 DEF TagInv
<1>11. \A m, l \in DOMAIN elem' : elem'[m].end = elem'[l].end => m = l
  <2>1. \A m \in DOMAIN elem : elem'[m].end # elem'[n].end
    BY <1>2, <1>4, <1>7
  <2>2. \A m, l \in DOMAIN elem : elem'[m].end = elem'[l].end => m = l
    BY <1>7 DEF TagInv
  <2> QED
    BY <1>2, <2>1, <2>2
<1>12. ASSUME NEW m \in DOMAIN elem', NEW l \in DOMAIN elem', m < l, l < elem'[m].end
       PROVE  elem'[l].end < elem'[m].end
  <2>1. CASE m = n
    <3>1. l \in DOMAIN elem
      BY <1>2, <1>6, <1>12, <2>1
    <3> QED
      BY <1>2, <1>4, <1>7, <2>1, <3>1
  <2>2. CASE l = n
    <3>1. m \in DOMAIN elem
      BY <1>2, <1>6, <1>12, <2>2
    <3>2. elem[m].end < n \/ n < m
      BY <1>5, <3>1
    <3> QED
      BY <1>4, <1>6, <1>7, <1>12, <2>2, <3>1, <3>2
  <2>3. CASE m # n /\ l # n
    <3>1. m \in DOMAIN elem /\ l \in DOMAIN elem
      BY <1>2, <2>3
    <3> QED
      BY <1>7, <1>12, <3>1 DEF TagInv
  <2> QED
    BY <2>1, <2>2, <2>3
<1>13. \A m \in DOMAIN depth' : depth'[m].open \in StmtsOf("open")
  BY <1>3 DEF TagInv
<1>14. ASSUME NEW o \in StmtsOf("open"), o < i'
       PROVE  \/ o \in DOMAIN elem'
              \/ \E m \in DOMAIN depth' : depth'[m].open = o
              \/ \E m \in DOMAIN elem' : m < o /\ o < elem'[m].end
  <2>1. o \in Nat /\ o < i
    <3>1. o \in Nat /\ o # i
      BY <1>9, Levels DEF StmtsOf
    <3> QED
      BY <1>2, <1>4, <1>14, <3>1
  <2>2. CASE o \in DOMAIN elem
    BY <1>2, <2>2
  <2>3. CASE \E m \in DOMAIN elem : m < o /\ o < elem[m].end
    BY <1>2, <1>7, <2>3
  <2>4. ASSUME NEW m \in DOMAIN depth, depth[m].open = o
        PROVE  \/ o \in DOMAIN elem'
               \/ \E l \in DOMAIN depth' : depth'[l].open = o
               \/ \E l \in DOMAIN elem' : l < o /\ o < elem'[l].end
    <3>1. CASE m < j
      <4>1. m \in 1 .. j - 1
        BY <1>3, <1>4, <3>1
      <4> QED
        BY <1>3, <2>4, <4>1
    <3>2. CASE m = j
      BY <1>1, <1>2, <2>4, <3>2
    <3>3. CASE m > j
      <4>1. n < o
        BY <1>1, <1>3, <1>4, <2>4, <3>3
      <4> QED
        BY <1>2, <2>1, <4>1
    <3> QED
      BY <1>3, <1>4, <3>1, <3>2, <3>3
  <2> QED
    BY <2>1, <2>2, <2>3, <2>4 DEF TagInv
<1> QED
  BY <1>2, <1>8, <1>10, <1>11, <1>12, <1>13, <1>14 DEF TagInv

\* Every step.
LEMMA TagStep ==
    ASSUME IInv, TagInv, [Next]_vars
    PROVE  TagInv'
<1>1. CASE OtherStmt \/ NoMatch
  <2>1. /\ UNCHANGED <<list, depth, elem, pc>> /\ i' = i + 1 /\ pc = "scan" /\ list[i].k \in {"other", "end"}
    BY <1>1 DEF OtherStmt, NoMatch
  <2>2. i \notin StmtsOf("open")
    BY <2>1 DEF StmtsOf
  <2> QED
    BY <2>1, <2>2, TagKeeps
<1>2. CASE CloseInner \/ End \/ Rest \/ Finish \/ UNCHANGED vars
  <2>1. UNCHANGED <<list, depth, elem, i, j>> /\ (pc' = "close" => pc = "close")
    BY <1>2 DEF CloseInner, End, Rest, Finish, vars
  <2> QED
    BY <2>1, TagKeeps
<1> QED
  BY <1>1, <1>2, TagOpen, TagMatch, TagClose DEF Next
-----------------------------------------------------------------------------
(* The errors reported so far.                                             *)

\* An open tag on the stack may still be closed, or is still to be reported.
Waiting(m) ==
    \/ pc = "scan"
    \/ pc = "close" /\ (m <= j \/ v <= m)
    \/ pc = "rest" /\ v <= m
Waits(n) == \E m \in DOMAIN depth : depth[m].open = n /\ Waiting(m)

\* The tags passed that belong to no element, and do not wait for one.
NotOpened == {n \in StmtsOf("end") \ Ends : n < i}
NotClosed ==
    {n \in StmtsOf("open") \ DOMAIN elem : n < i /\ list[n].name # Void /\ ~Waits(n)}

Errs(unopened, unclosed) ==
    {<<n, "unopened tag">> : n \in unopened} \cup {<<n, "unclosed tag">> : n \in unclosed}

\* These are the ones reported, each once.
ErrInv ==
    /\ errors \in Seq(Nat \X {"unopened tag", "unclosed tag"})
    /\ ToSet(errors) = Errs(NotOpened, NotClosed)
    /\ IsInjective(errors)

-----------------------------------------------------------------------------
(* The pairing of a well-formed list.                                      *)

\* The elements made are the pairs of the end tags passed.
Agrees(pair) ==
    /\ \A e \in StmtsOf("end") : e < i => pair[e] \in DOMAIN elem /\ elem[pair[e]].end = e
    /\ pc = "close" => pair[i] = depth[j].open

PairInv ==
    WellFormed =>
        \E pair \in [StmtsOf("end") -> StmtsOf("open")] : Nests(pair) /\ Agrees(pair)

-----------------------------------------------------------------------------
\* A step that reports nothing leaves the sets of tags alone.
LEMMA ErrKeeps ==
    ASSUME ErrInv, errors' = errors, NotOpened' = NotOpened, NotClosed' = NotClosed
    PROVE  ErrInv'
BY DEF ErrInv

\* A step that reports a tag adds it to its set.
Adds(n, msg) ==
    /\ errors' = Append(errors, <<n, msg>>)
    /\ \/ /\ msg = "unopened tag" /\ n \notin NotOpened
          /\ NotOpened' = NotOpened \cup {n} /\ NotClosed' = NotClosed
       \/ /\ msg = "unclosed tag" /\ n \notin NotClosed
          /\ NotOpened' = NotOpened /\ NotClosed' = NotClosed \cup {n}

LEMMA ErrAdds ==
    ASSUME ErrInv, NEW n \in Nat, NEW msg, Adds(n, msg)
    PROVE  ErrInv'
<1>1. PICK x, S : x = <<n, msg>> /\ S = Nat \X {"unopened tag", "unclosed tag"}
  OBVIOUS
<1>2. x \in S
  BY <1>1 DEF Adds
<1>3. errors \in Seq(S) /\ ToSet(errors) = Errs(NotOpened, NotClosed) /\ IsInjective(errors)
  BY <1>1 DEF ErrInv
<1>4. /\ errors' = Append(errors, x) /\ x \notin Errs(NotOpened, NotClosed)
      /\ Errs(NotOpened', NotClosed') = Errs(NotOpened, NotClosed) \cup {x}
  <2>1. CASE msg = "unopened tag"
    BY <1>1, <2>1 DEF Adds, Errs
  <2>2. CASE msg = "unclosed tag"
    BY <1>1, <2>2 DEF Adds, Errs
  <2> QED
    BY <2>1, <2>2 DEF Adds
<1>5. PICK k, es : k = Len(errors) /\ es = errors'
  OBVIOUS
<1>6. /\ k \in Nat /\ DOMAIN errors = 1 .. k /\ es \in Seq(S) /\ DOMAIN es = 1 .. k + 1
      /\ es[k + 1] = x /\ \A m \in 1 .. k : es[m] = errors[m]
  BY <1>2, <1>3, <1>4, <1>5
<1>7. \A m \in 1 .. k + 1 : m \in 1 .. k \/ m = k + 1
  BY <1>6
<1>8. k + 1 \in 1 .. k + 1 /\ \A m \in 1 .. k : m \in 1 .. k + 1
  BY <1>6
<1>9. \A m \in 1 .. k : errors[m] # x
  BY <1>3, <1>4, <1>6 DEF ToSet
<1>10. IsInjective(es)
  <2>1. ASSUME NEW a \in DOMAIN es, NEW b \in DOMAIN es, es[a] = es[b] PROVE a = b
    <3>1. a \in 1 .. k /\ b \in 1 .. k => errors[a] = errors[b]
      BY <1>6, <2>1
    <3> QED
      BY <1>3, <1>6, <1>7, <1>9, <2>1, <3>1 DEF IsInjective
  <2> QED
    BY <2>1 DEF IsInjective
<1>11. ToSet(es) = ToSet(errors) \cup {x}
  <2>1. ASSUME NEW y PROVE y \in ToSet(es) <=> y \in ToSet(errors) \/ y = x
    <3>1. y \in ToSet(es) <=> \E m \in 1 .. k + 1 : es[m] = y
      BY <1>6 DEF ToSet
    <3>2. y \in ToSet(errors) <=> \E m \in 1 .. k : errors[m] = y
      BY <1>6 DEF ToSet
    <3> QED
      BY <1>6, <1>7, <1>8, <3>1, <3>2
  <2> QED
    BY <2>1
<1>12. es \in Seq(S) /\ ToSet(es) = Errs(NotOpened', NotClosed')
  BY <1>3, <1>4, <1>6, <1>11
<1> QED
  BY <1>1, <1>5, <1>10, <1>12 DEF ErrInv

\* The tags passed, when nothing is passed and no element is made.
LEMMA SameTags ==
    ASSUME UNCHANGED <<list, elem, i>>, \A n : Waits(n)' <=> Waits(n)
    PROVE  NotOpened' = NotOpened /\ NotClosed' = NotClosed
<1>1. \A k : StmtsOf(k)' = StmtsOf(k)
  BY SameList
<1>2. Ends' = Ends
  BY DEF Ends
<1> QED
  BY <1>1, <1>2 DEF NotOpened, NotClosed

\* The tags passed, when one more statement is.
LEMMA MoreTags ==
    ASSUME IInv, UNCHANGED <<list, elem>>, i' = i + 1,
           \A n \in Nat : n < i => (Waits(n)' <=> Waits(n)), NEW q, q = i
    PROVE  /\ q \notin StmtsOf("end") => NotOpened' = NotOpened
           /\ q \notin StmtsOf("open") \/ Waits(q)' => NotClosed' = NotClosed
           /\ q \in StmtsOf("end") => q \notin NotOpened /\ NotOpened' = NotOpened \cup {q}
<1>1. \A k : StmtsOf(k)' = StmtsOf(k)
  BY SameList
<1>2. Ends' = Ends
  BY DEF Ends
<1>3. /\ i \in Nat /\ (\A k : \A n \in StmtsOf(k) : n \in Nat /\ (n < i + 1 <=> n < i \/ n = i)) /\ ~(i < i)
  <2>1. i \in Nat /\ list \in Seq(Stmt)
    BY Levels
  <2>2. \A k : \A n \in StmtsOf(k) : n \in Nat
    BY <2>1 DEF StmtsOf
  <2> QED
    BY <2>1, <2>2
<1>4. i \notin Ends
  BY Levels DEF Ends
<1>5. ASSUME NEW n PROVE n \in NotOpened' <=> n \in NotOpened \/ (n = q /\ q \in StmtsOf("end"))
  BY <1>1, <1>2, <1>3, <1>4 DEF NotOpened
<1>6. ASSUME NEW n, q \notin StmtsOf("open") \/ Waits(q)' PROVE n \in NotClosed' <=> n \in NotClosed
  <2>1. n \in NotClosed' <=>
           n \in StmtsOf("open") /\ n \notin DOMAIN elem /\ n < i + 1 /\ list[n].name # Void /\ ~Waits(n)'
    BY <1>1 DEF NotClosed
  <2>2. n \in NotClosed <=>
           n \in StmtsOf("open") /\ n \notin DOMAIN elem /\ n < i /\ list[n].name # Void /\ ~Waits(n)
    BY DEF NotClosed
  <2>3. CASE n = q
    BY <1>3, <1>6, <2>1, <2>2, <2>3
  <2>4. CASE n # q
    <3>1. n \in StmtsOf("open") => n \in Nat /\ (n < i + 1 <=> n < i)
      BY <1>3, <2>4
    <3>2. n \in StmtsOf("open") /\ n < i => (Waits(n)' <=> Waits(n))
      BY <3>1
    <3> QED
      BY <2>1, <2>2, <3>1, <3>2
  <2> QED
    BY <2>3, <2>4
<1>7. q \notin NotOpened
  BY <1>3 DEF NotOpened
<1> QED
  BY <1>5, <1>6, <1>7

\* An open tag that becomes a plain statement waits no more, and is reported.
LEMMA ErrLevel ==
    ASSUME IInv, TagInv, ErrInv, UNCHANGED <<list, elem, i, depth>>, NEW q \in DOMAIN depth,
           errors' = Unclosed(depth[q].open), Waiting(q), ~Waiting(q)',
           \A m \in DOMAIN depth : m # q => (Waiting(m)' <=> Waiting(m))
    PROVE  ErrInv'
<1>1. PICK n : n = depth[q].open
  OBVIOUS
<1>2. n \in Nat /\ n < i /\ n \in StmtsOf("open") /\ n \notin DOMAIN elem
  <2>1. n \in Nat /\ n < i /\ n \in StmtsOf("open")
    BY <1>1, Levels DEF TagInv
  <2>2. n \in DOMAIN elem => elem[n].end \in Nat /\ n < elem[n].end /\ (elem[n].end < n \/ n < n)
    BY <1>1 DEF IInv, ElemInv
  <2> QED
    BY <2>1, <2>2
<1>3. \A m \in DOMAIN depth : depth[m].open = n => m = q
  BY <1>1, Levels
<1>4. Waits(n) /\ ~Waits(n)'
  BY <1>1, <1>3 DEF Waits
<1>5. ASSUME NEW o, o # n PROVE Waits(o)' <=> Waits(o)
  BY <1>1, <1>5 DEF Waits
<1>6. \A k : StmtsOf(k)' = StmtsOf(k)
  BY SameList
<1>7. NotOpened' = NotOpened
  <2>1. Ends' = Ends
    BY DEF Ends
  <2> QED
    BY <1>6, <2>1 DEF NotOpened
<1>8. n \notin NotClosed
  BY <1>4 DEF NotClosed
<1>9. ASSUME NEW o, o # n PROVE o \in NotClosed' <=> o \in NotClosed
  BY <1>5, <1>6, <1>9 DEF NotClosed
<1>10. n \in NotClosed' <=> list[n].name # Void
  BY <1>2, <1>4, <1>6 DEF NotClosed
<1>11. CASE list[n].name = Void
  <2>1. NotClosed' = NotClosed
    BY <1>8, <1>9, <1>10, <1>11
  <2>2. errors' = errors
    BY <1>1, <1>11 DEF Unclosed
  <2> QED
    BY <1>7, <2>1, <2>2, ErrKeeps
<1>12. CASE list[n].name # Void
  <2>1. NotClosed' = NotClosed \cup {n}
    BY <1>9, <1>10, <1>12
  <2>2. errors' = Append(errors, <<n, "unclosed tag">>)
    BY <1>1, <1>12 DEF Unclosed, Error
  <2>3. Adds(n, "unclosed tag")
    BY <1>7, <1>8, <2>1, <2>2 DEF Adds
  <2> QED
    BY <1>2, <2>3, ErrAdds
<1> QED
  BY <1>11, <1>12

\* The steps that pass a statement.
LEMMA ErrPasses ==
    ASSUME IInv, TagInv, ErrInv, OtherStmt \/ NoMatch \/ OpenTag
    PROVE  ErrInv'
<1>1. PICK q : q = i
  OBVIOUS
<1>2. /\ UNCHANGED <<list, elem>> /\ i' = i + 1 /\ pc = "scan" /\ pc' = "scan" /\ q \in DOMAIN list /\ q \in Nat
  <2>1. i \in Nat /\ 1 <= i /\ list \in Seq(Stmt)
    BY Levels
  <2>2. i <= Len(list) /\ UNCHANGED <<list, elem>> /\ i' = i + 1 /\ pc = "scan" /\ pc' = "scan"
    BY DEF OtherStmt, NoMatch, OpenTag
  <2> QED
    BY <1>1, <2>1, <2>2
<1>3. \A m : Waiting(m) /\ Waiting(m)'
  BY <1>2 DEF Waiting
<1>4. CASE OtherStmt
  <2>1. depth' = depth /\ errors' = errors /\ list[q].k = "other"
    BY <1>1, <1>4 DEF OtherStmt
  <2>2. \A n : Waits(n)' <=> Waits(n)
    BY <1>3, <2>1 DEF Waits
  <2>3. q \notin StmtsOf("open") /\ q \notin StmtsOf("end")
    BY <2>1 DEF StmtsOf
  <2>4. NotOpened' = NotOpened /\ NotClosed' = NotClosed
    BY <1>1, <1>2, <2>2, <2>3, MoreTags
  <2> QED
    BY <2>1, <2>4, ErrKeeps
<1>5. CASE NoMatch
  <2>1. depth' = depth /\ errors' = Append(errors, <<q, "unopened tag">>) /\ list[q].k = "end"
    BY <1>1, <1>5 DEF NoMatch, Error
  <2>2. \A n : Waits(n)' <=> Waits(n)
    BY <1>3, <2>1 DEF Waits
  <2>3. q \notin StmtsOf("open") /\ q \in StmtsOf("end")
    BY <1>2, <2>1 DEF StmtsOf
  <2>4. q \notin NotOpened /\ NotOpened' = NotOpened \cup {q} /\ NotClosed' = NotClosed
    BY <1>1, <1>2, <2>2, <2>3, MoreTags
  <2>5. Adds(q, "unopened tag")
    BY <2>1, <2>4 DEF Adds
  <2> QED
    BY <1>2, <2>5, ErrAdds
<1>6. CASE OpenTag
  <2>1. errors' = errors /\ list[q].k = "open"
    BY <1>1, <1>6 DEF OpenTag
  <2>2. PICK k : k = Len(depth)
    OBVIOUS
  <2>3. /\ k \in Nat /\ DOMAIN depth = 1 .. k /\ DOMAIN depth' = 1 .. k + 1 /\ depth'[k + 1].open = q
        /\ \A m \in 1 .. k : depth'[m].open = depth[m].open
    BY <1>1, <1>6, <2>2, Levels, OpenTagLevels
  <2>4. (\A m \in 1 .. k + 1 : m \in 1 .. k \/ m = k + 1) /\ (\A m \in 1 .. k : m \in 1 .. k + 1) /\ k + 1 \in 1 .. k + 1
    BY <2>3
  <2>5. ASSUME NEW n \in Nat, n < i PROVE Waits(n)' <=> Waits(n)
    <3>1. n # q
      BY <1>1, <1>2, <2>5
    <3> QED
      BY <1>3, <2>3, <2>4, <3>1 DEF Waits
  <2>6. Waits(q)'
    BY <1>3, <2>3, <2>4 DEF Waits
  <2>7. q \notin StmtsOf("end")
    BY <2>1 DEF StmtsOf
  <2>8. \A n \in Nat : n < i => (Waits(n)' <=> Waits(n))
    BY <2>5
  <2>9. NotOpened' = NotOpened /\ NotClosed' = NotClosed
    BY <1>1, <1>2, <2>6, <2>7, <2>8, MoreTags
  <2> QED
    BY <2>1, <2>9, ErrKeeps
<1> QED
  BY <1>4, <1>5, <1>6

\* An element is made: its open tag and its end tag are not reported.
LEMMA ErrClose ==
    ASSUME IInv, TagInv, ErrInv, Close
    PROVE  ErrInv'
<1>1. PICK n, q : n = depth[j].open /\ q = j
  OBVIOUS
<1>2. /\ pc = "close" /\ pc' = "scan" /\ i' = i + 1 /\ list' = list /\ errors' = errors /\ v > Len(depth)
      /\ DOMAIN elem' = DOMAIN elem \cup {n} /\ elem'[n].end = i
      /\ \A m \in DOMAIN elem : m # n => elem'[m] = elem[m]
  BY <1>1 DEF Close
<1>3. /\ DOMAIN depth' = 1 .. q - 1 /\ q \in DOMAIN depth /\ n = depth[q].open
      /\ \A m \in 1 .. q - 1 : m \in DOMAIN depth /\ depth'[m].open = depth[m].open
  BY <1>1, CloseLevels
<1>4. /\ i \in Nat /\ DOMAIN depth = 1 .. Len(depth) /\ Len(depth) \in Nat /\ n \in Nat /\ n < i
      /\ \A l, m \in DOMAIN depth : depth[l].open = depth[m].open => l = m
      /\ \A m \in DOMAIN elem : elem[m].end \in Nat /\ elem[m].end < i
  BY <1>3, Levels
<1>5. \A m \in DOMAIN elem : elem[m].end < n \/ n < m
  BY <1>3 DEF IInv, ElemInv
<1>6. n \notin DOMAIN elem
  <2>1. n \in DOMAIN elem => n < elem[n].end /\ elem[n].end \in Nat
    BY Levels
  <2> QED
    BY <1>4, <1>5, <2>1
<1>7. \A k : StmtsOf(k)' = StmtsOf(k)
  BY <1>2, SameList
<1>8. i \in StmtsOf("end") /\ i \notin StmtsOf("open") /\ n \in StmtsOf("open")
  <2>1. i \in StmtsOf("end") /\ n \in StmtsOf("open")
    BY <1>2, <1>3 DEF TagInv
  <2> QED
    BY <2>1 DEF StmtsOf
<1>9. \A k : \A m \in StmtsOf(k) : m \in Nat
  BY Levels DEF StmtsOf
<1>10. v \in Nat /\ \A m \in DOMAIN depth : Waiting(m) <=> m <= q
  <2>1. v \in Nat
    BY <1>2, <1>4 DEF IInv, CloseInv
  <2>2. \A m \in DOMAIN depth : ~(v <= m)
    BY <1>2, <1>4, <2>1
  <2> QED
    BY <1>1, <1>2, <2>1, <2>2 DEF Waiting
<1>11. \A m : Waiting(m)'
  BY <1>2 DEF Waiting
<1>12. Waits(n)
  BY <1>3, <1>4, <1>10 DEF Waits
<1>13. ASSUME NEW o, o # n PROVE Waits(o)' <=> Waits(o)
  <2>1. ASSUME NEW m \in DOMAIN depth, depth[m].open = o, m <= q PROVE m \in 1 .. q - 1
    BY <1>3, <1>4, <1>13, <2>1
  <2>2. \A m \in 1 .. q - 1 : m <= q
    BY <1>3, <1>4
  <2> QED
    BY <1>3, <1>10, <1>11, <2>1, <2>2 DEF Waits
<1>14. ASSUME NEW o PROVE o \in NotClosed' <=> o \in NotClosed
  <2>1. CASE o = n
    BY <1>2, <1>12, <2>1 DEF NotClosed
  <2>2. CASE o # n
    <3>1. Waits(o)' <=> Waits(o)
      BY <1>13, <2>2
    <3>2. o \in StmtsOf("open") => (o < i + 1 <=> o < i)
      BY <1>4, <1>8, <1>9
    <3> QED
      BY <1>2, <1>7, <2>2, <3>1, <3>2 DEF NotClosed
  <2> QED
    BY <2>1, <2>2
<1>15. \A e : e \in Ends' <=> e \in Ends \/ e = i
  BY <1>2, <1>6 DEF Ends
<1>16. ASSUME NEW e PROVE e \in NotOpened' <=> e \in NotOpened
  <2>1. e \in StmtsOf("end") => (e < i + 1 <=> e < i \/ e = i) /\ (e < i => e # i)
    BY <1>4, <1>9
  <2> QED
    BY <1>2, <1>7, <1>15, <2>1 DEF NotOpened
<1>17. NotOpened' = NotOpened /\ NotClosed' = NotClosed
  BY <1>14, <1>16
<1> QED
  BY <1>2, <1>17, ErrKeeps

\* Every step.
LEMMA ErrStep ==
    ASSUME IInv, TagInv, ErrInv, [Next]_vars
    PROVE  ErrInv'
<1>1. DOMAIN depth = 1 .. Len(depth) /\ Len(depth) \in Nat
  BY Levels
<1>2. CASE Match
  <2>1. PICK m \in Matches : j' = m /\ v' = m + 1
    BY <1>2 DEF Match
  <2>2. UNCHANGED <<list, elem, i, depth, errors>> /\ pc = "scan" /\ pc' = "close" /\ m \in DOMAIN depth
    BY <1>2, <2>1 DEF Match, Matches
  <2>3. \A l \in DOMAIN depth : Waiting(l)' /\ Waiting(l)
    BY <1>1, <2>1, <2>2 DEF Waiting
  <2>4. \A n : Waits(n)' <=> Waits(n)
    BY <2>2, <2>3 DEF Waits
  <2> QED
    BY <2>2, <2>4, SameTags, ErrKeeps
<1>3. CASE CloseInner
  <2>1. PICK q : q = v
    OBVIOUS
  <2>2. /\ UNCHANGED <<list, elem, i, depth, pc, j>> /\ pc = "close" /\ q <= Len(depth) /\ v' = q + 1
        /\ errors' = Unclosed(depth[q].open)
    BY <1>3, <2>1 DEF CloseInner
  <2>3. q \in DOMAIN depth /\ q > j /\ j \in Nat
    BY <1>1, <2>1, <2>2 DEF IInv, CloseInv
  <2>4. Waiting(q) /\ ~Waiting(q)' /\ \A m \in DOMAIN depth : m # q => (Waiting(m)' <=> Waiting(m))
    BY <1>1, <2>1, <2>2, <2>3 DEF Waiting
  <2> QED
    BY <2>2, <2>3, <2>4, ErrLevel
<1>4. CASE Rest
  <2>1. PICK q : q = v
    OBVIOUS
  <2>2. /\ UNCHANGED <<list, elem, i, depth, pc>> /\ pc = "rest" /\ q <= Len(depth) /\ v' = q + 1
        /\ errors' = Unclosed(depth[q].open)
    BY <1>4, <2>1 DEF Rest
  <2>3. q \in DOMAIN depth
    BY <1>1, <2>1, <2>2 DEF IInv, CloseInv
  <2>4. Waiting(q) /\ ~Waiting(q)' /\ \A m \in DOMAIN depth : m # q => (Waiting(m)' <=> Waiting(m))
    BY <1>1, <2>1, <2>2, <2>3 DEF Waiting
  <2> QED
    BY <2>2, <2>3, <2>4, ErrLevel
<1>5. CASE End \/ Finish \/ UNCHANGED vars
  <2>1. UNCHANGED <<list, elem, i, depth, errors>>
    BY <1>5 DEF End, Finish, vars
  <2>2. \A m \in DOMAIN depth : Waiting(m)' <=> Waiting(m)
    <3>1. CASE UNCHANGED vars
      BY <3>1 DEF Waiting, vars
    <3>2. CASE End /\ last = 0
      <4>1. depth = <<>>
        BY <3>2 DEF IInv, IndexInv
      <4> QED
        BY <4>1
    <3>3. CASE End /\ last # 0
      <4>1. pc = "scan" /\ pc' = "rest" /\ v' = 1
        BY <3>3 DEF End
      <4> QED
        BY <1>1, <4>1 DEF Waiting
    <3>4. CASE Finish
      <4>1. pc = "rest" /\ v > Len(depth) /\ pc' = "done" /\ v \in Nat
        BY <1>1, <3>4 DEF Finish, IInv, CloseInv
      <4> QED
        BY <1>1, <4>1 DEF Waiting
    <3> QED
      BY <1>5, <3>1, <3>2, <3>3, <3>4
  <2>3. \A n : Waits(n)' <=> Waits(n)
    BY <2>1, <2>2 DEF Waits
  <2> QED
    BY <2>1, <2>3, SameTags, ErrKeeps
<1> QED
  BY <1>2, <1>3, <1>4, <1>5, ErrPasses, ErrClose DEF Next

-----------------------------------------------------------------------------
\* The open tag of an end tag passed is an element's.
LEMMA PairOfEnd ==
    ASSUME IInv, TagInv, NEW pair, Agrees(pair), NEW n \in DOMAIN elem
    PROVE  elem[n].end \in StmtsOf("end") /\ elem[n].end < i /\ pair[elem[n].end] = n
<1>1. PICK e : e = elem[n].end
  OBVIOUS
<1>2. e \in StmtsOf("end") /\ e < i
  BY <1>1, Levels DEF TagInv
<1>3. pair[e] \in DOMAIN elem /\ elem[pair[e]].end = e
  BY <1>2 DEF Agrees
<1>4. pair[e] = n
  BY <1>1, <1>3 DEF TagInv
<1> QED
  BY <1>1, <1>2, <1>4

\* An open tag on the stack is in no element, nor between the tags of one.
LEMMA OnStack ==
    ASSUME IInv, NEW m \in DOMAIN depth
    PROVE  /\ depth[m].open \notin DOMAIN elem
           /\ \A n \in DOMAIN elem : ~(n < depth[m].open /\ depth[m].open < elem[n].end)
<1>1. PICK o : o = depth[m].open
  OBVIOUS
<1>2. o \in Nat /\ \A n \in DOMAIN elem : n \in Nat /\ elem[n].end \in Nat /\ n < elem[n].end
  BY <1>1, Levels
<1>3. \A n \in DOMAIN elem : elem[n].end < o \/ o < n
  BY <1>1 DEF IInv, ElemInv
<1>4. ~(o < o)
  BY <1>2
<1>5. o \notin DOMAIN elem
  <2>1. o \in DOMAIN elem => o < elem[o].end /\ elem[o].end < o
    BY <1>2, <1>3, <1>4
  <2> QED
    BY <1>2, <2>1
<1>6. \A n \in DOMAIN elem : ~(n < o /\ o < elem[n].end)
  BY <1>2, <1>3
<1> QED
  BY <1>1, <1>5, <1>6

\* When an end tag is reached, its open tag waits on the stack.
LEMMA PairWaits ==
    ASSUME IInv, TagInv, NEW pair \in [StmtsOf("end") -> StmtsOf("open")], Nests(pair), Agrees(pair),
           i \in StmtsOf("end")
    PROVE  \E m \in Matches : depth[m].open = pair[i]
<1>1. PICK o : o = pair[i]
  OBVIOUS
<1>2. o \in StmtsOf("open") /\ o < i /\ list[o].name = list[i].name
  BY <1>1 DEF Nests
<1>3. i \in Nat
  BY Levels
<1>4. o \notin DOMAIN elem
  <2>1. SUFFICES ASSUME o \in DOMAIN elem PROVE FALSE
    OBVIOUS
  <2>2. elem[o].end \in StmtsOf("end") /\ elem[o].end < i /\ pair[elem[o].end] = pair[i]
    BY <1>1, <2>1, PairOfEnd
  <2>3. elem[o].end = i
    BY <2>2 DEF Nests, IsInjective
  <2> QED
    BY <1>3, <2>2, <2>3
<1>5. ASSUME NEW n \in DOMAIN elem, n < o, o < elem[n].end PROVE FALSE
  <2>1. PICK e : e = elem[n].end
    OBVIOUS
  <2>2. e \in StmtsOf("end") /\ e < i /\ pair[e] = n /\ e \in Nat
    BY <1>5, <2>1, PairOfEnd, Levels
  <2>3. pair[e] < pair[i] /\ pair[i] < e
    BY <1>1, <1>5, <2>1, <2>2
  <2>4. i < e
    BY <2>2, <2>3 DEF Nests
  <2> QED
    BY <1>3, <2>2, <2>4
<1>6. PICK m \in DOMAIN depth : depth[m].open = o
  BY <1>2, <1>4, <1>5 DEF TagInv
<1> QED
  BY <1>1, <1>2, <1>6 DEF Matches

\* The innermost open tag of the name can take the place of the pair's open
\* tag: it is left over, and so void.
LEMMA PairSwap ==
    ASSUME IInv, TagInv, NEW pair \in [StmtsOf("end") -> StmtsOf("open")], Nests(pair), Agrees(pair),
           pc = "scan", i \in StmtsOf("end"), NEW q \in Matches, \A l \in Matches : l <= q
    PROVE  \E new \in [StmtsOf("end") -> StmtsOf("open")] :
              /\ Nests(new) /\ new[i] = depth[q].open
              /\ \A e \in StmtsOf("end") : e < i => new[e] = pair[e]
<1>1. PICK p, o : p = depth[q].open /\ o = pair[i]
  OBVIOUS
<1>2. PICK m \in Matches : depth[m].open = o
  BY <1>1, PairWaits
<1>3. /\ q \in DOMAIN depth /\ m \in DOMAIN depth /\ DOMAIN depth \subseteq Nat
      /\ list[p].name = list[i].name /\ p \in StmtsOf("open")
  BY <1>1, Levels DEF Matches, TagInv
<1>4. p \in Nat /\ p < i /\ o \in Nat /\ i \in Nat
  BY <1>1, <1>2, <1>3, Levels
<1>5. CASE p = o
  BY <1>1, <1>5
<1>6. CASE p # o
  <2>1. o < p
    <3>1. m <= q /\ m # q
      BY <1>1, <1>2, <1>6
    <3>2. m < q
      BY <1>3, <3>1
    <3> QED
      BY <1>1, <1>2, <1>3, <3>2, Levels
  <2>2. \A e \in StmtsOf("end") : e \in Nat /\ pair[e] \in Nat
    <3>1. \A k : \A n \in StmtsOf(k) : n \in Nat
      BY Levels DEF StmtsOf
    <3> QED
      BY <3>1
  <2>3. ASSUME NEW e \in StmtsOf("end"), e < i PROVE ~(pair[e] < p /\ p < e) /\ pair[e] # p
    <3>1. PICK n : n = pair[e]
      OBVIOUS
    <3>2. n \in DOMAIN elem /\ elem[n].end = e
      BY <2>3, <3>1 DEF Agrees
    <3> QED
      BY <1>1, <1>3, <3>1, <3>2, OnStack
  <2>4. ASSUME NEW e \in StmtsOf("end") PROVE pair[e] # p
    <3>1. SUFFICES ASSUME pair[e] = p PROVE FALSE
      OBVIOUS
    <3>2. pair[i] < pair[e] /\ pair[e] < i
      BY <1>1, <1>4, <2>1, <3>1
    <3>3. e < i
      BY <3>2 DEF Nests
    <3> QED
      BY <2>3, <3>1, <3>3
  <2>5. list[p].name = Void
    <3>1. p \notin Range(pair)
      BY <2>4 DEF Range
    <3> QED
      BY <1>3, <3>1 DEF Nests
  <2>6. PICK new : new = [pair EXCEPT ![i] = p]
    OBVIOUS
  <2>7. /\ new \in [StmtsOf("end") -> StmtsOf("open")] /\ new[i] = p
        /\ \A e \in StmtsOf("end") : e # i => new[e] = pair[e]
    BY <1>3, <2>6
  <2>8. IsInjective(new)
    <3>1. ASSUME NEW a \in StmtsOf("end"), NEW b \in StmtsOf("end"), new[a] = new[b] PROVE a = b
      <4>1. pair[a] = pair[b] => a = b
        BY DEF Nests, IsInjective
      <4> QED
        BY <2>4, <2>7, <3>1, <4>1
    <3> QED
      BY <2>7, <3>1 DEF IsInjective
  <2>9. \A e \in StmtsOf("end") : new[e] < e /\ list[new[e]].name = list[e].name
    BY <1>3, <1>4, <2>7 DEF Nests
  <2>10. ASSUME NEW n \in StmtsOf("open") \ Range(new) PROVE list[n].name = Void
    <3>1. CASE n = o
      <4>1. list[o].name = list[i].name
        BY <1>1 DEF Nests
      <4> QED
        BY <1>3, <2>5, <3>1, <4>1
    <3>2. CASE n # o
      <4>1. n \notin Range(pair)
        BY <1>1, <2>7, <2>10, <3>2 DEF Range
      <4> QED
        BY <2>10, <4>1 DEF Nests
    <3> QED
      BY <3>1, <3>2
  <2>11. ASSUME NEW e \in StmtsOf("end"), NEW f \in StmtsOf("end"), new[e] < new[f], new[f] < e PROVE f < e
    <3>1. CASE e = i /\ f # i
      <4>1. pair[i] < pair[f] /\ pair[f] < i
        BY <1>1, <1>4, <2>1, <2>2, <2>7, <2>11, <3>1
      <4> QED
        BY <3>1, <4>1 DEF Nests
    <3>2. CASE f = i /\ e # i
      <4>1. pair[e] < p /\ p < e
        BY <2>7, <2>11, <3>2
      <4>2. ~(e < i)
        BY <2>3, <4>1
      <4> QED
        BY <1>4, <2>2, <3>2, <4>2
    <3>3. CASE e # i /\ f # i
      <4>1. pair[e] < pair[f] /\ pair[f] < e
        BY <2>7, <2>11, <3>3
      <4> QED
        BY <4>1 DEF Nests
    <3>4. CASE e = i /\ f = i
      BY <1>4, <2>7, <2>11, <3>4
    <3> QED
      BY <3>1, <3>2, <3>3, <3>4
  <2>12. Nests(new)
    BY <2>8, <2>9, <2>10, <2>11 DEF Nests
  <2>13. \A e \in StmtsOf("end") : e < i => e # i
    BY <1>4
  <2> QED
    BY <1>1, <2>7, <2>12, <2>13
<1> QED
  BY <1>5, <1>6

\* A step that makes no element keeps the agreement with a pairing, unless it
\* passes an end tag.
LEMMA AgreesKeeps ==
    ASSUME IInv, NEW pair, Agrees(pair), UNCHANGED <<list, elem>>,
           i' = i \/ (i' = i + 1 /\ i \notin StmtsOf("end")),
           pc' = "close" => pair[i'] = depth'[j'].open
    PROVE  Agrees(pair)'
<1>1. \A k : StmtsOf(k)' = StmtsOf(k)
  BY SameList
<1>2. \A e \in StmtsOf("end") : e < i' => e < i
  <2>1. i \in Nat /\ \A e \in StmtsOf("end") : e \in Nat
    BY Levels DEF StmtsOf
  <2> QED
    BY <2>1
<1> QED
  BY <1>1, <1>2 DEF Agrees

\* The element made is the pair of the end tag.
LEMMA AgreesClose ==
    ASSUME IInv, TagInv, NEW pair, Agrees(pair), Close
    PROVE  Agrees(pair)'
<1>1. PICK n : n = depth[j].open
  OBVIOUS
<1>2. /\ pc = "close" /\ pc' = "scan" /\ i' = i + 1 /\ list' = list
      /\ DOMAIN elem' = DOMAIN elem \cup {n} /\ elem'[n].end = i
      /\ \A m \in DOMAIN elem : m # n => elem'[m] = elem[m]
  BY <1>1 DEF Close
<1>3. n \notin DOMAIN elem /\ pair[i] = n /\ i \in Nat
  BY <1>1, <1>2, CloseLevels, OnStack, Levels DEF Agrees
<1>4. \A k : StmtsOf(k)' = StmtsOf(k)
  BY <1>2, SameList
<1>5. ASSUME NEW e \in StmtsOf("end"), e < i'
      PROVE  pair[e] \in DOMAIN elem' /\ elem'[pair[e]].end = e
  <2>1. e \in Nat
    BY Levels DEF StmtsOf
  <2>2. CASE e = i
    BY <1>2, <1>3, <2>2
  <2>3. CASE e < i
    BY <1>2, <1>3, <2>3 DEF Agrees
  <2> QED
    BY <1>2, <1>3, <1>5, <2>1, <2>2, <2>3
<1> QED
  BY <1>2, <1>4, <1>5 DEF Agrees

\* An end tag of a well-formed list finds an open tag of its pairing, or one
\* that can take its place.
LEMMA PairMatch ==
    ASSUME IInv, TagInv, PairInv, Match
    PROVE  PairInv'
<1>1. PICK q \in Matches : (\A l \in Matches : l <= q) /\ j' = q
  BY DEF Match
<1>2. /\ pc = "scan" /\ i <= Len(list) /\ list[i].k = "end" /\ pc' = "close"
      /\ UNCHANGED <<list, i, depth, elem>>
  BY DEF Match
<1>3. /\ \A k : StmtsOf(k)' = StmtsOf(k)
      /\ \A pair : Nests(pair)' <=> Nests(pair)
      /\ WellFormed' <=> WellFormed
  BY <1>2, SameList
<1>4. i \in StmtsOf("end")
  BY <1>2, Levels DEF StmtsOf
<1>5. SUFFICES ASSUME WellFormed
               PROVE  \E new \in [StmtsOf("end") -> StmtsOf("open")] : Nests(new) /\ Agrees(new)'
  BY <1>3 DEF PairInv
<1>6. PICK pair \in [StmtsOf("end") -> StmtsOf("open")] : Nests(pair) /\ Agrees(pair)
  BY <1>5 DEF PairInv
<1>7. PICK new \in [StmtsOf("end") -> StmtsOf("open")] :
         /\ Nests(new) /\ new[i] = depth[q].open
         /\ \A e \in StmtsOf("end") : e < i => new[e] = pair[e]
  BY <1>1, <1>2, <1>4, <1>6, PairSwap
<1>8. Agrees(new)'
  <2>1. \A e \in StmtsOf("end") : e < i => new[e] \in DOMAIN elem /\ elem[new[e]].end = e
    BY <1>6, <1>7 DEF Agrees
  <2> QED
    BY <1>1, <1>2, <1>3, <1>7, <2>1 DEF Agrees
<1> QED
  BY <1>7, <1>8

\* Every step.
LEMMA PairStep ==
    ASSUME IInv, TagInv, PairInv, [Next]_vars
    PROVE  PairInv'
<1>1. SUFFICES ASSUME ~Match, WellFormed, NEW pair \in [StmtsOf("end") -> StmtsOf("open")],
                      Nests(pair), Agrees(pair)
               PROVE  Agrees(pair)'
  <2>1. list' = list
    BY DEF Next, vars, OtherStmt, OpenTag, Match, NoMatch, CloseInner, Close, End, Rest, Finish
  <2>2. /\ \A k : StmtsOf(k)' = StmtsOf(k)
        /\ \A p : Nests(p)' <=> Nests(p)
        /\ WellFormed' <=> WellFormed
    BY <2>1, SameList
  <2>3. CASE ~Match /\ WellFormed
    <3>1. PICK p \in [StmtsOf("end") -> StmtsOf("open")] : Nests(p) /\ Agrees(p)
      BY <2>3 DEF PairInv
    <3>2. Agrees(p)'
      BY <1>1, <2>3, <3>1
    <3> QED
      BY <2>2, <3>1, <3>2 DEF PairInv
  <2>4. CASE ~WellFormed
    BY <2>2, <2>4 DEF PairInv
  <2> QED
    BY <2>3, <2>4, PairMatch
<1>2. CASE NoMatch
  <2>1. Matches = {} /\ i <= Len(list) /\ list[i].k = "end"
    BY <1>2 DEF NoMatch
  <2>2. i \in StmtsOf("end")
    BY <2>1, Levels DEF StmtsOf
  <2> QED
    BY <1>1, <2>1, <2>2, PairWaits
<1>3. CASE OtherStmt \/ OpenTag
  <2>1. UNCHANGED <<list, elem>> /\ i' = i + 1 /\ pc' = "scan" /\ list[i].k # "end"
    BY <1>3 DEF OtherStmt, OpenTag
  <2>2. i \notin StmtsOf("end")
    BY <2>1 DEF StmtsOf
  <2> QED
    BY <1>1, <2>1, <2>2, AgreesKeeps
<1>4. CASE CloseInner \/ End \/ Rest \/ Finish \/ UNCHANGED vars
  <2>1. UNCHANGED <<list, elem, i, depth, j>> /\ (pc' = "close" => pc = "close")
    BY <1>4 DEF CloseInner, End, Rest, Finish, vars
  <2>2. pc' = "close" => pair[i'] = depth'[j'].open
    BY <1>1, <2>1 DEF Agrees
  <2> QED
    BY <1>1, <2>1, <2>2, AgreesKeeps
<1> QED
  BY <1>1, <1>2, <1>3, <1>4, AgreesClose DEF Next

-----------------------------------------------------------------------------
(* The result.                                                             *)

Reported == TagInv /\ ErrInv /\ PairInv

\* Nothing is reported before the first statement.
LEMMA InitReported == Init => Reported
<1> SUFFICES ASSUME Init PROVE Reported
  OBVIOUS
<1>1. i = 1 /\ depth = <<>> /\ elem = <<>> /\ errors = <<>> /\ pc = "scan" /\ DOMAIN elem = {} /\ DOMAIN depth = {}
  BY DEF Init
<1>2. \A k : \A n \in StmtsOf(k) : ~(n < i)
  <2>1. \A k : \A n \in StmtsOf(k) : n \in Nat /\ 1 <= n
    BY ListsAssumption DEF StmtsOf, Init
  <2> QED
    BY <1>1, <2>1
<1>3. TagInv
  BY <1>1, <1>2 DEF TagInv
<1>4. ErrInv
  <2>1. NotOpened = {} /\ NotClosed = {}
    BY <1>2 DEF NotOpened, NotClosed
  <2>2. errors \in Seq(Nat \X {"unopened tag", "unclosed tag"}) /\ DOMAIN errors = {}
    BY <1>1
  <2>3. ToSet(errors) = {} /\ IsInjective(errors)
    BY <2>2 DEF ToSet, IsInjective
  <2>4. Errs(NotOpened, NotClosed) = {}
    BY <2>1 DEF Errs
  <2> QED
    BY <2>2, <2>3, <2>4 DEF ErrInv
<1>5. PairInv
  BY <1>1, <1>2 DEF PairInv, Agrees, WellFormed
<1> QED
  BY <1>3, <1>4, <1>5 DEF Reported

\* At the end every tag has been passed, and none waits.
LEMMA ExactAtEnd ==
    ASSUME IInv, ErrInv, pc = "done"
    PROVE  /\ NotOpened = StmtsOf("end") \ Ends
           /\ NotClosed = {n \in StmtsOf("open") \ DOMAIN elem : list[n].name # Void}
<1>1. \A k : \A n \in StmtsOf(k) : n < i
  <2>1. list \in Seq(Stmt) /\ i = Len(list) + 1
    BY DEF IInv, IndexInv
  <2> QED
    BY <2>1 DEF StmtsOf
<1>2. \A n : ~Waits(n)
  BY DEF Waits, Waiting
<1> QED
  BY <1>1, <1>2 DEF NotOpened, NotClosed

\* The errors are those of the tree.
LEMMA MatchesTree == IInv /\ Reported => ErrorsMatchTree
<1> SUFFICES ASSUME IInv, Reported, pc = "done"
             PROVE  /\ ToSet(errors) =
                          {<<n, "unopened tag">> : n \in StmtsOf("end") \ Ends}
                          \cup {<<n, "unclosed tag">> :
                                   n \in {n \in StmtsOf("open") \ DOMAIN elem : list[n].name # Void}}
                    /\ IsInjective(errors)
  BY DEF ErrorsMatchTree
<1>1. ToSet(errors) = Errs(NotOpened, NotClosed) /\ IsInjective(errors)
  BY DEF Reported, ErrInv
<1>2. /\ NotOpened = StmtsOf("end") \ Ends
      /\ NotClosed = {n \in StmtsOf("open") \ DOMAIN elem : list[n].name # Void}
  BY ExactAtEnd DEF Reported
<1> QED
  BY <1>1, <1>2 DEF Errs

\* A list without errors is accepted; its elements are the pairing.
LEMMA Accepts == IInv /\ Reported => AcceptsWellFormed
<1> SUFFICES ASSUME IInv, Reported, pc = "done" PROVE errors = <<>> <=> WellFormed
  BY DEF AcceptsWellFormed
<1>1. TagInv /\ ErrInv /\ PairInv
  BY DEF Reported
<1>2. /\ NotOpened = StmtsOf("end") \ Ends
      /\ NotClosed = {n \in StmtsOf("open") \ DOMAIN elem : list[n].name # Void}
  BY <1>1, ExactAtEnd
<1>3. errors = <<>> <=> NotOpened = {} /\ NotClosed = {}
  <2>1. PICK n : n = Len(errors)
    OBVIOUS
  <2>2. n \in Nat /\ DOMAIN errors = 1 .. n /\ (errors = <<>> <=> n = 0)
    <3>1. PICK S : S = Nat \X {"unopened tag", "unclosed tag"}
      OBVIOUS
    <3>2. errors \in Seq(S)
      BY <1>1, <3>1 DEF ErrInv
    <3> QED
      BY <2>1, <3>2
  <2>3. ToSet(errors) = {} <=> n = 0
    <3>1. n # 0 => 1 \in DOMAIN errors
      BY <2>2
    <3>2. n = 0 => DOMAIN errors = {}
      BY <2>2
    <3> QED
      BY <3>1, <3>2 DEF ToSet
  <2>4. Errs(NotOpened, NotClosed) = {} <=> NotOpened = {} /\ NotClosed = {}
    BY DEF Errs
  <2> QED
    BY <1>1, <2>2, <2>3, <2>4 DEF ErrInv
<1>4. ASSUME WellFormed PROVE NotOpened = {} /\ NotClosed = {}
  <2>1. PICK pair \in [StmtsOf("end") -> StmtsOf("open")] : Nests(pair) /\ Agrees(pair)
    BY <1>1, <1>4 DEF PairInv
  <2>2. \A e \in StmtsOf("end") : e < i
    <3>1. list \in Seq(Stmt) /\ i = Len(list) + 1
      BY DEF IInv, IndexInv
    <3> QED
      BY <3>1 DEF StmtsOf
  <2>3. \A e \in StmtsOf("end") : pair[e] \in DOMAIN elem /\ elem[pair[e]].end = e
    BY <2>1, <2>2 DEF Agrees
  <2>4. NotOpened = {}
    BY <1>2, <2>3 DEF Ends
  <2>5. NotClosed = {}
    <3>1. \A n \in StmtsOf("open") \ DOMAIN elem : n \notin Range(pair)
      BY <2>1, <2>3 DEF Range
    <3> QED
      BY <1>2, <2>1, <3>1 DEF Nests
  <2> QED
    BY <2>4, <2>5
<1>5. ASSUME NotOpened = {}, NotClosed = {} PROVE WellFormed
  <2>1. \A e \in StmtsOf("end") : \E n \in DOMAIN elem : elem[n].end = e
    BY <1>2, <1>5 DEF Ends
  <2>2. PICK pair : pair = [e \in StmtsOf("end") |-> CHOOSE n \in DOMAIN elem : elem[n].end = e]
    OBVIOUS
  <2>3. \A e \in StmtsOf("end") : pair[e] \in DOMAIN elem /\ elem[pair[e]].end = e
    BY <2>1, <2>2
  <2>4. /\ \A n \in DOMAIN elem :
              n \in StmtsOf("open") /\ elem[n].end \in StmtsOf("end") /\ list[elem[n].end].name = list[n].name
        /\ \A n, m \in DOMAIN elem : elem[n].end = elem[m].end => n = m
        /\ \A n, m \in DOMAIN elem : n < m /\ m < elem[n].end => elem[m].end < elem[n].end
        /\ \A n \in DOMAIN elem : n < elem[n].end
    BY <1>1, Levels DEF TagInv
  <2>5. DOMAIN pair = StmtsOf("end") /\ pair \in [StmtsOf("end") -> StmtsOf("open")]
    BY <2>2, <2>3, <2>4
  <2>6. IsInjective(pair)
    BY <2>3, <2>5 DEF IsInjective
  <2>7. \A e \in StmtsOf("end") : pair[e] < e /\ list[pair[e]].name = list[e].name
    BY <2>3, <2>4
  <2>8. ASSUME NEW n \in StmtsOf("open") \ Range(pair) PROVE list[n].name = Void
    <3>1. n \notin DOMAIN elem
      <4>1. SUFFICES ASSUME n \in DOMAIN elem PROVE n \in Range(pair)
        BY <2>8
      <4>2. elem[n].end \in StmtsOf("end") /\ pair[elem[n].end] = n
        BY <2>3, <2>4, <4>1
      <4> QED
        BY <2>5, <4>2 DEF Range
    <3> QED
      BY <1>2, <1>5, <2>8, <3>1
  <2>9. \A e, f \in StmtsOf("end") : pair[e] < pair[f] /\ pair[f] < e => f < e
    BY <2>3, <2>4
  <2>10. Nests(pair)
    BY <2>6, <2>7, <2>8, <2>9 DEF Nests
  <2> QED
    BY <2>5, <2>10 DEF WellFormed
<1> QED
  BY <1>3, <1>4, <1>5

\* A tag is reported exactly when it is part of no element and not void, once
\* and with the right message; and a list of statements is accepted exactly
\* when its tags can be paired so that they nest: no other choice of open tags
\* than the innermost one of the name would accept more.
THEOREM ErrorsAreRight == Spec => [](ErrorsMatchTree /\ AcceptsWellFormed)
<1>1. IInv /\ Reported /\ [Next]_vars => IInv' /\ Reported'
  BY IInvStep, TagStep, ErrStep, PairStep DEF Reported
<1>2. IInv /\ Reported => ErrorsMatchTree /\ AcceptsWellFormed
  BY MatchesTree, Accepts
<1> QED
  BY <1>1, <1>2, InitIInv, InitReported, PTL DEF Spec
==============================================================================

--------------------------------- MODULE Sizes ---------------------------------
(***************************************************************************)
(* Sizes, alignments and offsets of types, for the standard sizes, those   *)
(* of gccgo, and those of gc (types/sizes.go, gccgosizes.go, gcsizes.go),  *)
(* in integers that wrap around: a negative result says that a type is too *)
(* large.                                                                  *)
(***************************************************************************)
EXTENDS Integers, Sequences, SequencesExt

CONSTANTS
    MaxInt,    \* the largest integer; a power of two less one
    Layouts,   \* sets of sizes [compiler, word, align]
    Structs    \* sets of types to lay out

VARIABLES
    sizes,     \* the sizes that are used
    typ,       \* the type that is asked about
    returned   \* has the layout been returned? It is a function of these two

vars == <<sizes, typ, returned>>

Wrap(x) == ((x + MaxInt + 1) % (2 * (MaxInt + 1))) - (MaxInt + 1)

\* align asserts that its argument is not negative.
Panic == -(MaxInt + 2)
Align(x, a) == IF x < 0 THEN Panic ELSE LET y == Wrap(x + a - 1) IN y - (y % a)

Basic(size, align) == [kind |-> "basic", size |-> size, align |-> align]
Word == [kind |-> "word"]           \* pointers, maps, channels, functions
Str == [kind |-> "string"]
Slice == [kind |-> "slice"]
Interface == [kind |-> "interface"]
Align64 == [kind |-> "struct", fields |-> <<>>, align64 |-> TRUE]
Array(n, elem) == [kind |-> "array", len |-> n, elem |-> elem]
Struct(fields) == [kind |-> "struct", fields |-> fields, align64 |-> FALSE]

Larger(a, b) == IF a > b THEN a ELSE b
Smaller(a, b) == IF a < b THEN a ELSE b

\* StdSizes.Alignof: the size of a type with parts is not asked for.
RECURSIVE Alignof(_)
Alignof(t) ==
    CASE t.kind = "array" -> Alignof(t.elem)
      [] t.kind = "struct" -> IF t.align64 THEN 8
                              ELSE FoldLeft(LAMBDA a, f : Larger(a, Alignof(f)), 1, t.fields)
      [] t.kind \in {"slice", "interface", "string"} -> sizes.word
      [] t.kind = "word" -> Smaller(sizes.word, sizes.align)
      [] t.kind = "basic" -> Smaller(t.align, sizes.align)

\* gcSizes.Alignof is the same function.
GcAlignof(t) == Alignof(t)

RECURSIVE Sizeof(_), Offsetsof(_)

\* StdSizes.Offsetsof: the offsets of the fields, -1 for those behind a type or an offset
\* that is too large, and the offset behind the last.
Offsetsof(fields) ==
    LET Place(r, f) ==
            LET offs == Align(r.offs, Alignof(f))
                d == Sizeof(f)
            IN  CASE r.offs = Panic -> r
                  [] r.offs # Panic /\ r.offs < 0 -> [r EXCEPT !.offsets = Append(@, -1)]
                  [] r.offs >= 0 /\ d = Panic -> [r EXCEPT !.offs = Panic]
                  [] OTHER -> [offsets |-> Append(r.offsets, offs),
                               offs |-> IF d >= 0 /\ offs >= 0 THEN Wrap(offs + d) ELSE -1]
    IN  FoldLeft(Place, [offsets |-> <<>>, offs |-> 0], fields)

\* gcSizes.Offsetsof is the same function of its own sizes.
GcOffsetsof(fields) == Offsetsof(fields)

\* Arrays with elements of size esize, not 0 and not too large.
StdArraySize(t, esize) ==
    LET ea == Align(esize, Alignof(t.elem))
        n1 == t.len - 1
    IN  IF ea < 0 \/ (n1 > 0 /\ ea > MaxInt \div n1) THEN -1 ELSE Wrap(ea * n1 + esize)

\* Mutant: the product is not tested.
GcArraySizeWraps(t, esize) == Wrap(esize * t.len)

GcArraySize(t, esize) == IF esize > MaxInt \div t.len THEN -1 ELSE esize * t.len

ArraySize(t) ==
    LET esize == Sizeof(t.elem)
    IN  IF t.len <= 0 \/ esize = 0 THEN 0
        ELSE IF esize < 0 THEN IF esize = Panic THEN Panic ELSE -1
        ELSE IF sizes.compiler = "gc" THEN GcArraySize(t, esize) ELSE StdArraySize(t, esize)

\* Structs whose last field is of the given size, neither it nor the offset too large.
StdStructSize(offs, size) == Wrap(offs + size)

\* gc pads a struct to its alignment, and puts a byte behind a last field of size 0.
GcStructSize(t, offs, size) ==
    Align(Wrap(offs + (IF offs > 0 /\ size = 0 THEN 1 ELSE size)), GcAlignof(t))

StructSize(t) ==
    LET n == Len(t.fields)
        r == IF sizes.compiler = "gc" THEN GcOffsetsof(t.fields) ELSE Offsetsof(t.fields)
        offs == r.offsets[n]
        size == Sizeof(t.fields[n])
    IN  CASE n = 0 -> 0
          [] n > 0 /\ Panic \in {r.offs, size} -> Panic
          [] n > 0 /\ Panic \notin {r.offs, size} /\ (offs < 0 \/ size < 0) -> -1
          [] OTHER -> IF sizes.compiler = "gc" THEN GcStructSize(t, offs, size)
                      ELSE StdStructSize(offs, size)

\* Sizeof of StdSizes and gcSizes.
Sizeof(t) ==
    CASE t.kind = "basic" -> t.size
      [] t.kind = "word" -> sizes.word
      [] t.kind \in {"string", "interface"} -> 2 * sizes.word
      [] t.kind = "slice" -> 3 * sizes.word
      [] t.kind = "array" -> ArraySize(t)
      [] t.kind = "struct" -> StructSize(t)

\* Config.offsetof: the offset of a field of fields, behind offs.
RECURSIVE Offsetof(_, _, _)
Offsetof(t, path, offs) ==
    LET d == Offsetsof(t.fields).offsets[path[1]]
        o == Wrap(offs + d)
    IN  IF path = <<>> THEN offs
        ELSE IF d < 0 \/ o < 0 THEN -1 ELSE Offsetof(t.fields[path[1]], Tail(path), o)

-----------------------------------------------------------------------------
Layout == [size |-> Sizeof(typ), align |-> Alignof(typ), fields |-> Offsetsof(typ.fields)]

Init ==
    /\ \E family \in Structs : typ \in family
    /\ sizes \in Layouts
    /\ returned = FALSE

Next ==
    /\ ~returned
    /\ returned' = TRUE
    /\ UNCHANGED <<sizes, typ>>

Spec == Init /\ [][Next]_vars

-----------------------------------------------------------------------------
(* Properties                                                                *)

Ceil(x, a) == ((x + a - 1) \div a) * a

\* Sizes and offsets in integers that do not wrap.
RECURSIVE TrueSize(_)
TrueEnds(fields) ==
    FoldLeft(LAMBDA ends, f :
                Append(ends, Ceil(IF ends = <<>> THEN 0 ELSE Last(ends), Alignof(f)) + TrueSize(f)),
             <<>>, fields)
TrueSize(t) ==
    CASE t.kind = "array" ->
            LET e == TrueSize(t.elem)
                n == IF t.len < 0 THEN 0 ELSE t.len
            IN  IF sizes.compiler = "gc" THEN n * e
                ELSE IF n = 0 THEN 0 ELSE (n - 1) * Ceil(e, Alignof(t.elem)) + e
      [] t.kind = "struct" /\ t.fields # <<>> ->
            LET ends == TrueEnds(t.fields)
                n == Len(t.fields)
                last == TrueSize(t.fields[n])
            IN  IF sizes.compiler = "gc"
                THEN Ceil(Last(ends) + (IF last = 0 /\ Last(ends) > 0 THEN 1 ELSE 0), Alignof(t))
                ELSE Last(ends)
      [] OTHER -> Sizeof(t)

\* A field of a field is where it is in the inner struct, behind the outer offset.
InnerIsExact(i, end) ==
    LET inner == typ.fields[i]
        begin == end - TrueSize(inner)
        ends == TrueEnds(inner.fields)
    IN  \A k \in DOMAIN inner.fields :
            LET o == Offsetof(typ, <<i, k>>, 0)
                at == begin + ends[k] - TrueSize(inner.fields[k])
            IN  IF o < 0 THEN at > MaxInt ELSE o = at

\* No overflow goes unnoticed, however often sums wrap: a size or offset that is not negative
\* is the true one, and one that is negative does not fit. Fields are aligned and do not
\* overlap.
LayoutIsExact ==
    LET l == Layout
        ends == TrueEnds(typ.fields)
    IN  l.size # Panic =>
            /\ IF l.size < 0 THEN TrueSize(typ) > MaxInt ELSE l.size = TrueSize(typ)
            /\ sizes.compiler = "gc" /\ l.size >= 0 => l.size % l.align = 0
            /\ \A i \in DOMAIN typ.fields :
                LET o == l.fields.offsets[i]
                IN  IF o < 0 THEN ends[i] > MaxInt
                    ELSE /\ o + TrueSize(typ.fields[i]) = ends[i]
                         /\ o % Alignof(typ.fields[i]) = 0
                         /\ typ.fields[i].kind = "struct" => InnerIsExact(i, ends[i])
==============================================================================

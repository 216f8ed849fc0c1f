------------------------------ MODULE Expressions ------------------------------
(***************************************************************************)
(* The type checker of expressions (types/expr.go, const.go, index.go,     *)
(* conversions.go, operand.go, assignments.go).                            *)
(*                                                                         *)
(* An expression is a tree; a subexpression is known by its path, the      *)
(* numbers of the arguments that lead to it. The type of an untyped        *)
(* subexpression is only known once its context is: c.untyped holds those  *)
(* that wait for it, c.types those that are recorded, c.errs the codes of  *)
(* the errors. An operation returns the checker c and the operand x.       *)
(*                                                                         *)
(* Left out are complex numbers, functions (a call is a value of the type  *)
(* that it returns), structs and maps. Identifiers stand for what they are *)
(* resolved to. int and int64 have Width bits, int8 and uint8 SmallBits.   *)
(***************************************************************************)
EXTENDS Constant, FiniteSets

CONSTANTS
    SmallBits,     \* the width of int8 and uint8
    FloatBits,     \* the mantissa of a float64
    FloatExp,      \* and the exponent of its infinity
    ShiftBound     \* the most that a constant is shifted by

-----------------------------------------------------------------------------
(* Types.                                                                    *)

\* elem is the element, the base, or what a named type stands for.
NoType == [k |-> "None"]
Type(k, name, elem, len) == [k |-> k, name |-> name, elem |-> elem, len |-> len]
Typ(name) == Type("Basic", name, NoType, 0)
Named(name, u) == Type("Named", name, u, 0)
Pointer(base) == Type("Pointer", "", base, 0)
Slice(elem) == Type("Slice", "", elem, 0)
Array(len, elem) == Type("Array", "", elem, len)
Chan(dir, elem) == Type("Chan", dir, elem, 0)
Interface(name) == Type("Interface", name, NoType, 0)    \* "any" has no methods, the others have one
TypeParam(name) == Type("TypeParam", name, NoType, 0)

\* The terms of the constraint of a type parameter; there are none if any type is allowed.
Terms(t) ==
    CASE t.name = "P" -> <<Typ("int8"), Typ("uint")>>
      [] t.name = "Q" -> <<Typ("int"), Typ("float64")>>
      [] t.name = "S" -> <<Typ("string"), Slice(Typ("uint8"))>>
      [] t.name = "A" -> <<Array(2, Typ("int")), Array(1, Typ("int"))>>
      [] OTHER -> <<>>

under(t) == IF t.k = "Named" THEN t.elem ELSE t
isTypeParam(t) == t.k = "TypeParam"
isNonTypeParamInterface(t) == under(t).k = "Interface"

Booleans == {"bool", "untyped bool"}
Signed == {"int", "int8", "int32", "untyped int", "untyped rune"}
Unsigned == {"uint", "uint8"}
Integral == Signed \cup Unsigned
Floats == {"float64", "untyped float"}
Strings == {"string", "untyped string"}
Numeric == Integral \cup Floats
ConstTypes == Booleans \cup Numeric \cup Strings

isBasic(t, info) == under(t).k = "Basic" /\ under(t).name \in info
\* All types of a type parameter; there must be some.
is(t, P(_)) == Terms(t) # <<>> /\ \A n \in DOMAIN Terms(t) : P(Terms(t)[n])
allBasic(t, info) == IF isTypeParam(t) THEN is(t, LAMBDA u : isBasic(u, info)) ELSE isBasic(t, info)

isUntyped(t) == t.k = "Basic" /\ t.name \in {"untyped bool", "untyped int", "untyped rune", "untyped float", "untyped string", "untyped nil"}
isTyped(t) == ~isUntyped(t)
isValid(t) == t # Typ("invalid")
hasName(t) == t.k \in {"Basic", "Named", "TypeParam"}
isPointer(t) == under(t).k = "Pointer"
isBytesOrRunes(t) == under(t).k = "Slice" /\ isBasic(under(t).elem, {"uint8", "int32"})

Default(t) ==
    CASE t = Typ("untyped bool") -> Typ("bool")
      [] t = Typ("untyped int") -> Typ("int")
      [] t = Typ("untyped rune") -> Typ("int32")
      [] t = Typ("untyped float") -> Typ("float64")
      [] t = Typ("untyped string") -> Typ("string")
      [] OTHER -> t

Rank(t) == CASE t.name = "untyped int" -> 1 [] t.name = "untyped rune" -> 2 [] t.name = "untyped float" -> 3
maxType(t, u) ==
    CASE t = u -> t
      [] t # u /\ isBasic(t, Numeric) /\ isBasic(u, Numeric) -> IF Rank(t) > Rank(u) THEN t ELSE u
      [] OTHER -> NoType

RECURSIVE comparable(_, _)
comparable(t, dynamic) ==
    CASE under(t).k = "Basic" -> t # Typ("untyped nil")
      [] under(t).k \in {"Pointer", "Chan"} -> TRUE
      [] under(t).k = "Array" -> comparable(under(t).elem, dynamic)
      [] under(t).k = "Interface" -> dynamic
      [] isTypeParam(t) -> is(t, LAMBDA u : comparable(u, FALSE))
      [] OTHER -> FALSE
Comparable(t) == comparable(t, TRUE)

RECURSIVE hasNil(_)
hasNil(t) ==
    \/ under(t).k \in {"Slice", "Pointer", "Chan", "Interface"}
    \/ isTypeParam(t) /\ is(t, LAMBDA u : hasNil(u))

\* The one underlying type of all types of t; strings count as byte slices for
\* coreString, which says string if there are some.
coreType(t) ==
    IF ~isTypeParam(t) THEN under(t)
    ELSE IF Terms(t) # <<>> /\ is(t, LAMBDA u : under(u) = under(Terms(t)[1])) THEN under(Terms(t)[1])
    ELSE NoType
coreString(t) ==
    LET bytes(u) == IF isBasic(u, Strings) THEN Slice(Typ("uint8")) ELSE under(u)
    IN IF ~isTypeParam(t) THEN under(t)
       ELSE IF Terms(t) = <<>> \/ ~is(t, LAMBDA u : bytes(u) = bytes(Terms(t)[1])) THEN NoType
       ELSE IF is(t, LAMBDA u : ~isBasic(u, Strings)) THEN bytes(Terms(t)[1]) ELSE Typ("string")

\* Only types named "M" have the method of an interface.
implements(v, t) == under(t).name = "any" \/ v = t \/ (v.k = "Named" /\ v.name = "M")

-----------------------------------------------------------------------------
(* Constants that are representable in a basic type (const.go).              *)

NoVal == [rep |-> "nil"]
UntypedNil == Typ("untyped nil")

\* The float64 nearest to x; there is none if it is infinite.
roundFloat64(x) ==
    LET f == Rounded(x.n, x.d, FloatBits, ToNearestEven)
    IN IF MantExp(f[1], f[2]) > FloatExp THEN NoVal ELSE ratVal(f[1], f[2])

\* The values of the integer types: those that fit in an int64 are compared as such.
IntRange(t, n) ==
    CASE t.name \in {"int", "untyped int", "untyped rune"} -> TRUE
      [] t.name \in {"int8", "int32"} -> fits(n, IF t.name = "int8" THEN SmallBits ELSE Width - 1)
      [] t.name = "uint" -> 0 <= n
      [] t.name = "uint8" -> 0 <= n /\ n < 2^SmallBits
BigRange(t, x) ==
    CASE t.name = "uint" -> Sign(x) >= 0 /\ BitLen(x) <= Width
      [] t.name \in {"untyped int", "untyped rune"} -> TRUE
      [] OTHER -> FALSE

\* Whether x is representable, and the value rounded to the type.
representableConst(x, t) ==
    LET i == ToInt(x)  f == ToFloat(x)
        no == [ok |-> FALSE, val |-> x]
        yes(v) == [ok |-> TRUE, val |-> v]
    IN CASE Kind(x) = "Unknown" -> yes(x)
         [] Kind(x) # "Unknown" /\ t.name \in Integral ->
                IF Kind(i) # "Int" THEN no
                ELSE IF (IF Int64Val(i)[2] THEN IntRange(t, i.n) ELSE BigRange(t, i)) THEN yes(i)
                ELSE [no EXCEPT !.val = i]
         [] Kind(x) # "Unknown" /\ t.name = "untyped float" -> IF Kind(f) = "Float" THEN yes(x) ELSE no
         [] Kind(x) # "Unknown" /\ t.name = "float64" ->
                IF Kind(f) # "Float" \/ roundFloat64(f) = NoVal THEN no ELSE yes(roundFloat64(f))
         [] Kind(x) # "Unknown" /\ t.name \in Strings -> IF Kind(x) = "String" THEN yes(x) ELSE no
         [] Kind(x) # "Unknown" /\ t.name \in Booleans -> IF Kind(x) = "Bool" THEN yes(x) ELSE no
         [] OTHER -> no

representation(x, t) ==
    LET r == representableConst(x.val, t)
    IN CASE r.ok -> [val |-> r.val, code |-> ""]
         [] ~r.ok /\ isBasic(x.typ, Numeric) /\ isBasic(t, Numeric) ->
                [val |-> NoVal, code |-> IF ~isBasic(x.typ, Integral) /\ isBasic(t, Integral)
                                         THEN "TruncatedFloat" ELSE "NumericOverflow"]
         [] OTHER -> [val |-> NoVal, code |-> "InvalidConstVal"]

-----------------------------------------------------------------------------
(* Expressions, operands and what is recorded.                               *)

Expr(k, op, typ, val, args) == [k |-> k, op |-> op, typ |-> typ, val |-> val, args |-> args]
RECURSIVE At(_, _)
At(e, path) == IF path = <<>> THEN e ELSE At(e.args[Head(path)], Tail(path))

Operand(mode, typ, val, path) == [mode |-> mode, typ |-> typ, val |-> val, expr |-> path]
isNil(x) == x.mode = "value" /\ x.typ = UntypedNil
NewChecker(e) == [root |-> e, untyped |-> <<>>, types |-> <<>>, errs |-> {}]

Result(c, x) == [c |-> c, x |-> x]
error(c, code) == [c EXCEPT !.errs = @ \cup {code}]
invalid(x) == [x EXCEPT !.mode = "invalid"]
Fail(c, x, code) == Result(error(c, code), invalid(x))

recordTypeAndValue(c, path, mode, typ, val) ==
    IF mode = "invalid" THEN c
    ELSE [c EXCEPT !.types = (path :> [mode |-> mode, typ |-> typ, val |-> val]) @@ @]
rememberUntyped(c, path, mode, typ, val) ==
    [c EXCEPT !.untyped = (path :> [isLhs |-> FALSE, mode |-> mode, typ |-> typ, val |-> val]) @@ @]
record(c, x) ==
    LET val == IF x.mode = "constant" THEN x.val ELSE NoVal
    IN IF x.mode # "invalid" /\ isUntyped(x.typ) THEN rememberUntyped(c, x.expr, x.mode, x.typ, val)
       ELSE recordTypeAndValue(c, x.expr, x.mode, x.typ, val)
\* At the end what is still untyped is recorded as such.
recordUntyped(c) ==
    [c EXCEPT !.types = [p \in DOMAIN c.untyped |->
                            [mode |-> c.untyped[p].mode, typ |-> c.untyped[p].typ, val |-> c.untyped[p].val]] @@ @]
updateExprVal(c, path, val) ==
    IF path \in DOMAIN c.untyped THEN [c EXCEPT !.untyped[path].val = val] ELSE c
Forget(c, path) == [c EXCEPT !.untyped = Restrict(@, DOMAIN @ \ {path})]

-----------------------------------------------------------------------------
(* Untyped operands.                                                         *)

\* What x becomes if it is converted to target: its type, the value rounded to
\* it, or the code of an error.
Implicit(typ, val, code) == [typ |-> typ, val |-> val, code |-> code]
NoConversion == Implicit(NoType, NoVal, "InvalidUntypedConversion")
RECURSIVE implicitTypeAndValue(_, _)
implicitTypeAndValue(x, target) ==
    LET u == under(target)
        rep == representation(x, u)
        fitting == CASE x.typ.name = "untyped bool" -> Booleans
                     [] x.typ.name \in Numeric -> Numeric
                     [] x.typ.name = "untyped string" -> Strings
                     [] OTHER -> {}
    IN CASE x.mode = "invalid" \/ isTyped(x.typ) \/ ~isValid(target) -> Implicit(x.typ, NoVal, "")
         [] isUntyped(x.typ) /\ isUntyped(target) /\ isValid(target) ->
                IF maxType(x.typ, target) = NoType THEN NoConversion
                ELSE Implicit(maxType(x.typ, target), NoVal, "")
         [] OTHER ->
            CASE u.k = "Basic" /\ x.mode = "constant" ->
                     IF rep.code = "" THEN Implicit(target, rep.val, "") ELSE Implicit(NoType, NoVal, rep.code)
              [] u.k = "Basic" /\ x.mode # "constant" ->
                     IF isBasic(target, fitting) THEN Implicit(target, NoVal, "") ELSE NoConversion
              [] isTypeParam(target) ->
                     IF ~is(target, LAMBDA t : implicitTypeAndValue(x, under(t)).typ # NoType) THEN NoConversion
                     ELSE Implicit(IF isNil(x) THEN UntypedNil ELSE target, NoVal, "")
              [] u.k = "Interface" ->
                     IF isNil(x) THEN Implicit(UntypedNil, NoVal, "")
                     ELSE IF u.name # "any" THEN NoConversion
                     ELSE Implicit(Default(x.typ), NoVal, "")
              [] u.k \in {"Pointer", "Slice", "Chan"} ->
                     IF isNil(x) THEN Implicit(UntypedNil, NoVal, "") ELSE NoConversion
              [] OTHER -> NoConversion

\* Mutant: the operands of a comparison are taken to have its type.
NoComparison(op) == FALSE
isComparison(op) == op \in {"==", "!=", "<", "<="}
isShift(op) == op \in {"<<", ">>"}

\* The type of the untyped expression at path, and of those that it is made
\* of, becomes typ; if that is final, or typed, the type is recorded.
RECURSIVE updateExprType(_, _, _, _)
RECURSIVE convertUntyped(_, _, _)
updateExprType(c, path, typ, final) ==
    LET e == At(c.root, path)
        old == c.untyped[path]
        parts == CASE e.k = "Paren" -> <<1>>
                   [] e.k = "Unary" /\ old.val = NoVal -> <<1>>
                   [] e.k = "Binary" /\ old.val = NoVal /\ ~isComparison(e.op) ->
                          IF isShift(e.op) THEN <<1>> ELSE <<1, 2>>
                   [] OTHER -> <<>>
        \* "If the new type is not final and still untyped, just update the recorded type."
        c1 == FoldLeft(LAMBDA cc, n : updateExprType(cc, Append(path, n), typ, final), c, parts)
        c2 == Forget(c1, path)
        x == Operand(old.mode, old.typ, old.val, path)
        converted == convertUntyped(c2, x, typ)
        done(cc) == recordTypeAndValue(cc, path, old.mode, typ, old.val)
    IN CASE path \notin DOMAIN c.untyped -> c
         [] path \in DOMAIN c.untyped /\ ~final /\ isUntyped(typ) -> [c1 EXCEPT !.untyped[path].typ = under(typ)]
         [] OTHER ->
            CASE old.isLhs /\ ~allBasic(typ, Integral) -> error(c2, "InvalidShiftOperand")
              [] old.val # NoVal /\ ~(old.isLhs /\ ~allBasic(typ, Integral)) ->
                     IF converted.x.mode = "invalid" THEN converted.c ELSE done(converted.c)
              [] OTHER -> done(c2)

\* Takes x to the type that implicitTypeAndValue found.
Become(c, x, new) ==
    LET y == [x EXCEPT !.val = IF new.val # NoVal THEN new.val ELSE @, !.typ = new.typ]
        c1 == IF new.val # NoVal THEN updateExprVal(c, x.expr, new.val) ELSE c
    IN Result(IF new.typ # x.typ THEN updateExprType(c1, x.expr, new.typ, FALSE) ELSE c1, y)

convertUntyped(c, x, target) ==
    LET new == implicitTypeAndValue(x, target)
    IN IF new.code # "" THEN Fail(c, x, new.code) ELSE Become(c, x, new)

representable(c, x, t) ==
    LET rep == representation(x, t)
    IN IF rep.code # "" THEN Fail(c, x, rep.code) ELSE Result(c, [x EXCEPT !.val = rep.val])

\* The value of a constant operand must be one of its type, and not be too large.
overflow(c, x) ==
    CASE Kind(x.val) = "Unknown" -> Result(error(c, "InvalidConstVal"), x)
      [] Kind(x.val) # "Unknown" /\ isTyped(x.typ) -> representable(c, x, under(x.typ))
      [] Kind(x.val) = "Int" /\ isUntyped(x.typ) ->
             IF BitLen(x.val) > Prec THEN Result(error(c, "InvalidConstVal"), [x EXCEPT !.val = unknown])
             ELSE Result(c, x)
      [] OTHER -> Result(c, x)

-----------------------------------------------------------------------------
(* Assignment and conversion.                                                *)

RECURSIVE assignableTo(_, _)
assignableTo(x, t) ==
    LET v == x.typ  vu == under(v)  tu == under(t)
        as(w) == [x EXCEPT !.typ = w]
    IN \/ x.mode = "invalid" \/ ~isValid(t) \/ v = t
       \/ /\ isUntyped(v)
          /\ IF isTypeParam(t) THEN is(t, LAMBDA u : implicitTypeAndValue(x, u).typ # NoType)
             ELSE implicitTypeAndValue(x, t).typ # NoType
       \/ /\ isTyped(v)
          /\ \/ vu = tu /\ (~hasName(v) \/ ~hasName(t)) /\ ~isTypeParam(v) /\ ~isTypeParam(t)
             \/ isNonTypeParamInterface(t) /\ implements(v, t)
             \/ /\ vu.k = "Chan" /\ vu.name = "both" /\ tu.k = "Chan" /\ vu.elem = tu.elem
                /\ ~hasName(v) \/ ~hasName(t)
             \/ ~hasName(v) /\ isTypeParam(t) /\ is(t, LAMBDA u : assignableTo(x, u))
             \/ isTypeParam(v) /\ ~hasName(t) /\ is(v, LAMBDA w : assignableTo(as(w), t))

RECURSIVE convertibleTo(_, _)
convertibleTo(x, t) ==
    LET v == x.typ  vu == under(v)  tu == under(t)
        as(w) == [x EXCEPT !.typ = w]
        vp == isTypeParam(v)  tp == isTypeParam(t)
    IN \/ assignableTo(x, t)
       \/ vu = tu /\ ~vp /\ ~tp
       \/ /\ v.k = "Pointer" /\ t.k = "Pointer"
          /\ under(v.elem) = under(t.elem) /\ ~isTypeParam(v.elem) /\ ~isTypeParam(t.elem)
       \/ isBasic(vu, Numeric) /\ isBasic(tu, Numeric)
       \/ (isBasic(vu, Integral) \/ isBytesOrRunes(vu)) /\ isBasic(tu, Strings)
       \/ isBasic(vu, Strings) /\ isBytesOrRunes(tu)
       \/ vu.k = "Slice" /\ tu.k = "Array" /\ vu.elem = tu.elem
       \/ vu.k = "Slice" /\ tu.k = "Pointer" /\ under(tu.elem).k = "Array" /\ vu.elem = under(tu.elem).elem
       \/ vp /\ tp /\ is(v, LAMBDA w : is(t, LAMBDA u : convertibleTo(as(w), u)))
       \/ vp /\ ~tp /\ is(v, LAMBDA w : convertibleTo(as(w), t))
       \/ ~vp /\ tp /\ is(t, LAMBDA u : convertibleTo(x, u))

\* The constant x converted to t: NoVal if it cannot be. A string of a code
\* point is represented by the code point.
constConvertibleTo(x, t) ==
    CASE under(t).k # "Basic" -> NoVal
      [] under(t).k = "Basic" /\ representableConst(x.val, under(t)).ok -> representableConst(x.val, under(t)).val
      [] OTHER -> IF isBasic(x.typ, Integral) /\ isBasic(t, Strings)
                  THEN MakeString(<<IF Uint64Val(x.val)[2] THEN x.val.n ELSE -1>>)
                  ELSE NoVal

conversion(c, x, t) ==
    LET constArg == x.mode = "constant"
        isConst == isBasic(t, ConstTypes)
        val == constConvertibleTo(x, t)
        ok == CASE constArg /\ isConst -> val # NoVal
                [] constArg /\ isTypeParam(t) ->
                       is(t, LAMBDA u : \/ isBasic(x.typ, Strings) /\ isBytesOrRunes(u)
                                        \/ constConvertibleTo(x, u) # NoVal)
                [] OTHER -> convertibleTo(x, t)
        y == IF constArg /\ isConst THEN [x EXCEPT !.val = val]
             ELSE [x EXCEPT !.mode = "value", !.val = NoVal]
        final == CASE isNonTypeParamInterface(t) \/ (constArg /\ ~isConst) \/ isNil(x) -> Default(x.typ)
                   [] y.mode = "constant" /\ isBasic(x.typ, Integral) /\ allBasic(t, Strings) -> x.typ
                   [] OTHER -> t
    IN IF ~ok THEN Fail(c, x, "InvalidConversion")
       ELSE Result(IF isUntyped(x.typ) THEN updateExprType(c, x.expr, final, TRUE) ELSE c, [y EXCEPT !.typ = t])

\* T is NoType if the variable has no type: it is inferred, or there is none.
assignment(c, x, T) ==
    LET target == IF T = NoType \/ isNonTypeParamInterface(T) THEN Default(x.typ) ELSE T
        new == implicitTypeAndValue(x, target)
        r == IF isUntyped(x.typ) THEN Become(c, x, new) ELSE Result(c, x)
    IN CASE x.mode = "invalid" -> Result(c, x)
         [] x.mode \in {"novalue", "typexpr"} -> Fail(c, x, "IncompatibleAssign")
         [] OTHER ->
            CASE x.typ = UntypedNil /\ T = NoType -> Fail(c, x, "UntypedNilUse")
              [] isUntyped(x.typ) /\ ~(x.typ = UntypedNil /\ T = NoType) /\ new.code # "" ->
                     Fail(c, x, IF new.code \in {"TruncatedFloat", "NumericOverflow"} THEN new.code
                                ELSE "IncompatibleAssign")
              [] OTHER -> IF T # NoType /\ ~assignableTo(r.x, T) THEN Fail(r.c, r.x, "IncompatibleAssign") ELSE r

\* A constant, or a variable, of type T, or of the type of its value.
initConst(c, x, T) ==
    CASE x.mode = "invalid" \/ ~isValid(x.typ) -> Result(c, x)
      [] x.mode \notin {"invalid", "constant"} -> Fail(c, x, "InvalidConstInit")
      [] OTHER -> assignment(c, x, IF T = NoType THEN x.typ ELSE T)
initVar(c, x, T) ==
    CASE x.mode = "invalid" \/ ~isValid(x.typ) -> Result(c, invalid(x))
      [] x.mode # "invalid" /\ T = NoType /\ x.typ = UntypedNil -> Fail(c, x, "UntypedNilUse")
      [] OTHER -> assignment(c, x, IF T = NoType THEN Default(x.typ) ELSE T)

-----------------------------------------------------------------------------
(* Operators.                                                                *)

Defined == [op \in {"+", "-", "*", "/", "%", "&", "|", "^", "&^", "&&", "||"} |->
               CASE op = "+" -> Numeric \cup Strings
                 [] op \in {"-", "*", "/"} -> Numeric
                 [] op \in {"%", "&", "|", "^", "&^"} -> Integral
                 [] op \in {"&&", "||"} -> Booleans]
UnaryDefined == [op \in {"+", "-", "^", "!"} |->
                    CASE op \in {"+", "-"} -> Numeric [] op = "^" -> Integral [] op = "!" -> Booleans]

RECURSIVE expr(_, _)
RECURSIVE exprOrType(_, _)

sizeof(t) == IF under(t).name = "uint8" THEN SmallBits ELSE Width

unary(c0, path, op) ==
    LET r == expr(c0, Append(path, 1))  c == r.c  x == r.x
        core == coreType(x.typ)
        y == [x EXCEPT !.val = UnaryOp(op, @, IF isBasic(x.typ, Unsigned) THEN sizeof(x.typ) ELSE 0),
                       !.expr = path]
    IN CASE x.mode = "invalid" -> r
         [] x.mode # "invalid" /\ op = "&" ->
                IF x.mode # "variable" THEN Fail(c, x, "UnaddressableOperand")
                ELSE Result(c, [x EXCEPT !.mode = "value", !.typ = Pointer(x.typ)])
         [] x.mode # "invalid" /\ op = "<-" ->
                IF core.k # "Chan" \/ (core.k = "Chan" /\ core.name = "send") THEN Fail(c, x, "InvalidReceive")
                ELSE Result(c, [x EXCEPT !.mode = "commaok", !.typ = core.elem])
         [] OTHER ->
            CASE ~allBasic(x.typ, UnaryDefined[op]) -> Fail(c, x, "UndefinedOp")
              [] x.mode = "constant" /\ allBasic(x.typ, UnaryDefined[op]) ->
                     IF Kind(x.val) = "Unknown" THEN r ELSE overflow(c, y)
              [] OTHER -> Result(c, [x EXCEPT !.mode = "value"])

\* Mutant: it is not remembered that the operand is shifted.
MarkNothing(c, path) == c
\* The operand at path, whose type is not known yet, must become an integer.
MarkLhs(c, path) == IF path \in DOMAIN c.untyped THEN [c EXCEPT !.untyped[path].isLhs = TRUE] ELSE c

\* The shift count: an integer, or a constant that is one.
ShiftCount(c, y) ==
    LET yval == ToInt(y.val)
    IN CASE y.mode = "constant" ->
                IF Kind(yval) = "Int" /\ Sign(yval) < 0 THEN Fail(c, y, "InvalidShiftCount")
                ELSE IF isUntyped(y.typ) THEN representable(c, y, Typ("uint"))
                ELSE Result(c, y)
         [] y.mode # "constant" /\ allBasic(y.typ, Integral) -> Result(c, y)
         [] y.mode # "constant" /\ ~allBasic(y.typ, Integral) /\ isUntyped(y.typ) ->
                convertUntyped(c, y, Typ("uint"))
         [] OTHER -> Fail(c, y, "InvalidShiftCount")

shift(c0, x, y0, path, op) ==
    LET xval == ToInt(x.val)
        integer == IF isBasic(x.typ, Integral) THEN x.typ ELSE Typ("untyped int")
        r == ShiftCount(c0, y0)  c == r.c  y == r.x
        count == Uint64Val(ToInt(y.val))
    IN IF ~(allBasic(x.typ, Integral) \/ (isUntyped(x.typ) /\ x.mode = "constant" /\ Kind(xval) = "Int"))
       THEN Fail(c0, x, "InvalidShiftOperand")
       ELSE CASE y.mode = "invalid" -> Result(c, invalid(x))
              [] x.mode = "constant" /\ y.mode = "constant" ->
                     CASE "Unknown" \in {Kind(x.val), Kind(y.val)} ->
                              Result(c, [x EXCEPT !.val = unknown, !.typ = integer])
                       [] ~(count[2] /\ count[1] <= ShiftBound) -> Fail(c, x, "InvalidShiftCount")
                       [] OTHER -> overflow(c, [x EXCEPT !.typ = integer, !.expr = path,
                                                         !.val = Shift(xval, op, count[1])])
              [] x.mode = "constant" /\ y.mode \notin {"constant", "invalid"} /\ isUntyped(x.typ) ->
                     Result(MarkLhs(c, x.expr), [x EXCEPT !.mode = "value"])
              [] OTHER -> IF ~allBasic(x.typ, Integral) THEN Fail(c, x, "InvalidShiftOperand")
                          ELSE Result(c, [x EXCEPT !.mode = "value"])

\* Whether untyped operands may be converted to the type of the other one.
mayConvert(x, y) ==
    CASE isTyped(x.typ) /\ isTyped(y.typ) -> FALSE
      [] isNonTypeParamInterface(x.typ) \/ isNonTypeParamInterface(y.typ) -> TRUE
      [] allBasic(x.typ, Booleans) # allBasic(y.typ, Booleans) -> FALSE
      [] allBasic(x.typ, Strings) # allBasic(y.typ, Strings) -> FALSE
      [] isNil(x) -> hasNil(y.typ)
      [] isNil(y) -> hasNil(x.typ)
      [] OTHER -> ~isPointer(x.typ) /\ ~isPointer(y.typ)

\* Returns the checker and both operands.
matchTypes(c, x, y) ==
    LET r == convertUntyped(c, x, y.typ)
        q == convertUntyped(r.c, y, r.x.typ)
    IN CASE ~mayConvert(x, y) -> [c |-> c, x |-> x, y |-> y]
         [] mayConvert(x, y) /\ r.x.mode = "invalid" -> [c |-> r.c, x |-> r.x, y |-> y]
         [] OTHER -> [c |-> q.c, x |-> IF q.x.mode = "invalid" THEN invalid(r.x) ELSE r.x, y |-> q.x]

\* The type bool stays untyped; the operands are not seen again and get their defaults.
comparison(c, x, y, op) ==
    LET ordered == (Numeric \cup Strings)
        code == CASE ~assignableTo(x, y.typ) /\ ~assignableTo(y, x.typ) -> "MismatchedTypes"
                  [] op \in {"==", "!="} /\ (isNil(x) \/ isNil(y)) ->
                         IF hasNil(IF isNil(x) THEN y.typ ELSE x.typ) THEN "" ELSE "UndefinedOp"
                  [] op \in {"==", "!="} /\ ~(isNil(x) \/ isNil(y)) ->
                         IF Comparable(x.typ) /\ Comparable(y.typ) THEN "" ELSE "UndefinedOp"
                  [] OTHER -> IF allBasic(x.typ, ordered) /\ allBasic(y.typ, ordered) THEN "" ELSE "UndefinedOp"
        known == x.mode = "constant" /\ y.mode = "constant"
        c1 == updateExprType(c, x.expr, Default(x.typ), TRUE)
    IN IF code # "" THEN Fail(c, x, code)
       ELSE Result(IF known THEN c ELSE updateExprType(c1, y.expr, Default(y.typ), TRUE),
                   [x EXCEPT !.typ = Typ("untyped bool"),
                             !.mode = IF known THEN @ ELSE "value",
                             !.val = IF known THEN boolVal(Compare(x.val, op, y.val)) ELSE NoVal])

binary(c0, path, op) ==
    LET rx == expr(c0, Append(path, 1))
        ry == expr(rx.c, Append(path, 2))
        m == matchTypes(ry.c, rx.x, ry.x)
        c == m.c  x == m.x  y == m.y
        known == x.mode = "constant" /\ y.mode = "constant"
        by0 == /\ x.mode = "constant" \/ allBasic(x.typ, Integral)
               /\ y.mode = "constant" /\ Sign(y.val) = 0
        op1 == IF op = "/" /\ isBasic(x.typ, Integral) THEN "/=" ELSE op
    IN IF rx.x.mode = "invalid" \/ ry.x.mode = "invalid" THEN Result(ry.c, invalid(rx.x))
       ELSE IF isShift(op) THEN shift(ry.c, rx.x, ry.x, path, op)
       ELSE IF x.mode = "invalid" THEN Result(c, x)
       ELSE IF isComparison(op) THEN comparison(c, x, y, op)
       ELSE IF x.typ # y.typ THEN Fail(c, x, "MismatchedTypes")
       ELSE IF ~allBasic(x.typ, Defined[op]) THEN Fail(c, x, "UndefinedOp")
       ELSE IF op \in {"/", "%"} /\ by0 THEN Fail(c, x, "DivByZero")
       ELSE IF ~known THEN Result(c, [x EXCEPT !.mode = "value", !.val = NoVal])
       ELSE IF "Unknown" \in {Kind(x.val), Kind(y.val)} THEN Result(c, [x EXCEPT !.val = unknown])
       ELSE overflow(c, [x EXCEPT !.val = BinaryOp(x.val, op1, y.val), !.expr = path])

-----------------------------------------------------------------------------
(* Indices and slices (index.go).                                            *)

isValidIndex(c, x0, code) ==
    LET r == convertUntyped(c, x0, Typ("int"))  x == r.x
    IN CASE x0.mode = "invalid" -> Result(c, x0)
         [] x0.mode # "invalid" /\ x.mode = "invalid" -> r
         [] OTHER ->
            CASE ~allBasic(x.typ, Integral) -> Fail(r.c, x, code)
              [] allBasic(x.typ, Integral) /\ x.mode = "constant" ->
                     IF Sign(x.val) < 0 \/ ~representableConst(x.val, Typ("int")).ok THEN Fail(r.c, x, code) ELSE r
              [] OTHER -> r

\* The value of a constant index, or -1; max is -1 if there is no limit.
index(c0, path, max) ==
    LET r0 == expr(c0, path)
        r == isValidIndex(r0.c, r0.x, "InvalidIndex")
        known == r.x.mode = "constant" /\ Kind(r.x.val) # "Unknown"
    IN CASE r.x.mode = "invalid" \/ ~known -> [c |-> r.c, val |-> -1]
         [] max >= 0 /\ r.x.val.n >= max -> [c |-> error(r.c, "InvalidIndex"), val |-> -1]
         [] OTHER -> [c |-> r.c, val |-> r.x.val.n]

\* The element of a type that is indexed: its type, the mode of the result, and
\* the length if it is known; k = "None" if it cannot be.
Element(t, mode) ==
    LET u == under(t)
        a == under(u.elem)
    IN CASE isBasic(u, Strings) -> [typ |-> Typ("uint8"), mode |-> "value", len |-> -1]
         [] u.k = "Array" -> [typ |-> u.elem, mode |-> IF mode = "variable" THEN mode ELSE "value", len |-> u.len]
         [] u.k = "Pointer" /\ a.k = "Array" -> [typ |-> a.elem, mode |-> "variable", len |-> a.len]
         [] u.k = "Slice" -> [typ |-> u.elem, mode |-> "variable", len |-> -1]
         [] OTHER -> [typ |-> NoType, mode |-> "invalid", len |-> -1]

\* "track the minimal length for an array, if any"
MinLength(len, l) == IF l >= 0 /\ l < len THEN l ELSE len

\* All types of a type parameter must have the same elements.
ParamElement(t, mode) ==
    LET elems == [n \in DOMAIN Terms(t) |-> Element(Terms(t)[n], mode)]
        all == FoldLeft(LAMBDA a, b : [typ |-> a.typ,
                                       mode |-> IF b.mode = "value" THEN "value" ELSE a.mode,
                                       len |-> MinLength(a.len, b.len)],
                        [elems[1] EXCEPT !.mode = IF @ = "value" THEN "value" ELSE "variable"], Tail(elems))
    IN IF elems # <<>> /\ \A n \in DOMAIN elems : elems[n].typ = elems[1].typ THEN all
       ELSE Element(NoType, mode)

\* What is left once the element type e of the operand r.x is known, or that there is none.
Indexed(r, e, path) ==
    LET i == index(r.c, Append(path, 2), e.len)
    IN IF e.typ = NoType THEN Fail(expr(r.c, Append(path, 2)).c, r.x, "NonIndexableOperand")
       ELSE Result(i.c, [r.x EXCEPT !.mode = e.mode, !.typ = e.typ, !.val = NoVal])

indexExpr(c0, path) ==
    LET r == exprOrType(c0, Append(path, 1))  x == r.x
        e0 == IF isTypeParam(x.typ) THEN ParamElement(x.typ, x.mode) ELSE Element(x.typ, x.mode)
        e == IF x.mode = "constant" /\ Kind(x.val) = "String" THEN [e0 EXCEPT !.len = Len(String(x.val))] ELSE e0
    IN IF x.mode = "invalid" THEN Result(expr(r.c, Append(path, 2)).c, x) ELSE Indexed(r, e, path)

\* The bounds, which are there if their argument is; those that are constant must be in order.
sliceExpr(c0, path) ==
    LET r == expr(c0, Append(path, 1))  x == r.x  c == r.c
        args == At(c0.root, path).args
        u == coreString(x.typ)
        string == isBasic(u, Strings)
        three == Len(args) = 4
        pointed == u.k = "Pointer" /\ under(u.elem).k = "Array"
        array == IF pointed THEN under(u.elem) ELSE u
        len == CASE array.k = "Array" -> array.len
                 [] string /\ x.mode = "constant" -> Len(String(x.val))
                 [] OTHER -> -1
        typ == CASE string -> IF isUntyped(x.typ) THEN Typ("string") ELSE x.typ
                 [] array.k = "Array" -> Slice(array.elem)
                 [] OTHER -> x.typ
        given(n) == n < Len(args) /\ args[n + 1].k # "None"
        bound(acc, n) ==
            LET i == index(acc.c, Append(path, n + 1), IF len >= 0 THEN len + 1 ELSE -1)
            IN CASE given(n) -> [c |-> i.c, ind |-> Append(acc.ind, i.val)]
                 [] ~given(n) /\ n = 1 -> [acc EXCEPT !.ind = Append(@, 0)]
                 [] OTHER -> [acc EXCEPT !.ind = Append(@, len)]
        b == FoldLeft(bound, [c |-> c, ind |-> <<>>], <<1, 2, 3>>)
        swapped == \E i \in 1 .. 3 : \E j \in i + 1 .. 3 : b.ind[j] >= 0 /\ b.ind[j] < b.ind[i]
        y == [x EXCEPT !.mode = "value", !.typ = typ, !.val = NoVal]
    IN IF x.mode = "invalid" THEN r
       ELSE IF u = NoType \/ (u.k = "Array" /\ x.mode # "variable") \/ ~(string \/ array.k \in {"Array", "Slice"})
       THEN Fail(c, x, "NonSliceableOperand")
       ELSE IF string /\ three THEN Fail(c, x, "InvalidSliceExpr")
       ELSE IF three /\ ~(given(2) /\ given(3)) THEN Fail(c, y, "InvalidSyntaxTree")
       ELSE Result(IF swapped THEN error(b.c, "SwappedSliceIndices") ELSE b.c, y)

-----------------------------------------------------------------------------
(* All expressions.                                                          *)

\* The value that is called, converted or written in a template.
callExpr(c, path, t) ==
    LET r == expr(c, Append(path, 1))
    IN IF r.x.mode = "invalid" THEN r ELSE conversion(r.c, r.x, t)

star(c0, path) ==
    LET r == exprOrType(c0, Append(path, 1))  x == r.x
        pointers == IF isTypeParam(x.typ) THEN Terms(x.typ) ELSE <<x.typ>>
        bases == {under(pointers[n]).elem : n \in DOMAIN pointers}
    IN CASE x.mode = "invalid" -> r
         [] x.mode = "typexpr" -> Result(r.c, [x EXCEPT !.typ = Pointer(@)])
         [] OTHER -> IF Cardinality(bases) # 1 \/ \E n \in DOMAIN pointers : ~isPointer(pointers[n])
                     THEN Fail(r.c, x, "InvalidIndirection")
                     ELSE Result(r.c, [x EXCEPT !.mode = "variable", !.typ = CHOOSE t \in bases : TRUE])

exclude(r, modes, code) == IF r.x.mode \in modes THEN Fail(r.c, r.x, code) ELSE r
singleValue(r) == IF r.x.mode = "value" /\ r.x.typ.k = "Tuple" THEN Fail(r.c, r.x, "TooManyValues") ELSE r

RECURSIVE rawExpr(_, _)
exprInternal(c, path) ==
    LET e == At(c.root, path)
        x == Operand("invalid", Typ("invalid"), NoVal, path)
    IN CASE e.k = "Lit" -> overflow(c, [x EXCEPT !.mode = "constant", !.typ = e.typ, !.val = e.val])
         [] e.k = "Const" -> Result(c, [x EXCEPT !.mode = "constant", !.typ = e.typ, !.val = e.val])
         [] e.k = "Nil" -> Result(c, [x EXCEPT !.mode = "value", !.typ = UntypedNil])
         [] e.k = "Var" -> Result(c, [x EXCEPT !.mode = "variable", !.typ = e.typ])
         [] e.k = "Value" -> Result(c, [x EXCEPT !.mode = IF e.typ = NoType THEN "novalue" ELSE "value", !.typ = e.typ])
         [] e.k = "Type" -> Result(c, [x EXCEPT !.mode = "typexpr", !.typ = e.typ])
         [] e.k = "Paren" -> rawExpr(c, Append(path, 1))
         [] e.k = "Unary" -> unary(c, path, e.op)
         [] e.k = "Binary" -> binary(c, path, e.op)
         [] e.k = "Conv" -> callExpr(c, path, e.typ)
         [] e.k = "Index" -> indexExpr(c, path)
         [] e.k = "Slice" -> sliceExpr(c, path)
         [] e.k = "Star" -> star(c, path)

rawExpr(c, path) ==
    LET r == exprInternal(c, path)
        x == [r.x EXCEPT !.expr = path]
    IN Result(record(r.c, x), x)

expr(c, path) == singleValue(exclude(rawExpr(c, path), {"novalue", "typexpr"}, "TooManyValues"))
exprOrType(c, path) == singleValue(exclude(rawExpr(c, path), {"novalue"}, "TooManyValues"))

\* The parts of a template literal in the body of a tgo function; Allowed are
\* the types that may be written, infer what is inferred for an untyped one.
templateLiteralExpr(c, path, Allowed) ==
    LET r == expr(c, path)
        T == Default(r.x.typ)
    IN CASE r.x.mode = "invalid" -> r.c
         [] r.x.mode # "invalid" /\ T = UntypedNil -> error(r.c, "CannotInferTypeArgs")
         [] OTHER -> IF T \in Allowed THEN r.c ELSE error(r.c, "InvalidTemplateLiteralType")
==============================================================================

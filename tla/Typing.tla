-------------------------------- MODULE Typing --------------------------------
(***************************************************************************)
(* What the checker of expressions promises: it accepts an expression in   *)
(* its context if the language does, and records for every part the type   *)
(* that the part has when the program runs.                                *)
(*                                                                         *)
(* The language is stated as its specification does, in two directions:    *)
(* Meaning says from the parts of an expression what it is alone, a value  *)
(* of a type or an untyped one; Fits says from above whether an untyped    *)
(* expression may take a type. "If the left operand of a non-constant      *)
(* shift expression is an untyped constant, it is first implicitly         *)
(* converted to the type it would assume if the shift expression were      *)
(* replaced by its left operand alone."                                    *)
(***************************************************************************)
EXTENDS Expressions

\* A call checks the expression e as the value of a variable or a constant of
\* type T, as an assignment to the blank identifier, or in a template literal.
Checked(call, Allowed) ==
    LET c == NewChecker(call.e)
        r == expr(c, <<>>)
    IN recordUntyped(CASE call.use = "var" -> initVar(r.c, r.x, call.T).c
                       [] call.use = "const" -> initConst(r.c, r.x, call.T).c
                       [] call.use = "_" -> assignment(r.c, r.x, NoType).c
                       [] call.use = "template" -> templateLiteralExpr(c, <<>>, Allowed))

-----------------------------------------------------------------------------
(* The language.                                                             *)

\* how: "const", "var", "value" or "none".
Is(how, typ, val) == [how |-> how, typ |-> typ, val |-> val]
Wrong == Is("none", Typ("invalid"), NoVal)

\* A constant that is a value of its type, or an untyped one that is not too large.
Constant(typ, val) ==
    CASE isTyped(typ) -> IF representableConst(val, under(typ)).ok
                         THEN Is("const", typ, representableConst(val, under(typ)).val) ELSE Wrong
      [] isUntyped(typ) -> IF Kind(val) = "Int" /\ bitLen(abs(val.n)) > Prec THEN Wrong ELSE Is("const", typ, val)

ConstantFits(s, T) ==
    CASE isTypeParam(T) -> is(T, LAMBDA t : under(t).k = "Basic" /\ representableConst(s.val, under(t)).ok)
      [] isNonTypeParamInterface(T) -> under(T).name = "any" /\ representableConst(s.val, Default(s.typ)).ok
      [] OTHER -> under(T).k = "Basic" /\ representableConst(s.val, under(T)).ok

\* In an interface an untyped value has its default type.
Dynamic(T, kind) == IF isNonTypeParamInterface(T) /\ under(T).name = "any" THEN Default(kind) ELSE T

RECURSIVE Meaning(_)
\* e, which is untyped, may be a value of type T.
RECURSIVE Fits(_, _)
Fits(e, T0) ==
    LET s == Meaning(e)
        T == Dynamic(T0, s.typ)
    IN CASE s.typ = UntypedNil -> hasNil(T0)
         [] s.how = "const" -> ConstantFits(s, T0)
         [] OTHER -> CASE e.k = "Paren" \/ e.k = "Unary" -> Fits(e.args[1], T)
                       [] e.k = "Binary" /\ isComparison(e.op) -> allBasic(T, Booleans)
                       [] e.k = "Binary" /\ isShift(e.op) -> allBasic(T, Integral) /\ Fits(e.args[1], T)
                       [] e.k = "Binary" /\ ~isComparison(e.op) /\ ~isShift(e.op) ->
                              Fits(e.args[1], T) /\ Fits(e.args[2], T)

MeaningOfUnary(e, s) ==
    CASE e.op = "&" -> IF s.how = "var" THEN Is("value", Pointer(s.typ), NoVal) ELSE Wrong
      [] e.op = "<-" -> IF coreType(s.typ).k = "Chan" /\ coreType(s.typ).name # "send"
                        THEN Is("value", coreType(s.typ).elem, NoVal) ELSE Wrong
      [] OTHER -> IF ~allBasic(s.typ, UnaryDefined[e.op]) THEN Wrong
                  ELSE IF s.how # "const" THEN Is("value", s.typ, NoVal)
                  ELSE Constant(s.typ, UnaryOp(e.op, s.val, IF isBasic(s.typ, Unsigned) THEN sizeof(s.typ) ELSE 0))

\* "The right operand in a shift expression must have integer type or be an
\* untyped constant representable by a value of type uint."
CountFits(e, s) ==
    CASE s.how = "const" /\ isUntyped(s.typ) -> representableConst(s.val, Typ("uint")).ok
      [] s.how = "const" /\ isTyped(s.typ) -> allBasic(s.typ, Integral) /\ Sign(s.val) >= 0
      [] OTHER -> IF isUntyped(s.typ) THEN Fits(e, Typ("uint")) ELSE allBasic(s.typ, Integral)

MeaningOfShift(e, s, t) ==
    LET integer == s.how = "const" /\ Kind(ToInt(s.val)) = "Int"
        known == s.how = "const" /\ t.how = "const"
    IN IF ~CountFits(e.args[2], t) \/ ~(allBasic(s.typ, Integral) \/ (isUntyped(s.typ) /\ integer)) THEN Wrong
       ELSE IF ~known THEN Is("value", s.typ, NoVal)
       ELSE IF ToInt(t.val).n > ShiftBound THEN Wrong
       ELSE Constant(IF isBasic(s.typ, Integral) THEN s.typ ELSE Typ("untyped int"),
                     Shift(ToInt(s.val), e.op, ToInt(t.val).n))

\* The type in which the operands meet; NoType if there is none.
Common(e, s, t) ==
    CASE isUntyped(s.typ) /\ isUntyped(t.typ) -> maxType(s.typ, t.typ)
      [] isTyped(s.typ) /\ isTyped(t.typ) -> IF s.typ = t.typ THEN s.typ ELSE NoType
      [] OTHER -> LET T == IF isTyped(s.typ) THEN s.typ ELSE t.typ
                      untyped == IF isTyped(s.typ) THEN e.args[2] ELSE e.args[1]
                  IN IF Fits(untyped, T) THEN T ELSE NoType

OperandOf(s) == Operand(IF s.how = "const" THEN "constant" ELSE "value", s.typ, s.val, <<>>)

MeaningOfComparison(e, s, t) ==
    LET T == Common(e, s, t)
        nil == UntypedNil \in {s.typ, t.typ}
        assignable == /\ isTyped(s.typ) /\ isTyped(t.typ)
                      /\ assignableTo(OperandOf(s), t.typ) \/ assignableTo(OperandOf(t), s.typ)
        defaults == isUntyped(s.typ) /\ isUntyped(t.typ) /\ ~(s.how = "const" /\ t.how = "const")
        applies(typ) == IF e.op \in {"==", "!="} THEN Comparable(typ) ELSE allBasic(typ, Numeric \cup Strings)
        known == s.how = "const" /\ t.how = "const"
    IN IF T = NoType /\ ~assignable THEN Wrong
       ELSE IF nil /\ (e.op \notin {"==", "!="} \/ s.typ = t.typ) THEN Wrong
       ELSE IF ~nil /\ ~(applies(s.typ) /\ applies(t.typ) /\ (T # NoType => applies(Dynamic(T, T)))) THEN Wrong
       ELSE IF defaults /\ ~(Fits(e.args[1], Default(T)) /\ Fits(e.args[2], Default(T))) THEN Wrong
       ELSE IF known THEN Is("const", Typ("untyped bool"), boolVal(Compare(s.val, e.op, t.val)))
       ELSE Is("value", Typ("untyped bool"), NoVal)

MeaningOfBinary(e, s, t) ==
    LET T == Common(e, s, t)
        in(x) == IF isUntyped(x.typ) /\ isTyped(T) THEN representableConst(x.val, under(T)).val ELSE x.val
        zero == t.how = "const" /\ Sign(t.val) = 0
        op == IF e.op = "/" /\ isBasic(T, Integral) THEN "/=" ELSE e.op
    IN IF T = NoType \/ ~allBasic(T, Defined[e.op]) THEN Wrong
       ELSE IF e.op \in {"/", "%"} /\ zero /\ (s.how = "const" \/ allBasic(T, Integral)) THEN Wrong
       ELSE IF s.how = "const" /\ t.how = "const" /\ ~isTypeParam(T) THEN Constant(T, BinaryOp(in(s), op, in(t)))
       ELSE Is("value", T, NoVal)

MeaningOfConversion(e, s) ==
    LET T == e.typ
    IN CASE s.how = "const" /\ isBasic(T, ConstTypes) ->
                IF constConvertibleTo(OperandOf(s), T) = NoVal THEN Wrong
                ELSE Is("const", T, constConvertibleTo(OperandOf(s), T))
         [] s.how = "const" /\ isTypeParam(T) ->
                IF is(T, LAMBDA t : constConvertibleTo(OperandOf(s), t) # NoVal) THEN Is("value", T, NoVal) ELSE Wrong
         [] isUntyped(s.typ) /\ ~(s.how = "const" /\ (isBasic(T, ConstTypes) \/ isTypeParam(T))) -> IF Fits(e.args[1], T) THEN Is("value", T, NoVal) ELSE Wrong
         [] OTHER -> IF convertibleTo(OperandOf(s), T) THEN Is("value", T, NoVal) ELSE Wrong

\* The types that a value of type t may have.
TypesOf(t) == IF isTypeParam(t) THEN {Terms(t)[n] : n \in DOMAIN Terms(t)} ELSE {t}
BaseOf(t) == IF under(t).k = "Pointer" /\ under(under(t).elem).k = "Array" THEN under(under(t).elem) ELSE under(t)
ElementsOf(t) == IF isBasic(t, Strings) THEN Typ("uint8")
                 ELSE IF BaseOf(t).k \in {"Array", "Slice"} THEN BaseOf(t).elem ELSE NoType
\* The lengths that are known of s, which may have the types T.
LengthsOf(s, T) ==
    {BaseOf(t).len : t \in {u \in T : BaseOf(u).k = "Array"}}
    \cup (IF s.how = "const" THEN {Len(String(s.val))} ELSE {})

\* "A constant index must be non-negative and representable by a value of type int."
IndexFits(e, t, Limits) ==
    /\ IF isUntyped(t.typ) THEN Fits(e, Typ("int")) ELSE allBasic(t.typ, Integral)
    /\ t.how = "const" => /\ Sign(t.val) >= 0 /\ representableConst(t.val, Typ("int")).ok
                          /\ \A len \in Limits : ToInt(t.val).n < len

MeaningOfIndex(e, s, t) ==
    LET T == TypesOf(s.typ)
        elems == {ElementsOf(u) : u \in T}
        assigned == \A u \in T : under(u).k = "Slice" \/ isPointer(u) \/ (under(u).k = "Array" /\ s.how = "var")
    IN IF Cardinality(elems) # 1 \/ NoType \in elems \/ ~IndexFits(e.args[2], t, LengthsOf(s, T)) THEN Wrong
       ELSE Is(IF assigned THEN "var" ELSE "value", CHOOSE u \in elems : TRUE, NoVal)

\* "If both indices are constant they must satisfy low <= high", and max is no less.
MeaningOfSlice(e, s) ==
    LET u == coreString(s.typ)
        limits == {len + 1 : len \in LengthsOf(s, {u})}
        bounds == {n \in 2 .. Len(e.args) : e.args[n].k # "None"}
        known(n) == Meaning(e.args[n]).how = "const"
    IN IF u = NoType \/ ElementsOf(u) = NoType \/ (u.k = "Array" /\ s.how # "var") THEN Wrong
       ELSE IF Len(e.args) = 4 /\ (isBasic(u, Strings) \/ ~{3, 4} \subseteq bounds) THEN Wrong
       ELSE IF \E n \in bounds : ~IndexFits(e.args[n], Meaning(e.args[n]), limits) THEN Wrong
       ELSE IF \E n, o \in bounds : n < o /\ known(n) /\ known(o) /\ ToInt(Meaning(e.args[n]).val).n > ToInt(Meaning(e.args[o]).val).n
            THEN Wrong
       ELSE Is("value", IF BaseOf(u).k = "Array" THEN Slice(BaseOf(u).elem) ELSE Default(s.typ), NoVal)

MeaningOfStar(s) ==
    IF \A t \in TypesOf(s.typ) : isPointer(t) /\ TypesOf(s.typ) # {}
    THEN Is("var", under(CHOOSE t \in TypesOf(s.typ) : TRUE).elem, NoVal) ELSE Wrong

Meaning(e) ==
    LET s == Meaning(e.args[1])  t == Meaning(e.args[2])
    IN CASE e.k \in {"Lit", "Const"} -> Constant(e.typ, e.val)
         [] e.k = "Nil" -> Is("value", UntypedNil, NoVal)
         [] e.k = "Var" -> Is("var", e.typ, NoVal)
         [] e.k = "Value" -> IF e.typ.k \in {"None", "Tuple"} THEN Wrong ELSE Is("value", e.typ, NoVal)
         [] e.k = "Type" -> Wrong
         [] e.k = "Paren" -> s
         [] OTHER -> IF s.how = "none" THEN Wrong
                     ELSE CASE e.k = "Unary" -> MeaningOfUnary(e, s)
                            [] e.k = "Conv" -> MeaningOfConversion(e, s)
                            [] e.k = "Star" -> MeaningOfStar(s)
                            [] e.k = "Slice" -> MeaningOfSlice(e, s)
                            [] e.k = "Index" -> IF t.how = "none" THEN Wrong ELSE MeaningOfIndex(e, s, t)
                            [] e.k = "Binary" ->
                                   IF t.how = "none" THEN Wrong
                                   ELSE IF isShift(e.op) THEN MeaningOfShift(e, s, t)
                                   ELSE IF isComparison(e.op) THEN MeaningOfComparison(e, s, t)
                                   ELSE MeaningOfBinary(e, s, t)

\* The type that the value has in its context.
TypeOf(call) ==
    LET s == Meaning(call.e)
    IN IF call.T = NoType \/ isNonTypeParamInterface(call.T)
       THEN IF call.use = "const" THEN s.typ ELSE Default(s.typ)
       ELSE IF isTyped(s.typ) THEN s.typ ELSE call.T

Legal(call) ==
    LET s == Meaning(call.e)
        T == TypeOf(call)
    IN /\ s.how # "none"
       /\ call.use = "const" => s.how = "const"
       /\ s.typ = UntypedNil => call.T # NoType /\ hasNil(call.T)
       /\ isTyped(s.typ) /\ call.T # NoType => assignableTo(OperandOf(s), call.T)
       /\ isUntyped(s.typ) /\ s.typ # UntypedNil /\ isTyped(T) => Fits(call.e, T)
       /\ isNonTypeParamInterface(call.T) => isTyped(s.typ) \/ s.typ = UntypedNil \/ under(call.T).name = "any"

-----------------------------------------------------------------------------
(* The types that are recorded.                                              *)

SameValue(v, w) == v = w \/ ({Kind(v), Kind(w)} \subseteq {"Int", "Float"} /\ Compare(v, "==", w))

\* The untyped parts of e, at path, have type T.
RECURSIVE Recorded(_, _, _, _)
\* So do those of its operands for which it is not said what they are from above.
OperandsRecorded(types, e, path, T) ==
    LET s == Meaning(e.args[1])  t == Meaning(e.args[2])
        common == Common(e, s, t)
        met(u) == IF isUntyped(u.typ) /\ common # NoType THEN Dynamic(common, u.typ) ELSE u.typ
        of(n, typ) == Recorded(types, e.args[n], Append(path, n), typ)
    IN CASE e.k \in {"Paren", "Unary"} -> of(1, T)
         [] e.k = "Conv" -> of(1, IF s.how = "const" /\ ~isBasic(T, ConstTypes) THEN Default(s.typ) ELSE Dynamic(T, s.typ))
         [] e.k = "Binary" /\ isShift(e.op) -> of(1, T) /\ (t.how = "const" \/ of(2, Typ("uint")))
         [] e.k = "Binary" /\ isComparison(e.op) ->
                IF common # NoType /\ isUntyped(common) THEN of(1, Default(common)) /\ of(2, Default(common))
                ELSE of(1, met(s)) /\ of(2, met(t))
         [] e.k = "Binary" /\ ~isShift(e.op) /\ ~isComparison(e.op) ->
                IF isTyped(common) THEN of(1, common) /\ of(2, common) ELSE of(1, T) /\ of(2, T)
         [] e.k \in {"Index", "Slice"} ->    \* a string remains untyped
                of(1, s.typ) /\ \A n \in 2 .. Len(e.args) : e.args[n].k # "None" => of(n, Typ("int"))
         [] e.k = "Star" -> of(1, s.typ)
         [] OTHER -> TRUE

Recorded(types, e, path, T) ==
    LET s == Meaning(e)
        typ == IF isTyped(s.typ) \/ s.typ = UntypedNil THEN s.typ ELSE T
    IN /\ path \in DOMAIN types
       /\ types[path].typ = typ
       /\ types[path].mode = "constant" <=> s.how = "const"
       /\ s.how = "const" =>    \* exactly, or rounded to the type
              \/ SameValue(types[path].val, s.val)
              \/ /\ isTyped(typ) /\ under(typ).k = "Basic"
                 /\ SameValue(types[path].val, representableConst(s.val, under(typ)).val)
       /\ s.how # "const" => OperandsRecorded(types, e, path, typ)

\* A shift count that is a constant of another type than an integer is accepted if it has one.
RECURSIVE TypedCount(_)
TypedCount(e) ==
    \/ e.k = "Binary" /\ isShift(e.op) /\ LET t == Meaning(e.args[2])
                                          IN t.how = "const" /\ isTyped(t.typ) /\ ~allBasic(t.typ, Integral)
    \/ \E n \in DOMAIN e.args : TypedCount(e.args[n])

\* "This mechanism ensures that a client sees the actual (run-time) type an
\* untyped value would have" (expr.go): exactly the legal expressions are
\* accepted, and the type and the value that are recorded for every part of one
\* are those of the language. Known exception: a count that is a typed constant.
TypesAreRecorded(call) ==
    LET c == Checked(call, {})
    IN ~TypedCount(call.e) =>
           /\ c.errs = {} <=> Legal(call)
           /\ c.errs = {} => Recorded(c.types, call.e, <<>>, TypeOf(call))

\* So do those in a template literal.
TemplatesAreTyped(call, Allowed) ==
    LET c == Checked(call, Allowed)
    IN c.errs = {} => Recorded(c.types, call.e, <<>>, Default(Meaning(call.e).typ))
==============================================================================

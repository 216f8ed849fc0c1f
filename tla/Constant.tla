------------------------------- MODULE Constant -------------------------------
(***************************************************************************)
(* The values of constants and their operations (constant/value.go).       *)
(*                                                                         *)
(* A value is of one of eight representations, and the operations choose   *)
(* the smallest that is exact. The model keeps the representations and     *)
(* scales their limits: an int64 has Width bits, a float Prec, a fraction  *)
(* is allowed components of less than MaxExp bits, and a byte is ByteBits  *)
(* of the WordBytes * ByteBits bits of a word. What math/big computes is   *)
(* exact, but for floats, which are rounded to the nearest, to even.       *)
(* Infinities are left out: they need exponents of 32 bits.                *)
(***************************************************************************)
EXTENDS Integers, Sequences, SequencesExt

CONSTANTS Width, Prec, MaxExp, Delta, ByteBits, WordBytes

abs(n) == IF n < 0 THEN -n ELSE n
sign(n) == IF n < 0 THEN -1 ELSE IF n > 0 THEN 1 ELSE 0
RECURSIVE gcd(_, _)
gcd(a, b) == IF b = 0 THEN a ELSE gcd(b, a % b)
quot(a, b) == sign(a) * sign(b) * (abs(a) \div abs(b))    \* truncated, as in Go
rem(a, b) == a - b * quot(a, b)
RECURSIVE bitLen(_)
bitLen(n) == IF n = 0 THEN 0 ELSE 1 + bitLen(n \div 2)
fits(n, bits) == -(2^(bits - 1)) <= n /\ n < 2^(bits - 1)
wrap(n) == ((n + 2^(Width - 1)) % 2^Width) - 2^(Width - 1)

-----------------------------------------------------------------------------
(* Values.                                                                   *)

Number(rep, n, d) == [rep |-> rep, n |-> n, d |-> d]
unknown == [rep |-> "unknownVal"]
boolVal(b) == [rep |-> "boolVal", b |-> b]
MakeString(s) == [rep |-> "stringVal", s |-> s]
int64Val(n) == Number("int64Val", n, 1)
intVal(n) == Number("intVal", n, 1)
ratVal(n, d) ==    \* big.Rat keeps its fraction in lowest terms
    LET g == gcd(abs(n), abs(d)) * sign(d) IN Number("ratVal", quot(n, g), quot(d, g))
floatVal(n, d) == [ratVal(n, d) EXCEPT !.rep = "floatVal"]
complexVal(re, im) == [rep |-> "complexVal", re |-> re, im |-> im]

Kind(x) ==
    CASE x.rep = "unknownVal" -> "Unknown"
      [] x.rep = "boolVal" -> "Bool"
      [] x.rep = "stringVal" -> "String"
      [] x.rep \in {"int64Val", "intVal"} -> "Int"
      [] x.rep \in {"ratVal", "floatVal"} -> "Float"
      [] x.rep = "complexVal" -> "Complex"

\* The exponent e of n/d = mant * 2**e, 0.5 <= mant < 1.
MantExp(n, d) ==
    IF n = 0 THEN 0
    ELSE LET k == bitLen(abs(n)) - bitLen(d)
             atLeast1 == IF k >= 0 THEN abs(n) >= d * 2^k ELSE abs(n) * 2^(-k) >= d
         IN IF atLeast1 THEN k + 1 ELSE k

\* n/d with a mantissa of p bits; up decides, of what is left over and the unit, whether to round up.
Rounded(n, d, p, up(_, _, _)) ==
    LET e == MantExp(n, d) - p
        num == IF e >= 0 THEN abs(n) ELSE abs(n) * 2^(-e)
        den == IF e >= 0 THEN d * 2^e ELSE d
        m == num \div den
        rounded == sign(n) * (IF up(m, num % den, den) THEN m + 1 ELSE m)
    IN IF e >= 0 THEN <<rounded * 2^e, 1>> ELSE <<rounded, 2^(-e)>>
ToNearestEven(m, left, unit) == 2 * left > unit \/ (2 * left = unit /\ m % 2 = 1)
ToZero(m, left, unit) == FALSE
AwayFromZero(m, left, unit) == left > 0

i64toi(x) == intVal(x.n)
i64tor(x) == ratVal(x.n, 1)
itor(x) == ratVal(x.n, 1)
newFloat(n, d) ==
    LET x == ratVal(n, d)  f == Rounded(x.n, x.d, Prec, ToNearestEven) IN floatVal(f[1], f[2])
i64tof(x) == newFloat(x.n, 1)
itof(x) == newFloat(x.n, 1)
rtof(x) == newFloat(x.n, x.d)
vtoc(x) == complexVal(x, int64Val(0))

smallInt(n) == bitLen(abs(n)) < MaxExp
smallFloat(x) == LET e == MantExp(x.n, x.d) IN -MaxExp < e /\ e < MaxExp

makeInt(n) == IF fits(n, Width) THEN int64Val(n) ELSE intVal(n)
makeRat(n, d) ==
    LET x == ratVal(n, d) IN IF smallInt(x.n) /\ smallInt(x.d) THEN x ELSE rtof(x)
makeFloat(n, d) == newFloat(n, d)
makeComplex(re, im) ==
    IF "Unknown" \in {Kind(re), Kind(im)} THEN unknown ELSE complexVal(re, im)

MakeUint64(n) == IF n < 2^(Width - 1) THEN int64Val(n) ELSE intVal(n)

-----------------------------------------------------------------------------
(* Strings: x + y is kept as a sum until the string is asked for.            *)

IsSum(x) == "l" \in DOMAIN x
RECURSIVE appendReverse(_, _)
appendReverse(x, list) ==
    IF IsSum(x) THEN appendReverse(x.l, appendReverse(x.r, list)) ELSE list \o <<x.s>>
String(x) == FlattenSeq(Reverse(appendReverse(x, <<>>)))

-----------------------------------------------------------------------------
(* What a value holds.                                                       *)

Int64Val(x) ==
    CASE x.rep = "int64Val" -> <<x.n, TRUE>>
      [] x.rep = "intVal" -> <<wrap(x.n), FALSE>>
      [] x.rep = "unknownVal" -> <<0, FALSE>>

Uint64Val(x) ==
    CASE x.rep = "int64Val" -> <<x.n % 2^Width, x.n >= 0>>
      [] x.rep = "intVal" -> <<x.n % 2^Width, 0 <= x.n /\ x.n < 2^Width>>
      [] x.rep = "unknownVal" -> <<0, FALSE>>

BitLen(x) ==
    CASE x.rep = "int64Val" -> bitLen((IF x.n < 0 THEN wrap(-x.n) ELSE x.n) % 2^Width)
      [] x.rep = "intVal" -> bitLen(abs(x.n))
      [] x.rep = "unknownVal" -> 0

RECURSIVE Sign(_)
Sign(x) ==
    CASE x.rep = "complexVal" -> IF Sign(x.re) = 0 /\ Sign(x.im) = 0 THEN 0 ELSE 1    \* or -1
      [] x.rep = "unknownVal" -> 1
      [] OTHER -> sign(x.n)

\* The value and its Go type; Make returns the constant.
Val(x) ==
    CASE x.rep = "boolVal" -> [type |-> "bool", val |-> x.b]
      [] x.rep = "stringVal" -> [type |-> "string", val |-> String(x)]
      [] x.rep = "int64Val" -> [type |-> "int64", val |-> x.n]
      [] x.rep = "intVal" -> [type |-> "*big.Int", val |-> x.n]
      [] x.rep = "ratVal" -> [type |-> "*big.Rat", val |-> <<x.n, x.d>>]
      [] x.rep = "floatVal" -> [type |-> "*big.Float", val |-> <<x.n, x.d>>]
      [] OTHER -> [type |-> "nil", val |-> 0]
Make(v) ==
    CASE v.type = "bool" -> boolVal(v.val)
      [] v.type = "string" -> MakeString(v.val)
      [] v.type = "int64" -> int64Val(v.val)
      [] v.type = "*big.Int" -> makeInt(v.val)
      [] v.type = "*big.Rat" -> makeRat(v.val[1], v.val[2])
      [] v.type = "*big.Float" -> makeFloat(v.val[1], v.val[2])
      [] OTHER -> unknown

\* The digits of n, the lowest first: words of an integer, bytes of a word.
RECURSIVE Digits(_, _)
Digits(n, base) == IF n = 0 THEN <<>> ELSE <<n % base>> \o Digits(n \div base, base)
Padded(s, len) == s \o [k \in 1 .. len - Len(s) |-> 0]
RECURSIVE TrimZeros(_)
TrimZeros(s) == IF s # <<>> /\ Last(s) = 0 THEN TrimZeros(Front(s)) ELSE s
Word == 2^(ByteBits * WordBytes)

Bytes(x) ==
    LET bytesOf(w) == Padded(Digits(w, 2^ByteBits), WordBytes)
    IN TrimZeros(FlattenSeq([k \in DOMAIN Digits(abs(x.n), Word) |->
                                 bytesOf(Digits(abs(x.n), Word)[k])]))

MakeFromBytes(bytes) ==
    LET byte(k) == IF k \in DOMAIN bytes THEN bytes[k] ELSE 0
        words == [i \in 1 .. (Len(bytes) + WordBytes - 1) \div WordBytes |->
                     FoldLeftDomain(LAMBDA w, j : w + byte((i - 1) * WordBytes + j) * 2^(ByteBits * (j - 1)),
                                    0, [j \in 1 .. WordBytes |-> j])]
    IN makeInt(FoldLeftDomain(LAMBDA n, i : n + words[i] * Word^(i - 1), 0, words))

Num(x) ==
    CASE Kind(x) = "Int" -> x
      [] x.rep = "ratVal" \/ (x.rep = "floatVal" /\ smallFloat(x)) -> makeInt(x.n)
      [] OTHER -> unknown
Denom(x) ==
    CASE Kind(x) = "Int" -> int64Val(1)
      [] x.rep = "ratVal" \/ (x.rep = "floatVal" /\ smallFloat(x)) -> makeInt(x.d)
      [] OTHER -> unknown

MakeImag(x) == IF Kind(x) = "Unknown" THEN x ELSE makeComplex(int64Val(0), x)
Real(x) == IF Kind(x) = "Complex" THEN x.re ELSE x
Imag(x) ==
    CASE Kind(x) = "Unknown" -> x
      [] Kind(x) = "Complex" -> x.im
      [] OTHER -> int64Val(0)

-----------------------------------------------------------------------------
(* Conversions.                                                              *)

RECURSIVE ToFloat(_)
ToFloat(x) ==
    CASE x.rep = "int64Val" -> i64tor(x)
      [] x.rep = "intVal" -> IF smallInt(x.n) THEN itor(x) ELSE itof(x)
      [] Kind(x) = "Float" -> x
      [] Kind(x) = "Complex" /\ Sign(x.im) = 0 -> ToFloat(x.re)
      [] OTHER -> unknown

\* The integer that a float is, or is but for the last bits of its mantissa.
FloatToInt(x) ==
    LET exact == <<x.n, x.d>>
        down == Rounded(x.n, x.d, Prec - Delta, ToZero)
        up == Rounded(x.n, x.d, Prec - Delta, AwayFromZero)
        tried == SelectSeq(<<exact, down, up>>, LAMBDA f : f[1] % f[2] = 0)
    IN IF smallFloat(x) /\ tried # <<>> THEN makeInt(quot(tried[1][1], tried[1][2])) ELSE unknown

ToInt(x) ==
    LET re == ToFloat(x)
        toInt(y) == CASE y.rep = "ratVal" /\ y.d = 1 -> makeInt(y.n)
                      [] y.rep = "floatVal" -> FloatToInt(y)
                      [] OTHER -> unknown
    IN CASE Kind(x) = "Int" -> x
         [] Kind(x) = "Complex" -> IF Kind(re) = "Float" THEN toInt(re) ELSE unknown
         [] OTHER -> toInt(x)

ToComplex(x) ==
    CASE Kind(x) \in {"Int", "Float"} -> vtoc(x)
      [] Kind(x) = "Complex" -> x
      [] OTHER -> unknown

-----------------------------------------------------------------------------
(* Operations. Those that the code panics on are not called.                 *)

\* Bits of numbers in two's complement: op maps two bits to one.
Bitwise(a, b, op(_, _)) ==
    LET bits == 1 + bitLen(abs(a)) + bitLen(abs(b))
        bit(n, k) == (n \div 2^k) % 2
        place(k) == IF k = bits THEN -(2^k) ELSE 2^k
    IN FoldLeftDomain(LAMBDA sum, k : sum + place(k - 1) * op(bit(a, k - 1), bit(b, k - 1)),
                      0, [k \in 1 .. bits + 1 |-> k])
And(a, b) == Bitwise(a, b, LAMBDA p, q : p * q)
Or(a, b) == Bitwise(a, b, LAMBDA p, q : p + q - p * q)
Xor(a, b) == Bitwise(a, b, LAMBDA p, q : (p + q) % 2)
AndNot(a, b) == Bitwise(a, b, LAMBDA p, q : p * (1 - q))

is32bit(n) == fits(n, Width \div 2)
\* Mutant: the operands are tested for the width of the sum.
is64bit(n) == fits(n, Width)
is63bit(n) == fits(n, Width - 1)

RECURSIVE UnaryOp(_, _, _)
UnaryOp(op, y, prec) ==
    LET inverted == -y.n - 1
    IN CASE y.rep = "unknownVal" \/ op = "+" -> y
         [] op = "-" /\ y.rep = "int64Val" -> IF wrap(-y.n) # y.n THEN int64Val(wrap(-y.n))
                                              ELSE makeInt(-y.n)
         [] op = "-" /\ y.rep = "intVal" -> makeInt(-y.n)
         [] op = "-" /\ y.rep = "ratVal" -> makeRat(-y.n, y.d)
         [] op = "-" /\ y.rep = "floatVal" -> makeFloat(-y.n, y.d)
         [] op = "-" /\ y.rep = "complexVal" -> makeComplex(UnaryOp("-", y.re, 0), UnaryOp("-", y.im, 0))
         [] op = "^" -> makeInt(IF prec > 0 THEN AndNot(inverted, -(2^prec)) ELSE inverted)
         [] op = "!" -> boolVal(~y.b)

ord(x) ==
    CASE x.rep = "unknownVal" -> 0
      [] x.rep \in {"boolVal", "stringVal"} -> 1
      [] x.rep = "int64Val" -> 2
      [] x.rep = "intVal" -> 3
      [] x.rep = "ratVal" -> 4
      [] x.rep = "floatVal" -> 5
      [] x.rep = "complexVal" -> 6

\* x in the representation of y, which is larger.
match0(x, y) ==
    CASE ord(x) < 2 -> <<x, x>>
      [] y.rep = "intVal" -> <<i64toi(x), y>>
      [] y.rep = "ratVal" -> <<IF x.rep = "int64Val" THEN i64tor(x) ELSE itor(x), y>>
      [] y.rep = "floatVal" -> <<CASE x.rep = "int64Val" -> i64tof(x)
                                   [] x.rep = "intVal" -> itof(x)
                                   [] x.rep = "ratVal" -> rtof(x), y>>
      [] y.rep = "complexVal" -> <<vtoc(x), y>>

match(x, y) ==
    CASE ord(x) < ord(y) -> match0(x, y)
      [] ord(x) > ord(y) -> Reverse(match0(y, x))
      [] OTHER -> <<x, y>>

Int64Op(a, op, b) ==
    CASE op = "+" -> IF ~is63bit(a) \/ ~is63bit(b) THEN makeInt(a + b) ELSE int64Val(wrap(a + b))
      [] op = "-" -> IF ~is63bit(a) \/ ~is63bit(b) THEN makeInt(a - b) ELSE int64Val(wrap(a - b))
      [] op = "*" -> IF ~is32bit(a) \/ ~is32bit(b) THEN makeInt(a * b) ELSE int64Val(wrap(a * b))
      [] op = "/" -> makeRat(a, b)
      [] op = "/=" -> int64Val(wrap(quot(a, b)))
      [] op = "%" -> int64Val(rem(a, b))
      [] op = "&" -> int64Val(And(a, b))
      [] op = "|" -> int64Val(Or(a, b))
      [] op = "^" -> int64Val(Xor(a, b))
      [] op = "&^" -> int64Val(AndNot(a, b))

IntOp(a, op, b) ==
    CASE op = "/" -> makeRat(a, b)
      [] op = "+" -> makeInt(a + b)
      [] op = "-" -> makeInt(a - b)
      [] op = "*" -> makeInt(a * b)
      [] op = "/=" -> makeInt(quot(a, b))
      [] op = "%" -> makeInt(rem(a, b))
      [] op = "&" -> makeInt(And(a, b))
      [] op = "|" -> makeInt(Or(a, b))
      [] op = "^" -> makeInt(Xor(a, b))
      [] op = "&^" -> makeInt(AndNot(a, b))

Fraction(x, op, y, make(_, _)) ==
    CASE op = "+" -> make(x.n * y.d + y.n * x.d, x.d * y.d)
      [] op = "-" -> make(x.n * y.d - y.n * x.d, x.d * y.d)
      [] op = "*" -> make(x.n * y.n, x.d * y.d)
      [] op = "/" -> make(x.n * y.d, x.d * y.n)
RatOp(x, op, y) == Fraction(x, op, y, makeRat)
FloatOp(x, op, y) == Fraction(x, op, y, makeFloat)

RECURSIVE BinaryOp(_, _, _)
ComplexOp(x, op, y) ==
    LET a == x.re  b == x.im  c == y.re  d == y.im
        add(p, q) == BinaryOp(p, "+", q)
        sub(p, q) == BinaryOp(p, "-", q)
        mul(p, q) == BinaryOp(p, "*", q)
        s == add(mul(c, c), mul(d, d))
    IN CASE op = "+" -> makeComplex(add(a, c), add(b, d))
         [] op = "-" -> makeComplex(sub(a, c), sub(b, d))
         [] op = "*" -> makeComplex(sub(mul(a, c), mul(b, d)), add(mul(b, c), mul(a, d)))
         [] op = "/" -> makeComplex(BinaryOp(add(mul(a, c), mul(b, d)), "/", s),
                                    BinaryOp(sub(mul(b, c), mul(a, d)), "/", s))

\* "/=" is the division of integers.
BinaryOp(x_, op, y_) ==
    LET pair == match(x_, y_)  x == pair[1]  y == pair[2]
    IN CASE x.rep = "unknownVal" -> x
         [] x.rep = "boolVal" -> boolVal(IF op = "&&" THEN x.b /\ y.b ELSE x.b \/ y.b)
         [] x.rep = "int64Val" -> Int64Op(x.n, op, y.n)
         [] x.rep = "intVal" -> IntOp(x.n, op, y.n)
         [] x.rep = "ratVal" -> RatOp(x, op, y)
         [] x.rep = "floatVal" -> FloatOp(x, op, y)
         [] x.rep = "complexVal" -> ComplexOp(x, op, y)
         [] x.rep = "stringVal" -> [rep |-> "stringVal", l |-> x, r |-> y]

Shift(x, op, s) ==
    CASE x.rep = "unknownVal" \/ s = 0 -> x
      [] op = "<<" -> makeInt(x.n * 2^s)
      [] op = ">>" /\ x.rep = "int64Val" -> int64Val(x.n \div 2^s)
      [] op = ">>" /\ x.rep = "intVal" -> makeInt(x.n \div 2^s)

cmpZero(n, op) ==
    CASE op = "==" -> n = 0
      [] op = "!=" -> n # 0
      [] op = "<" -> n < 0
      [] op = "<=" -> n <= 0
      [] op = ">" -> n > 0
      [] op = ">=" -> n >= 0

\* -1, 0 or 1: the order of two strings of numbers.
CompareStrings(s, t) ==
    LET differ == {k \in 1 .. IF Len(s) < Len(t) THEN Len(s) ELSE Len(t) : s[k] # t[k]}
        first == CHOOSE k \in differ : \A j \in differ : k <= j
    IN IF differ = {} THEN Len(s) - Len(t) ELSE s[first] - t[first]

RECURSIVE Compare(_, _, _)
Compare(x_, op, y_) ==
    LET pair == match(x_, y_)  x == pair[1]  y == pair[2]
        equal == Compare(x.re, "==", y.re) /\ Compare(x.im, "==", y.im)
    IN CASE x.rep = "unknownVal" -> FALSE
         [] x.rep = "boolVal" -> (x.b = y.b) = (op = "==")
         [] x.rep \in {"int64Val", "intVal"} -> cmpZero(x.n - y.n, op)
         [] x.rep \in {"ratVal", "floatVal"} -> cmpZero(x.n * y.d - y.n * x.d, op)
         [] x.rep = "complexVal" -> equal = (op = "==")
         [] x.rep = "stringVal" -> cmpZero(CompareStrings(String(x), String(y)), op)

-----------------------------------------------------------------------------
(* Properties of the call of one operation: op on x, or on x and y.          *)

Value(x) == <<x.n, x.d>>
Same(x, n, d) == x.n * d = n * x.d
IsReal(x) == Kind(x) \in {"Int", "Float"}
BitsOf(n) == {k \in 0 .. 2 * MaxExp : (n \div 2^k) % 2 = 1}

\* The smallest representation.
RECURSIVE Canonical(_)
Canonical(x) ==
    CASE x.rep = "int64Val" -> fits(x.n, Width)
      [] x.rep = "intVal" -> ~fits(x.n, Width)
      [] x.rep = "ratVal" -> smallInt(x.n) /\ smallInt(x.d) /\ x = ratVal(x.n, x.d)
      [] x.rep = "floatVal" -> x = newFloat(x.n, x.d)
      [] x.rep = "complexVal" -> Canonical(x.re) /\ Canonical(x.im)
      [] OTHER -> TRUE

\* -MinInt64 does not fit, and the division of int64 does not test for it.
QuotientOverflows(x, y) == x = int64Val(-(2^(Width - 1))) /\ y = int64Val(-1)

IntegersAreExact(op, x, y, z) ==
    CASE op = "+" -> Same(z, x.n + y.n, 1)
      [] op = "-" -> Same(z, x.n - y.n, 1)
      [] op = "*" -> Same(z, x.n * y.n, 1)
      [] op = "/" -> z.rep = "ratVal" => Same(z, x.n, y.n)
      [] op = "/=" -> QuotientOverflows(x, y) \/ (/\ abs(x.n - z.n * y.n) < abs(y.n)
                                                 /\ (x.n - z.n * y.n) * x.n >= 0)
      [] op = "%" -> abs(z.n) < abs(y.n) /\ z.n * x.n >= 0 /\ (x.n - z.n) % abs(y.n) = 0
      [] op = "&" -> BitsOf(z.n) = BitsOf(x.n) \cap BitsOf(y.n)
      [] op = "|" -> BitsOf(z.n) = BitsOf(x.n) \cup BitsOf(y.n)
      [] op = "^" -> BitsOf(z.n) = (BitsOf(x.n) \cup BitsOf(y.n)) \ (BitsOf(x.n) \cap BitsOf(y.n))
      [] op = "&^" -> BitsOf(z.n) = BitsOf(x.n) \ BitsOf(y.n)

\* "All representations but floatVal are mathematically exact", and the smallest
\* is taken: whatever the representations of its operands an operation gives the
\* exact value in the smallest representation that holds it, or, if fractions
\* have become too large, that value rounded once; a float stays one. The order
\* of operands does not matter, and comparing is subtracting.
OpsAreExact(c) ==
    LET x == c.x  y == c.y
        z == BinaryOp(x, c.op, y)
    IN /\ Canonical(z)
       /\ c.op \in {"+", "*"} /\ Kind(x) # "String" => z = BinaryOp(y, c.op, x)
       /\ c.op = "-" /\ Kind(x) # "Unknown" => BinaryOp(y, "-", x) = UnaryOp("-", z, 0)
       /\ IsReal(x) /\ IsReal(y) =>
              /\ c.op # "/" /\ "Float" \notin {Kind(x), Kind(y)} => Kind(z) = "Int"
              /\ "floatVal" \in {x.rep, y.rep} => z.rep = "floatVal"
              /\ z.rep = "ratVal" => RatOp(x, c.op, y) = z
              /\ z.rep = "floatVal" /\ "floatVal" \notin {x.rep, y.rep} =>
                     z = Fraction(x, c.op, y, newFloat)
              /\ c.op = "-" => \A rel \in {"==", "!=", "<", "<=", ">", ">="} :
                                   Compare(x, rel, y) = cmpZero(Sign(z), rel)
       /\ Kind(x) = "Int" /\ Kind(y) = "Int" => IntegersAreExact(c.op, x, y, z)
       /\ Kind(x) = "String" /\ Kind(y) = "String" =>
              /\ String(z) = String(x) \o String(y)
              /\ Compare(z, "==", BinaryOp(y, "+", x)) = (String(x) \o String(y) = String(y) \o String(x))

\* What is converted is the same value, or there is none: an integer is found
\* in any number that is one, and is that number again; the numerator over the
\* denominator, the bytes and the value of a constant make the constant again.
ConversionsKeep(x) ==
    LET i == ToInt(x)  f == ToFloat(x)
    IN /\ Canonical(i) /\ Canonical(f)
       /\ IsReal(x) => f = x \/ (Kind(x) = "Int" /\ (f.rep = "floatVal" \/ Same(f, x.n, x.d)))
       /\ x.rep = "ratVal" => (Kind(i) = "Int" <=> x.d = 1)
       /\ Kind(i) = "Int" /\ x.rep # "floatVal" => Compare(i, "==", x) /\ (smallInt(i.n) => ToInt(ToFloat(i)) = i)
       /\ x.rep = "floatVal" /\ x.d = 1 /\ smallFloat(x) => Same(i, x.n, 1)
       /\ IsReal(x) /\ Kind(Num(x)) = "Int" /\ (Kind(x) = "Int" => smallInt(x.n)) => Same(BinaryOp(Num(x), "/", Denom(x)), x.n, x.d)
       /\ Kind(x) = "Complex" => Compare(BinaryOp(Real(x), "+", BinaryOp(MakeImag(int64Val(1)), "*", Imag(x))), "==", x)
       /\ Kind(x) \notin {"Complex", "String"} => Make(Val(x)) = x
       /\ Kind(x) = "Int" =>
              /\ MakeFromBytes(Bytes(x)) = makeInt(abs(x.n))
              /\ 2^BitLen(x) > abs(x.n) /\ (x.n # 0 => 2^(BitLen(x) - 1) <= abs(x.n))
              /\ Int64Val(x)[2] => Int64Val(x)[1] = x.n
              /\ Uint64Val(x)[2] <=> x = MakeUint64(x.n) /\ 0 <= x.n /\ x.n < 2^Width
              /\ \A s \in 0 .. Width : /\ Shift(x, "<<", s) = BinaryOp(x, "*", makeInt(2^s))
                                       /\ Shift(Shift(x, "<<", s), ">>", s) = x
                                       /\ Canonical(Shift(x, ">>", s))
              /\ UnaryOp("^", UnaryOp("^", x, 0), 0) = x
              /\ \A p \in 1 .. Width : 0 <= x.n /\ x.n < 2^p =>
                     BinaryOp(UnaryOp("^", x, p), "+", x) = makeInt(2^p - 1)

ConstantsAreExact(c) == IF c.op = "convert" THEN ConversionsKeep(c.x) ELSE OpsAreExact(c)
==============================================================================

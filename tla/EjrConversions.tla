--------------------------- MODULE EjrConversions ---------------------------
(***************************************************************************)
(* What becomes of a value that goes from the host to JavaScript and back: *)
(* JSArg -> ejr::JSArg -> JSValue (a call, a callback's result) and        *)
(* JSValue -> ejr::JSArg -> JSArg (a callback's argument,                  *)
(* jsarg_from_jsvalue).                                                    *)
(*                                                                         *)
(* Machine numbers keep their format at any width: int has W bits, int64_t *)
(* 2W, a double a sign, an exponent code of 0..E and M fraction bits.      *)
(* Texts and the contents of typed arrays are members of small sets.       *)
(*                                                                         *)
(* A value is a function from positions to what stands there: <<>> is the  *)
(* whole value, <<2, 1>> the first item of its second item. The recursion  *)
(* of the conversions over nested arrays visits each position once.        *)
(***************************************************************************)
EXTENDS Integers, Sequences, FiniteSets

CONSTANTS
  W, M, E, Bias,   \* 32, 52, 2047 and 1023 in the program
  LongIsInt64,     \* whether int64_t is the type long, as on 64-bit Linux
  Texts,           \* strings without a NUL
  Elements,        \* element types of typed arrays the library knows
  HostArgs,        \* the values a host passes
  JsMade,          \* the values a script makes
  MaxTrips         \* bound: how often the value comes back

ASSUME FormatAssumption ==
  /\ W \in Nat /\ M \in Nat /\ E \in Nat /\ Bias \in Nat
  /\ 1 < W /\ W <= M /\ M < 2 * W /\ 0 < Bias /\ Bias + W + M < E
ASSUME OtherAssumption ==
  /\ LongIsInt64 \in BOOLEAN /\ MaxTrips \in Nat /\ Elements \subseteq STRING
  /\ {"null", "undefined", "[unsupported]", "Exception"} \subseteq Texts

VARIABLES
  at,      \* "host", "js", or "stopped" by a C++ exception
  value,   \* the value, there
  origin,  \* history: what the host passed, unless a script replaced it
  first,   \* history: what came back the first time
  trips    \* history: how often it came back

vars == <<at, value, origin, first, trips>>

-----------------------------------------------------------------------------
(* Numbers *)

Pow2[n \in Nat] == IF n = 0 THEN 1 ELSE 2 * Pow2[n - 1]

Signed(n, bits) == ((n + Pow2[bits - 1]) % Pow2[bits]) - Pow2[bits - 1]
Ints    == -Pow2[W - 1] .. Pow2[W - 1] - 1
Uints   == 0 .. Pow2[W] - 1
Int64s  == -Pow2[2 * W - 1] .. Pow2[2 * W - 1] - 1
Doubles == [neg : BOOLEAN, e : 0 .. E, f : 0 .. Pow2[M] - 1]
Floats  == {d \in Doubles : d.f % 2 = 0}

\* The value of a double, in units of its smallest positive one.
Unit         == Pow2[Bias + M - 1]
Magnitude(d) == IF d.e = 0 THEN d.f ELSE (Pow2[M] + d.f) * Pow2[d.e - 1]
Units(d)     == IF d.neg THEN -Magnitude(d) ELSE Magnitude(d)
Finite(d)    == d.e < E
Truncated(d) == IF d.neg THEN -(Magnitude(d) \div Unit) ELSE Magnitude(d) \div Unit

\* The position of the leading one of a positive integer, and k / 2^i rounded to
\* the nearest integer, ties to even.
Exponent(k) == CHOOSE p \in 0 .. 2 * W : Pow2[p] <= k /\ k < Pow2[p + 1]
Rounded(k, i) ==
  LET q == k \div Pow2[i]
      r == k % Pow2[i]
  IN  IF 2 * r > Pow2[i] \/ (2 * r = Pow2[i] /\ q % 2 = 1) THEN q + 1 ELSE q

\* The conversion of an integer to a double rounds the lower bits away.
Nearest(n) ==
  LET k == IF n < 0 THEN -n ELSE n
      p == Exponent(k)
      r == Rounded(k, p - M)
  IN  IF k = 0 THEN [neg |-> FALSE, e |-> 0, f |-> 0]
      ELSE IF p <= M THEN [neg |-> n < 0, e |-> Bias + p, f |-> k * Pow2[M - p] - Pow2[M]]
      ELSE IF r = Pow2[M + 1] THEN [neg |-> n < 0, e |-> Bias + p + 1, f |-> 0]
      ELSE [neg |-> n < 0, e |-> Bias + p, f |-> r - Pow2[M]]

JsInt(n)   == [tag |-> "int", n |-> n]
JsFloat(d) == [tag |-> "float64", d |-> d]

\* JS_NewInt64 and JS_NewUint32: a float64 when an int is too small.
NewInteger(n) == IF n \in Ints THEN JsInt(n) ELSE JsFloat(Nearest(n))

\* MUTANT of NewFloat64: values are compared, not representations.
NewFloat64ByValue(d) ==
  IF Finite(d) /\ Truncated(d) \in Ints /\ Truncated(d) * Unit = Units(d)
  THEN JsInt(Truncated(d)) ELSE JsFloat(d)

\* JS_NewFloat64: a value that an int represents, -0 apart, is stored as one.
NewFloat64(d) ==
  IF Finite(d) /\ Units(d) >= -Pow2[W - 1] * Unit /\ Units(d) <= (Pow2[W - 1] - 1) * Unit
     /\ Nearest(Truncated(d)) = d
  THEN JsInt(Truncated(d)) ELSE JsFloat(d)

\* MUTANT of ToInt32: the sign is dropped after the shifts.
ToInt32Unsigned(x) ==
  IF x.tag = "int" THEN x.n
  ELSE LET d == x.d
           shifted == ((Pow2[M] + d.f) * Pow2[d.e - Bias - M + W]) % Pow2[2 * W]
       IN  IF d.e <= Bias + W - 2 THEN Truncated(d)
           ELSE IF d.e <= Bias + W - 2 + M + 1 THEN Signed(shifted \div Pow2[W], W)
           ELSE 0

\* JS_ToInt32Free: large values modulo Pow2[W], by shifting the fraction up in a
\* word of 2W bits and taking the upper half.
ToInt32(x) ==
  IF x.tag = "int" THEN x.n
  ELSE LET d == x.d
           shifted == ((Pow2[M] + d.f) * Pow2[d.e - Bias - M + W]) % Pow2[2 * W]
           upper == Signed(shifted \div Pow2[W], W)
       IN  IF d.e <= Bias + W - 2 THEN Truncated(d)
           ELSE IF d.e <= Bias + W - 2 + M + 1 THEN Signed(IF d.neg THEN -upper ELSE upper, W)
           ELSE 0

-----------------------------------------------------------------------------
(* Values *)

NoText == "no text"    \* a null pointer, an undefined property

\* What the host can have at a position, and what JavaScript can.
Scalars ==
  [kind : {"int"}, n : Ints] \cup [kind : {"uint32"}, n : Uints]
  \cup [kind : {"int64"}, n : Int64s] \cup [kind : {"double"}, d : Doubles]
  \cup [kind : {"float"}, d : Floats] \cup [kind : {"bool"}, b : BOOLEAN]
  \cup [kind : {"string"}, s : Texts] \cup [kind : {"null", "undefined"}]
Objects ==
  [kind : {"exception"}, name : Texts \cup {NoText}, msg : Texts \cup {NoText}]
  \cup [kind : {"typed"}, elem : Elements, bytes : {"none", "some"}]
HostParts == Scalars \cup Objects \cup [kind : {"array"}, len : Nat]
JsParts ==
  [tag : {"int"}, n : Ints] \cup [tag : {"float64"}, d : Doubles]
  \cup [tag : {"bool"}, b : BOOLEAN] \cup [tag : {"string"}, s : Texts, more : BOOLEAN]
  \cup [tag : {"null", "undefined", "bigint", "object"}]
  \cup [tag : {"error"}, name : Texts \cup {NoText}, msg : Texts \cup {NoText}]
  \cup [tag : {"typed"}, elem : STRING, bytes : {"none", "some"}]
  \cup [tag : {"array"}, len : Nat]

IsArray(x)     == "len" \in DOMAIN x
Items(v, p)    == {Append(p, i) : i \in 1 .. v[p].len}
Of(v, parts)   == v = [p \in DOMAIN v |-> v[p]] /\ \A p \in DOMAIN v : v[p] \in parts
WellFormed(v)  ==
  /\ IsFiniteSet(DOMAIN v)
  /\ DOMAIN v = {<<>>} \cup UNION {Items(v, p) : p \in {q \in DOMAIN v : IsArray(v[q])}}

ASSUME ValuesAssumption ==
  /\ \A v \in HostArgs : Of(v, HostParts) /\ WellFormed(v)
  /\ \A v \in JsMade : Of(v, JsParts) /\ WellFormed(v)

Whole(x)    == [p \in {<<>>} |-> x]
IntArg(n)   == [kind |-> "int", n |-> n]
String(s)   == [kind |-> "string", s |-> s]
Throws      == [kind |-> "throws"]
IsNumber(x) == x.tag \in {"int", "float64"}

-----------------------------------------------------------------------------
(* From the host to JavaScript *)

\* jsarg_to_ejr: the union becomes a variant; an exception gets the texts it lacks.
PartToEjr(a) ==
  IF a.kind = "exception"
  THEN [a EXCEPT !.name = IF @ = NoText THEN "Exception" ELSE @,
                 !.msg = IF @ = NoText THEN "Exception" ELSE @]
  ELSE a

\* ejr::to_js: one JavaScript type for each kind, numbers as small as possible.
\* An int64_t is a number where it is the type long, and a BigInt elsewhere.
PartToJs(a) ==
  CASE a.kind = "int" -> JsInt(a.n)
    [] a.kind = "uint32" -> NewInteger(a.n)
    [] a.kind = "int64" -> IF LongIsInt64 THEN NewInteger(a.n) ELSE [tag |-> "bigint"]
    [] a.kind \in {"float", "double"} -> NewFloat64(a.d)
    [] a.kind = "bool" -> [tag |-> "bool", b |-> a.b]
    [] a.kind = "string" -> [tag |-> "string", s |-> a.s, more |-> FALSE]
    [] a.kind = "array" -> [tag |-> "array", len |-> a.len]
    [] a.kind = "typed" -> [tag |-> "typed", elem |-> a.elem, bytes |-> a.bytes]
    [] a.kind = "exception" -> [tag |-> "error", name |-> a.name, msg |-> a.msg]
    [] OTHER -> [tag |-> a.kind]

ToEjr(v) == [p \in DOMAIN v |-> PartToEjr(v[p])]
ToJs(v)  == [p \in DOMAIN v |-> PartToJs(v[p])]

-----------------------------------------------------------------------------
(* From JavaScript to the host *)

\* ejr::from_js: a string ends at its first NUL, every number becomes an int,
\* null and undefined their names, and what the library does not know
\* "[unsupported]".  An error without a name is made from a null pointer:
\* std::string throws.
PartFromJs(x) ==
  CASE x.tag = "string" -> String(x.s)
    [] x.tag = "bool" -> [kind |-> "bool", b |-> x.b]
    [] IsNumber(x) -> IntArg(ToInt32(x))
    [] x.tag = "array" -> [kind |-> "array", len |-> x.len]
    [] x.tag \in {"null", "undefined"} -> String(x.tag)
    [] x.tag = "error" ->
         IF x.name = NoText THEN Throws
         ELSE [kind |-> "exception", name |-> x.name,
               msg |-> IF x.msg = NoText THEN "Exception" ELSE x.msg]
    [] x.tag = "typed" /\ x.elem \in Elements ->
         [kind |-> "typed", elem |-> x.elem, bytes |-> x.bytes]
    [] OTHER -> String("[unsupported]")

\* ejr_to_jsarg copies each kind; a C array of no items cannot be made
\* (jsarg_carray).
PartToJsarg(a) == IF a.kind = "array" /\ a.len = 0 THEN Throws ELSE a

\* An exception in one part goes through.
OrThrows(v) == IF \E p \in DOMAIN v : v[p] = Throws THEN Whole(Throws) ELSE v
FromJs(v)   == OrThrows([p \in DOMAIN v |-> PartFromJs(v[p])])
ToJsarg(v)  == OrThrows([p \in DOMAIN v |-> PartToJsarg(v[p])])

-----------------------------------------------------------------------------

Scripted == Whole([kind |-> "made by a script"])

Init ==
  /\ at = "host" /\ trips = 0 /\ first = Whole(Throws)
  /\ value \in HostArgs
  /\ origin = value

\* An argument of a call, or the result of a callback.
HostPasses ==
  /\ at = "host" /\ trips < MaxTrips
  /\ at' = "js" /\ value' = ToJs(ToEjr(value))
  /\ UNCHANGED <<origin, first, trips>>

\* A script that got nothing makes a value of its own.
ScriptMakes ==
  /\ at = "js" /\ origin = Whole([kind |-> "undefined"]) /\ trips = 0
  /\ value' \in JsMade /\ origin' = Scripted
  /\ UNCHANGED <<at, first, trips>>

\* An argument of a callback, or the result of a call.
HostGets ==
  /\ at = "js"
  /\ value' = ToJsarg(FromJs(value))
  /\ at' = IF value' = Whole(Throws) THEN "stopped" ELSE "host"
  /\ first' = IF trips = 0 THEN value' ELSE first
  /\ trips' = trips + 1
  /\ UNCHANGED origin

Next == HostPasses \/ ScriptMakes \/ HostGets

Spec == Init /\ [][Next]_vars

-----------------------------------------------------------------------------
(* Properties *)

\* Every part is one the host or JavaScript can have, and every number one its
\* machine type can hold; a part of NumbersExact.
TypeOK ==
  /\ at \in {"host", "js", "stopped"} /\ trips \in 0 .. MaxTrips
  /\ at = "host" => Of(value, HostParts)
  /\ at = "js" => Of(value, JsParts)
  /\ at = "stopped" => value = Whole(Throws)

\* The number of a part, as a double.
NumberOf(x) == IF "n" \in DOMAIN x THEN Nearest(x.n) ELSE x.d
HostNumbers == {"int", "uint32", "float", "double"} \cup (IF LongIsInt64 THEN {"int64"} ELSE {})

\* What ECMAScript's ToInt32 says: the number without its fraction, modulo 2^W,
\* and 0 for NaN and the infinities.
Modular(d) == IF Finite(d) THEN Signed(Truncated(d), W) ELSE 0

\* A number of the host is the same number in JavaScript, the sign of zero
\* included, whatever representation JavaScript chooses for it; and the bit
\* manipulation of JS_ToInt32Free computes from it what ECMAScript says.
NumbersExact ==
  /\ TypeOK
  /\ at = "js" /\ trips = 0 /\ origin # Scripted =>
       \A p \in DOMAIN origin : origin[p].kind \in HostNumbers =>
         IsNumber(value[p]) /\ NumberOf(value[p]) = NumberOf(origin[p])
  /\ at = "js" =>
       \A p \in DOMAIN value : IsNumber(value[p]) =>
         ToInt32(value[p]) = Modular(NumberOf(value[p]))

\* What the host gets for a part it passed, without the steps in between.
PartComes(a) ==
  CASE a.kind \in {"null", "undefined"} -> String(a.kind)
    [] a.kind \in HostNumbers -> IntArg(Modular(NumberOf(a)))
    [] a.kind = "int64" /\ ~LongIsInt64 -> String("[unsupported]")
    [] OTHER -> PartToEjr(a)
Comes(v) ==
  IF \E p \in DOMAIN v : v[p].kind = "array" /\ v[p].len = 0 THEN Whole(Throws)
  ELSE [p \in DOMAIN v |-> PartComes(v[p])]

\* What comes back is what was passed, for the kinds that JavaScript can tell
\* apart and that fit an int; the other numbers come back as that int, in an
\* array too, and only an empty array, on whatever level, stops the program.
\* A value changes on its first trip or never: what a callback got can be
\* passed on and comes back as it is, nested arrays included.
ComesBack ==
  /\ at # "js" /\ trips = 1 /\ origin # Scripted => value = Comes(origin)
  /\ at = "host" /\ trips > 1 => value = first

=============================================================================

-------------------------- MODULE EjrConversionsMC --------------------------
(* Small instances of EjrConversions for TLC: every double of a format with *)
(* the proportions of the program's, and arrays of arrays.                  *)
EXTENDS EjrConversions

ArrayOf(array, s) ==
  LET P == {<<>>} \cup UNION {{<<i>> \o p : p \in DOMAIN s[i]} : i \in DOMAIN s}
  IN  [p \in P |-> IF p = <<>> THEN array ELSE s[Head(p)][Tail(p)]]
Arrays(S) ==
  {ArrayOf([kind |-> "array", len |-> Len(s)], s) : s \in UNION {[1 .. n -> S] : n \in 0 .. 3}}

Few ==
  {IntArg(1), [kind |-> "uint32", n |-> Pow2[W] - 1], [kind |-> "null"], String("null"),
   [kind |-> "double", d |-> [neg |-> TRUE, e |-> Bias, f |-> 1]]}
MCHostArgs ==
  {Whole(x) : x \in Scalars \cup Objects} \cup Arrays({Whole(x) : x \in Few})
  \cup Arrays(Arrays({Whole(IntArg(0))}))

Nameless == [tag |-> "error", name |-> NoText, msg |-> NoText]
JsScalars ==
  [tag : {"int"}, n : Ints] \cup [tag : {"float64"}, d : Doubles]
  \cup [tag : {"bigint", "object"}] \cup [tag : {"string"}, s : Texts, more : {TRUE}]
  \cup [tag : {"error"}, name : {"Exception", NoText}, msg : {"null", NoText}]
  \cup [tag : {"typed"}, elem : Elements \cup {"Float64Array"}, bytes : {"none", "some"}]
MCJsMade ==
  {Whole(x) : x \in JsScalars}
  \cup {ArrayOf([tag |-> "array", len |-> 1], <<Whole(Nameless)>>)}

=============================================================================

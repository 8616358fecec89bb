\* Ints of five bits, doubles of seven fraction bits.
CONSTANTS
  W = 5
  M = 7
  E = 15
  Bias = 2
  LongIsInt64 = TRUE
  Texts = {"null", "undefined", "[unsupported]", "Exception", "text"}
  Elements = {"Uint8Array", "BigInt64Array"}
  HostArgs <- MCHostArgs
  JsMade <- MCJsMade
  MaxTrips = 2
SPECIFICATION Spec
CHECK_DEADLOCK FALSE
INVARIANTS NumbersExact ComesBack

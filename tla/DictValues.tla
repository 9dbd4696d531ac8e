----------------------------- MODULE DictValues -----------------------------
(***************************************************************************)
(* The typed values of dict.c: what dict_get_int() and its kin make of a   *)
(* value stored with another type, and the expansion of ${key} references  *)
(* in dict_get_exp().                                                      *)
(*                                                                         *)
(* A stored value is a record.  The largest numbers of the integral types  *)
(* are given here; floating-point numbers are counted in halves.  A string *)
(* is a numeral, a letter (one character that is no digit), or a word.     *)
(***************************************************************************)
EXTENDS Integers, Sequences, FiniteSets, SequencesExt

CONSTANTS CharMax, IntMax, LongMax,     \* SCHAR_MAX, INT_MAX; LONG_MAX and LLONG_MAX
          StoredValues,     \* the values that are stored and read
          ReadDefaults,     \* defaults given to the getters
          Texts,            \* values with references, by key; a reference is a key
          MaxPasses,        \* MAX_CFG_EXP_RECURSION
          MaxText           \* MAX_CFG_EXP_STRLEN

VARIABLES stored,           \* the value under the key that is read
          reading,          \* the last read: getter, default, result
          expansion, passes      \* dict_get_exp(): buf and depth

readVars == <<stored, reading, expansion, passes>>

\* The numbers of the signed type with largest number max and of its unsigned twin,
\* and how many they are.
Signed(max)   == -max - 1 .. max
Unsigned(max) == 0 .. 2 * max + 1
Modulus(max)  == 2 * max + 2
RangeOf(type)  == CASE type = "int" -> Signed(IntMax)
                    [] type = "uint" -> Unsigned(IntMax)
                    [] type \in {"long", "llong"} -> Signed(LongMax)
                    [] type \in {"ulong", "ullong"} -> Unsigned(LongMax)
                    [] type = "char" -> Signed(CharMax)
                    [] type = "bool" -> {0, 1}

IntegralTypes == {"int", "uint", "long", "ulong", "llong", "ullong"}
FloatTypes    == {"float", "double"}

IsLetter(v) == v.type = "str" /\ v.word = "letter"

\* A stored value: a number its type can hold, any text, or nothing.  The number of a
\* letter is its code.
IsStored(v) ==
    /\ v.type \in IntegralTypes \cup FloatTypes \cup {"char", "bool", "str", "null"}
    /\ v.n \in Int
    /\ v.type \in IntegralTypes \cup {"char", "bool"} => v.n \in RangeOf(v.type)
    /\ IsLetter(v) => v.n \in RangeOf("char")

\* A long is wide enough for an unsigned int, as on every 64-bit Unix: dict_get_long()
\* casts one without a test.
ASSUME DictValuesAssumption ==
    /\ CharMax \in Nat \ {0} /\ IntMax \in Nat /\ LongMax \in Nat
    /\ CharMax <= IntMax /\ 2 * IntMax + 1 <= LongMax
    /\ \A v \in StoredValues : IsStored(v)

\* Conversion of halves to an integer drops the fraction.
Truncated(halves) == IF halves >= 0 THEN halves \div 2 ELSE -((-halves) \div 2)

\* The value of a C cast to the signed type with largest number max, and to char.
Narrowed(n, max) == LET m == n % Modulus(max) IN IF m \in Signed(max) THEN m ELSE m - Modulus(max)
AsChar(n) == Narrowed(n, CharMax)

\* parse_ll() and parse_ull(): the number as a set, empty on failure.  strtoull()
\* takes a sign and negates.
ParseLl(v)  == IF v.word = "num" THEN {v.n} \cap Signed(LongMax) ELSE {}
ParseUll(v) == IF v.word = "num" /\ (v.n \in Unsigned(LongMax) \/ -v.n \in Unsigned(LongMax))
               THEN {v.n % Modulus(LongMax)} ELSE {}

ParseBool(v) == IF v.word = "yes" \/ (v.word = "num" /\ v.n = 1) THEN {1}
                ELSE IF v.word = "no" \/ (v.word = "num" /\ v.n = 0) THEN {0} ELSE {}

\* A number of any integral type that fits; the integral part of one in halves
\* between the bounds; the same for the wide types, whose upper bound is not a float.
Fitting(v, range) == {v.n} \cap range
Low(range)  == CHOOSE n \in range : \A m \in range : n <= m
High(range) == CHOOSE n \in range : \A m \in range : m <= n
InBounds(v, range)   == IF v.n \in 2 * Low(range) .. 2 * High(range) THEN {Truncated(v.n)} ELSE {}
BelowBound(v, range) == IF v.n \in 2 * Low(range) .. 2 * High(range) + 1 THEN {Truncated(v.n)} ELSE {}

FirstOf(a, b) == IF a # {} THEN a ELSE b

-----------------------------------------------------------------------------
(* The getters: the results possible, none if the default is returned.     *)

\* Mutant: the low bits of a wider number.
GetIntCast(v) ==
    CASE v.type \in IntegralTypes -> {Narrowed(v.n, IntMax)}
      [] OTHER -> {}

GetInt(v) ==
    CASE v.type \in IntegralTypes -> Fitting(v, Signed(IntMax))
      [] v.type \in FloatTypes -> InBounds(v, Signed(IntMax))
      [] v.type \in {"char", "bool"} -> {v.n}
      [] v.type = "str" -> FirstOf(ParseLl(v) \cap Signed(IntMax), ParseUll(v) \cap Signed(IntMax))
      [] OTHER -> {}

GetUint(v) ==
    CASE v.type \in IntegralTypes -> Fitting(v, Unsigned(IntMax))
      [] v.type \in FloatTypes -> InBounds(v, Unsigned(IntMax))
      [] v.type = "bool" -> {v.n}
      [] v.type = "char" -> {v.n % Modulus(CharMax)}
      [] v.type = "str" -> FirstOf(ParseUll(v) \cap Unsigned(IntMax), ParseLl(v) \cap Unsigned(IntMax))
      [] OTHER -> {}

GetUlong(v) ==
    CASE v.type \in IntegralTypes -> Fitting(v, Unsigned(LongMax))
      [] v.type \in FloatTypes -> BelowBound(v, Unsigned(LongMax))
      [] v.type = "bool" -> {v.n}
      [] v.type = "str" -> FirstOf(ParseUll(v), ParseLl(v) \cap Unsigned(LongMax))
      [] OTHER -> {}

GetLong(v) ==
    CASE v.type = "uint" -> {Narrowed(v.n, LongMax)}
      [] v.type \in IntegralTypes \ {"uint"} -> Fitting(v, Signed(LongMax))
      [] v.type \in FloatTypes -> BelowBound(v, Signed(LongMax))
      [] v.type = "bool" -> {v.n}
      [] v.type = "str" -> ParseLl(v)
      [] OTHER -> {}

GetLlong(v) ==
    CASE v.type \in IntegralTypes -> Fitting(v, Signed(LongMax))
      [] v.type \in FloatTypes -> BelowBound(v, Signed(LongMax))
      [] v.type = "bool" -> {v.n}
      [] v.type = "str" -> FirstOf(ParseLl(v), ParseUll(v) \cap Signed(LongMax))
      [] OTHER -> {}

GetUllong(v) ==
    CASE v.type \in IntegralTypes -> Fitting(v, Unsigned(LongMax))
      [] v.type \in FloatTypes -> BelowBound(v, Unsigned(LongMax))
      [] v.type = "bool" -> {v.n}
      [] v.type = "char" -> {v.n % Modulus(CharMax)}
      [] v.type = "str" -> ParseUll(v)
      [] OTHER -> {}

\* A floating-point number that does not fit may become anything.  A letter is its code.
GetChar(v) ==
    CASE v.type \in IntegralTypes \cup {"char", "bool"} -> {AsChar(v.n)}
      [] v.type \in FloatTypes ->
            IF Truncated(v.n) \in Signed(CharMax) THEN {Truncated(v.n)} ELSE Signed(CharMax)
      [] v.type = "str" -> FirstOf({AsChar(n) : n \in ParseLl(v)}, IF v.word = "letter" THEN {v.n} ELSE {})
      [] OTHER -> {}

\* In halves.
GetDouble(v) ==
    CASE v.type \in FloatTypes -> {v.n}
      [] v.type \in IntegralTypes \cup {"char", "bool"} -> {2 * v.n}
      [] v.type = "str" /\ v.word = "num" -> {2 * v.n}
      [] OTHER -> {}

GetBool(v) ==
    CASE v.type \in IntegralTypes \cup FloatTypes \cup {"char", "bool"} -> {IF v.n # 0 THEN 1 ELSE 0}
      [] v.type = "str" -> ParseBool(v)
      [] OTHER -> {}

Got(getter, v) ==
    CASE getter = "int" -> GetInt(v) [] getter = "uint" -> GetUint(v)
      [] getter = "long" -> GetLong(v) [] getter = "ulong" -> GetUlong(v)
      [] getter = "llong" -> GetLlong(v) [] getter = "ullong" -> GetUllong(v)
      [] getter = "char" -> GetChar(v) [] getter = "double" -> GetDouble(v)
      [] OTHER -> GetBool(v)

Getters == IntegralTypes \cup {"char", "double", "bool"}

-----------------------------------------------------------------------------
NoText     == <<>>
UnknownRef == "?"

ReadStart ==
    /\ stored \in StoredValues
    /\ reading = [getter |-> "none", def |-> 0, result |-> 0]
    /\ expansion = NoText /\ passes = 0

ReadValue(getter, def) ==
    /\ expansion = NoText
    /\ \E r \in (IF Got(getter, stored) = {} THEN {def} ELSE Got(getter, stored)) :
            reading' = [getter |-> getter, def |-> def, result |-> r]
    /\ UNCHANGED <<stored, expansion, passes>>

Cut(s) == IF Len(s) > MaxText - 1 THEN SubSeq(s, 1, MaxText - 1) ELSE s

\* dict_get_exp() copies the value it expands.
GetExp(key) ==
    /\ reading.getter = "none" /\ expansion = NoText
    /\ expansion' = Cut(Texts[key])
    /\ passes' = 0
    /\ UNCHANGED <<stored, reading>>

\* One character, or what cfg_get() has for the reference, as far as there is room;
\* nothing for a reference to a key that is not there.
Put(done, t) ==
    IF Len(done) >= MaxText - 1 \/ t = UnknownRef THEN done
    ELSE Cut(done \o (IF t \in DOMAIN Texts THEN Texts[t] ELSE <<t>>))

\* One pass over the text.  A pass that puts nothing in ends the expansion, and the
\* text stays as it was, unknown references included.
ExpandPass ==
    /\ expansion # NoText
    /\ passes < MaxPasses
    /\ \E i \in 1 .. Len(expansion) : expansion[i] \in DOMAIN Texts
    /\ expansion' = FoldLeft(Put, <<>>, expansion)
    /\ passes' = passes + 1
    /\ UNCHANGED <<stored, reading>>

ReadNext ==
    \/ \E g \in Getters, d \in ReadDefaults : ReadValue(g, d)
    \/ \E k \in DOMAIN Texts : GetExp(k)
    \/ ExpandPass

ReadSpec == ReadStart /\ [][ReadNext]_readVars

-----------------------------------------------------------------------------
\* Types; an expansion stays within its buffer whatever refers to what, itself included.
DictValuesTypeOK ==
    /\ Len(expansion) <= MaxText - 1
    /\ stored \in StoredValues
    /\ reading.getter \in Getters \cup {"none"}
    /\ passes \in 0 .. MaxPasses

\* The number a stored value stands for.
Meant(v) == IF v.type \in FloatTypes THEN Truncated(v.n) ELSE v.n
IsNumber(v) == v.type \notin {"str", "null"} \/ (v.type = "str" /\ v.word = "num")

\* Strings strtoull() negates, and bytes read as unsigned: the number is not kept.
Reinterprets(getter, v) ==
    \/ v.type = "str" /\ v.n < 0 /\ (getter \in {"uint", "ulong", "ullong"} \/ v.n \notin Signed(LongMax))
    \/ v.type = "char" /\ v.n < 0

\* A number is read as itself or not at all: an integral getter returns the stored
\* number when the type it returns can hold it and its default when it cannot,
\* whatever two types, signs and widths meet; only a byte getter cuts bits off, and it
\* reads a letter as that letter.
ReadsAreExact ==
    LET g == reading.getter
        fits == Meant(stored) \in RangeOf(g)
    IN /\ g \in IntegralTypes \cup {"char"} /\ IsNumber(stored) /\ ~Reinterprets(g, stored) =>
           /\ fits /\ stored.type \notin FloatTypes \cup {"char"} => reading.result = Meant(stored)
           /\ fits => reading.result \in {Meant(stored), reading.def}
           /\ ~fits /\ g # "char" => reading.result = reading.def
       /\ g = "char" /\ IsLetter(stored) => reading.result = stored.n
=============================================================================

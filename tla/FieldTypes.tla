------------------------------ MODULE FieldTypes ------------------------------
(***************************************************************************)
(* The types of a field (shared/types.h): their widths, the value of each  *)
(* that stands for null, and the order in which documents, archives and    *)
(* iterators go through them.                                              *)
(***************************************************************************)
EXTENDS Integers, Sequences

CONSTANTS Bits,  \* the width of each integer type
          NaN    \* not a number, apart from every number

Signed == <<"i8", "i16", "i32", "i64">>

Unsigned == <<"u8", "u16", "u32", "u64">>

Types == <<"null", "bool">> \o Signed \o Unsigned \o <<"float", "string", "object">>

TypeSet == {Types[i] : i \in DOMAIN Types}

SignedSet == {Signed[i] : i \in DOMAIN Signed}

UnsignedSet == {Unsigned[i] : i \in DOMAIN Unsigned}

ASSUME FieldTypesAssumption ==
    /\ Bits \in [SignedSet \cup UnsignedSet -> Nat]
    /\ \A i \in 1..4 : Bits[Signed[i]] = Bits[Unsigned[i]] /\ Bits[Signed[i]] >= 3
    /\ \A i \in 1..3 : Bits[Signed[i]] < Bits[Signed[i + 1]]
    /\ NaN \in Int

(* 2^n *)
Pow2[n \in Nat] == IF n = 0 THEN 1 ELSE 2 * Pow2[n - 1]

MaxOf(t) == Pow2[IF t \in SignedSet THEN Bits[t] - 1 ELSE Bits[t]] - 1

MinOf(t) == IF t \in SignedSet THEN -Pow2[Bits[t] - 1] ELSE 0

(* NG5_LIMITS_*: the largest value of an integer type is its null.         *)
InLimits(t, n) == n \in MinOf(t)..(MaxOf(t) - 1)

(* NG5_NULL_*.  A string is its identifier here.                           *)
NullOf(t) == CASE t = "bool" -> MaxOf("i8")
               [] t \in SignedSet \cup UnsignedSet -> MaxOf(t)
               [] t = "float" -> NaN
               [] OTHER -> 0

(* NG5_IS_NULL_*: a comparison with NAN holds for no number, so a null     *)
(* among floats is not recognised.                                         *)
IsNull(t, v) == t # "float" /\ v = NullOf(t)

(* A conversion in C to an integer type. *)
Cast(t, n) == LET m == Pow2[Bits[t]]
              IN  IF t \in SignedSet THEN ((n + m \div 2) % m) - m \div 2 ELSE n % m

(* The groups of properties an object has, by the marker in front of each, *)
(* in the order of the offsets in an archive.                              *)
Kinds == [i \in 1..26 |-> IF i <= 13 THEN <<"prop", Types[i]>> ELSE <<"array", Types[i - 13]>>]

(* The sequence of what is made of each element (as a tuple, which TLC     *)
(* evaluates once).                                                        *)
Each(s, Op(_)) == SubSeq([i \in DOMAIN s |-> Op(s[i])], 1, Len(s))

KindSet == {Kinds[i] : i \in DOMAIN Kinds}
=============================================================================

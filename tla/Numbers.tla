------------------------------- MODULE Numbers -------------------------------
(***************************************************************************)
(* The types of numbers when a JSON value is imported (doc.c): the type of *)
(* one number, and the type that all elements of an array are given.       *)
(***************************************************************************)
EXTENDS FieldTypes, FiniteSetsExt

(* A signed type where it fits.  Only a number above all signed ones is    *)
(* read as unsigned.                                                       *)

Smallest(ladder, n) ==
    LET fits == {i \in 1..3 : InLimits(ladder[i], n)}
    IN  ladder[IF fits = {} THEN 4 ELSE Min(fits)]

NumberType(v) == IF v.float THEN "float"
                 ELSE Smallest(IF v.num > MaxOf("i64") THEN Unsigned ELSE Signed, v.num)

-----------------------------------------------------------------------------
(* What a type keeps its place against when the elements of an array are   *)
(* gone through; any other type takes over.                                *)
Narrower(t) == CASE t = "i16" -> {"i8"}
                 [] t = "i32" -> {"i8", "i16"}
                 [] t = "i64" -> {"i8", "i16", "i32"}
                 [] t = "u32" -> {"u8", "u16"}
                 [] t = "u64" -> {"u8", "u16", "u32"}
                 [] t = "float" -> TypeSet
                 [] OTHER -> {}

(* Mutation of the operator that follows: the last number has its way.     *)
WidenedToLast(t, new) == IF t = "float" THEN t ELSE new

Widened(t, new) == IF new \in Narrower(t) THEN t ELSE new

(* The type after each element of an array of numbers and nulls.           *)
TypesSoFar(items) ==
    LET after[i \in 0..Len(items)] ==
            IF i = 0 THEN "null"
            ELSE IF items[i].kind = "null" THEN after[i - 1]
            ELSE Widened(after[i - 1], NumberType(items[i]))
    IN  after

NumbersType(items) == TypesSoFar(items)[Len(items)]

(* An element of an array of numbers or booleans. *)
Stored(type, v) ==
    IF v.kind = "null" THEN NullOf(type)
    ELSE CASE type = "bool" -> CASE v.kind = "true" -> 1 [] v.kind = "false" -> 0
                                 [] OTHER -> NullOf(type)
           [] type = "float" -> IF v.float THEN v.num ELSE 2 * v.num
           [] OTHER -> Cast(type, v.num)
=============================================================================

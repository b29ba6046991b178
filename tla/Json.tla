--------------------------------- MODULE Json ---------------------------------
(***************************************************************************)
(* json_parse and json_test (json.c) on one input: it is read as tokens    *)
(* (JsonTokens), a tree is built of them and tested (JsonTree).            *)
(***************************************************************************)
EXTENDS JsonTokens, JsonTree

CONSTANT Documents  \* JSON values, printed by a generator other than this code

VARIABLE json  \* the tree, or None

None == Word("none")

parserVars == <<input, tokens, brackets, memory, status, json>>

ParserInit == ReaderInit /\ json = None

Parsed == ParseElement(tokens, 1)

Parse == /\ status = "whole"
         /\ LET r == Parsed
            IN  IF r.outcome = "built" THEN json' = r.value /\ status' = "parsed"
                ELSE json' = None /\ status' = r.outcome
         /\ UNCHANGED <<input, tokens, brackets, memory>>

Test == /\ status = "parsed"
        /\ status' = IF JsonTest(json) THEN "passed" ELSE "refused"
        /\ UNCHANGED <<input, tokens, brackets, memory, json>>

ReadText == ReaderNext /\ UNCHANGED json

ParserNext == ReadText \/ Parse \/ Test

ParserSpec == ParserInit /\ [][ParserNext]_parserVars

-----------------------------------------------------------------------------
(* Properties *)

(* What a JSON text means: the value it was printed from, but that this    *)
(* parser takes an empty array for an array of one null.                   *)
RECURSIVE AsRead(_)

AsRead(value) ==
    CASE value.kind = "array" ->
           Array(IF value.items = <<>> THEN <<Word("null")>> ELSE Each(value.items, AsRead))
      [] value.kind = "object" ->
           Object(Each(value.members, LAMBDA m : Member(m.name, AsRead(m.value))))
      [] OTHER -> value

Texts == {[text |-> JsonPrint(d), value |-> AsRead(d)] : d \in Documents}

(* A JSON document is read as what it says: no token of it is refused, no  *)
(* bracket found open, and the tree has its values in their places.  (The  *)
(* tokenizer makes true, false or null unknown at the very end of the      *)
(* input: a text that is just this word needs a blank behind it.)          *)
DocumentsRead ==
    \A t \in Texts :
      /\ IsPrefix(input, t.text) => status # "rejected"
      /\ input = t.text => /\ status \notin {"unclosed", "failed", "crashed"}
                           /\ json # None => json = t.value

RECURSIVE Inside(_)

Inside(value) == {value} \cup
    CASE value.kind = "array" -> UNION {Inside(value.items[i]) : i \in DOMAIN value.items}
      [] value.kind = "object" -> UNION {Inside(v) : v \in Values(value.members)}
      [] OTHER -> {}

(* The import has no representation for an array in an array and ends the  *)
(* process: json_test lets none pass, however deep in the document.        *)
NoArrayOfArrays == status = "passed" =>
                     \A a \in {v \in Inside(json) : v.kind = "array"} : \A i \in DOMAIN a.items : a.items[i].kind # "array"
=============================================================================

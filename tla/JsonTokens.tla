------------------------------ MODULE JsonTokens ------------------------------
(***************************************************************************)
(* The first half of json_parse (json.c): tokens are taken from the input  *)
(* one by one and checked against the token before and the open brackets,  *)
(* until the input ends or a token is out of place.                        *)
(***************************************************************************)
EXTENDS Integers, Sequences, FiniteSets

CONSTANTS Source,    \* tokens, [type, data]: any of them make an input
          MaxTokens, \* bound on the length of such an input
          Long       \* inputs beside these

Literals == {"string", "float", "int", "true", "false", "null"}

Openers == {"{", "["}

Closers == {"}", "]"}

TokenTypes == Literals \cup Openers \cup Closers \cup {",", ":", "unknown"}

TokenSet == [type : TokenTypes, data : Int]

ASSUME JsonTokensAssumption ==
    /\ Source \subseteq TokenSet
    /\ MaxTokens \in Nat
    /\ \A text \in Long : text \in Seq(TokenSet)

VARIABLES input,     \* what the tokenizer has made of the text so far
          tokens,    \* token_stream
          brackets,  \* the stack of brackets
          memory,    \* token_mem: the type of the token before, or "none"
          status     \* how far the text has come

readerVars == <<input, tokens, brackets, memory, status>>

ReaderInit == /\ input = <<>>
              /\ tokens = <<>>
              /\ brackets = <<>>
              /\ memory = "none"
              /\ status = "reading"

-----------------------------------------------------------------------------
(* json_tokenizer_next tells a word from the character behind it: a word   *)
(* with which the input ends is not known.                                 *)
Tokenized(token, last) ==
    IF last /\ token.type \in {"true", "false", "null"}
    THEN [token EXCEPT !.type = "unknown"] ELSE token

Starts == Literals \cup Openers

(* Mutation of the operator that follows: an array is not empty.           *)
FollowsFull(type) ==
    CASE type = "{" -> {"string", "}"}
      [] type = "string" -> {":", ",", "]", "}"}
      [] type \in {"none", "[", ":", ","} -> Starts
      [] type \in Closers \cup (Literals \ {"string"}) -> {",", "]", "}"}
      [] OTHER -> {}

(* process_token: what may come behind a token. *)
Follows(type) ==
    CASE type = "none" -> Starts
      [] type = "{" -> {"string", "}"}
      [] type = "[" -> Starts \cup {"]"}
      [] type = "string" -> {":", ",", "]", "}"}
      [] type \in {":", ","} -> Starts
      [] type \in Closers \cup (Literals \ {"string"}) -> {",", "]", "}"}
      [] OTHER -> {}

(* Mutation of the operator that follows: a closer of any kind closes.     *)
BracketsPopped(type) ==
    CASE type \in Openers -> Append(brackets, type)
      [] type \in Closers -> IF brackets = <<>> THEN <<type>>
                             ELSE SubSeq(brackets, 1, Len(brackets) - 1)
      [] OTHER -> brackets

(* A closer that matches the last bracket pops it and any other is pushed. *)
BracketsAfter(type) ==
    CASE type \in Openers -> Append(brackets, type)
      [] type \in Closers ->
           IF brackets # <<>> /\ <<brackets[Len(brackets)], type>> \in {<<"{", "}">>, <<"[", "]">>}
           THEN SubSeq(brackets, 1, Len(brackets) - 1)
           ELSE Append(brackets, type)
      [] OTHER -> brackets

Accept(token) == /\ token.type \in Follows(memory)
                 /\ tokens' = Append(tokens, token)
                 /\ memory' = token.type

(* Bound: what may come next in the inputs there are. *)
NextTokens ==
    LET n == Len(input)
    IN  (IF n < MaxTokens THEN Source ELSE {})
          \cup {text[n + 1] : text \in {t \in Long : n < Len(t) /\ SubSeq(t, 1, n) = input}}

(* A token is read; last says that the input ends with it. *)
Read(token, last) ==
    /\ status = "reading"
    /\ LET t == Tokenized(token, last)
       IN  /\ input' = Append(input, t)
           /\ brackets' = BracketsAfter(t.type)
           /\ \/ Accept(t) /\ status' = IF last THEN "last" ELSE "reading"
              \/ /\ t.type \notin Follows(memory)
                 /\ status' = "rejected"
                 /\ UNCHANGED <<tokens, memory>>

EndOfInput == /\ status \in {"reading", "last"}
              /\ status' = IF brackets = <<>> THEN "whole" ELSE "unclosed"
              /\ UNCHANGED <<input, tokens, brackets, memory>>

ReaderNext == (\E token \in NextTokens, last \in BOOLEAN : Read(token, last)) \/ EndOfInput

ReaderSpec == ReaderInit /\ [][ReaderNext]_readerVars

-----------------------------------------------------------------------------
(* Properties *)

(* A closing bracket that matches nothing is not reported where it stands. *)
(* It is never forgotten either: once one is on the stack, none of the     *)
(* tokens that follow takes it away, and the text is not accepted.         *)
Mismatched == \E i \in DOMAIN brackets : brackets[i] \in Closers

MismatchStays == [][Mismatched => Mismatched' /\ status' # "whole"]_readerVars

(* The functions that build the tree look at few of the tokens they skip:  *)
(* they rely on a stream in which every token may follow the one before.   *)
EachFollows == \A i \in DOMAIN tokens :
                 tokens[i].type \in Follows(IF i = 1 THEN "none" ELSE tokens[i - 1].type)

(* Every bracket of an accepted text is closed, by one of its kind, in the *)
(* order in which they were opened: the text between a bracket and the     *)
(* first one that brings the depth back to it is closed by a match.        *)
Depth(i) == Cardinality({k \in 1..i : tokens[k].type \in Openers})
              - Cardinality({k \in 1..i : tokens[k].type \in Closers})

Nested == status = "whole" =>
            /\ \A i \in DOMAIN tokens : Depth(i) >= 0
            /\ \A i \in DOMAIN tokens : tokens[i].type \in Openers =>
                 \E k \in (i + 1)..Len(tokens) :
                   /\ <<tokens[i].type, tokens[k].type>> \in {<<"{", "}">>, <<"[", "]">>}
                   /\ Depth(k) = Depth(i) - 1
                   /\ \A m \in i..(k - 1) : Depth(m) >= Depth(i)
=============================================================================

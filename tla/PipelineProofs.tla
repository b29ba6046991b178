---------------------------- MODULE PipelineProofs ----------------------------
(***************************************************************************)
(* What holds of four parts of the document pipeline for every input.      *)
(*                                                                         *)
(* The first half of json_parse: a closing bracket that matches nothing is *)
(* never forgotten, in the stream of tokens each one may follow the one    *)
(* before, and a text that was read to its end is well nested.             *)
(*                                                                         *)
(* The import: numbers are stored as they are, in arrays too, and every    *)
(* field of an array of objects is in its column once.                     *)
(*                                                                         *)
(* The quicksort of the columns: it ends, within its stack; it keeps every *)
(* index, whatever the comparison function answers; and by a total order   *)
(* it leaves the elements in order.                                        *)
(***************************************************************************)
EXTENDS JsonTokens, Sorting, Numbers, ColumnLayout, SequenceTheorems, FiniteSetTheorems, WellFoundedInduction, TLAPS

Brackets == Openers \cup Closers

Statuses == {"reading", "last", "rejected", "whole", "unclosed"}

(* Types of the variables of json_parse. *)
ReaderTypeOK == /\ input \in Seq(TokenSet)
                /\ tokens \in Seq(TokenSet)
                /\ brackets \in Seq(Brackets)
                /\ memory \in TokenTypes \cup {"none"}
                /\ status \in Statuses

-----------------------------------------------------------------------------
(* Sequences *)

(* The sequence without its last element. *)
LEMMA PoppedSeq ==
    ASSUME NEW S, NEW s \in Seq(S), s # <<>>
    PROVE  /\ SubSeq(s, 1, Len(s) - 1) \in Seq(S)
           /\ Len(SubSeq(s, 1, Len(s) - 1)) = Len(s) - 1
           /\ \A i \in 1..(Len(s) - 1) : SubSeq(s, 1, Len(s) - 1)[i] = s[i]
  <1> DEFINE m == Len(s) - 1
  <1>1. m \in Nat /\ 1 \in Int /\ m \in Int
    OBVIOUS
  <1>2. \A i \in 1..m : s[i] \in S
    BY <1>1
  <1>3. /\ SubSeq(s, 1, m) \in Seq(S)
        /\ Len(SubSeq(s, 1, m)) = IF 1 <= m THEN m - 1 + 1 ELSE 0
        /\ \A i \in 1..(m - 1 + 1) : SubSeq(s, 1, m)[i] = s[1 + i - 1]
    BY <1>1, <1>2, SubSeqProperties
  <1> HIDE DEF m
  <1>4. Len(SubSeq(s, 1, m)) = m /\ \A i \in 1..m : SubSeq(s, 1, m)[i] = s[i]
    BY <1>1, <1>3
  <1> QED
    BY <1>3, <1>4 DEF m

(* The sequence with one element more. *)
LEMMA AppendedSeq ==
    ASSUME NEW S, NEW s \in Seq(S), NEW e \in S
    PROVE  /\ Append(s, e) \in Seq(S)
           /\ Len(Append(s, e)) = Len(s) + 1
           /\ \A i \in 1..Len(s) : Append(s, e)[i] = s[i]
           /\ Append(s, e)[Len(s) + 1] = e
  OBVIOUS

LEMMA NoElement ==
    ASSUME NEW S
    PROVE  <<>> \in Seq(S) /\ Len(<<>>) = 0
  OBVIOUS

-----------------------------------------------------------------------------
(* The operators of the reader *)

(* json_tokenizer_next gives a token, whatever it makes of a word at the   *)
(* end of the input.                                                       *)
LEMMA TokenizedType ==
    ASSUME NEW token \in TokenSet, NEW last \in BOOLEAN
    PROVE  Tokenized(token, last) \in TokenSet
  BY DEF Tokenized, TokenSet, TokenTypes, Literals, Openers, Closers

(* The inputs of the model are made of tokens. *)
LEMMA NextTokensType ==
    ASSUME input \in Seq(TokenSet)
    PROVE  NextTokens \subseteq TokenSet
  <1> SUFFICES ASSUME NEW token \in NextTokens PROVE token \in TokenSet
    OBVIOUS
  <1>1. CASE token \in Source
    BY <1>1, JsonTokensAssumption
  <1>2. CASE token \notin Source
    <2>1. PICK text \in Long : Len(input) < Len(text) /\ token = text[Len(input) + 1]
      BY <1>2 DEF NextTokens
    <2>2. text \in Seq(TokenSet)
      BY JsonTokensAssumption
    <2> QED
      BY <2>1, <2>2
  <1> QED
    BY <1>1, <1>2

(* The stack of brackets stays one of brackets, and only its last element  *)
(* goes, and only when it is an opener.                                    *)
LEMMA BracketsAfterKept ==
    ASSUME brackets \in Seq(Brackets), NEW type \in TokenTypes
    PROVE  /\ BracketsAfter(type) \in Seq(Brackets)
           /\ Mismatched => \E i \in DOMAIN BracketsAfter(type) : BracketsAfter(type)[i] \in Closers
  <1>1. CASE BracketsAfter(type) = Append(brackets, type) /\ type \in Brackets
    BY <1>1, AppendedSeq DEF Mismatched
  <1>2. CASE BracketsAfter(type) = brackets
    BY <1>2 DEF Mismatched
  <1>3. CASE /\ BracketsAfter(type) = SubSeq(brackets, 1, Len(brackets) - 1)
             /\ brackets # <<>>
             /\ brackets[Len(brackets)] \in Openers
    <2> DEFINE popped == SubSeq(brackets, 1, Len(brackets) - 1)
    <2>1. /\ popped \in Seq(Brackets)
          /\ Len(popped) = Len(brackets) - 1
          /\ \A i \in 1..(Len(brackets) - 1) : popped[i] = brackets[i]
      BY <1>3, PoppedSeq
    <2>2. ASSUME Mismatched PROVE \E i \in DOMAIN popped : popped[i] \in Closers
      <3>1. PICK i \in DOMAIN brackets : brackets[i] \in Closers
        BY <2>2 DEF Mismatched
      <3>2. i # Len(brackets)
        BY <1>3, <3>1 DEF Openers, Closers
      <3>3. i \in 1..(Len(brackets) - 1)
        BY <3>1, <3>2
      <3> QED
        BY <2>1, <3>1, <3>3
    <2> QED
      BY <1>3, <2>1, <2>2
  <1>4. \/ BracketsAfter(type) = Append(brackets, type) /\ type \in Brackets
        \/ BracketsAfter(type) = brackets
        \/ /\ BracketsAfter(type) = SubSeq(brackets, 1, Len(brackets) - 1)
           /\ brackets # <<>>
           /\ brackets[Len(brackets)] \in Openers
    <2>1. CASE type \in Openers
      BY <2>1 DEF BracketsAfter, Openers, Closers, Brackets
    <2>2. CASE type \in Closers
      BY <2>2 DEF BracketsAfter, Openers, Closers, Brackets
    <2>3. CASE type \notin Openers /\ type \notin Closers
      BY <2>3 DEF BracketsAfter
    <2> QED
      BY <2>1, <2>2, <2>3
  <1> QED
    BY <1>1, <1>2, <1>3, <1>4

-----------------------------------------------------------------------------
(* Type correctness of the reader (json_parse, json.c:232-271): the stream *)
(* holds tokens and the stack brackets, whatever the input.                *)
LEMMA ReaderTypeInit == ReaderInit => ReaderTypeOK
  <1> SUFFICES ASSUME ReaderInit PROVE ReaderTypeOK
    OBVIOUS
  <1>1. <<>> \in Seq(TokenSet) /\ <<>> \in Seq(Brackets)
    BY NoElement
  <1> QED
    BY <1>1 DEF ReaderInit, ReaderTypeOK, Statuses

LEMMA ReaderTypeStep == ReaderTypeOK /\ [ReaderNext]_readerVars => ReaderTypeOK'
  <1> SUFFICES ASSUME ReaderTypeOK, [ReaderNext]_readerVars PROVE ReaderTypeOK'
    OBVIOUS
  <1> USE DEF ReaderTypeOK
  <1>1. ASSUME NEW token \in NextTokens, NEW last \in BOOLEAN, Read(token, last)
        PROVE  ReaderTypeOK'
    <2> DEFINE t == Tokenized(token, last)
    <2>1. t \in TokenSet /\ t.type \in TokenTypes
      BY NextTokensType, TokenizedType DEF TokenSet
    <2>2. input' = Append(input, t) /\ brackets' = BracketsAfter(t.type)
      BY <1>1 DEF Read
    <2>3. input' \in Seq(TokenSet)
      BY <2>1, <2>2, AppendedSeq
    <2>4. brackets' \in Seq(Brackets)
      BY <2>1, <2>2, BracketsAfterKept
    <2>5. CASE Accept(t) /\ status' = IF last THEN "last" ELSE "reading"
      <3>1. tokens' \in Seq(TokenSet)
        BY <2>1, <2>5, AppendedSeq DEF Accept
      <3> QED
        BY <2>1, <2>3, <2>4, <2>5, <3>1 DEF Accept, Statuses
    <2>6. CASE status' = "rejected" /\ UNCHANGED <<tokens, memory>>
      BY <2>3, <2>4, <2>6 DEF Statuses
    <2> QED
      BY <1>1, <2>5, <2>6 DEF Read
  <1>2. CASE EndOfInput
    BY <1>2 DEF EndOfInput, Statuses
  <1>3. CASE UNCHANGED readerVars
    BY <1>3 DEF readerVars
  <1> QED
    BY <1>1, <1>2, <1>3 DEF ReaderNext

(* The stack holds brackets only, and what is remembered of the token      *)
(* before is one of the classes the code tells apart (json.c:658-798).     *)
THEOREM ReaderType == ReaderSpec => []ReaderTypeOK
  BY ReaderTypeInit, ReaderTypeStep, PTL DEF ReaderSpec

-----------------------------------------------------------------------------
(* A closing bracket that matches nothing stays on the stack (json.c:673), *)
(* and a text with one is never accepted, whatever follows.                *)
LEMMA MismatchStep ==
    ReaderTypeOK /\ [ReaderNext]_readerVars
      => [Mismatched => Mismatched' /\ status' # "whole"]_readerVars
  <1> SUFFICES ASSUME ReaderTypeOK, ReaderNext, Mismatched
               PROVE  Mismatched' /\ status' # "whole"
    OBVIOUS
  <1>1. ASSUME NEW token \in NextTokens, NEW last \in BOOLEAN, Read(token, last)
        PROVE  Mismatched' /\ status' # "whole"
    <2> DEFINE t == Tokenized(token, last)
    <2>1. t.type \in TokenTypes
      BY NextTokensType, TokenizedType DEF TokenSet, ReaderTypeOK
    <2>2. brackets' = BracketsAfter(t.type) /\ status' # "whole"
      BY <1>1 DEF Read
    <2> QED
      BY <2>1, <2>2, BracketsAfterKept DEF ReaderTypeOK, Mismatched
  <1>2. CASE EndOfInput
    <2>1. brackets # <<>>
      BY DEF Mismatched
    <2> QED
      BY <1>2, <2>1 DEF EndOfInput, Mismatched
  <1> QED
    BY <1>1, <1>2 DEF ReaderNext

THEOREM ReaderMismatchStays == ReaderSpec => MismatchStays
  <1>1. ReaderTypeOK /\ [ReaderNext]_readerVars
          => [Mismatched => Mismatched' /\ status' # "whole"]_readerVars
    BY MismatchStep
  <1> QED
    BY <1>1, ReaderType, PTL DEF ReaderSpec, MismatchStays

-----------------------------------------------------------------------------
(* The token before is remembered truly (json.c:653), which makes the      *)
(* tokens of the stream follow one another.                                *)
Remembered == memory = IF tokens = <<>> THEN "none" ELSE tokens[Len(tokens)].type

FollowsInv == ReaderTypeOK /\ Remembered /\ EachFollows

LEMMA FollowsInit == ReaderInit => FollowsInv
  <1> SUFFICES ASSUME ReaderInit PROVE Remembered /\ EachFollows
    BY ReaderTypeInit DEF FollowsInv
  <1> QED
    BY DEF ReaderInit, Remembered, EachFollows

(* Accepting a token that may follow the last one keeps the stream so.     *)
LEMMA AcceptFollows ==
    ASSUME FollowsInv, NEW t \in TokenSet, Accept(t)
    PROVE  Remembered' /\ EachFollows'
  <1>1. tokens \in Seq(TokenSet) /\ tokens' = Append(tokens, t) /\ memory' = t.type
    BY DEF FollowsInv, ReaderTypeOK, Accept
  <1>2. /\ tokens' \in Seq(TokenSet)
        /\ Len(tokens') = Len(tokens) + 1
        /\ \A i \in 1..Len(tokens) : tokens'[i] = tokens[i]
        /\ tokens'[Len(tokens) + 1] = t
    BY <1>1, AppendedSeq
  <1>3. Len(tokens) \in Nat /\ tokens' # <<>>
    BY <1>1
  <1>4. Remembered'
    BY <1>1, <1>2, <1>3 DEF Remembered
  <1>5. ASSUME NEW i \in DOMAIN tokens'
        PROVE  tokens'[i].type \in Follows(IF i = 1 THEN "none" ELSE tokens'[i - 1].type)
    <2>1. i \in 1..(Len(tokens) + 1)
      BY <1>2, <1>5
    <2>2. CASE i = Len(tokens) + 1
      <3>1. t.type \in Follows(memory)
        BY DEF Accept
      <3>2. CASE tokens = <<>>
        <4>1. memory = "none" /\ i = 1
          BY <2>2, <3>2 DEF FollowsInv, Remembered
        <4> QED
          BY <1>2, <2>2, <3>1, <4>1
      <3>3. CASE tokens # <<>>
        <4>1. memory = tokens[Len(tokens)].type
          BY <3>3 DEF FollowsInv, Remembered
        <4>2. Len(tokens) \in 1..Len(tokens) /\ i # 1 /\ i - 1 = Len(tokens)
          BY <1>1, <1>3, <2>2, <3>3
        <4> QED
          BY <1>2, <2>2, <3>1, <4>1, <4>2
      <3> QED
        BY <3>2, <3>3
    <2>3. CASE i # Len(tokens) + 1
      <3>1. i \in DOMAIN tokens /\ (i # 1 => i - 1 \in 1..Len(tokens))
        BY <1>1, <1>3, <2>1, <2>3
      <3>2. tokens[i].type \in Follows(IF i = 1 THEN "none" ELSE tokens[i - 1].type)
        BY <3>1 DEF FollowsInv, EachFollows
      <3> QED
        BY <1>1, <1>2, <3>1, <3>2
    <2> QED
      BY <2>2, <2>3
  <1> QED
    BY <1>4, <1>5 DEF EachFollows

LEMMA FollowsStep == FollowsInv /\ [ReaderNext]_readerVars => FollowsInv'
  <1> SUFFICES ASSUME FollowsInv, [ReaderNext]_readerVars PROVE Remembered' /\ EachFollows'
    BY ReaderTypeStep DEF FollowsInv
  <1>1. ASSUME NEW token \in NextTokens, NEW last \in BOOLEAN, Read(token, last)
        PROVE  Remembered' /\ EachFollows'
    <2> DEFINE t == Tokenized(token, last)
    <2>1. t \in TokenSet
      BY NextTokensType, TokenizedType DEF FollowsInv, ReaderTypeOK
    <2>2. CASE Accept(t)
      BY <2>1, <2>2, AcceptFollows
    <2>3. CASE UNCHANGED <<tokens, memory>>
      BY <2>3 DEF FollowsInv, Remembered, EachFollows
    <2> QED
      BY <1>1, <2>2, <2>3 DEF Read
  <1>2. CASE EndOfInput
    BY <1>2 DEF EndOfInput, FollowsInv, Remembered, EachFollows
  <1>3. CASE UNCHANGED readerVars
    BY <1>3 DEF readerVars, FollowsInv, Remembered, EachFollows
  <1> QED
    BY <1>1, <1>2, <1>3 DEF ReaderNext

(* In the stream of tokens every token may follow the one before           *)
(* (json.c:680-782): the functions that build the tree rely on it when     *)
(* they skip tokens unseen.                                                *)
THEOREM ReaderEachFollows == ReaderSpec => []EachFollows
  <1>1. FollowsInv => EachFollows
    BY DEF FollowsInv
  <1> QED
    BY <1>1, FollowsInit, FollowsStep, PTL DEF ReaderSpec

-----------------------------------------------------------------------------
(* How far a stream of tokens is open, and where its brackets are closed.  *)
Count(s, types, n) == Cardinality({k \in 1..n : s[k].type \in types})

DepthIn(s, n) == Count(s, Openers, n) - Count(s, Closers, n)

Pairs == {<<"{", "}">>, <<"[", "]">>}

ClosedIn(s, i) == \E k \in (i + 1)..Len(s) :
                     /\ <<s[i].type, s[k].type>> \in Pairs
                     /\ DepthIn(s, k) = DepthIn(s, i) - 1
                     /\ \A m \in i..(k - 1) : DepthIn(s, m) >= DepthIn(s, i)

(* A bracket that is not closed yet is on the stack, at its own depth.     *)
WaitsIn(s, stack, i) == /\ \A m \in i..Len(s) : DepthIn(s, m) >= DepthIn(s, i)
                        /\ stack[DepthIn(s, i)] = s[i].type

Balanced(s, stack) ==
    /\ Len(stack) = DepthIn(s, Len(s))
    /\ \A i \in 1..Len(s) : DepthIn(s, i) >= 0
    /\ \A i \in 1..Len(s) : s[i].type \in Openers =>
           DepthIn(s, i) >= 1 /\ (ClosedIn(s, i) \/ WaitsIn(s, stack, i))

(* While nothing is out of place the stack is what the stream leaves open. *)
StackInv == /\ ReaderTypeOK
            /\ status \in {"reading", "last", "whole"} /\ ~Mismatched => Balanced(tokens, brackets)
            /\ status = "whole" => brackets = <<>>

LEMMA CountNext ==
    ASSUME NEW s, NEW types, NEW n \in Nat
    PROVE  /\ Count(s, types, n) \in Nat
           /\ Count(s, types, n + 1) = Count(s, types, n) + IF s[n + 1].type \in types THEN 1 ELSE 0
  <1> DEFINE A == {k \in 1..n : s[k].type \in types}
             B == {k \in 1..n + 1 : s[k].type \in types}
  <1>1. IsFiniteSet(A)
    <2>1. IsFiniteSet(1..n)
      BY FS_Interval
    <2>2. A \in SUBSET (1..n)
      OBVIOUS
    <2> QED
      BY <2>1, <2>2, FS_Subset
  <1>2. Cardinality(A) \in Nat
    BY <1>1, FS_CardinalityType
  <1>3. n + 1 \notin A
    OBVIOUS
  <1>4. \A k : k \in 1..n + 1 <=> k \in 1..n \/ k = n + 1
    OBVIOUS
  <1>5. s[n + 1].type \in types => B = A \cup {n + 1}
    BY <1>4
  <1>6. s[n + 1].type \notin types => B = A
    BY <1>4
  <1>7. Count(s, types, n) = Cardinality(A) /\ Count(s, types, n + 1) = Cardinality(B)
    BY DEF Count
  <1> HIDE DEF A, B
  <1>8. Cardinality(A \cup {n + 1}) = Cardinality(A) + 1
    BY <1>1, <1>3, FS_AddElement
  <1> QED
    BY <1>2, <1>5, <1>6, <1>7, <1>8

LEMMA DepthType == ASSUME NEW s, NEW n \in Nat PROVE DepthIn(s, n) \in Int
  BY CountNext DEF DepthIn

(* One token more: the depths before it stay, and its own is known.        *)
LEMMA DepthNext ==
    ASSUME NEW s \in Seq(TokenSet), NEW t \in TokenSet
    PROVE  /\ \A n \in 0..Len(s) : DepthIn(Append(s, t), n) = DepthIn(s, n)
           /\ DepthIn(Append(s, t), Len(s) + 1) =
                DepthIn(s, Len(s)) + CASE t.type \in Openers -> 1
                                       [] t.type \in Closers -> -1
                                       [] OTHER -> 0
  <1> DEFINE u == Append(s, t)
             n == Len(s)
  <1>1. n \in Nat /\ u[n + 1] = t /\ \A k \in 1..n : u[k] = s[k]
    BY AppendedSeq
  <1> HIDE DEF u, n
  <1>2. \A m \in 0..n : \A types : Count(u, types, m) = Count(s, types, m)
    <2> SUFFICES ASSUME NEW m \in 0..n, NEW types
                 PROVE  Count(u, types, m) = Count(s, types, m)
      OBVIOUS
    <2>1. \A k \in 1..m : u[k] = s[k]
      BY <1>1
    <2>2. {k \in 1..m : u[k].type \in types} = {k \in 1..m : s[k].type \in types}
      BY <2>1
    <2> QED
      BY <2>2 DEF Count
  <1>3. \A m \in 0..n : DepthIn(u, m) = DepthIn(s, m)
    BY <1>2 DEF DepthIn
  <1>4. \A types : /\ Count(u, types, n) \in Nat
                   /\ Count(u, types, n + 1) = Count(u, types, n) + IF t.type \in types THEN 1 ELSE 0
    BY <1>1, CountNext
  <1>5. ~(t.type \in Openers /\ t.type \in Closers)
    BY DEF Openers, Closers
  <1>6. DepthIn(u, n + 1) = DepthIn(u, n) + CASE t.type \in Openers -> 1
                                              [] t.type \in Closers -> -1
                                              [] OTHER -> 0
    BY <1>4, <1>5 DEF DepthIn
  <1>7. DepthIn(u, n) = DepthIn(s, n)
    BY <1>1, <1>3
  <1> QED
    BY <1>3, <1>6, <1>7 DEF u, n

(* A token is taken: an opener goes onto the stack, a closer that matches  *)
(* takes its opener from it, and another token leaves it alone.            *)
LEMMA BalancedNext ==
    ASSUME NEW s \in Seq(TokenSet), NEW stack \in Seq(Openers), Balanced(s, stack),
           NEW t \in TokenSet, NEW new \in Seq(Openers),
           \/ t.type \in Openers /\ new = Append(stack, t.type)
           \/ /\ t.type \in Closers /\ stack # <<>> /\ <<stack[Len(stack)], t.type>> \in Pairs
              /\ new = SubSeq(stack, 1, Len(stack) - 1)
           \/ t.type \notin Openers \cup Closers /\ new = stack
    PROVE  Balanced(Append(s, t), new)
  <1> DEFINE u == Append(s, t)
             n == Len(s)
             d == Len(stack)
             e == DepthIn(u, n + 1)
  <1>1. /\ n \in Nat /\ Len(u) = n + 1 /\ u[n + 1] = t /\ \A k \in 1..n : u[k] = s[k]
        /\ d \in Nat /\ d = DepthIn(s, n)
    BY AppendedSeq DEF Balanced
  <1>2. /\ \A m \in 0..n : DepthIn(u, m) = DepthIn(s, m)
        /\ e = d + CASE t.type \in Openers -> 1 [] t.type \in Closers -> -1 [] OTHER -> 0
    BY <1>1, DepthNext
  <1>3. \A m \in 0..n : DepthIn(s, m) \in Int
    BY <1>1, DepthType
  <1>4. /\ t.type \in Openers => e = d + 1
        /\ t.type \in Closers => e = d - 1
        /\ t.type \notin Openers \cup Closers => e = d
    <2>1. t.type \in Openers => t.type \notin Closers
      BY DEF Openers, Closers
    <2>2. CASE t.type \in Openers
      BY <1>1, <1>2, <2>1, <2>2, Zenon
    <2>3. CASE t.type \in Closers
      BY <1>1, <1>2, <2>1, <2>3
    <2>4. CASE t.type \notin Openers \cup Closers
      BY <1>1, <1>2, <2>4
    <2> QED
      BY <2>1, <2>2, <2>3, <2>4
  <1>5. stack # <<>> => d >= 1
    BY <1>1
  <1> HIDE DEF u, n, d, e
  <1>6. /\ Len(new) = e /\ e \in Nat
        /\ \A k \in 1..d : k <= e => new[k] = stack[k]
        /\ t.type \in Openers => e >= 1 /\ new[e] = t.type
    <2>1. CASE t.type \in Openers /\ new = Append(stack, t.type)
      <3>1. e = d + 1
        BY <1>4, <2>1
      <3>2. Len(new) = d + 1 /\ new[d + 1] = t.type /\ \A k \in 1..d : new[k] = stack[k]
        BY <2>1, AppendedSeq DEF d
      <3> QED
        BY <1>1, <3>1, <3>2
    <2>2. CASE /\ t.type \in Closers /\ stack # <<>> /\ new = SubSeq(stack, 1, Len(stack) - 1)
      <3>1. e = d - 1 /\ t.type \notin Openers
        BY <1>4, <2>2 DEF Openers, Closers
      <3>2. Len(new) = d - 1 /\ \A k \in 1..(d - 1) : new[k] = stack[k]
        BY <2>2, PoppedSeq DEF d
      <3> QED
        BY <1>1, <1>5, <2>2, <3>1, <3>2
    <2>3. CASE t.type \notin Openers \cup Closers /\ new = stack
      <3>1. e = d /\ Len(new) = d
        BY <1>4, <2>3 DEF d
      <3> QED
        BY <1>1, <2>3, <3>1
    <2> QED
      BY <2>1, <2>2, <2>3
  <1>7. ASSUME NEW i \in 1..n, s[i].type \in Openers
        PROVE  DepthIn(u, i) >= 1 /\ (ClosedIn(u, i) \/ WaitsIn(u, new, i))
    <2>1. DepthIn(s, i) >= 1 /\ (ClosedIn(s, i) \/ WaitsIn(s, stack, i)) /\ DepthIn(s, i) \in Int
      BY <1>1, <1>3, <1>7 DEF Balanced, n
    <2>2. DepthIn(u, i) = DepthIn(s, i) /\ u[i] = s[i]
      BY <1>1, <1>2
    <2>3. CASE ClosedIn(s, i)
      <3>1. PICK k \in (i + 1)..n : /\ <<s[i].type, s[k].type>> \in Pairs
                                   /\ DepthIn(s, k) = DepthIn(s, i) - 1
                                   /\ \A m \in i..(k - 1) : DepthIn(s, m) >= DepthIn(s, i)
        BY <2>3 DEF ClosedIn, n
      <3>2. k \in (i + 1)..Len(u) /\ u[k] = s[k] /\ DepthIn(u, k) = DepthIn(s, k)
        BY <1>1, <1>2
      <3>3. \A m \in i..(k - 1) : DepthIn(u, m) = DepthIn(s, m)
        BY <1>1, <1>2
      <3>4. ClosedIn(u, i)
        BY <2>2, <3>1, <3>2, <3>3 DEF ClosedIn
      <3> QED
        BY <2>1, <2>2, <3>4
    <2>4. CASE WaitsIn(s, stack, i)
      <3>1. DepthIn(s, i) <= d /\ stack[DepthIn(s, i)] = s[i].type
        BY <1>1, <1>3, <2>4 DEF WaitsIn, n
      <3>2. \A m \in i..n : DepthIn(u, m) = DepthIn(s, m) /\ DepthIn(u, m) >= DepthIn(u, i)
        BY <1>1, <1>2, <2>2, <2>4 DEF WaitsIn, n
      <3>3. CASE DepthIn(s, i) <= e
        <4>1. new[DepthIn(s, i)] = s[i].type
          BY <1>1, <1>6, <2>1, <3>1, <3>3
        <4>2. \A m \in i..(n + 1) : DepthIn(u, m) >= DepthIn(u, i)
          <5>1. \A m \in i..(n + 1) : m \in i..n \/ m = n + 1
            BY <1>1
          <5>2. DepthIn(u, n + 1) >= DepthIn(u, i)
            BY <1>6, <2>1, <2>2, <3>3 DEF e
          <5> QED
            BY <3>2, <5>1, <5>2
        <4> QED
          BY <1>1, <2>1, <2>2, <4>1, <4>2 DEF WaitsIn
      <3>4. CASE ~(DepthIn(s, i) <= e)
        <4>1. /\ t.type \in Closers /\ <<stack[d], t.type>> \in Pairs
              /\ e = d - 1 /\ DepthIn(s, i) = d
          <5>1. t.type \in Closers /\ t.type \notin Openers
            <6>1. ~(e >= d)
              BY <1>1, <1>6, <2>1, <3>1, <3>4
            <6>2. t.type \notin Openers
              BY <1>1, <1>4, <6>1
            <6>3. ~(t.type \notin Openers \cup Closers)
              BY <1>1, <1>4, <6>1
            <6> QED
              BY <6>2, <6>3
          <5>2. e = d - 1
            BY <1>4, <5>1
          <5> QED
            BY <1>1, <2>1, <3>1, <3>4, <5>1, <5>2 DEF d
        <4>2. <<u[i].type, u[n + 1].type>> \in Pairs
          BY <1>1, <2>2, <3>1, <4>1
        <4>3. DepthIn(u, n + 1) = DepthIn(u, i) - 1
          BY <2>2, <4>1 DEF e
        <4>4. n + 1 \in (i + 1)..Len(u) /\ \A m \in i..((n + 1) - 1) : m \in i..n
          BY <1>1
        <4>5. ClosedIn(u, i)
          BY <3>2, <4>2, <4>3, <4>4 DEF ClosedIn
        <4> QED
          BY <2>1, <2>2, <4>5
      <3> QED
        BY <3>3, <3>4
    <2> QED
      BY <2>1, <2>3, <2>4
  <1>8. ASSUME t.type \in Openers
        PROVE  DepthIn(u, n + 1) >= 1 /\ WaitsIn(u, new, n + 1)
    <2>1. \A m \in (n + 1)..Len(u) : m = n + 1
      BY <1>1
    <2> QED
      BY <1>1, <1>6, <1>8, <2>1 DEF WaitsIn, e
  <1>9. \A i \in 1..(n + 1) : i \in 1..n \/ i = n + 1
    BY <1>1
  <1>10. \A i \in 1..(n + 1) : DepthIn(u, i) >= 0
    <2>1. \A i \in 1..n : DepthIn(u, i) >= 0
      BY <1>1, <1>2 DEF Balanced, n
    <2>2. DepthIn(u, n + 1) >= 0
      BY <1>6 DEF e
    <2> QED
      BY <1>9, <2>1, <2>2
  <1> QED
    BY <1>1, <1>6, <1>7, <1>8, <1>9, <1>10 DEF Balanced, u, e

LEMMA StackInit == ReaderInit => StackInv
  <1> SUFFICES ASSUME ReaderInit PROVE StackInv
    OBVIOUS
  <1>1. ReaderTypeOK
    BY ReaderTypeInit
  <1>2. Count(<<>>, Openers, 0) = 0 /\ Count(<<>>, Closers, 0) = 0
    <2>1. 1..0 = {}
      OBVIOUS
    <2> QED
      BY <2>1, FS_EmptySet DEF Count
  <1>3. Balanced(<<>>, <<>>)
    BY <1>2 DEF Balanced, DepthIn
  <1> QED
    BY <1>1, <1>3 DEF StackInv, ReaderInit

LEMMA StackStep == StackInv /\ [ReaderNext]_readerVars => StackInv'
  <1> SUFFICES ASSUME StackInv, [ReaderNext]_readerVars PROVE StackInv'
    OBVIOUS
  <1>1. ReaderTypeOK /\ ReaderTypeOK'
    BY ReaderTypeStep DEF StackInv
  <1>2. ASSUME NEW token \in NextTokens, NEW last \in BOOLEAN, Read(token, last)
        PROVE  StackInv'
    <2> DEFINE t == Tokenized(token, last)
    <2>1. t \in TokenSet /\ t.type \in TokenTypes
      BY <1>1, NextTokensType, TokenizedType DEF TokenSet, ReaderTypeOK
    <2>2. status = "reading" /\ status' # "whole" /\ brackets' = BracketsAfter(t.type)
      BY <1>2 DEF Read
    <2>3. CASE status' # "rejected" /\ ~Mismatched'
      <3>1. tokens' = Append(tokens, t)
        BY <1>2, <2>3 DEF Read, Accept
      <3>2. ~Mismatched
        BY <1>1, <2>1, <2>2, <2>3, BracketsAfterKept DEF ReaderTypeOK, Mismatched
      <3>3. Balanced(tokens, brackets)
        BY <2>2, <3>2 DEF StackInv
      <3>4. brackets \in Seq(Openers) /\ brackets' \in Seq(Openers)
        <4>1. \A i \in DOMAIN brackets : brackets[i] \in Openers
          BY <1>1, <3>2 DEF ReaderTypeOK, Mismatched, Brackets
        <4>2. \A i \in DOMAIN brackets' : brackets'[i] \in Openers
          BY <1>1, <2>3 DEF ReaderTypeOK, Mismatched, Brackets
        <4> QED
          BY <1>1, <4>1, <4>2 DEF ReaderTypeOK
      <3>5. \/ t.type \in Openers /\ brackets' = Append(brackets, t.type)
            \/ /\ t.type \in Closers /\ brackets # <<>>
               /\ <<brackets[Len(brackets)], t.type>> \in Pairs
               /\ brackets' = SubSeq(brackets, 1, Len(brackets) - 1)
            \/ t.type \notin Openers \cup Closers /\ brackets' = brackets
        <4>1. CASE t.type \in Openers
          BY <2>2, <4>1 DEF BracketsAfter, Openers, Closers
        <4>2. CASE t.type \in Closers
          <5>1. brackets' # Append(brackets, t.type)
            <6>1. Append(brackets, t.type)[Len(brackets) + 1] = t.type
              BY <1>1 DEF ReaderTypeOK
            <6>2. Len(brackets) + 1 \in DOMAIN Append(brackets, t.type)
              BY <1>1 DEF ReaderTypeOK
            <6> QED
              BY <2>3, <4>2, <6>1, <6>2 DEF Mismatched
          <5>2. t.type \notin Openers
            BY <4>2 DEF Openers, Closers
          <5> QED
            BY <2>2, <4>2, <5>1, <5>2 DEF BracketsAfter, Pairs
        <4>3. CASE t.type \notin Openers \cup Closers
          BY <2>2, <4>3 DEF BracketsAfter
        <4> QED
          BY <4>1, <4>2, <4>3
      <3>6. tokens \in Seq(TokenSet)
        BY <1>1 DEF ReaderTypeOK
      <3> HIDE DEF t
      <3>7. Balanced(Append(tokens, t), brackets')
        BY <2>1, <3>3, <3>4, <3>5, <3>6, BalancedNext
      <3> QED
        BY <1>1, <2>2, <3>1, <3>7 DEF StackInv
    <2>4. CASE ~(status' # "rejected" /\ ~Mismatched')
      BY <1>1, <2>2, <2>4 DEF StackInv
    <2> QED
      BY <2>3, <2>4
  <1>3. CASE EndOfInput
    BY <1>1, <1>3 DEF EndOfInput, StackInv, Mismatched
  <1>4. CASE UNCHANGED readerVars
    BY <1>1, <1>4 DEF readerVars, StackInv, Mismatched
  <1> QED
    BY <1>2, <1>3, <1>4 DEF ReaderNext

(* Nested (in the run Pipeline): every bracket of a text that is accepted  *)
(* whole is closed by one of its kind, in the order in which they were     *)
(* opened (json.c:658-679, 261-270).                                       *)
THEOREM ReaderNested == ReaderSpec => []Nested
  <1>1. StackInv => Nested
    <2> SUFFICES ASSUME StackInv, status = "whole" PROVE Nested
      BY DEF Nested
    <2>1. brackets = <<>> /\ Len(brackets) = 0 /\ ~Mismatched /\ Balanced(tokens, brackets)
      BY DEF StackInv, Mismatched
    <2>2. Len(tokens) \in Nat /\ DOMAIN tokens = 1..Len(tokens)
      BY DEF StackInv, ReaderTypeOK
    <2>3. \A i : Depth(i) = DepthIn(tokens, i)
      BY DEF Depth, DepthIn, Count
    <2>4. DepthIn(tokens, Len(tokens)) = 0
      BY <2>1 DEF Balanced
    <2>5. ASSUME NEW i \in 1..Len(tokens), tokens[i].type \in Openers
          PROVE  ClosedIn(tokens, i)
      <3>1. DepthIn(tokens, i) >= 1 /\ (ClosedIn(tokens, i) \/ WaitsIn(tokens, brackets, i))
        BY <2>1, <2>5 DEF Balanced
      <3>2. DepthIn(tokens, i) \in Int
        BY <2>2, DepthType
      <3>3. WaitsIn(tokens, brackets, i) => DepthIn(tokens, Len(tokens)) >= DepthIn(tokens, i)
        BY <2>2 DEF WaitsIn
      <3> QED
        BY <2>4, <3>1, <3>2, <3>3
    <2>6. \A i \in 1..Len(tokens) : DepthIn(tokens, i) >= 0
      BY <2>1 DEF Balanced
    <2> QED
      BY <2>2, <2>3, <2>5, <2>6 DEF Nested, ClosedIn, Pairs
  <1> QED
    BY <1>1, StackInit, StackStep, PTL DEF ReaderSpec

-----------------------------------------------------------------------------
(* Sorting *)

(* A non-empty set of numbers has a least one.                             *)
LEMMA LeastNumber ==
    ASSUME NEW S \in SUBSET Nat, S # {}
    PROVE  \E p \in S : \A q \in S : p <= q
  <1> DEFINE Less == {ss \in Nat \X Nat : ss[1] < ss[2]}
  <1>1. IsWellFoundedOn(Less, Nat)
    BY NatLessThanWellFounded, Zenon DEF OpToRel
  <1> HIDE DEF Less
  <1>2. PICK p \in S : \A q \in S : ~(<<q, p>> \in Less)
    BY <1>1, WFMin
  <1>3. \A q \in S : <<q, p>> \in Nat \X Nat /\ <<q, p>>[1] = q /\ <<q, p>>[2] = p
    OBVIOUS
  <1>4. \A q \in S : ~(q < p)
    BY <1>2, <1>3, Zenon DEF Less
  <1> QED
    BY <1>4

(* What holds of 0, and of each number up to m with the one before, holds  *)
(* of all: T is the set of the numbers it holds of.                        *)
LEMMA UpTo ==
    ASSUME NEW m \in Nat, NEW T, 0 \in T,
           \A k \in 0..(m - 1) : k \in T => k + 1 \in T
    PROVE  \A k \in 0..m : k \in T
  <1> DEFINE Bad == {k \in 0..m : k \notin T}
  <1>1. SUFFICES ASSUME Bad # {} PROVE FALSE
    OBVIOUS
  <1>2. Bad \in SUBSET Nat
    OBVIOUS
  <1>3. PICK b \in Bad : \A q \in Bad : b <= q
    BY <1>1, <1>2, LeastNumber
  <1>4. b \in 0..m /\ b \notin T /\ b # 0
    BY <1>3
  <1>5. PICK k \in 0..(m - 1) : b = k + 1 /\ k \in 0..m /\ k < b
    <2>1. b - 1 \in 0..(m - 1) /\ b = (b - 1) + 1 /\ b - 1 \in 0..m /\ b - 1 < b
      BY <1>4
    <2> QED
      BY <2>1
  <1>6. k \in T
    BY <1>3, <1>5
  <1> QED
    BY <1>4, <1>5, <1>6

(* A permutation of the indices of n elements. *)
Permutes(order, n) == /\ order \in [1..n -> 1..n]
                      /\ \A i, j \in 1..n : order[i] = order[j] => i = j
                      /\ \A v \in 1..n : \E i \in 1..n : order[i] = v

Table(n) == [(1..n) \X (1..n) -> BOOLEAN]

LEMMA SwappedPermutes ==
    ASSUME NEW n \in Nat, NEW order, Permutes(order, n), NEW x \in 1..n, NEW y \in 1..n
    PROVE  /\ Permutes(Swapped(order, x, y), n)
           /\ Swapped(order, x, y)[x] = order[y]
           /\ Swapped(order, x, y)[y] = order[x]
           /\ \A z \in 1..n : z # x /\ z # y => Swapped(order, x, y)[z] = order[z]
  <1> DEFINE s == Swapped(order, x, y)
  <1>1. order \in [1..n -> 1..n]
    BY DEF Permutes
  <1>2. /\ s \in [1..n -> 1..n]
        /\ s[x] = order[y] /\ s[y] = order[x]
        /\ \A z \in 1..n : z # x /\ z # y => s[z] = order[z]
    BY <1>1 DEF Swapped
  <1> HIDE DEF s
  <1>3. ASSUME NEW i \in 1..n, NEW j \in 1..n, s[i] = s[j] PROVE i = j
    <2>1. \A u, v \in 1..n : order[u] = order[v] => u = v
      BY DEF Permutes
    <2>2. CASE i = x
      BY <1>2, <1>3, <2>1, <2>2
    <2>3. CASE i = y
      BY <1>2, <1>3, <2>1, <2>3
    <2>4. CASE i # x /\ i # y
      BY <1>2, <1>3, <2>1, <2>4
    <2> QED
      BY <2>2, <2>3, <2>4
  <1>4. ASSUME NEW v \in 1..n PROVE \E i \in 1..n : s[i] = v
    <2>1. PICK i \in 1..n : order[i] = v
      BY DEF Permutes
    <2>2. CASE i = x
      BY <1>2, <2>1, <2>2
    <2>3. CASE i = y
      BY <1>2, <2>1, <2>3
    <2>4. CASE i # x /\ i # y
      BY <1>2, <2>1, <2>4
    <2> QED
      BY <2>2, <2>3, <2>4
  <1>5. Permutes(s, n)
    BY <1>2, <1>3, <1>4 DEF Permutes
  <1> QED
    BY <1>2, <1>5 DEF s

(* The recursive definition of the loop has a solution. *)
Scans(f, m, order, l, h, leq) ==
    f = [k \in 0..m |-> IF k = 0 THEN [order |-> order, i |-> l - 1]
                        ELSE LookedAt(f[k - 1], l + k - 1, order[h], leq)]

LEMMA ScanExists ==
    ASSUME NEW order, NEW l \in Int, NEW h \in Int, NEW leq, NEW m \in Nat
    PROVE  \E f : Scans(f, m, order, l, h, leq)
  <1> DEFINE T == {k \in Nat : \E f : Scans(f, k, order, l, h, leq)}
             start == [order |-> order, i |-> l - 1]
             Look(a, k) == LookedAt(a, l + k - 1, order[h], leq)
  <1>1. 0 \in T
    <2>1. Scans([k \in 0..0 |-> start], 0, order, l, h, leq)
      BY DEF Scans
    <2> QED
      BY <2>1
  <1>2. ASSUME NEW k \in 0..(m - 1), k \in T PROVE k + 1 \in T
    <2>1. PICK f : Scans(f, k, order, l, h, leq)
      BY <1>2
    <2> DEFINE g == [i \in 0..(k + 1) |-> IF i = k + 1 THEN Look(f[k], k + 1) ELSE f[i]]
    <2>2. k \in Nat /\ (k + 1) - 1 = k /\ k + 1 # 0
      OBVIOUS
    <2> HIDE DEF start, Look
    <2>3. \A i \in 0..k : f[i] = IF i = 0 THEN start ELSE Look(f[i - 1], i)
      BY <2>1 DEF Scans, start, Look
    <2>4. ASSUME NEW i \in 0..(k + 1) PROVE g[i] = IF i = 0 THEN start ELSE Look(g[i - 1], i)
      <3>1. CASE i = k + 1
        <4>1. g[i] = Look(f[k], k + 1) /\ g[k] = f[k]
          BY <2>2, <3>1
        <4> QED
          BY <2>2, <3>1, <4>1
      <3>2. CASE i # k + 1
        <4>1. i \in 0..k /\ g[i] = f[i]
          BY <2>2, <3>2
        <4>2. i # 0 => i - 1 \in 0..(k + 1) /\ i - 1 # k + 1
          BY <2>2, <4>1
        <4>3. i # 0 => g[i - 1] = f[i - 1]
          BY <4>2
        <4> QED
          BY <2>3, <4>1, <4>3
      <3> QED
        BY <3>1, <3>2
    <2>5. g = [i \in 0..(k + 1) |-> g[i]]
      OBVIOUS
    <2> HIDE DEF g
    <2>6. g = [i \in 0..(k + 1) |-> IF i = 0 THEN start ELSE Look(g[i - 1], i)]
      BY <2>4, <2>5
    <2>7. Scans(g, k + 1, order, l, h, leq)
      BY <2>6 DEF Scans, start, Look
    <2> QED
      BY <2>2, <2>7
  <1> HIDE DEF T
  <1>3. \A k \in 0..m : k \in T
    BY <1>1, <1>2, UpTo
  <1>4. m \in T
    BY <1>3
  <1> QED
    BY <1>4 DEF T

LEMMA ScannedScans ==
    ASSUME NEW order, NEW l \in Int, NEW h \in Int, NEW leq, h - l \in Nat
    PROVE  /\ Scanned(order, l, h, leq)[0] = [order |-> order, i |-> l - 1]
           /\ \A k \in 0..((h - l) - 1) :
                 Scanned(order, l, h, leq)[k + 1]
                   = LookedAt(Scanned(order, l, h, leq)[k], l + k, order[h], leq)
  <1> DEFINE Is(f) == Scans(f, h - l, order, l, h, leq)
             s == Scanned(order, l, h, leq)
             start == [order |-> order, i |-> l - 1]
             Look(a, k) == LookedAt(a, l + k - 1, order[h], leq)
  <1>1. s = CHOOSE f : Is(f)
    BY DEF Scanned, Scans
  <1>2. \E f : Is(f)
    BY ScanExists
  <1> HIDE DEF Is, s
  <1>3. Is(s)
    BY <1>1, <1>2
  <1> HIDE DEF start, Look
  <1>4. \A k \in 0..(h - l) : s[k] = IF k = 0 THEN start ELSE Look(s[k - 1], k)
    BY <1>3 DEF Is, Scans, start, Look
  <1>5. s[0] = start
    BY <1>4
  <1>6. ASSUME NEW k \in 0..((h - l) - 1) PROVE s[k + 1] = Look(s[k], k + 1)
    <2>1. k + 1 \in 0..(h - l) /\ (k + 1) - 1 = k /\ k + 1 # 0
      OBVIOUS
    <2> QED
      BY <1>4, <2>1
  <1>7. ASSUME NEW k \in 0..((h - l) - 1) PROVE Look(s[k], k + 1) = LookedAt(s[k], l + k, order[h], leq)
    <2>1. l + (k + 1) - 1 = l + k
      OBVIOUS
    <2> QED
      BY <2>1 DEF Look
  <1> QED
    BY <1>5, <1>6, <1>7 DEF s, start
-----------------------------------------------------------------------------
(* What holds when the loop has come to position j: up to a.i are the      *)
(* elements found to be less than or equal to the pivot, from there to j   *)
(* the others.                                                             *)
ScanInv(a, j, order, n, l, h, leq) ==
    /\ Permutes(a.order, n)
    /\ a.i \in Int /\ l - 1 <= a.i /\ a.i < j
    /\ \A x \in 1..n : x \notin l..(h - 1) => a.order[x] = order[x]
    /\ \A x \in l..(h - 1) : \E y \in l..(h - 1) : a.order[x] = order[y]
    /\ \A x \in l..(h - 1) : x <= a.i => leq[a.order[x], order[h]]
    /\ \A x \in l..(h - 1) : a.i < x /\ x < j => ~leq[a.order[x], order[h]]

LEMMA ScanStarts ==
    ASSUME NEW n \in Nat, NEW order, Permutes(order, n), NEW leq, NEW l \in 1..n, NEW h \in 1..n
    PROVE  ScanInv([order |-> order, i |-> l - 1], l, order, n, l, h, leq)
  <1> DEFINE a == [order |-> order, i |-> l - 1]
  <1>1. a.order = order /\ a.i = l - 1
    OBVIOUS
  <1> HIDE DEF a
  <1>2. a.i \in Int /\ l - 1 <= a.i /\ a.i < l
    BY <1>1
  <1>3. \A x \in l..(h - 1) : ~(x <= a.i) /\ ~(x < l)
    BY <1>1
  <1>4. ScanInv(a, l, order, n, l, h, leq)
    BY <1>1, <1>2, <1>3 DEF ScanInv
  <1> QED
    BY <1>4 DEF a

LEMMA ScanKeeps ==
    ASSUME NEW n \in Nat, NEW order, Permutes(order, n), NEW leq \in Table(n),
           NEW l \in 1..n, NEW h \in 1..n, NEW j \in l..(h - 1),
           NEW a, ScanInv(a, j, order, n, l, h, leq)
    PROVE  ScanInv(LookedAt(a, j, order[h], leq), j + 1, order, n, l, h, leq)
  <1> DEFINE b == LookedAt(a, j, order[h], leq)
  <1>1. Permutes(a.order, n) /\ a.i \in Int /\ l - 1 <= a.i /\ a.i < j
    BY DEF ScanInv
  <1>2. \A x \in 1..n : x \notin l..(h - 1) => a.order[x] = order[x]
    BY DEF ScanInv
  <1>3. \A x \in l..(h - 1) : \E y \in l..(h - 1) : a.order[x] = order[y]
    BY DEF ScanInv
  <1>4. \A x \in l..(h - 1) : x <= a.i => leq[a.order[x], order[h]]
    BY DEF ScanInv
  <1>5. \A x \in l..(h - 1) : a.i < x /\ x < j => ~leq[a.order[x], order[h]]
    BY DEF ScanInv
  <1>6. j \in 1..n /\ j \in Int /\ \A x \in l..(h - 1) : x \in 1..n
    OBVIOUS
  <1>7. CASE leq[a.order[j], order[h]]
    <2> DEFINE i == a.i + 1
    <2>1. /\ i \in Int /\ l <= i /\ i <= j /\ i \in l..(h - 1) /\ i \in 1..n
          /\ a.i = i - 1
      BY <1>1, <1>6
    <2>2. b.order = Swapped(a.order, i, j) /\ b.i = i
      BY <1>7 DEF LookedAt
    <2> HIDE DEF i, b
    <2>3. /\ Permutes(b.order, n)
          /\ b.order[i] = a.order[j]
          /\ b.order[j] = a.order[i]
          /\ \A z \in 1..n : z # i /\ z # j => b.order[z] = a.order[z]
      <3>1. PICK o : o = a.order
        OBVIOUS
      <3>2. Permutes(o, n) /\ i \in 1..n /\ j \in 1..n
        BY <1>1, <1>6, <2>1, <3>1
      <3>3. Permutes(Swapped(o, i, j), n)
        BY <3>2, SwappedPermutes
      <3>4. Swapped(o, i, j)[i] = o[j]
        BY <3>2, SwappedPermutes
      <3>5. Swapped(o, i, j)[j] = o[i]
        BY <3>2, SwappedPermutes
      <3>6. \A z \in 1..n : z # i /\ z # j => Swapped(o, i, j)[z] = o[z]
        BY <3>2, SwappedPermutes
      <3> QED
        BY <2>2, <3>1, <3>3, <3>4, <3>5, <3>6
    <2>4. \A x \in 1..n : x \notin l..(h - 1) => b.order[x] = order[x]
      BY <1>2, <1>6, <2>1, <2>3
    <2>5. ASSUME NEW x \in l..(h - 1) PROVE \E y \in l..(h - 1) : b.order[x] = order[y]
      <3>1. \E z \in l..(h - 1) : b.order[x] = a.order[z]
        BY <1>6, <2>1, <2>3
      <3> QED
        BY <1>3, <3>1
    <2>6. ASSUME NEW x \in l..(h - 1), x <= i PROVE leq[b.order[x], order[h]]
      <3>1. CASE x = i
        BY <1>7, <2>3, <3>1
      <3>2. CASE x # i
        <4>1. x <= a.i /\ x # j
          BY <1>6, <2>1, <2>6, <3>2
        <4> QED
          BY <1>4, <1>6, <2>3, <3>2, <4>1
      <3> QED
        BY <3>1, <3>2
    <2>7. ASSUME NEW x \in l..(h - 1), i < x, x < j + 1 PROVE ~leq[b.order[x], order[h]]
      <3>1. CASE x = j
        <4>1. a.i < i /\ i < j
          BY <2>1, <2>7, <3>1
        <4> QED
          BY <1>5, <2>1, <2>3, <3>1, <4>1
      <3>2. CASE x # j
        <4>1. a.i < x /\ x < j /\ x # i
          BY <1>6, <2>1, <2>7, <3>2
        <4> QED
          BY <1>5, <1>6, <2>3, <3>2, <4>1
      <3> QED
        BY <3>1, <3>2
    <2>8. b.i \in Int /\ l - 1 <= b.i /\ b.i < j + 1
      BY <1>6, <2>1, <2>2
    <2>9. ScanInv(b, j + 1, order, n, l, h, leq)
      BY <2>2, <2>3, <2>4, <2>5, <2>6, <2>7, <2>8 DEF ScanInv
    <2> QED
      BY <2>9 DEF b
  <1>8. CASE ~leq[a.order[j], order[h]]
    <2>1. b = a
      BY <1>8 DEF LookedAt
    <2> HIDE DEF b
    <2>2. ASSUME NEW x \in l..(h - 1), a.i < x, x < j + 1 PROVE ~leq[a.order[x], order[h]]
      <3>1. x = j \/ x < j
        BY <2>2
      <3> QED
        BY <1>5, <1>8, <2>2, <3>1
    <2>3. a.i < j + 1
      BY <1>1, <1>6
    <2>4. ScanInv(b, j + 1, order, n, l, h, leq)
      BY <1>1, <1>2, <1>3, <1>4, <2>1, <2>2, <2>3 DEF ScanInv
    <2> QED
      BY <2>4 DEF b
  <1> QED
    BY <1>7, <1>8

(* What becomes of a segment: the pivot is at its place, before it what is *)
(* less than or equal to it, behind it the rest.                           *)
Parted(p, order, n, l, h, leq) ==
    /\ Permutes(p.order, n)
    /\ p.at \in l..h
    /\ \A x \in 1..n : x \notin l..h => p.order[x] = order[x]
    /\ \A x \in l..h : \E y \in l..h : p.order[x] = order[y]
    /\ \A x \in l..(p.at - 1) : leq[p.order[x], p.order[p.at]]
    /\ \A x \in (p.at + 1)..h : ~leq[p.order[x], p.order[p.at]]

LEMMA PartitionParts ==
    ASSUME NEW n \in Nat, NEW order, Permutes(order, n), NEW leq \in Table(n),
           NEW l \in 1..n, NEW h \in 1..n, l < h
    PROVE  Parted(Partition(order, l, h, leq), order, n, l, h, leq)
  <1> DEFINE s == Scanned(order, l, h, leq)
             m == h - l
             T == {k \in 0..m : ScanInv(s[k], l + k, order, n, l, h, leq)}
  <1>1. m \in Nat /\ m \in 0..m /\ 0 \in 0..m
    OBVIOUS
  <1>2. /\ s[0] = [order |-> order, i |-> l - 1]
        /\ \A k \in 0..(m - 1) : s[k + 1] = LookedAt(s[k], l + k, order[h], leq)
    BY <1>1, ScannedScans
  <1>3. Partition(order, l, h, leq)
           = [order |-> Swapped(s[m].order, s[m].i + 1, h), at |-> s[m].i + 1]
    BY DEF Partition
  <1> HIDE DEF s
  <1>4. 0 \in T
    <2>1. ScanInv(s[0], l, order, n, l, h, leq) /\ l + 0 = l
      BY <1>2, ScanStarts
    <2> QED
      BY <1>1, <2>1
  <1>5. ASSUME NEW k \in 0..(m - 1), k \in T PROVE k + 1 \in T
    <2>1. k + 1 \in 0..m
      BY <1>1
    <2>2. ScanInv(LookedAt(s[k], l + k, order[h], leq), (l + k) + 1, order, n, l, h, leq)
      <3>1. PICK j \in l..(h - 1) : j = l + k
        OBVIOUS
      <3>2. ScanInv(s[k], j, order, n, l, h, leq)
        BY <1>5, <3>1
      <3> QED
        BY <3>1, <3>2, ScanKeeps
    <2>3. l + (k + 1) = (l + k) + 1
      OBVIOUS
    <2> QED
      BY <1>2, <2>1, <2>2, <2>3
  <1>6. ScanInv(s[m], h, order, n, l, h, leq)
    <2> HIDE DEF T, m
    <2>1. \A k \in 0..m : k \in T
      BY <1>1, <1>4, <1>5, UpTo
    <2>2. l + m = h
      BY DEF m
    <2> QED
      BY <1>1, <2>1, <2>2 DEF T
  <1> DEFINE o == s[m].order
             at == s[m].i + 1
             p == Partition(order, l, h, leq)
  <1>7. /\ Permutes(o, n)
        /\ at \in Int /\ l <= at /\ at <= h
        /\ s[m].i = at - 1
    <2>1. Permutes(o, n) /\ s[m].i \in Int /\ l - 1 <= s[m].i /\ s[m].i < h
      BY <1>6 DEF ScanInv
    <2>2. PICK i \in Int : i = s[m].i
      BY <2>1
    <2>3. l - 1 <= i /\ i < h /\ at = i + 1
      BY <2>1, <2>2
    <2> QED
      BY <2>1, <2>2, <2>3
  <1>8. /\ \A x \in 1..n : x \notin l..(h - 1) => o[x] = order[x]
        /\ \A x \in l..(h - 1) : \E y \in l..(h - 1) : o[x] = order[y]
    BY <1>6 DEF ScanInv
  <1>9. \A x \in l..(at - 1) : leq[o[x], order[h]]
    <2>1. \A x \in l..(h - 1) : x <= s[m].i => leq[o[x], order[h]]
      BY <1>6 DEF ScanInv
    <2> HIDE DEF at
    <2>2. \A x \in l..(at - 1) : x \in l..(h - 1) /\ x <= s[m].i
      BY <1>7
    <2> QED
      BY <2>1, <2>2
  <1>10. \A x \in at..(h - 1) : ~leq[o[x], order[h]]
    <2>1. \A x \in l..(h - 1) : s[m].i < x /\ x < h => ~leq[o[x], order[h]]
      BY <1>6 DEF ScanInv
    <2> HIDE DEF at
    <2>2. \A x \in at..(h - 1) : x \in l..(h - 1) /\ s[m].i < x /\ x < h
      BY <1>7
    <2> QED
      BY <2>1, <2>2
  <1>11. p.order = Swapped(o, at, h) /\ p.at = at
    BY <1>3
  <1> HIDE DEF o, at, p, m, T
  <1>12. at \in 1..n /\ at \in l..h
    BY <1>7
  <1>13. /\ Permutes(p.order, n)
         /\ p.order[at] = o[h] /\ p.order[h] = o[at]
         /\ \A z \in 1..n : z # at /\ z # h => p.order[z] = o[z]
    <2>1. Permutes(Swapped(o, at, h), n)
      BY <1>7, <1>12, SwappedPermutes
    <2>2. Swapped(o, at, h)[at] = o[h]
      BY <1>7, <1>12, SwappedPermutes
    <2>3. Swapped(o, at, h)[h] = o[at]
      BY <1>7, <1>12, SwappedPermutes
    <2>4. \A z \in 1..n : z # at /\ z # h => Swapped(o, at, h)[z] = o[z]
      BY <1>7, <1>12, SwappedPermutes
    <2> QED
      BY <1>11, <2>1, <2>2, <2>3, <2>4
  <1>14. o[h] = order[h]
    BY <1>8
  <1>15. \A x \in 1..n : x \notin l..h => p.order[x] = order[x]
    <2>1. ASSUME NEW x \in 1..n, x \notin l..h PROVE x # at /\ x # h /\ x \notin l..(h - 1)
      BY <1>12, <2>1
    <2> QED
      BY <1>8, <1>13, <2>1
  <1>16. ASSUME NEW x \in l..h PROVE \E y \in l..h : p.order[x] = order[y]
    <2>1. h \in l..h /\ \A y \in l..(h - 1) : y \in l..h
      OBVIOUS
    <2>2. \A z \in l..h : \E y \in l..h : o[z] = order[y]
      <3>1. ASSUME NEW z \in l..h PROVE z = h \/ z \in l..(h - 1)
        OBVIOUS
      <3> QED
        BY <1>8, <1>14, <2>1, <3>1
    <2>3. \E z \in l..h : p.order[x] = o[z]
      BY <1>12, <1>13, <2>1
    <2> QED
      BY <2>2, <2>3
  <1>17. ASSUME NEW x \in l..(at - 1) PROVE leq[p.order[x], p.order[at]]
    <2>1. x \in 1..n /\ x # at /\ x # h
      BY <1>7
    <2> QED
      BY <1>9, <1>13, <1>14, <2>1
  <1>18. ASSUME NEW x \in (at + 1)..h PROVE ~leq[p.order[x], p.order[at]]
    <2>1. x \in 1..n /\ x # at /\ at \in at..(h - 1)
      BY <1>7
    <2>2. CASE x = h
      BY <1>10, <1>13, <1>14, <2>1, <2>2
    <2>3. CASE x # h
      <3>1. x \in at..(h - 1)
        BY <1>7, <2>3
      <3> QED
        BY <1>10, <1>13, <1>14, <2>1, <2>3, <3>1
    <2> QED
      BY <2>2, <2>3
  <1>19. Parted(p, order, n, l, h, leq)
    BY <1>11, <1>12, <1>13, <1>15, <1>16, <1>17, <1>18 DEF Parted
  <1> QED
    BY <1>19 DEF p
-----------------------------------------------------------------------------
(* The segments on the stack *)

Segment(n) == {seg \in (1..n) \X (1..n) : seg[1] < seg[2]}

(* They lie apart, in the order of the stack, and there is room for two    *)
(* elements a segment before each.                                         *)
SegmentsApart(stack, n) ==
    /\ stack \in Seq(Segment(n))
    /\ \A q \in 1..Len(stack) : stack[q][1] >= 2 * q - 1
    /\ \A q, r \in 1..Len(stack) : q < r => stack[q][2] < stack[r][1]

(* The pivots of k rounds, which lie in no segment. *)
PivotsApart(stack, k, n) ==
    \E pivots \in SUBSET (1..n) :
        /\ Cardinality(pivots) = k
        /\ \A q \in 1..Len(stack) : \A x \in pivots : x < stack[q][1] \/ stack[q][2] < x

(* Two elements that are not in one segment are in order. *)
OrderedApart(order, stack, leq, n) ==
    \A i, j \in 1..n : i < j => \/ leq[order[i], order[j]]
                                \/ \E q \in 1..Len(stack) : stack[q][1] <= i /\ j <= stack[q][2]

RoundsInv(s, k, n) ==
    /\ Permutes(s.order, n)
    /\ SegmentsApart(s.stack, n)
    /\ s.stack # <<>> => PivotsApart(s.stack, k, n)

IsOrder(leq, n) == /\ \A a, b \in 1..n : leq[a, b] \/ leq[b, a]
                   /\ \A a, b, c \in 1..n : leq[a, b] /\ leq[b, c] => leq[a, c]

(* The last segment makes way for its parts. *)
Pushes(new, old, l, h, at, n) ==
    /\ new \in Seq(Segment(n))
    /\ \A q \in 1..(Len(old) - 1) : q \in 1..Len(new) /\ new[q] = old[q]
    /\ \A q \in 1..Len(new) : \/ q \in 1..(Len(old) - 1)
                              \/ q = Len(old) /\ new[q] = <<l, at - 1>> /\ at - 1 > l
                              \/ q = Len(old) /\ new[q] = <<at + 1, h>> /\ at + 1 < h
                              \/ /\ q = Len(old) + 1
                                 /\ new[q - 1] = <<l, at - 1>> /\ at - 1 > l
                                 /\ new[q] = <<at + 1, h>> /\ at + 1 < h
    /\ at - 1 > l => \E q \in 1..Len(new) : new[q] = <<l, at - 1>>
    /\ at + 1 < h => \E q \in 1..Len(new) : new[q] = <<at + 1, h>>

LEMMA RoundPushes ==
    ASSUME NEW n \in Nat, NEW old \in Seq(Segment(n)), old # <<>>,
           NEW l \in 1..n, NEW h \in 1..n, NEW at \in l..h
    PROVE  LET below == SubSeq(old, 1, Len(old) - 1)
               left == IF at - 1 > l THEN Append(below, <<l, at - 1>>) ELSE below
           IN  Pushes(IF at + 1 < h THEN Append(left, <<at + 1, h>>) ELSE left, old, l, h, at, n)
  <1> DEFINE below == SubSeq(old, 1, Len(old) - 1)
             lo == <<l, at - 1>>
             hi == <<at + 1, h>>
             left == IF at - 1 > l THEN Append(below, lo) ELSE below
             new == IF at + 1 < h THEN Append(left, hi) ELSE left
  <1>1. PICK d \in Nat : d = Len(old) - 1 /\ Len(old) = d + 1
    OBVIOUS
  <1>2. /\ below \in Seq(Segment(n)) /\ Len(below) = d
        /\ \A q \in 1..d : below[q] = old[q]
    BY <1>1, PoppedSeq
  <1>3. (at - 1 > l => lo \in Segment(n)) /\ (at + 1 < h => hi \in Segment(n))
    BY DEF Segment
  <1> HIDE DEF below, lo, hi
  <1>4. CASE at - 1 > l
    <2>1. /\ left \in Seq(Segment(n)) /\ Len(left) = d + 1
          /\ left[d + 1] = lo /\ \A q \in 1..d : left[q] = old[q]
      BY <1>2, <1>3, <1>4, AppendedSeq
    <2>2. CASE at + 1 < h
      <3> HIDE DEF left
      <3>1. /\ new \in Seq(Segment(n)) /\ Len(new) = d + 2
            /\ new[d + 2] = hi /\ \A q \in 1..(d + 1) : new[q] = left[q]
        BY <1>3, <2>1, <2>2, AppendedSeq
      <3>2. /\ \A q \in 1..d : new[q] = old[q] /\ q \in 1..Len(new)
            /\ new[d + 1] = lo
            /\ d + 1 \in 1..Len(new) /\ d + 2 \in 1..Len(new)
            /\ (d + 2) - 1 = d + 1 /\ d + 2 = (d + 1) + 1
            /\ \A q \in 1..Len(new) : q \in 1..d \/ q = d + 1 \/ q = d + 2
        BY <2>1, <3>1
      <3> HIDE DEF new
      <3>3. Pushes(new, old, l, h, at, n)
        BY <1>1, <1>4, <2>2, <3>1, <3>2 DEF Pushes, lo, hi
      <3> QED
        BY <3>3 DEF new, left, below, lo, hi
    <2>3. CASE ~(at + 1 < h)
      <3>1. new = left
        BY <2>3
      <3>2. /\ d + 1 \in 1..Len(left)
            /\ \A q \in 1..d : q \in 1..Len(left)
            /\ \A q \in 1..Len(left) : q \in 1..d \/ q = d + 1
        BY <2>1
      <3> HIDE DEF new, left
      <3>3. Pushes(new, old, l, h, at, n)
        BY <1>1, <1>4, <2>1, <2>3, <3>1, <3>2 DEF Pushes, lo, hi
      <3> QED
        BY <3>3 DEF new, left, below, lo, hi
    <2> QED
      BY <2>2, <2>3
  <1>5. CASE ~(at - 1 > l)
    <2>1. left = below
      BY <1>5
    <2>2. CASE at + 1 < h
      <3> HIDE DEF left
      <3>1. /\ new \in Seq(Segment(n)) /\ Len(new) = d + 1
            /\ new[d + 1] = hi /\ \A q \in 1..d : new[q] = old[q]
        BY <1>2, <1>3, <2>1, <2>2, AppendedSeq
      <3>2. /\ d + 1 \in 1..Len(new)
            /\ \A q \in 1..d : q \in 1..Len(new)
            /\ \A q \in 1..Len(new) : q \in 1..d \/ q = d + 1
        BY <3>1
      <3> HIDE DEF new
      <3>3. Pushes(new, old, l, h, at, n)
        BY <1>1, <1>5, <2>2, <3>1, <3>2 DEF Pushes, lo, hi
      <3> QED
        BY <3>3 DEF new, left, below, lo, hi
    <2>3. CASE ~(at + 1 < h)
      <3>1. new = below
        BY <2>1, <2>3
      <3> HIDE DEF new
      <3>2. Pushes(new, old, l, h, at, n)
        BY <1>1, <1>2, <1>5, <2>3, <3>1 DEF Pushes
      <3> QED
        BY <3>2 DEF new, left, below, lo, hi
    <2> QED
      BY <2>2, <2>3
  <1> QED
    BY <1>4, <1>5
LEMMA PushedWithin ==
    ASSUME NEW n \in Nat, NEW old \in Seq(Segment(n)), old # <<>>,
           NEW l \in 1..n, NEW h \in 1..n, NEW at \in l..h,
           NEW new, Pushes(new, old, l, h, at, n), NEW q \in 1..Len(new)
    PROVE  \/ q \in 1..(Len(old) - 1) /\ new[q] = old[q]
           \/ /\ l <= new[q][1] /\ new[q][2] <= h
              /\ new[q][2] < at \/ at < new[q][1]
  <1>1. \A lo, hi : <<lo, hi>>[1] = lo /\ <<lo, hi>>[2] = hi
    OBVIOUS
  <1>2. l <= at /\ at <= h /\ at \in Int
    OBVIOUS
  <1>3. l <= l /\ at - 1 <= h /\ at - 1 < at /\ l <= at + 1 /\ h <= h /\ at < at + 1
    BY <1>2
  <1>4. \/ q \in 1..(Len(old) - 1)
        \/ new[q] = <<l, at - 1>>
        \/ new[q] = <<at + 1, h>>
    BY DEF Pushes
  <1>5. \A r \in 1..(Len(old) - 1) : new[r] = old[r]
    BY DEF Pushes
  <1> QED
    BY <1>1, <1>3, <1>4, <1>5

LEMMA StackKeeps ==
    ASSUME NEW n \in Nat, NEW old, SegmentsApart(old, n), old # <<>>,
           NEW l \in 1..n, NEW h \in 1..n, old[Len(old)] = <<l, h>>, NEW at \in l..h,
           NEW new, Pushes(new, old, l, h, at, n)
    PROVE  SegmentsApart(new, n)
  <1>1. old \in Seq(Segment(n)) /\ new \in Seq(Segment(n))
    BY DEF SegmentsApart, Pushes
  <1>2. PICK t \in Nat : t = Len(old) /\ t \in 1..Len(old)
    BY <1>1
  <1>3. \A q \in 1..Len(old) : old[q][1] \in 1..n /\ old[q][2] \in 1..n
    BY <1>1 DEF Segment
  <1>4. l >= 2 * t - 1 /\ \A q \in 1..(t - 1) : old[q][2] < l
    <2>1. old[t][1] = l /\ \A q \in 1..(t - 1) : q \in 1..Len(old) /\ q < t
      BY <1>2
    <2> QED
      BY <1>2, <2>1 DEF SegmentsApart
  <1>5. ASSUME NEW q \in 1..Len(new)
        PROVE  /\ new[q][1] \in 1..n /\ new[q][2] \in 1..n
               /\ \/ q \in 1..(t - 1) /\ new[q] = old[q]
                  \/ q = t /\ l <= new[q][1]
                  \/ /\ q = t + 1 /\ l + 3 <= new[q][1]
                     /\ new[t][2] < new[q][1]
    <2>1. new[q][1] \in 1..n /\ new[q][2] \in 1..n
      BY <1>1 DEF Segment
    <2>2. \/ q \in 1..(t - 1)
          \/ q = t /\ new[q] = <<l, at - 1>> /\ at - 1 > l
          \/ q = t /\ new[q] = <<at + 1, h>> /\ at + 1 < h
          \/ /\ q = t + 1
             /\ new[q - 1] = <<l, at - 1>> /\ at - 1 > l
             /\ new[q] = <<at + 1, h>> /\ at + 1 < h
      BY <1>2 DEF Pushes
    <2>3. CASE q \in 1..(t - 1)
      BY <1>2, <2>1, <2>3 DEF Pushes
    <2>4. CASE q = t /\ new[q] = <<l, at - 1>>
      BY <2>1, <2>4
    <2>5. CASE q = t /\ new[q] = <<at + 1, h>>
      <3>1. new[q][1] = at + 1 /\ l <= at + 1
        BY <2>5
      <3> QED
        BY <2>1, <2>5, <3>1
    <2>6. CASE /\ q = t + 1
               /\ new[q - 1] = <<l, at - 1>> /\ at - 1 > l
               /\ new[q] = <<at + 1, h>>
      <3>1. q - 1 = t
        BY <2>6
      <3>2. new[t][2] = at - 1 /\ new[q][1] = at + 1
        BY <2>6, <3>1
      <3>3. l + 3 <= at + 1 /\ at - 1 < at + 1
        BY <2>6
      <3> QED
        BY <2>1, <2>6, <3>2, <3>3
    <2> QED
      BY <2>2, <2>3, <2>4, <2>5, <2>6
  <1>6. ASSUME NEW q \in 1..Len(new) PROVE new[q][1] >= 2 * q - 1
    <2>1. PICK x \in 1..n : x = new[q][1]
      BY <1>5
    <2>2. CASE q \in 1..(t - 1) /\ new[q] = old[q]
      <3>1. q \in 1..Len(old)
        BY <1>2, <2>2
      <3> QED
        BY <2>2, <3>1 DEF SegmentsApart
    <2>3. CASE q = t /\ l <= x
      BY <1>4, <2>1, <2>3
    <2>4. CASE q = t + 1 /\ l + 3 <= x
      <3>1. x >= 2 * q - 1
        BY <1>4, <2>4
      <3> QED
        BY <2>1, <3>1
    <2> QED
      BY <1>5, <2>1, <2>2, <2>3, <2>4
  <1>7. ASSUME NEW q \in 1..Len(new), NEW r \in 1..Len(new), q < r
        PROVE  new[q][2] < new[r][1]
    <2>1. CASE r \in 1..(t - 1)
      <3>1. q \in 1..(t - 1) /\ q \in 1..Len(old) /\ r \in 1..Len(old)
        BY <1>2, <1>7, <2>1
      <3>2. new[q] = old[q] /\ new[r] = old[r]
        BY <1>2, <2>1, <3>1 DEF Pushes
      <3> QED
        BY <1>7, <3>1, <3>2 DEF SegmentsApart
    <2>2. CASE q \in 1..(t - 1) /\ r \notin 1..(t - 1)
      <3>1. l <= new[r][1]
        <4>1. PICK x \in 1..n : x = new[r][1]
          BY <1>5
        <4>2. l <= x \/ l + 3 <= x
          BY <1>5, <2>2, <4>1
        <4> QED
          BY <4>1, <4>2
      <3>2. new[q] = old[q] /\ old[q][2] < l /\ q \in 1..Len(old)
        BY <1>2, <1>4, <2>2 DEF Pushes
      <3>3. PICK x \in 1..n, y \in 1..n : x = new[r][1] /\ y = old[q][2]
        BY <1>3, <1>5, <3>2
      <3> QED
        BY <3>1, <3>2, <3>3
    <2>3. CASE q \notin 1..(t - 1) /\ r \notin 1..(t - 1)
      <3>1. (q = t \/ q = t + 1) /\ (r = t \/ r = t + 1)
        BY <1>5, <2>3
      <3>2. q = t /\ r = t + 1
        BY <1>7, <3>1
      <3>3. r # t /\ r \notin 1..(t - 1)
        BY <3>2
      <3> QED
        BY <1>5, <3>2, <3>3
    <2>4. CASE q \notin 1..(t - 1) /\ r \in 1..(t - 1)
      BY <1>7, <2>4
    <2> QED
      BY <2>1, <2>2, <2>3, <2>4
  <1> QED
    BY <1>1, <1>6, <1>7 DEF SegmentsApart

LEMMA PivotsKeep ==
    ASSUME NEW n \in Nat, NEW k \in Nat, NEW old, SegmentsApart(old, n), old # <<>>,
           PivotsApart(old, k, n),
           NEW l \in 1..n, NEW h \in 1..n, old[Len(old)] = <<l, h>>, NEW at \in l..h,
           NEW new, Pushes(new, old, l, h, at, n)
    PROVE  PivotsApart(new, k + 1, n)
  <1>1. old \in Seq(Segment(n)) /\ new \in Seq(Segment(n))
    BY DEF SegmentsApart, Pushes
  <1>2. PICK t \in Nat : t = Len(old) /\ t \in 1..Len(old)
    BY <1>1
  <1>3. \A q \in 1..(t - 1) : old[q][2] < l /\ old[q][2] \in 1..n /\ q \in 1..Len(old)
    <2>1. old[t][1] = l /\ \A q \in 1..(t - 1) : q \in 1..Len(old) /\ q < t
      BY <1>2
    <2>2. \A q \in 1..Len(old) : old[q][2] \in 1..n
      BY <1>1 DEF Segment
    <2> QED
      BY <1>2, <2>1, <2>2 DEF SegmentsApart
  <1>4. PICK pivots \in SUBSET (1..n) :
            /\ Cardinality(pivots) = k
            /\ \A q \in 1..Len(old) : \A x \in pivots : x < old[q][1] \/ old[q][2] < x
    BY DEF PivotsApart
  <1>5. \A x \in pivots : x < l \/ h < x
    <2>1. old[t][1] = l /\ old[t][2] = h
      BY <1>2
    <2> QED
      BY <1>2, <1>4, <2>1
  <1>6. at \notin pivots /\ at \in 1..n
    <2>1. ~(at < l) /\ ~(h < at) /\ at \in 1..n
      OBVIOUS
    <2> QED
      BY <1>5, <2>1
  <1>7. Cardinality(pivots \cup {at}) = k + 1
    <2>1. IsFiniteSet(pivots)
      <3>1. IsFiniteSet(1..n)
        BY FS_Interval
      <3> QED
        BY <3>1, FS_Subset
    <2> QED
      BY <1>4, <1>6, <2>1, FS_AddElement
  <1>8. ASSUME NEW q \in 1..Len(new), NEW x \in pivots \cup {at}
        PROVE  x < new[q][1] \/ new[q][2] < x
    <2>1. \/ q \in 1..(t - 1) /\ new[q] = old[q]
          \/ /\ l <= new[q][1] /\ new[q][2] <= h
             /\ new[q][2] < at \/ at < new[q][1]
      BY <1>1, <1>2, PushedWithin
    <2>2. CASE q \in 1..(t - 1) /\ new[q] = old[q]
      <3>1. CASE x \in pivots
        BY <1>3, <1>4, <2>2, <3>1
      <3>2. CASE x = at
        <4>1. PICK y \in 1..n : y = old[q][2] /\ y < l
          BY <1>3, <2>2
        <4>2. y < at
          BY <4>1
        <4> QED
          BY <2>2, <3>2, <4>1, <4>2
      <3> QED
        BY <3>1, <3>2
    <2>3. CASE /\ l <= new[q][1] /\ new[q][2] <= h
               /\ new[q][2] < at \/ at < new[q][1]
      <3>1. PICK y \in 1..n, z \in 1..n : y = new[q][1] /\ z = new[q][2]
        BY <1>1 DEF Segment
      <3>2. x \in 1..n /\ (x < l \/ h < x \/ x = at)
        BY <1>5, <1>6
      <3>3. x < y \/ z < x
        BY <2>3, <3>1, <3>2
      <3> QED
        BY <3>1, <3>3
    <2> QED
      BY <2>1, <2>2, <2>3
  <1>9. pivots \cup {at} \in SUBSET (1..n)
    BY <1>6
  <1> QED
    BY <1>7, <1>8, <1>9 DEF PivotsApart
(* Two elements are in order after a partition, or they are in one of the  *)
(* parts, or in another segment.                                           *)
LEMMA OrderKeeps ==
    ASSUME NEW n \in Nat, NEW leq \in Table(n), IsOrder(leq, n),
           NEW order, Permutes(order, n), NEW old, SegmentsApart(old, n), old # <<>>,
           OrderedApart(order, old, leq, n),
           NEW l \in 1..n, NEW h \in 1..n, old[Len(old)] = <<l, h>>,
           NEW p, Parted(p, order, n, l, h, leq),
           NEW new, Pushes(new, old, l, h, p.at, n)
    PROVE  OrderedApart(p.order, new, leq, n)
  <1>1. old \in Seq(Segment(n))
    BY DEF SegmentsApart
  <1>2. PICK t \in Nat : t = Len(old) /\ t \in 1..Len(old)
    BY <1>1
  <1>o. PICK o : o = p.order /\ Permutes(o, n)
    BY DEF Parted
  <1>3. PICK at \in l..h : at = p.at
    BY DEF Parted
  <1>4. /\ \A x \in 1..n : o[x] \in 1..n
        /\ \A a, b \in 1..n : leq[a, b] \/ leq[b, a]
        /\ \A a, b, c \in 1..n : leq[a, b] /\ leq[b, c] => leq[a, c]
    BY <1>3, <1>o DEF Permutes, IsOrder
  <1>5. /\ \A x \in 1..n : x \notin l..h => o[x] = order[x]
        /\ \A x \in l..h : \E y \in l..h : o[x] = order[y]
    BY <1>3, <1>o DEF Parted
  <1>6. /\ \A x \in l..(at - 1) : leq[o[x], o[at]]
        /\ \A x \in (at + 1)..h : ~leq[o[x], o[at]]
    BY <1>3, <1>o DEF Parted
  <1>7. /\ at \in 1..n
        /\ \A x \in l..h : /\ x \in 1..n
                           /\ x < at => x \in l..(at - 1)
                           /\ at < x => x \in (at + 1)..h
    OBVIOUS
  <1>8. \A x \in l..h : at < x => leq[o[at], o[x]]
    BY <1>4, <1>6, <1>7
  <1>9. \A x \in l..h : x < at => leq[o[x], o[at]]
    BY <1>6, <1>7
  (* The other segments stay, and they do not reach into this one. *)
  <1>10. \A q \in 1..(t - 1) : q \in 1..Len(new) /\ new[q] = old[q]
    BY <1>2 DEF Pushes
  <1>11. old[t][1] = l /\ old[t][2] = h
    BY <1>2
  <1>12. \A q \in 1..(t - 1) : old[q][2] < l /\ old[q][2] \in 1..n /\ old[q][1] \in 1..n
    <2>1. \A q \in 1..(t - 1) : q \in 1..Len(old) /\ q < t
      BY <1>2
    <2>2. \A q \in 1..Len(old) : old[q][2] \in 1..n /\ old[q][1] \in 1..n
      BY <1>1 DEF Segment
    <2> QED
      BY <1>2, <1>11, <2>1, <2>2 DEF SegmentsApart
  <1> DEFINE Together(i, j) == \E q \in 1..Len(new) : new[q][1] <= i /\ j <= new[q][2]
  <1>13. SUFFICES ASSUME NEW i \in 1..n, NEW j \in 1..n, i < j
                  PROVE  leq[o[i], o[j]] \/ Together(i, j)
    BY <1>3, <1>o DEF OrderedApart
  (* What was known of the elements that came to i and j. *)
  <1>14. \A x, y \in 1..n : x < y =>
            \/ leq[order[x], order[y]]
            \/ l <= x /\ y <= h
            \/ \E q \in 1..(t - 1) : old[q][1] <= x /\ y <= old[q][2]
    <2>1. \A q \in 1..Len(old) : q = t \/ q \in 1..(t - 1)
      BY <1>2
    <2> QED
      BY <1>2, <1>11, <2>1 DEF OrderedApart
  <1>15. CASE i \in l..h /\ j \in l..h
    <2>1. CASE i <= at /\ at <= j
      <3>1. CASE i < at /\ at < j
        BY <1>4, <1>7, <1>8, <1>9, <1>15, <3>1
      <3>2. CASE i = at
        <4>1. at < j
          BY <1>13, <3>2
        <4> QED
          BY <1>8, <1>15, <3>2, <4>1
      <3>3. CASE at = j
        <4>1. i < at
          BY <1>13, <3>3
        <4> QED
          BY <1>9, <1>15, <3>3, <4>1
      <3>4. (i < at /\ at < j) \/ i = at \/ at = j
        BY <2>1
      <3> HIDE DEF Together
      <3> QED
        BY <3>1, <3>2, <3>3, <3>4
    <2>2. CASE j < at
      <3>1. at - 1 > l /\ l <= i /\ j <= at - 1
        BY <1>13, <1>15, <2>2
      <3>2. \E q \in 1..Len(new) : new[q] = <<l, at - 1>>
        BY <1>3, <1>o, <3>1 DEF Pushes
      <3>3. <<l, at - 1>>[1] = l /\ <<l, at - 1>>[2] = at - 1
        OBVIOUS
      <3> QED
        BY <3>1, <3>2, <3>3
    <2>3. CASE at < i
      <3>1. at + 1 < h /\ at + 1 <= i /\ j <= h
        BY <1>13, <1>15, <2>3
      <3>2. \E q \in 1..Len(new) : new[q] = <<at + 1, h>>
        BY <1>3, <1>o, <3>1 DEF Pushes
      <3>3. <<at + 1, h>>[1] = at + 1 /\ <<at + 1, h>>[2] = h
        OBVIOUS
      <3> QED
        BY <3>1, <3>2, <3>3
    <2>4. (i <= at /\ at <= j) \/ j < at \/ at < i
      OBVIOUS
    <2> HIDE DEF Together
    <2> QED
      BY <2>1, <2>2, <2>3, <2>4
  <1>16. CASE i \in l..h /\ j \notin l..h
    <2>1. h < j
      BY <1>13, <1>16
    <2>2. PICK x \in l..h : o[i] = order[x]
      BY <1>5, <1>16
    <2>3. x \in 1..n /\ x < j /\ ~(j <= h) /\ o[j] = order[j]
      BY <1>5, <1>16, <2>1
    <2>4. ASSUME NEW q \in 1..(t - 1), old[q][1] <= x, j <= old[q][2] PROVE FALSE
      <3>1. PICK y \in 1..n : y = old[q][2] /\ y < l /\ j <= y
        BY <1>12, <2>4
      <3>2. l <= h
        OBVIOUS
      <3> QED
        BY <2>1, <3>1, <3>2
    <2>5. leq[order[x], order[j]]
      BY <1>14, <2>3, <2>4
    <2> QED
      BY <2>2, <2>3, <2>5
  <1>17. CASE i \notin l..h /\ j \in l..h
    <2>1. i < l
      BY <1>13, <1>17
    <2>2. PICK y \in l..h : o[j] = order[y]
      BY <1>5, <1>17
    <2>3. y \in 1..n /\ i < y /\ ~(l <= i) /\ o[i] = order[i]
      BY <1>5, <1>17, <2>1
    <2>4. ASSUME NEW q \in 1..(t - 1), old[q][1] <= i, y <= old[q][2] PROVE FALSE
      <3>1. PICK z \in 1..n : z = old[q][2] /\ z < l /\ y <= z
        BY <1>12, <2>4
      <3> QED
        BY <2>2, <3>1
    <2>5. leq[order[i], order[y]]
      BY <1>14, <2>3, <2>4
    <2> QED
      BY <2>2, <2>3, <2>5
  <1>18. CASE i \notin l..h /\ j \notin l..h
    <2>1. o[i] = order[i] /\ o[j] = order[j]
      BY <1>5, <1>18
    <2>2. ~(l <= i /\ j <= h)
      BY <1>13, <1>18
    <2>3. ASSUME NEW q \in 1..(t - 1), old[q][1] <= i, j <= old[q][2] PROVE Together(i, j)
      BY <1>10, <2>3
    <2> HIDE DEF Together
    <2>4. \/ leq[order[i], order[j]]
          \/ \E q \in 1..(t - 1) : old[q][1] <= i /\ j <= old[q][2]
      BY <1>13, <1>14, <2>2
    <2> QED
      BY <2>1, <2>3, <2>4
  <1> QED
    BY <1>15, <1>16, <1>17, <1>18

LEMMA RoundKeeps ==
    ASSUME NEW n \in Nat, NEW leq \in Table(n), NEW k \in Nat,
           NEW s, RoundsInv(s, k, n), s.stack # <<>>
    PROVE  /\ RoundsInv(Round(s, leq), k + 1, n)
           /\ IsOrder(leq, n) /\ OrderedApart(s.order, s.stack, leq, n)
                 => OrderedApart(Round(s, leq).order, Round(s, leq).stack, leq, n)
  <1> DEFINE old == s.stack
             l == old[Len(old)][1]
             h == old[Len(old)][2]
             p == Partition(s.order, l, h, leq)
             new == Round(s, leq).stack
  <1>1. Permutes(s.order, n) /\ SegmentsApart(old, n) /\ PivotsApart(old, k, n)
    BY DEF RoundsInv
  <1>2. old \in Seq(Segment(n)) /\ Len(old) \in 1..Len(old)
    BY <1>1 DEF SegmentsApart
  <1>3. l \in 1..n /\ h \in 1..n /\ l < h /\ old[Len(old)] = <<l, h>>
    <2>1. old[Len(old)] \in Segment(n)
      BY <1>2
    <2> QED
      BY <2>1 DEF Segment
  <1>4. /\ Round(s, leq).order = p.order
        /\ new = LET below == SubSeq(old, 1, Len(old) - 1)
                     left == IF p.at - 1 > l THEN Append(below, <<l, p.at - 1>>) ELSE below
                 IN  IF p.at + 1 < h THEN Append(left, <<p.at + 1, h>>) ELSE left
    BY DEF Round
  <1> HIDE DEF old, l, h, p, new
  <1>5. Parted(p, s.order, n, l, h, leq)
    BY <1>1, <1>3, PartitionParts DEF p
  <1>6. p.at \in l..h /\ Permutes(p.order, n)
    BY <1>5 DEF Parted
  <1>7. Pushes(new, old, l, h, p.at, n)
    BY <1>2, <1>3, <1>4, <1>6, RoundPushes DEF old
  <1>8. SegmentsApart(new, n)
    BY <1>1, <1>3, <1>6, <1>7, StackKeeps DEF old
  <1>9. PivotsApart(new, k + 1, n)
    BY <1>1, <1>3, <1>6, <1>7, PivotsKeep DEF old
  <1>10. RoundsInv(Round(s, leq), k + 1, n)
    BY <1>4, <1>6, <1>8, <1>9 DEF RoundsInv, new
  <1>11. ASSUME IsOrder(leq, n), OrderedApart(s.order, old, leq, n)
         PROVE  OrderedApart(p.order, new, leq, n)
    BY <1>1, <1>3, <1>5, <1>7, <1>11, OrderKeeps DEF old
  <1> QED
    BY <1>4, <1>10, <1>11 DEF old, new
(* The recursive definition of the rounds has a solution. *)
Goes(f, m, n, leq) ==
    f = [k \in 0..m |->
            IF k = 0 THEN [order |-> [i \in 1..n |-> i],
                           stack |-> IF n <= 1 THEN <<>> ELSE <<<<1, n>>>>]
            ELSE IF f[k - 1].stack = <<>> THEN f[k - 1] ELSE Round(f[k - 1], leq)]

LEMMA RoundsExist ==
    ASSUME NEW n \in Nat, NEW leq, NEW m \in Nat
    PROVE  \E f : Goes(f, m, n, leq)
  <1> DEFINE T == {k \in Nat : \E f : Goes(f, k, n, leq)}
             start == [order |-> [i \in 1..n |-> i],
                       stack |-> IF n <= 1 THEN <<>> ELSE <<<<1, n>>>>]
             Next(s) == IF s.stack = <<>> THEN s ELSE Round(s, leq)
  <1>1. 0 \in T
    <2>1. Goes([k \in 0..0 |-> start], 0, n, leq)
      BY DEF Goes
    <2> QED
      BY <2>1
  <1>2. ASSUME NEW k \in 0..(m - 1), k \in T PROVE k + 1 \in T
    <2>1. PICK f : Goes(f, k, n, leq)
      BY <1>2
    <2> DEFINE g == [i \in 0..(k + 1) |-> IF i = k + 1 THEN Next(f[k]) ELSE f[i]]
    <2>2. k \in Nat /\ (k + 1) - 1 = k /\ k + 1 # 0
      OBVIOUS
    <2> HIDE DEF start, Next
    <2>3. \A i \in 0..k : f[i] = IF i = 0 THEN start ELSE Next(f[i - 1])
      BY <2>1 DEF Goes, start, Next
    <2>4. ASSUME NEW i \in 0..(k + 1) PROVE g[i] = IF i = 0 THEN start ELSE Next(g[i - 1])
      <3>1. CASE i = k + 1
        <4>1. g[i] = Next(f[k]) /\ g[k] = f[k]
          BY <2>2, <3>1
        <4> QED
          BY <2>2, <3>1, <4>1
      <3>2. CASE i # k + 1
        <4>1. i \in 0..k /\ g[i] = f[i]
          BY <2>2, <3>2
        <4>2. i # 0 => i - 1 \in 0..(k + 1) /\ i - 1 # k + 1
          BY <2>2, <4>1
        <4>3. i # 0 => g[i - 1] = f[i - 1]
          BY <4>2
        <4> QED
          BY <2>3, <4>1, <4>3
      <3> QED
        BY <3>1, <3>2
    <2>5. g = [i \in 0..(k + 1) |-> g[i]]
      OBVIOUS
    <2> HIDE DEF g
    <2>6. g = [i \in 0..(k + 1) |-> IF i = 0 THEN start ELSE Next(g[i - 1])]
      BY <2>4, <2>5
    <2>7. Goes(g, k + 1, n, leq)
      BY <2>6 DEF Goes, start, Next
    <2> QED
      BY <2>2, <2>7
  <1> HIDE DEF T
  <1>3. \A k \in 0..m : k \in T
    BY <1>1, <1>2, UpTo
  <1>4. m \in T
    BY <1>3
  <1> QED
    BY <1>4 DEF T

LEMMA RoundsGo ==
    ASSUME NEW n \in Nat, NEW leq
    PROVE  /\ Rounds(n, leq)[0] = [order |-> [i \in 1..n |-> i],
                                   stack |-> IF n <= 1 THEN <<>> ELSE <<<<1, n>>>>]
           /\ \A k \in 0..(n - 1) :
                 Rounds(n, leq)[k + 1] = IF Rounds(n, leq)[k].stack = <<>> THEN Rounds(n, leq)[k]
                                         ELSE Round(Rounds(n, leq)[k], leq)
  <1> DEFINE Is(f) == Goes(f, n, n, leq)
             s == Rounds(n, leq)
             start == [order |-> [i \in 1..n |-> i],
                       stack |-> IF n <= 1 THEN <<>> ELSE <<<<1, n>>>>]
             Next(r) == IF r.stack = <<>> THEN r ELSE Round(r, leq)
  <1>1. s = CHOOSE f : Is(f)
    BY DEF Rounds, Goes
  <1>2. \E f : Is(f)
    BY RoundsExist
  <1> HIDE DEF Is, s
  <1>3. Is(s)
    BY <1>1, <1>2
  <1> HIDE DEF start, Next
  <1>4. \A k \in 0..n : s[k] = IF k = 0 THEN start ELSE Next(s[k - 1])
    BY <1>3 DEF Is, Goes, start, Next
  <1>5. s[0] = start
    BY <1>4
  <1>6. ASSUME NEW k \in 0..(n - 1) PROVE s[k + 1] = Next(s[k])
    <2>1. k + 1 \in 0..n /\ (k + 1) - 1 = k /\ k + 1 # 0
      OBVIOUS
    <2> QED
      BY <1>4, <2>1
  <1> QED
    BY <1>5, <1>6 DEF s, start, Next

LEMMA RoundsStart ==
    ASSUME NEW n \in Nat, NEW leq
    PROVE  /\ RoundsInv(Rounds(n, leq)[0], 0, n)
           /\ OrderedApart(Rounds(n, leq)[0].order, Rounds(n, leq)[0].stack, leq, n)
  <1> DEFINE order == [i \in 1..n |-> i]
             stack == IF n <= 1 THEN <<>> ELSE <<<<1, n>>>>
  <1>1. Rounds(n, leq)[0].order = order /\ Rounds(n, leq)[0].stack = stack
    <2>1. Rounds(n, leq)[0] = [order |-> order, stack |-> stack]
      BY RoundsGo
    <2> HIDE DEF order, stack
    <2> QED
      BY <2>1
  <1>2. Permutes(order, n)
    BY DEF Permutes
  <1>3. CASE n <= 1
    <2>1. stack = <<>> /\ stack \in Seq(Segment(n)) /\ 1..Len(stack) = {}
      BY <1>3
    <2>2. SegmentsApart(stack, n)
      BY <2>1 DEF SegmentsApart
    <2>3. OrderedApart(order, stack, leq, n)
      <3>1. \A i, j \in 1..n : ~(i < j)
        BY <1>3
      <3> QED
        BY <3>1 DEF OrderedApart
    <2> HIDE DEF stack, order
    <2> QED
      BY <1>1, <1>2, <2>1, <2>2, <2>3 DEF RoundsInv
  <1>4. CASE n > 1
    <2>1. <<1, n>> \in Segment(n) /\ stack = <<<<1, n>>>>
      BY <1>4 DEF Segment
    <2>2. /\ stack \in Seq(Segment(n)) /\ Len(stack) = 1 /\ stack[1] = <<1, n>>
          /\ stack[1][1] = 1 /\ stack[1][2] = n
      BY <2>1
    <2> HIDE DEF stack, order
    <2>3. \A q \in 1..Len(stack) : q = 1
      BY <2>2
    <2>4. SegmentsApart(stack, n)
      <3>1. \A q \in 1..Len(stack) : stack[q][1] >= 2 * q - 1
        BY <2>2, <2>3
      <3> QED
        BY <2>2, <2>3, <3>1 DEF SegmentsApart
    <2>5. PivotsApart(stack, 0, n)
      <3>1. {} \in SUBSET (1..n) /\ Cardinality({}) = 0
        BY FS_EmptySet
      <3> QED
        BY <3>1 DEF PivotsApart
    <2>6. OrderedApart(order, stack, leq, n)
      <3>1. 1 \in 1..Len(stack) /\ \A i, j \in 1..n : stack[1][1] <= i /\ j <= stack[1][2]
        BY <2>2
      <3> QED
        BY <3>1 DEF OrderedApart
    <2> QED
      BY <1>1, <1>2, <2>4, <2>5, <2>6 DEF RoundsInv, order
  <1> QED
    BY <1>3, <1>4

LEMMA RoundsKeep ==
    ASSUME NEW n \in Nat, NEW leq \in Table(n)
    PROVE  \A k \in 0..n : /\ RoundsInv(Rounds(n, leq)[k], k, n)
                           /\ IsOrder(leq, n) => OrderedApart(Rounds(n, leq)[k].order,
                                                              Rounds(n, leq)[k].stack, leq, n)
  <1> DEFINE s == Rounds(n, leq)
             Holds(k) == /\ RoundsInv(s[k], k, n)
                         /\ IsOrder(leq, n) => OrderedApart(s[k].order, s[k].stack, leq, n)
             T == {k \in Nat : Holds(k)}
  <1>1. 0 \in T
    BY RoundsStart
  <1>2. ASSUME NEW k \in 0..(n - 1), k \in T PROVE k + 1 \in T
    <2>1. k + 1 \in Nat /\ k \in Nat
      OBVIOUS
    <2>2. s[k + 1] = IF s[k].stack = <<>> THEN s[k] ELSE Round(s[k], leq)
      BY RoundsGo
    <2> HIDE DEF s
    <2>3. CASE s[k].stack = <<>>
      <3>1. RoundsInv(s[k], k + 1, n)
        BY <1>2, <2>3 DEF RoundsInv
      <3> QED
        BY <1>2, <2>1, <2>2, <2>3, <3>1
    <2>4. CASE s[k].stack # <<>>
      <3>1. PICK r : r = s[k] /\ RoundsInv(r, k, n) /\ r.stack # <<>>
        BY <1>2, <2>4
      <3>2. RoundsInv(Round(r, leq), k + 1, n)
        BY <2>1, <3>1, RoundKeeps
      <3>3. IsOrder(leq, n) => OrderedApart(Round(r, leq).order, Round(r, leq).stack, leq, n)
        BY <1>2, <2>1, <3>1, RoundKeeps
      <3>4. Holds(k + 1)
        BY <2>2, <2>4, <3>1, <3>2, <3>3
      <3> QED
        BY <2>1, <3>4
    <2> QED
      BY <2>3, <2>4
  <1> HIDE DEF T
  <1>3. \A k \in 0..n : k \in T
    BY <1>1, <1>2, UpTo
  <1> QED
    BY <1>3 DEF T

(* sort_qsort_indicies ends: after a round for each element at most the    *)
(* stack is empty, whatever the comparison function answers; and the stack *)
(* never needs more cells than there are elements, two for each segment    *)
(* (sort.c:30, 43-51).                                                     *)
THEOREM QuicksortEnds ==
    ASSUME NEW n \in Nat, NEW leq \in Table(n)
    PROVE  /\ Rounds(n, leq)[n].stack = <<>>
           /\ \A k \in 0..n : 2 * Len(Rounds(n, leq)[k].stack) <= n
  <1> DEFINE s == Rounds(n, leq)
  <1>1. \A k \in 0..n : RoundsInv(s[k], k, n)
    BY RoundsKeep
  <1> HIDE DEF s
  <1>2. s[n].stack = <<>>
    <2>1. SUFFICES ASSUME s[n].stack # <<>> PROVE FALSE
      OBVIOUS
    <2>2. SegmentsApart(s[n].stack, n) /\ PivotsApart(s[n].stack, n, n)
      BY <1>1, <2>1 DEF RoundsInv
    <2>3. 1 \in 1..Len(s[n].stack) /\ s[n].stack[1] \in Segment(n)
      BY <2>1, <2>2 DEF SegmentsApart
    <2>4. PICK x \in 1..n, y \in 1..n : x = s[n].stack[1][1] /\ y = s[n].stack[1][2] /\ x < y
      BY <2>3 DEF Segment
    <2>5. PICK pivots \in SUBSET (1..n) :
              /\ Cardinality(pivots) = n
              /\ \A q \in 1..Len(s[n].stack) :
                    \A z \in pivots : z < s[n].stack[q][1] \/ s[n].stack[q][2] < z
      BY <2>2 DEF PivotsApart
    <2>6. pivots = 1..n
      <3>1. IsFiniteSet(1..n)
        BY FS_Interval
      <3>2. Cardinality(1..n) = n
        <4>1. Cardinality(1..n) = IF 1 > n THEN 0 ELSE n - 1 + 1
          BY FS_Interval
        <4> QED
          BY <4>1
      <3>3. Cardinality(1..n) = Cardinality(pivots) => 1..n = pivots
        BY <3>1, FS_Subset
      <3> QED
        BY <2>5, <3>2, <3>3
    <2>7. x \in pivots
      BY <2>6
    <2>8. x < x \/ y < x
      BY <2>3, <2>4, <2>5, <2>7
    <2> QED
      BY <2>4, <2>8
  <1>3. ASSUME NEW k \in 0..n PROVE 2 * Len(s[k].stack) <= n
    <2>1. PICK t : t = s[k].stack
      OBVIOUS
    <2>2. SegmentsApart(t, n)
      BY <1>1, <2>1 DEF RoundsInv
    <2>3. t \in Seq(Segment(n)) /\ Len(t) \in Nat
      BY <2>2 DEF SegmentsApart
    <2>4. CASE Len(t) = 0
      BY <2>1, <2>4
    <2>5. CASE Len(t) # 0
      <3>1. PICK q \in Nat : q = Len(t) /\ q \in 1..Len(t)
        BY <2>3, <2>5
      <3>2. t[q] \in Segment(n)
        BY <2>3, <3>1
      <3>3. PICK x \in 1..n, y \in 1..n : x = t[q][1] /\ y = t[q][2] /\ x < y
        BY <3>2 DEF Segment
      <3>4. x >= 2 * q - 1
        BY <2>2, <3>1, <3>3 DEF SegmentsApart
      <3>5. 2 * q <= n
        BY <3>3, <3>4
      <3> QED
        BY <2>1, <3>1, <3>5
    <2> QED
      BY <2>4, <2>5
  <1> QED
    BY <1>2, <1>3 DEF s

(* Sorting keeps every element, and takes none twice, also by a comparison *)
(* that is no order, like that of arrays by their common prefix or that of *)
(* numbers with NAN (doc.c:778-833, 1037-1101): whoever copies keys and    *)
(* values by the sorted indices loses nothing.                             *)
THEOREM QuicksortPermutes ==
    ASSUME NEW n \in Nat, NEW leq \in Table(n)
    PROVE  /\ Quicksort(n, leq) \in [1..n -> 1..n]
           /\ \A i, j \in 1..n : Quicksort(n, leq)[i] = Quicksort(n, leq)[j] => i = j
           /\ \A v \in 1..n : \E i \in 1..n : Quicksort(n, leq)[i] = v
  <1>1. n \in 0..n
    OBVIOUS
  <1>2. RoundsInv(Rounds(n, leq)[n], n, n)
    BY <1>1, RoundsKeep
  <1>3. Permutes(Quicksort(n, leq), n)
    BY <1>2 DEF RoundsInv, Quicksort
  <1> QED
    BY <1>3 DEF Permutes

(* By a comparison that is a total order the elements end up in order.     *)
THEOREM QuicksortSorts ==
    ASSUME NEW n \in Nat, NEW leq \in Table(n), IsOrder(leq, n)
    PROVE  \A i, j \in 1..n : i < j => leq[Quicksort(n, leq)[i], Quicksort(n, leq)[j]]
  <1>1. n \in 0..n
    OBVIOUS
  <1>2. OrderedApart(Rounds(n, leq)[n].order, Rounds(n, leq)[n].stack, leq, n)
    BY <1>1, RoundsKeep
  <1>3. Rounds(n, leq)[n].stack = <<>>
    BY QuicksortEnds
  <1>4. \A q \in 1..Len(Rounds(n, leq)[n].stack) : FALSE
    BY <1>3
  <1> QED
    BY <1>2, <1>4 DEF OrderedApart, Quicksort

-----------------------------------------------------------------------------
(* Numbers *)

(* The recursive definition of the powers of two up to m has one solution. *)
Powers(f, m) == f = [k \in 0..m |-> IF k = 0 THEN 1 ELSE 2 * f[k - 1]]

LEMMA PowersExist == ASSUME NEW m \in Nat PROVE \E f : Powers(f, m)
  <1> DEFINE T == {k \in Nat : \E f : Powers(f, k)}
  <1>1. 0 \in T
    <2>1. Powers([k \in 0..0 |-> 1], 0)
      BY DEF Powers
    <2> QED
      BY <2>1
  <1>2. ASSUME NEW k \in 0..(m - 1), k \in T PROVE k + 1 \in T
    <2>1. PICK f : Powers(f, k)
      BY <1>2
    <2> DEFINE g == [i \in 0..(k + 1) |-> IF i = k + 1 THEN 2 * f[k] ELSE f[i]]
    <2>2. k \in Nat /\ (k + 1) - 1 = k /\ k + 1 # 0
      OBVIOUS
    <2>3. \A i \in 0..k : f[i] = IF i = 0 THEN 1 ELSE 2 * f[i - 1]
      BY <2>1 DEF Powers
    <2>4. ASSUME NEW i \in 0..(k + 1) PROVE g[i] = IF i = 0 THEN 1 ELSE 2 * g[i - 1]
      <3>1. CASE i = k + 1
        <4>1. g[i] = 2 * f[k] /\ g[k] = f[k]
          BY <2>2, <3>1
        <4> QED
          BY <2>2, <3>1, <4>1
      <3>2. CASE i # k + 1
        <4>1. i \in 0..k /\ g[i] = f[i]
          BY <2>2, <3>2
        <4>2. i # 0 => i - 1 \in 0..(k + 1) /\ i - 1 # k + 1
          BY <2>2, <4>1
        <4>3. i # 0 => g[i - 1] = f[i - 1]
          BY <4>2
        <4> QED
          BY <2>3, <4>1, <4>3
      <3> QED
        BY <3>1, <3>2
    <2>5. g = [i \in 0..(k + 1) |-> g[i]]
      OBVIOUS
    <2> HIDE DEF g
    <2>6. Powers(g, k + 1)
      BY <2>4, <2>5 DEF Powers
    <2> QED
      BY <2>2, <2>6
  <1> HIDE DEF T
  <1>3. \A k \in 0..m : k \in T
    BY <1>1, <1>2, UpTo
  <1>4. m \in T
    BY <1>3
  <1> QED
    BY <1>4 DEF T

LEMMA PowersAgree ==
    ASSUME NEW f, NEW g, NEW m \in Nat, NEW n \in Nat, Powers(f, m), Powers(g, n), m <= n
    PROVE  f[m] = g[m]
  <1> DEFINE T == {k \in Nat : k <= m => f[k] = g[k]}
  <1>1. \A k \in 0..m : f[k] = IF k = 0 THEN 1 ELSE 2 * f[k - 1]
    BY DEF Powers
  <1>2. \A k \in 0..n : g[k] = IF k = 0 THEN 1 ELSE 2 * g[k - 1]
    BY DEF Powers
  <1>3. 0 \in T
    BY <1>1, <1>2
  <1>4. ASSUME NEW k \in 0..(m - 1), k \in T PROVE k + 1 \in T
    <2>1. /\ k + 1 \in 0..m /\ k + 1 \in 0..n /\ k + 1 # 0 /\ (k + 1) - 1 = k
          /\ k <= m /\ k + 1 \in Nat
      OBVIOUS
    <2>2. f[k] = g[k]
      BY <1>4, <2>1
    <2>3. f[k + 1] = 2 * f[k] /\ g[k + 1] = 2 * g[k]
      BY <1>1, <1>2, <2>1
    <2> QED
      BY <2>1, <2>2, <2>3
  <1> HIDE DEF T
  <1>5. \A k \in 0..m : k \in T
    BY <1>3, <1>4, UpTo
  <1>6. m \in T
    BY <1>5
  <1> QED
    BY <1>6 DEF T

LEMMA Pow2Is ==
    /\ Pow2[0] = 1
    /\ \A n \in Nat : Pow2[n + 1] = 2 * Pow2[n]
  <1> DEFINE Is(f) == f = [n \in Nat |-> IF n = 0 THEN 1 ELSE 2 * f[n - 1]]
             F(n) == CHOOSE f : Powers(f, n)
             g == [n \in Nat |-> F(n)[n]]
  <1>1. \A n \in Nat : Powers(F(n), n)
    BY PowersExist
  <1> HIDE DEF F
  <1>2. ASSUME NEW n \in Nat PROVE g[n] = IF n = 0 THEN 1 ELSE 2 * g[n - 1]
    <2>1. F(n)[n] = IF n = 0 THEN 1 ELSE 2 * F(n)[n - 1]
      <3>1. Powers(F(n), n) /\ n \in 0..n
        BY <1>1
      <3> QED
        BY <3>1 DEF Powers
    <2>2. ASSUME n # 0 PROVE F(n - 1)[n - 1] = F(n)[n - 1]
      <3>1. n - 1 \in Nat /\ n - 1 <= n
        BY <2>2
      <3>2. Powers(F(n), n) /\ Powers(F(n - 1), n - 1)
        BY <1>1, <3>1
      <3> QED
        BY <3>1, <3>2, PowersAgree
    <2>3. n # 0 => n - 1 \in Nat
      OBVIOUS
    <2> QED
      BY <2>1, <2>2, <2>3
  <1>3. g = [n \in Nat |-> g[n]]
    OBVIOUS
  <1> HIDE DEF g
  <1>4. Is(g)
    BY <1>2, <1>3
  <1>5. Pow2 = CHOOSE f : Is(f)
    BY DEF Pow2
  <1> HIDE DEF Is
  <1>6. Is(Pow2)
    BY <1>4, <1>5
  <1>7. \A n \in Nat : Pow2[n] = IF n = 0 THEN 1 ELSE 2 * Pow2[n - 1]
    BY <1>6 DEF Is
  <1>8. \A n \in Nat : n + 1 \in Nat /\ n + 1 # 0 /\ (n + 1) - 1 = n
    OBVIOUS
  <1> QED
    BY <1>7, <1>8

LEMMA Pow2Type == ASSUME NEW n \in Nat PROVE Pow2[n] \in Nat /\ Pow2[n] >= 1
  <1> DEFINE T == {k \in Nat : Pow2[k] \in Nat /\ Pow2[k] >= 1}
  <1>1. 0 \in T
    BY Pow2Is
  <1>2. ASSUME NEW k \in 0..(n - 1), k \in T PROVE k + 1 \in T
    <2>1. PICK p \in Nat : p = Pow2[k] /\ p >= 1
      BY <1>2
    <2>2. k \in Nat /\ k + 1 \in Nat
      OBVIOUS
    <2>3. Pow2[k + 1] = 2 * p
      BY <2>1, <2>2, Pow2Is
    <2> QED
      BY <2>1, <2>2, <2>3
  <1> HIDE DEF T
  <1>3. \A k \in 0..n : k \in T
    BY <1>1, <1>2, UpTo
  <1>4. n \in T
    BY <1>3
  <1> QED
    BY <1>4 DEF T

LEMMA Pow2Grows ==
    ASSUME NEW n \in Nat, NEW m \in Nat, n < m
    PROVE  2 * Pow2[n] <= Pow2[m]
  <1> DEFINE T == {k \in Nat : n < k => 2 * Pow2[n] <= Pow2[k]}
  <1>1. 0 \in T
    OBVIOUS
  <1>2. ASSUME NEW k \in 0..(m - 1), k \in T PROVE k + 1 \in T
    <2>1. k \in Nat /\ k + 1 \in Nat
      OBVIOUS
    <2>2. PICK p \in Nat, q \in Nat : p = Pow2[n] /\ q = Pow2[k]
      BY <2>1, Pow2Type
    <2>3. Pow2[k + 1] = 2 * q
      BY <2>1, <2>2, Pow2Is
    <2>4. n < k + 1 => n < k \/ n = k
      BY <2>1
    <2>5. n < k => 2 * p <= q
      BY <1>2, <2>2
    <2>6. n = k => p = q
      BY <2>2
    <2>7. n < k + 1 => 2 * p <= 2 * q
      BY <2>4, <2>5, <2>6
    <2> QED
      BY <2>1, <2>2, <2>3, <2>7
  <1> HIDE DEF T
  <1>3. \A k \in 0..m : k \in T
    BY <1>1, <1>2, UpTo
  <1>4. m \in T
    BY <1>3
  <1> QED
    BY <1>4 DEF T

(* The limits of the signed types, by their rank. *)
Half(i) == Pow2[Bits[Signed[i]] - 1]

LEMMA SignedTypes ==
    /\ Signed[1] = "i8" /\ Signed[2] = "i16" /\ Signed[3] = "i32" /\ Signed[4] = "i64"
    /\ SignedSet = {"i8", "i16", "i32", "i64"}
    /\ \A i \in 1..4 : Signed[i] \in SignedSet
    /\ \A t \in SignedSet : \E i \in 1..4 : t = Signed[i]
  <1>1. DOMAIN Signed = {1, 2, 3, 4}
    BY DEF Signed
  <1>2. Signed[1] = "i8" /\ Signed[2] = "i16" /\ Signed[3] = "i32" /\ Signed[4] = "i64"
    BY DEF Signed
  <1>3. SignedSet = {"i8", "i16", "i32", "i64"}
    BY <1>1, <1>2 DEF SignedSet
  <1>4. \A i \in 1..4 : i = 1 \/ i = 2 \/ i = 3 \/ i = 4
    OBVIOUS
  <1>5. 1 \in 1..4 /\ 2 \in 1..4 /\ 3 \in 1..4 /\ 4 \in 1..4
    OBVIOUS
  <1> QED
    BY <1>2, <1>3, <1>4, <1>5

LEMMA UnsignedTypes ==
    /\ Unsigned[1] = "u8" /\ Unsigned[2] = "u16" /\ Unsigned[3] = "u32" /\ Unsigned[4] = "u64"
    /\ UnsignedSet = {"u8", "u16", "u32", "u64"}
    /\ \A i \in 1..4 : Unsigned[i] \in UnsignedSet /\ Unsigned[i] \notin SignedSet
  <1>1. DOMAIN Unsigned = {1, 2, 3, 4}
    BY DEF Unsigned
  <1>2. Unsigned[1] = "u8" /\ Unsigned[2] = "u16" /\ Unsigned[3] = "u32" /\ Unsigned[4] = "u64"
    BY DEF Unsigned
  <1>3. UnsignedSet = {"u8", "u16", "u32", "u64"}
    BY <1>1, <1>2 DEF UnsignedSet
  <1>4. \A i \in 1..4 : i = 1 \/ i = 2 \/ i = 3 \/ i = 4
    OBVIOUS
  <1>5. SignedSet = {"i8", "i16", "i32", "i64"}
    BY SignedTypes
  <1> QED
    BY <1>2, <1>3, <1>4, <1>5

LEMMA WidthTypes ==
    /\ \A i \in 1..4 : /\ Bits[Signed[i]] - 1 \in Nat /\ Bits[Unsigned[i]] \in Nat
                       /\ Bits[Unsigned[i]] = (Bits[Signed[i]] - 1) + 1
    /\ \A i, j \in 1..4 : i < j => Bits[Signed[i]] - 1 < Bits[Signed[j]] - 1
  <1>1. \A i \in 1..4 : Signed[i] \in SignedSet /\ Unsigned[i] \in UnsignedSet
    BY SignedTypes, UnsignedTypes
  <1>2. \A i \in 1..4 : Bits[Signed[i]] \in Nat /\ Bits[Unsigned[i]] \in Nat
    BY <1>1, FieldTypesAssumption
  <1>3. \A i \in 1..4 : Bits[Signed[i]] = Bits[Unsigned[i]] /\ Bits[Signed[i]] >= 3
    BY FieldTypesAssumption
  <1>4. PICK a \in Nat, b \in Nat, c \in Nat, d \in Nat :
            a = Bits[Signed[1]] /\ b = Bits[Signed[2]] /\ c = Bits[Signed[3]] /\ d = Bits[Signed[4]]
    <2>1. 1 \in 1..4 /\ 2 \in 1..4 /\ 3 \in 1..4 /\ 4 \in 1..4
      OBVIOUS
    <2> QED
      BY <1>2, <2>1
  <1>5. a < b /\ b < c /\ c < d
    <2>1. 1 \in 1..3 /\ 2 \in 1..3 /\ 3 \in 1..3 /\ 1 + 1 = 2 /\ 2 + 1 = 3 /\ 3 + 1 = 4
      OBVIOUS
    <2>2. \A i \in 1..3 : Bits[Signed[i]] < Bits[Signed[i + 1]]
      BY FieldTypesAssumption
    <2> QED
      BY <1>4, <2>1, <2>2
  <1>6. ASSUME NEW i \in 1..4, NEW j \in 1..4, i < j PROVE Bits[Signed[i]] - 1 < Bits[Signed[j]] - 1
    <2>1. \/ i = 1 /\ j \in {2, 3, 4}
          \/ i = 2 /\ j \in {3, 4}
          \/ i = 3 /\ j = 4
      BY <1>6
    <2> QED
      BY <1>4, <1>5, <2>1
  <1>7. ASSUME NEW i \in 1..4
        PROVE  /\ Bits[Signed[i]] - 1 \in Nat /\ Bits[Unsigned[i]] \in Nat
               /\ Bits[Unsigned[i]] = (Bits[Signed[i]] - 1) + 1
    BY <1>2, <1>3
  <1> QED
    BY <1>6, <1>7

LEMMA HalfType == ASSUME NEW i \in 1..4 PROVE Half(i) \in Nat /\ Half(i) >= 1
  BY WidthTypes, Pow2Type DEF Half

LEMMA HalfGrows ==
    ASSUME NEW i \in 1..4, NEW j \in 1..4, i <= j
    PROVE  Half(i) <= Half(j) /\ (i < j => 2 * Half(i) <= Half(j))
  <1>1. PICK a \in Nat, b \in Nat : a = Half(i) /\ b = Half(j)
    BY HalfType
  <1>2. CASE i = j
    <2>1. a = b
      BY <1>1, <1>2
    <2> QED
      BY <1>1, <1>2, <2>1
  <1>3. CASE i < j
    <2>1. 2 * a <= b
      BY <1>1, <1>3, WidthTypes, Pow2Grows DEF Half
    <2> QED
      BY <1>1, <2>1
  <1> QED
    BY <1>2, <1>3

LEMMA SignedLimits ==
    ASSUME NEW i \in 1..4
    PROVE  /\ MaxOf(Signed[i]) = Half(i) - 1
           /\ MinOf(Signed[i]) = -Half(i)
           /\ Pow2[Bits[Signed[i]]] = 2 * Half(i)
           /\ \A n \in Int : InLimits(Signed[i], n) <=> -Half(i) <= n /\ n <= Half(i) - 2
  <1>1. Signed[i] \in SignedSet
    BY SignedTypes
  <1>2. MaxOf(Signed[i]) = Half(i) - 1 /\ MinOf(Signed[i]) = -Half(i)
    BY <1>1 DEF MaxOf, MinOf, Half
  <1>3. PICK w \in Nat : w = Bits[Signed[i]] - 1 /\ w + 1 = Bits[Signed[i]]
    BY WidthTypes, FieldTypesAssumption, <1>1
  <1>4. Pow2[Bits[Signed[i]]] = 2 * Half(i)
    BY <1>3, Pow2Is DEF Half
  <1>5. PICK h \in Nat : h = Half(i)
    BY HalfType
  <1> QED
    BY <1>2, <1>4, <1>5 DEF InLimits

LEMMA UnsignedLimits ==
    ASSUME NEW i \in 1..4
    PROVE  /\ MaxOf(Unsigned[i]) = 2 * Half(i) - 1
           /\ \A n \in Int : InLimits(Unsigned[i], n) <=> 0 <= n /\ n <= 2 * Half(i) - 2
  <1>1. Unsigned[i] \notin SignedSet
    BY UnsignedTypes
  <1>2. PICK w \in Nat : w = Bits[Signed[i]] - 1 /\ w + 1 = Bits[Unsigned[i]]
    BY WidthTypes
  <1>3. PICK h \in Nat : h = Half(i)
    BY HalfType
  <1>4. Pow2[Bits[Unsigned[i]]] = 2 * h
    BY <1>2, <1>3, Pow2Is DEF Half
  <1>5. MaxOf(Unsigned[i]) = 2 * h - 1 /\ MinOf(Unsigned[i]) = 0
    BY <1>1, <1>4 DEF MaxOf, MinOf
  <1> QED
    BY <1>3, <1>5 DEF InLimits

LEMMA SmallestFits ==
    ASSUME NEW ladder, NEW n, \E i \in 1..4 : InLimits(ladder[i], n)
    PROVE  \E i \in 1..4 : Smallest(ladder, n) = ladder[i] /\ InLimits(ladder[i], n)
  <1> DEFINE fits == {i \in 1..3 : InLimits(ladder[i], n)}
  <1>1. Smallest(ladder, n) = ladder[IF fits = {} THEN 4 ELSE Min(fits)]
    BY DEF Smallest
  <1>2. CASE fits = {}
    <2>1. \A i \in 1..4 : i \in 1..3 \/ i = 4
      OBVIOUS
    <2>2. InLimits(ladder[4], n)
      BY <1>2, <2>1
    <2>3. 4 \in 1..4
      OBVIOUS
    <2> QED
      BY <1>1, <1>2, <2>2, <2>3
  <1>3. CASE fits # {}
    <2>1. fits \in SUBSET Nat
      OBVIOUS
    <2>2. \E p \in fits : \A q \in fits : p <= q
      BY <1>3, <2>1, LeastNumber
    <2> HIDE DEF fits
    <2>3. Min(fits) \in fits
      BY <2>2 DEF Min
    <2>4. Min(fits) \in 1..4 /\ InLimits(ladder[Min(fits)], n)
      BY <2>3 DEF fits
    <2> QED
      BY <1>1, <1>3, <2>4
  <1> QED
    BY <1>2, <1>3

(* A number between the limits of i64 gets a signed type that has it. *)
LEMMA SignedNumber ==
    ASSUME NEW v, v.num \in Int, v.float = FALSE, InLimits("i64", v.num)
    PROVE  \E i \in 1..4 : NumberType(v) = Signed[i] /\ InLimits(Signed[i], v.num)
  <1>1. 4 \in 1..4 /\ Signed[4] = "i64"
    BY SignedTypes
  <1>2. PICK n \in Int, h \in Nat : n = v.num /\ h = Half(4)
    BY <1>1, HalfType
  <1>3. n <= h - 2 /\ MaxOf("i64") = h - 1
    BY <1>1, <1>2, SignedLimits
  <1>4. ~(v.num > MaxOf("i64"))
    BY <1>2, <1>3
  <1>5. NumberType(v) = Smallest(Signed, v.num)
    BY <1>4 DEF NumberType
  <1> QED
    BY <1>1, <1>5, SmallestFits

(* A number that the tokens can carry gets a type that has it, unless it   *)
(* is the largest of the signed or of the unsigned ones: those stand for   *)
(* null (value_type_for_json_number, doc.c:266).                           *)
THEOREM NumberFits ==
    ASSUME NEW v, v.num \in MinOf("i64")..MaxOf("u64"), v.float = FALSE,
           v.num \notin {MaxOf("i64"), MaxOf("u64")}
    PROVE  InLimits(NumberType(v), v.num)
  <1>1. 4 \in 1..4 /\ Signed[4] = "i64" /\ Unsigned[4] = "u64"
    BY SignedTypes, UnsignedTypes
  <1>2. PICK h \in Nat : h = Half(4)
    BY <1>1, HalfType
  <1>3. MaxOf("i64") = h - 1 /\ MinOf("i64") = -h /\ MaxOf("u64") = 2 * h - 1
    BY <1>1, <1>2, SignedLimits, UnsignedLimits
  <1>4. PICK n \in Int : n = v.num /\ -h <= n /\ n <= 2 * h - 2 /\ n # h - 1
    BY <1>3
  <1>5. CASE n <= h - 2
    <2>1. InLimits("i64", n)
      BY <1>1, <1>2, <1>4, <1>5, SignedLimits
    <2> QED
      BY <1>4, <2>1, SignedNumber
  <1>6. CASE n > h - 1
    <2>1. v.num > MaxOf("i64")
      BY <1>3, <1>4, <1>6
    <2>2. NumberType(v) = Smallest(Unsigned, v.num)
      BY <2>1 DEF NumberType
    <2>3. 0 <= n
      BY <1>6
    <2>4. InLimits("u64", n)
      BY <1>1, <1>2, <1>4, <2>3, UnsignedLimits
    <2> QED
      BY <1>1, <1>4, <2>2, <2>4, SmallestFits
  <1>7. n <= h - 2 \/ n > h - 1
    BY <1>4
  <1> QED
    BY <1>5, <1>6, <1>7

(* The wider one of two signed types has what either of them has. *)
LEMMA WidenedSigned ==
    ASSUME NEW i \in 1..4, NEW j \in 1..4
    PROVE  \E k \in 1..4 : /\ i <= k /\ j <= k
                           /\ Widened(Signed[i], Signed[j]) = Signed[k]
  <1>1. Signed[j] \in Narrower(Signed[i]) <=> j < i
    <2>1. CASE i = 1
      BY <2>1, SignedTypes DEF Narrower
    <2>2. CASE i = 2
      <3>1. Narrower(Signed[i]) = {Signed[1]}
        BY <2>2, SignedTypes DEF Narrower
      <3>2. j \in {1, 2, 3, 4}
        OBVIOUS
      <3> QED
        BY <2>2, <3>1, <3>2, SignedTypes
    <2>3. CASE i = 3
      <3>1. Narrower(Signed[i]) = {Signed[1], Signed[2]}
        BY <2>3, SignedTypes DEF Narrower
      <3>2. j \in {1, 2, 3, 4}
        OBVIOUS
      <3> QED
        BY <2>3, <3>1, <3>2, SignedTypes
    <2>4. CASE i = 4
      <3>1. Narrower(Signed[i]) = {Signed[1], Signed[2], Signed[3]}
        BY <2>4, SignedTypes DEF Narrower
      <3>2. j \in {1, 2, 3, 4}
        OBVIOUS
      <3> QED
        BY <2>4, <3>1, <3>2, SignedTypes
    <2> QED
      BY <2>1, <2>2, <2>3, <2>4
  <1>2. CASE j < i
    <2>1. Widened(Signed[i], Signed[j]) = Signed[i]
      BY <1>1, <1>2 DEF Widened
    <2> QED
      BY <1>2, <2>1
  <1>3. CASE ~(j < i)
    <2>1. Widened(Signed[i], Signed[j]) = Signed[j]
      BY <1>1, <1>3 DEF Widened
    <2> QED
      BY <1>3, <2>1
  <1> QED
    BY <1>2, <1>3

LEMMA WiderHas ==
    ASSUME NEW i \in 1..4, NEW k \in 1..4, i <= k, NEW n \in Int, InLimits(Signed[i], n)
    PROVE  InLimits(Signed[k], n)
  <1>1. PICK a \in Nat, b \in Nat : a = Half(i) /\ b = Half(k)
    BY HalfType
  <1>2. a <= b
    BY <1>1, HalfGrows
  <1>3. -a <= n /\ n <= a - 2
    BY <1>1, SignedLimits
  <1>4. -b <= n /\ n <= b - 2
    BY <1>2, <1>3
  <1> QED
    BY <1>1, <1>4, SignedLimits

(* A conversion to a type that has the number leaves it as it is. *)
LEMMA CastExact ==
    ASSUME NEW i \in 1..4, NEW n \in Int, InLimits(Signed[i], n)
    PROVE  Cast(Signed[i], n) = n /\ ~IsNull(Signed[i], n)
  <1>1. PICK h \in Nat : h = Half(i) /\ h >= 1
    BY HalfType
  <1>2. -h <= n /\ n <= h - 2 /\ MaxOf(Signed[i]) = h - 1 /\ Pow2[Bits[Signed[i]]] = 2 * h
    BY <1>1, SignedLimits
  <1>3. (2 * h) \div 2 = h
    OBVIOUS
  <1>4. PICK m \in Nat : m = 2 * h
    OBVIOUS
  <1>5. PICK x \in Nat : x = n + h /\ x < m
    BY <1>2, <1>4
  <1>6. x % m = x
    BY <1>5
  <1>7. ((n + h) % (2 * h)) - h = n
    BY <1>1, <1>4, <1>5, <1>6
  <1>8. Signed[i] \in SignedSet
    BY SignedTypes
  <1>9. Cast(Signed[i], n) = n
    BY <1>2, <1>3, <1>7, <1>8 DEF Cast
  <1>10. NullOf(Signed[i]) = h - 1
    <2>1. Signed[i] # "bool" /\ Signed[i] # "float" /\ Signed[i] \in SignedSet \cup UnsignedSet
      BY <1>8, SignedTypes
    <2>2. NullOf(Signed[i]) = MaxOf(Signed[i])
      BY <2>1, Zenon DEF NullOf
    <2> QED
      BY <1>2, <2>2
  <1>11. n # h - 1
    BY <1>2
  <1> QED
    BY <1>9, <1>10, <1>11 DEF IsNull

LEMMA TypeNames == SignedSet \subseteq TypeSet
  <1> DEFINE a == <<"null", "bool">>
             b == a \o Signed
             c == b \o Unsigned
             d == <<"float", "string", "object">>
             S == {a[1], a[2], d[1], d[2], d[3]} \cup SignedSet \cup UnsignedSet
  <1>1. /\ Len(Signed) = 4 /\ Signed \in Seq(SignedSet)
        /\ Len(Unsigned) = 4 /\ Unsigned \in Seq(UnsignedSet)
    <2>1. Len(Signed) = 4 /\ Len(Unsigned) = 4
      BY DEF Signed, Unsigned
    <2>2. Signed \in Seq({Signed[1], Signed[2], Signed[3], Signed[4]})
      BY DEF Signed
    <2>3. Unsigned \in Seq({Unsigned[1], Unsigned[2], Unsigned[3], Unsigned[4]})
      BY DEF Unsigned
    <2>4. {Signed[1], Signed[2], Signed[3], Signed[4]} = SignedSet
      BY SignedTypes
    <2>5. {Unsigned[1], Unsigned[2], Unsigned[3], Unsigned[4]} = UnsignedSet
      BY UnsignedTypes
    <2> QED
      BY <2>1, <2>2, <2>3, <2>4, <2>5
  <1>2. Len(a) = 2 /\ a \in Seq(S) /\ Len(d) = 3 /\ d \in Seq(S)
    <2>1. Len(a) = 2 /\ a \in Seq({a[1], a[2]})
      OBVIOUS
    <2>2. Len(d) = 3 /\ d \in Seq({d[1], d[2], d[3]})
      OBVIOUS
    <2> HIDE DEF a, d
    <2> QED
      BY <2>1, <2>2
  <1>3. Signed \in Seq(S) /\ Unsigned \in Seq(S)
    <2> HIDE DEF a, d
    <2> QED
      BY <1>1
  <1> HIDE DEF a, d, S
  <1>4. /\ b \in Seq(S) /\ Len(b) = 6
        /\ \A i \in 1..4 : b[2 + i] = Signed[i]
    <2>1. /\ b \in Seq(S) /\ Len(b) = Len(a) + Len(Signed)
          /\ \A i \in 1..(Len(a) + Len(Signed)) :
               b[i] = IF i <= Len(a) THEN a[i] ELSE Signed[i - Len(a)]
      BY <1>2, <1>3, ConcatProperties
    <2>2. \A i \in 1..4 : 2 + i \in 1..6 /\ ~(2 + i <= 2) /\ (2 + i) - 2 = i
      OBVIOUS
    <2> QED
      BY <1>1, <1>2, <2>1, <2>2
  <1> HIDE DEF b
  <1>5. /\ c \in Seq(S) /\ Len(c) = 10
        /\ \A i \in 1..6 : c[i] = b[i]
    <2>1. /\ c \in Seq(S) /\ Len(c) = Len(b) + Len(Unsigned)
          /\ \A i \in 1..(Len(b) + Len(Unsigned)) :
               c[i] = IF i <= Len(b) THEN b[i] ELSE Unsigned[i - Len(b)]
      BY <1>3, <1>4, ConcatProperties
    <2>2. \A i \in 1..6 : i \in 1..10 /\ i <= 6
      OBVIOUS
    <2> QED
      BY <1>1, <1>4, <2>1, <2>2
  <1> HIDE DEF c
  <1>6. /\ c \o d \in Seq(S) /\ Len(c \o d) = 13
        /\ \A i \in 1..10 : (c \o d)[i] = c[i]
    <2>1. /\ c \o d \in Seq(S) /\ Len(c \o d) = Len(c) + Len(d)
          /\ \A i \in 1..(Len(c) + Len(d)) :
               (c \o d)[i] = IF i <= Len(c) THEN c[i] ELSE d[i - Len(c)]
      BY <1>2, <1>5, ConcatProperties
    <2>2. \A i \in 1..10 : i \in 1..13 /\ i <= 10
      OBVIOUS
    <2> QED
      BY <1>2, <1>5, <2>1, <2>2
  <1>7. Types = c \o d
    BY DEF Types, a, b, c, d
  <1>8. \A i \in 1..4 : Types[2 + i] = Signed[i] /\ 2 + i \in DOMAIN Types
    <2>1. \A i \in 1..4 : 2 + i \in 1..13 /\ 2 + i \in 1..10 /\ 2 + i \in 1..6
      OBVIOUS
    <2>2. \A i \in 1..4 : Types[2 + i] = c[2 + i]
      BY <1>6, <1>7, <2>1
    <2>3. \A i \in 1..4 : c[2 + i] = b[2 + i] /\ b[2 + i] = Signed[i]
      BY <1>4, <1>5, <2>1
    <2>4. DOMAIN Types = 1..13
      BY <1>6, <1>7
    <2> QED
      BY <2>1, <2>2, <2>3, <2>4
  <1>9. \A i \in 1..4 : Signed[i] \in TypeSet
    BY <1>8 DEF TypeSet
  <1> QED
    BY <1>9, SignedTypes

(* An element of an array of numbers: a null or a number. *)
Item(v) == \/ v.kind = "null"
           \/ v.kind = "number" /\ v.num \in Int /\ v.float \in BOOLEAN

(* The recursive definition of the loop over the elements has a solution. *)
TypesAre(f, m, items) ==
    f = [k \in 0..m |-> IF k = 0 THEN "null"
                        ELSE IF items[k].kind = "null" THEN f[k - 1]
                        ELSE Widened(f[k - 1], NumberType(items[k]))]

LEMMA TypesExist == ASSUME NEW items, NEW m \in Nat PROVE \E f : TypesAre(f, m, items)
  <1> DEFINE T == {k \in Nat : \E f : TypesAre(f, k, items)}
             Look(t, k) == IF items[k].kind = "null" THEN t ELSE Widened(t, NumberType(items[k]))
  <1>1. 0 \in T
    <2>1. TypesAre([k \in 0..0 |-> "null"], 0, items)
      BY DEF TypesAre
    <2> QED
      BY <2>1
  <1>2. ASSUME NEW k \in 0..(m - 1), k \in T PROVE k + 1 \in T
    <2>1. PICK f : TypesAre(f, k, items)
      BY <1>2
    <2> DEFINE g == [i \in 0..(k + 1) |-> IF i = k + 1 THEN Look(f[k], k + 1) ELSE f[i]]
    <2>2. k \in Nat /\ (k + 1) - 1 = k /\ k + 1 # 0
      OBVIOUS
    <2> HIDE DEF Look
    <2>3. \A i \in 0..k : f[i] = IF i = 0 THEN "null" ELSE Look(f[i - 1], i)
      BY <2>1 DEF TypesAre, Look
    <2>4. ASSUME NEW i \in 0..(k + 1) PROVE g[i] = IF i = 0 THEN "null" ELSE Look(g[i - 1], i)
      <3>1. CASE i = k + 1
        <4>1. g[i] = Look(f[k], k + 1) /\ g[k] = f[k]
          BY <2>2, <3>1
        <4> QED
          BY <2>2, <3>1, <4>1
      <3>2. CASE i # k + 1
        <4>1. i \in 0..k /\ g[i] = f[i]
          BY <2>2, <3>2
        <4>2. i # 0 => i - 1 \in 0..(k + 1) /\ i - 1 # k + 1
          BY <2>2, <4>1
        <4>3. i # 0 => g[i - 1] = f[i - 1]
          BY <4>2
        <4> QED
          BY <2>3, <4>1, <4>3
      <3> QED
        BY <3>1, <3>2
    <2>5. g = [i \in 0..(k + 1) |-> g[i]]
      OBVIOUS
    <2> HIDE DEF g
    <2>6. g = [i \in 0..(k + 1) |-> IF i = 0 THEN "null" ELSE Look(g[i - 1], i)]
      BY <2>4, <2>5
    <2>7. TypesAre(g, k + 1, items)
      BY <2>6 DEF TypesAre, Look
    <2> QED
      BY <2>2, <2>7
  <1> HIDE DEF T
  <1>3. \A k \in 0..m : k \in T
    BY <1>1, <1>2, UpTo
  <1>4. m \in T
    BY <1>3
  <1> QED
    BY <1>4 DEF T

LEMMA TypesGo ==
    ASSUME NEW items, NEW m \in Nat, Len(items) = m
    PROVE  /\ TypesSoFar(items)[0] = "null"
           /\ \A k \in 1..m : TypesSoFar(items)[k] =
                IF items[k].kind = "null" THEN TypesSoFar(items)[k - 1]
                ELSE Widened(TypesSoFar(items)[k - 1], NumberType(items[k]))
  <1> DEFINE Is(f) == TypesAre(f, m, items)
             s == TypesSoFar(items)
  <1>1. s = CHOOSE f : Is(f)
    BY DEF TypesSoFar, TypesAre
  <1>2. \E f : Is(f)
    BY TypesExist
  <1> HIDE DEF Is, s
  <1>3. Is(s)
    BY <1>1, <1>2
  <1>4. \A k \in 0..m : s[k] = IF k = 0 THEN "null"
                               ELSE IF items[k].kind = "null" THEN s[k - 1]
                               ELSE Widened(s[k - 1], NumberType(items[k]))
    BY <1>3 DEF Is, TypesAre
  <1>5. s[0] = "null"
    BY <1>4
  <1>6. \A k \in 1..m : k \in 0..m /\ k # 0
    OBVIOUS
  <1> QED
    BY <1>4, <1>5, <1>6 DEF s

(* What the type after k elements says of them: none of them was a number, *)
(* one had a fraction, or the type has them all.                           *)
TypeHolds(t, items, k) ==
    \/ t = "null" /\ \A i \in 1..k : items[i].kind = "null"
    \/ t = "float" /\ \E i \in 1..k : items[i].kind # "null" /\ items[i].float
    \/ \E w \in 1..4 :
         /\ t = Signed[w]
         /\ \A i \in 1..k : items[i].kind # "null" =>
              items[i].float = FALSE /\ InLimits(Signed[w], items[i].num)

LEMMA TypeHoldsKeeps ==
    ASSUME NEW items, NEW k \in Nat, NEW t, TypeHolds(t, items, k), Item(items[k + 1]),
           items[k + 1].kind # "null" /\ ~items[k + 1].float => InLimits("i64", items[k + 1].num),
           \A i \in 1..k : Item(items[i])
    PROVE  TypeHolds(IF items[k + 1].kind = "null" THEN t ELSE Widened(t, NumberType(items[k + 1])),
                     items, k + 1)
  <1> DEFINE v == items[k + 1]
             new == Widened(t, NumberType(v))
  <1>1. \A i \in 1..(k + 1) : i \in 1..k \/ i = k + 1
    OBVIOUS
  <1>2. \A i \in 1..k : i \in 1..(k + 1)
    OBVIOUS
  <1>3. k + 1 \in 1..(k + 1)
    OBVIOUS
  <1>4. CASE v.kind = "null"
    <2>1. TypeHolds(t, items, k + 1)
      <3>1. CASE t = "null" /\ \A i \in 1..k : items[i].kind = "null"
        BY <1>1, <1>4, <3>1 DEF TypeHolds
      <3>2. CASE t = "float" /\ \E i \in 1..k : items[i].kind # "null" /\ items[i].float
        BY <1>2, <3>2 DEF TypeHolds
      <3>3. CASE \E w \in 1..4 :
                   /\ t = Signed[w]
                   /\ \A i \in 1..k : items[i].kind # "null" =>
                        items[i].float = FALSE /\ InLimits(Signed[w], items[i].num)
        BY <1>1, <1>4, <3>3 DEF TypeHolds
      <3> QED
        BY <3>1, <3>2, <3>3 DEF TypeHolds
    <2> QED
      BY <1>4, <2>1
  <1>5. CASE v.kind # "null" /\ v.float = TRUE
    <2>1. NumberType(v) = "float"
      BY <1>5 DEF NumberType
    <2>2. "float" \notin Narrower(t) \/ t = "float"
      BY DEF Narrower
    <2>3. new = "float"
      BY <2>1, <2>2 DEF Widened
    <2>4. \E i \in 1..(k + 1) : items[i].kind # "null" /\ items[i].float
      BY <1>3, <1>5
    <2>5. TypeHolds(new, items, k + 1)
      BY <2>3, <2>4 DEF TypeHolds
    <2> QED
      BY <1>5, <2>5
  <1>6. CASE v.kind # "null" /\ v.float = FALSE
    <2>1. v.num \in Int
      BY <1>6 DEF Item
    <2>2. PICK j \in 1..4 : NumberType(v) = Signed[j] /\ InLimits(Signed[j], v.num)
      <3>1. InLimits("i64", v.num)
        BY <1>6
      <3> HIDE DEF v
      <3> QED
        BY <1>6, <2>1, <3>1, SignedNumber
    <2>3. TypeHolds(new, items, k + 1)
      <3>1. CASE t = "null" /\ \A i \in 1..k : items[i].kind = "null"
        <4>1. new = Signed[j]
          BY <2>2, <3>1 DEF Widened, Narrower
        <4> QED
          BY <1>1, <1>6, <2>2, <3>1, <4>1 DEF TypeHolds
      <3>2. CASE t = "float" /\ \E i \in 1..k : items[i].kind # "null" /\ items[i].float
        <4>1. Signed[j] \in TypeSet
          BY SignedTypes, TypeNames
        <4>2. new = "float"
          BY <2>2, <3>2, <4>1 DEF Widened, Narrower
        <4> QED
          BY <1>2, <3>2, <4>2 DEF TypeHolds
      <3>3. CASE \E w \in 1..4 :
                   /\ t = Signed[w]
                   /\ \A i \in 1..k : items[i].kind # "null" =>
                        items[i].float = FALSE /\ InLimits(Signed[w], items[i].num)
        <4>1. PICK w \in 1..4 :
                   /\ t = Signed[w]
                   /\ \A i \in 1..k : items[i].kind # "null" =>
                        items[i].float = FALSE /\ InLimits(Signed[w], items[i].num)
          BY <3>3
        <4>2. PICK x \in 1..4 : w <= x /\ j <= x /\ new = Signed[x]
          <5>1. \E x \in 1..4 : w <= x /\ j <= x /\ Widened(Signed[w], Signed[j]) = Signed[x]
            BY WidenedSigned
          <5> QED
            BY <2>2, <4>1, <5>1
        <4>3. InLimits(Signed[x], v.num)
          BY <2>1, <2>2, <4>2, WiderHas
        <4>4. \A i \in 1..k : items[i].kind # "null" =>
                items[i].float = FALSE /\ InLimits(Signed[x], items[i].num)
          <5>1. \A i \in 1..k : items[i].kind # "null" => items[i].num \in Int
            BY DEF Item
          <5> QED
            BY <4>1, <4>2, <5>1, WiderHas
        <4>5. \A i \in 1..(k + 1) : items[i].kind # "null" =>
                items[i].float = FALSE /\ InLimits(Signed[x], items[i].num)
          BY <1>1, <1>6, <4>3, <4>4
        <4> QED
          BY <4>2, <4>5 DEF TypeHolds
      <3> QED
        BY <3>1, <3>2, <3>3 DEF TypeHolds
    <2> QED
      BY <1>6, <2>3
  <1> QED
    BY <1>4, <1>5, <1>6 DEF Item

(* An array of numbers and nulls whose numbers are between the limits of   *)
(* i64 is kept as it is, whatever order the types of its elements come in  *)
(* (import_json_object_array_prop, doc.c:375-437, 478-570): its type is    *)
(* float when a number has a fraction and a signed type that has all of    *)
(* them when none has; each element is stored as the number it is, a       *)
(* fraction's half counted as one, and is no null; a null is stored as the *)
(* null of the type.                                                       *)
THEOREM NumbersExact ==
    ASSUME NEW m \in Nat, NEW items, Len(items) = m,
           \A i \in 1..m : Item(items[i]),
           \E i \in 1..m : items[i].kind = "number",
           \A i \in 1..m : items[i].kind = "number" /\ ~items[i].float => InLimits("i64", items[i].num)
    PROVE  /\ NumbersType(items) \in SignedSet \cup {"float"}
           /\ NumbersType(items) = "float" <=>
                \E i \in 1..m : items[i].kind = "number" /\ items[i].float
           /\ \A i \in 1..m : items[i].kind = "null" =>
                Stored(NumbersType(items), items[i]) = NullOf(NumbersType(items))
           /\ \A i \in 1..m : items[i].kind = "number" =>
                /\ ~IsNull(NumbersType(items), Stored(NumbersType(items), items[i]))
                /\ Stored(NumbersType(items), items[i]) =
                     IF NumbersType(items) # "float" \/ items[i].float THEN items[i].num
                     ELSE 2 * items[i].num
  <1> DEFINE s == TypesSoFar(items)
             T == {k \in 0..m : TypeHolds(s[k], items, k)}
             t == NumbersType(items)
  <1>1. 0 \in T
    <2>1. s[0] = "null"
      BY TypesGo
    <2>2. \A i \in 1..0 : items[i].kind = "null"
      OBVIOUS
    <2> HIDE DEF s
    <2>3. TypeHolds(s[0], items, 0)
      BY <2>1, <2>2 DEF TypeHolds
    <2> QED
      BY <2>3
  <1>2. ASSUME NEW k \in 0..(m - 1), k \in T PROVE k + 1 \in T
    <2>1. k \in Nat /\ k + 1 \in 1..m /\ k + 1 \in 0..m /\ (k + 1) - 1 = k
      OBVIOUS
    <2>2. s[k + 1] = IF items[k + 1].kind = "null" THEN s[k]
                     ELSE Widened(s[k], NumberType(items[k + 1]))
      BY <2>1, TypesGo
    <2>3. TypeHolds(s[k], items, k)
      BY <1>2
    <2> HIDE DEF s
    <2>4. Item(items[k + 1]) /\ \A i \in 1..k : Item(items[i])
      BY <2>1
    <2>5. items[k + 1].kind # "null" /\ ~items[k + 1].float => InLimits("i64", items[k + 1].num)
      BY <2>1, <2>4 DEF Item
    <2>6. TypeHolds(s[k + 1], items, k + 1)
      BY <2>1, <2>2, <2>3, <2>4, <2>5, TypeHoldsKeeps
    <2> QED
      BY <2>1, <2>6
  <1>3. m \in T
    <2> HIDE DEF T
    <2>1. \A k \in 0..m : k \in T
      BY <1>1, <1>2, UpTo
    <2> QED
      BY <2>1
  <1>4. TypeHolds(t, items, m)
    BY <1>3 DEF NumbersType
  <1> HIDE DEF T, t
  <1>5. \A i \in 1..m : items[i].kind # "null" <=> items[i].kind = "number"
    BY DEF Item
  <1>6. t # "null" \/ \E i \in 1..m : items[i].kind # "null"
    BY <1>5
  <1>7. \A i \in 1..m : items[i].kind = "null" => Stored(t, items[i]) = NullOf(t)
    BY DEF Stored
  <1>8. CASE t = "float" /\ \E i \in 1..m : items[i].kind # "null" /\ items[i].float
    <2>1. \A i \in 1..m : items[i].kind = "number" =>
            Stored(t, items[i]) = IF items[i].float THEN items[i].num ELSE 2 * items[i].num
      BY <1>8 DEF Stored
    <2>2. \A i \in 1..m : ~IsNull(t, Stored(t, items[i]))
      BY <1>8 DEF IsNull
    <2>3. \E i \in 1..m : items[i].kind = "number" /\ items[i].float
      BY <1>5, <1>8
    <2> QED
      BY <1>7, <1>8, <2>1, <2>2, <2>3 DEF t
  <1>9. CASE \E w \in 1..4 :
               /\ t = Signed[w]
               /\ \A i \in 1..m : items[i].kind # "null" =>
                    items[i].float = FALSE /\ InLimits(Signed[w], items[i].num)
    <2>1. PICK w \in 1..4 :
               /\ t = Signed[w]
               /\ \A i \in 1..m : items[i].kind # "null" =>
                    items[i].float = FALSE /\ InLimits(Signed[w], items[i].num)
      BY <1>9
    <2>2. t \in SignedSet /\ t # "float" /\ t # "bool"
      BY <2>1, SignedTypes
    <2>3. ASSUME NEW i \in 1..m, items[i].kind = "number"
          PROVE  ~IsNull(t, Stored(t, items[i])) /\ Stored(t, items[i]) = items[i].num
      <3>1. items[i].num \in Int /\ items[i].kind # "null"
        BY <2>3 DEF Item
      <3>2. InLimits(Signed[w], items[i].num)
        BY <2>1, <3>1
      <3>3. Stored(t, items[i]) = Cast(t, items[i].num)
        BY <2>2, <3>1 DEF Stored
      <3>4. Cast(t, items[i].num) = items[i].num /\ ~IsNull(t, items[i].num)
        BY <2>1, <3>1, <3>2, CastExact
      <3> QED
        BY <3>3, <3>4
    <2>4. ~\E i \in 1..m : items[i].kind = "number" /\ items[i].float
      BY <1>5, <2>1
    <2> QED
      BY <1>7, <2>2, <2>3, <2>4 DEF t
  <1> QED
    BY <1>4, <1>6, <1>8, <1>9 DEF TypeHolds

-----------------------------------------------------------------------------
(* Columns *)

Fields(P, N, T, E) == [position : P, name : N, type : T, entry : E]

ColumnSet(P, N, T, E) == [name : N, type : T, positions : Seq(P), entries : Seq(E)]

OfColumn(x, c) == x.name = c.name /\ x.type = c.type

(* f says which of the first k fields each of the m cells of a column is,  *)
(* in order.                                                               *)
CellsAre(c, m, f, xs, k) ==
    /\ Len(c.positions) = m /\ Len(c.entries) = m
    /\ \A a, b \in 1..m : a < b => f[a] < f[b]
    /\ \A a \in 1..m : /\ OfColumn(xs[f[a]], c)
                       /\ c.positions[a] = xs[f[a]].position
                       /\ c.entries[a] = xs[f[a]].entry
    /\ \A i \in 1..k : OfColumn(xs[i], c) => \E a \in 1..m : f[a] = i

(* A column has those of the first k fields that have its name and type.   *)
ColumnHas(c, xs, k) ==
    \E m \in Nat : \E f \in [1..m -> 1..k] : CellsAre(c, m, f, xs, k)

ColumnsHave(columns, xs, k) ==
    /\ \A c, d \in DOMAIN columns : OfColumn(columns[c], columns[d]) => c = d
    /\ \A c \in DOMAIN columns : ColumnHas(columns[c], xs, k)
    /\ \A i \in 1..k : \E c \in DOMAIN columns : OfColumn(xs[i], columns[c])

LEMMA LeastIn ==
    ASSUME NEW S \in SUBSET Nat, S # {}
    PROVE  Min(S) \in S
  <1>1. \E p \in S : \A q \in S : p <= q
    BY LeastNumber
  <1> QED
    BY <1>1 DEF Min

(* A field of another name or type leaves a column as it is. *)
LEMMA ColumnStays ==
    ASSUME NEW c, NEW xs, NEW k \in Nat, ColumnHas(c, xs, k), ~OfColumn(xs[k + 1], c)
    PROVE  ColumnHas(c, xs, k + 1)
  <1>1. PICK m \in Nat : \E f \in [1..m -> 1..k] : CellsAre(c, m, f, xs, k)
    BY DEF ColumnHas
  <1>2. PICK f \in [1..m -> 1..k] : CellsAre(c, m, f, xs, k)
    BY <1>1
  <1>3. \A i \in 1..(k + 1) : i \in 1..k \/ i = k + 1
    OBVIOUS
  <1>4. f \in [1..m -> 1..(k + 1)]
    <2>1. 1..k \subseteq 1..(k + 1)
      OBVIOUS
    <2> QED
      BY <2>1
  <1>5. CellsAre(c, m, f, xs, k + 1)
    <2>1. \A i \in 1..(k + 1) : OfColumn(xs[i], c) => \E a \in 1..m : f[a] = i
      BY <1>2, <1>3 DEF CellsAre
    <2> QED
      BY <1>2, <2>1 DEF CellsAre
  <1> QED
    BY <1>4, <1>5 DEF ColumnHas

(* One of its name and type becomes its last cell. *)
LEMMA ColumnGrows ==
    ASSUME NEW P, NEW N, NEW T, NEW E, NEW c \in ColumnSet(P, N, T, E), NEW xs, NEW k \in Nat,
           xs[k + 1] \in Fields(P, N, T, E), ColumnHas(c, xs, k), OfColumn(xs[k + 1], c),
           NEW d, d = [c EXCEPT !.positions = Append(@, xs[k + 1].position),
                                !.entries = Append(@, xs[k + 1].entry)]
    PROVE  /\ d \in ColumnSet(P, N, T, E) /\ d.name = c.name /\ d.type = c.type
           /\ ColumnHas(d, xs, k + 1)
  <1> DEFINE x == xs[k + 1]
  <1>1. c.positions \in Seq(P) /\ c.entries \in Seq(E) /\ c.name \in N /\ c.type \in T
    BY DEF ColumnSet
  <1>2. x.position \in P /\ x.entry \in E
    BY DEF Fields
  <1>3. /\ d.name = c.name /\ d.type = c.type
        /\ d.positions = Append(c.positions, x.position) /\ d.entries = Append(c.entries, x.entry)
        /\ d = [name |-> c.name, type |-> c.type, positions |-> d.positions, entries |-> d.entries]
    BY DEF ColumnSet
  <1>4. PICK m \in Nat : \E f \in [1..m -> 1..k] : CellsAre(c, m, f, xs, k)
    BY DEF ColumnHas
  <1>5. PICK f \in [1..m -> 1..k] : CellsAre(c, m, f, xs, k)
    BY <1>4
  <1>6. Len(c.positions) = m /\ Len(c.entries) = m
    BY <1>5 DEF CellsAre
  <1> HIDE DEF x
  <1>7. /\ d.positions \in Seq(P) /\ Len(d.positions) = m + 1 /\ d.positions[m + 1] = x.position
        /\ \A a \in 1..m : d.positions[a] = c.positions[a]
    BY <1>1, <1>2, <1>3, <1>6
  <1>8. /\ d.entries \in Seq(E) /\ Len(d.entries) = m + 1 /\ d.entries[m + 1] = x.entry
        /\ \A a \in 1..m : d.entries[a] = c.entries[a]
    BY <1>1, <1>2, <1>3, <1>6
  <1>9. d \in ColumnSet(P, N, T, E)
    BY <1>1, <1>3, <1>7, <1>8 DEF ColumnSet
  <1> DEFINE g == [a \in 1..(m + 1) |-> IF a = m + 1 THEN k + 1 ELSE f[a]]
  <1>10. \A a \in 1..(m + 1) : a \in 1..m \/ a = m + 1
    OBVIOUS
  <1>11. /\ g \in [1..(m + 1) -> 1..(k + 1)] /\ g[m + 1] = k + 1
         /\ \A a \in 1..m : g[a] = f[a] /\ f[a] \in 1..k /\ a \in 1..(m + 1)
    <2>1. \A a \in 1..m : f[a] \in 1..k /\ f[a] \in 1..(k + 1) /\ a \in 1..(m + 1) /\ a # m + 1
      OBVIOUS
    <2>2. k + 1 \in 1..(k + 1) /\ m + 1 \in 1..(m + 1)
      OBVIOUS
    <2> QED
      BY <1>10, <2>1, <2>2
  <1> HIDE DEF g
  <1>12. CellsAre(d, m + 1, g, xs, k + 1)
    <2>1. ASSUME NEW a \in 1..(m + 1), NEW b \in 1..(m + 1), a < b PROVE g[a] < g[b]
      <3>1. a \in 1..m
        BY <2>1
      <3>2. CASE b = m + 1
        BY <1>11, <3>1, <3>2
      <3>3. CASE b \in 1..m
        BY <1>5, <1>11, <2>1, <3>1, <3>3 DEF CellsAre
      <3> QED
        BY <1>10, <3>2, <3>3
    <2>2. ASSUME NEW a \in 1..(m + 1)
          PROVE  /\ OfColumn(xs[g[a]], d)
                 /\ d.positions[a] = xs[g[a]].position
                 /\ d.entries[a] = xs[g[a]].entry
      <3>1. CASE a = m + 1
        BY <1>3, <1>7, <1>8, <1>11, <3>1 DEF OfColumn, x
      <3>2. CASE a \in 1..m
        <4>1. /\ OfColumn(xs[f[a]], c)
              /\ c.positions[a] = xs[f[a]].position
              /\ c.entries[a] = xs[f[a]].entry
          BY <1>5, <3>2 DEF CellsAre
        <4>2. g[a] = f[a]
          BY <1>11, <3>2
        <4> QED
          BY <1>3, <1>7, <1>8, <3>2, <4>1, <4>2 DEF OfColumn
      <3> QED
        BY <1>10, <3>1, <3>2
    <2>3. ASSUME NEW i \in 1..(k + 1), OfColumn(xs[i], d) PROVE \E a \in 1..(m + 1) : g[a] = i
      <3>1. CASE i = k + 1
        BY <1>11, <3>1
      <3>2. CASE i \in 1..k
        <4>1. OfColumn(xs[i], c)
          BY <1>3, <2>3 DEF OfColumn
        <4>2. PICK a \in 1..m : f[a] = i
          BY <1>5, <3>2, <4>1 DEF CellsAre
        <4> QED
          BY <1>11, <4>2
      <3> QED
        BY <3>1, <3>2
    <2> QED
      BY <1>7, <1>8, <2>1, <2>2, <2>3 DEF CellsAre
  <1>13. m + 1 \in Nat
    OBVIOUS
  <1> QED
    BY <1>3, <1>9, <1>11, <1>12, <1>13 DEF ColumnHas

LEMMA OneElement ==
    ASSUME NEW S, NEW e \in S
    PROVE  <<e>> \in Seq(S) /\ Len(<<e>>) = 1 /\ <<e>>[1] = e
  OBVIOUS

(* A new column has the one field it is made for. *)
LEMMA ColumnStarts ==
    ASSUME NEW P, NEW N, NEW T, NEW E, NEW xs, NEW k \in Nat,
           xs[k + 1] \in Fields(P, N, T, E),
           \A i \in 1..k : ~(xs[i].name = xs[k + 1].name /\ xs[i].type = xs[k + 1].type),
           NEW d, d = Column(xs[k + 1].name, xs[k + 1].type,
                             <<xs[k + 1].position>>, <<xs[k + 1].entry>>)
    PROVE  d \in ColumnSet(P, N, T, E) /\ OfColumn(xs[k + 1], d) /\ ColumnHas(d, xs, k + 1)
  <1> DEFINE x == xs[k + 1]
  <1>1. x.position \in P /\ x.entry \in E /\ x.name \in N /\ x.type \in T
    BY DEF Fields
  <1>2. /\ d.name = x.name /\ d.type = x.type
        /\ d.positions = <<x.position>> /\ d.entries = <<x.entry>>
        /\ d = [name |-> x.name, type |-> x.type, positions |-> d.positions, entries |-> d.entries]
    BY DEF Column
  <1> HIDE DEF x
  <1>3. /\ d.positions \in Seq(P) /\ Len(d.positions) = 1 /\ d.positions[1] = x.position
        /\ d.entries \in Seq(E) /\ Len(d.entries) = 1 /\ d.entries[1] = x.entry
    BY <1>1, <1>2, OneElement
  <1>4. d \in ColumnSet(P, N, T, E)
    BY <1>1, <1>2, <1>3 DEF ColumnSet
  <1>5. OfColumn(x, d)
    BY <1>2 DEF OfColumn
  <1> DEFINE g == [a \in 1..1 |-> k + 1]
  <1>6. g \in [1..1 -> 1..(k + 1)] /\ \A a \in 1..1 : a = 1 /\ g[a] = k + 1
    OBVIOUS
  <1> HIDE DEF g
  <1>7. CellsAre(d, 1, g, xs, k + 1)
    <2>1. \A a, b \in 1..1 : ~(a < b)
      OBVIOUS
    <2>2. ASSUME NEW i \in 1..(k + 1), OfColumn(xs[i], d) PROVE \E a \in 1..1 : g[a] = i
      <3>1. i \notin 1..k
        BY <1>2, <2>2 DEF OfColumn, x
      <3>2. i = k + 1 /\ 1 \in 1..1
        BY <3>1
      <3> QED
        BY <1>6, <3>2
    <2>3. \A a \in 1..1 : /\ OfColumn(xs[g[a]], d)
                          /\ d.positions[a] = xs[g[a]].position
                          /\ d.entries[a] = xs[g[a]].entry
      BY <1>3, <1>5, <1>6 DEF x
    <2> QED
      BY <1>3, <2>1, <2>2, <2>3 DEF CellsAre
  <1>8. 1 \in Nat
    OBVIOUS
  <1> QED
    BY <1>4, <1>5, <1>6, <1>7, <1>8 DEF ColumnHas, x

LEMMA PushKeeps ==
    ASSUME NEW P, NEW N, NEW T, NEW E, NEW columns \in Seq(ColumnSet(P, N, T, E)),
           NEW xs, NEW k \in Nat, xs[k + 1] \in Fields(P, N, T, E), ColumnsHave(columns, xs, k),
           NEW new, new = PushToColumn(columns, xs[k + 1])
    PROVE  new \in Seq(ColumnSet(P, N, T, E)) /\ ColumnsHave(new, xs, k + 1)
  <1> DEFINE x == xs[k + 1]
             S == ColumnSet(P, N, T, E)
             found == {c \in DOMAIN columns : columns[c].name = x.name /\ columns[c].type = x.type}
             made == Column(x.name, x.type, <<x.position>>, <<x.entry>>)
  <1>1. PICK n \in Nat : n = Len(columns) /\ DOMAIN columns = 1..n
    OBVIOUS
  <1>2. \A i \in 1..(k + 1) : i \in 1..k \/ i = k + 1
    OBVIOUS
  <1>3. new = IF found = {} THEN Append(columns, made)
              ELSE [columns EXCEPT ![Min(found)].positions = Append(@, x.position),
                                   ![Min(found)].entries = Append(@, x.entry)]
    BY DEF PushToColumn
  <1>4. CASE found = {}
    <2>1. \A c \in DOMAIN columns : ~OfColumn(x, columns[c])
      BY <1>4 DEF OfColumn
    <2>2. \A i \in 1..k : ~(xs[i].name = x.name /\ xs[i].type = x.type)
      BY <2>1 DEF ColumnsHave, OfColumn
    <2>3. made \in S /\ OfColumn(x, made) /\ ColumnHas(made, xs, k + 1)
      BY <2>2, ColumnStarts
    <2> HIDE DEF found, x, S, made
    <2>4. /\ new \in Seq(S) /\ Len(new) = n + 1 /\ new[n + 1] = made
          /\ \A c \in 1..n : new[c] = columns[c]
      <3>1. columns \in Seq(S)
        BY DEF S
      <3> QED
        BY <1>1, <1>3, <1>4, <2>3, <3>1
    <2>5. DOMAIN new = 1..(n + 1) /\ \A c \in 1..(n + 1) : c \in 1..n \/ c = n + 1
      BY <2>4
    <2>6. \A c \in 1..n : ColumnHas(new[c], xs, k + 1)
      BY <1>1, <2>1, <2>4, ColumnStays DEF ColumnsHave, x
    <2>7. \A c \in 1..(n + 1) : ColumnHas(new[c], xs, k + 1)
      BY <2>3, <2>4, <2>5, <2>6
    <2>8. ASSUME NEW c \in 1..(n + 1), NEW d \in 1..(n + 1), OfColumn(new[c], new[d]) PROVE c = d
      <3>1. \A b \in 1..n : ~OfColumn(made, columns[b]) /\ ~OfColumn(columns[b], made)
        BY <1>1, <2>1, <2>3 DEF OfColumn
      <3>2. CASE c \in 1..n /\ d \in 1..n
        BY <1>1, <2>4, <2>8, <3>2 DEF ColumnsHave
      <3>3. CASE c \in 1..n /\ d = n + 1
        BY <2>4, <2>8, <3>1, <3>3
      <3>4. CASE c = n + 1 /\ d \in 1..n
        BY <2>4, <2>8, <3>1, <3>4
      <3> QED
        BY <2>5, <3>2, <3>3, <3>4
    <2>9. ASSUME NEW i \in 1..(k + 1) PROVE \E c \in 1..(n + 1) : OfColumn(xs[i], new[c])
      <3>1. CASE i = k + 1
        <4>1. n + 1 \in 1..(n + 1)
          OBVIOUS
        <4> QED
          BY <2>3, <2>4, <3>1, <4>1 DEF x
      <3>2. CASE i \in 1..k
        <4>1. PICK c \in 1..n : OfColumn(xs[i], columns[c])
          BY <1>1, <3>2 DEF ColumnsHave
        <4>2. c \in 1..(n + 1)
          OBVIOUS
        <4> QED
          BY <2>4, <4>1, <4>2
      <3> QED
        BY <1>2, <3>1, <3>2
    <2> QED
      BY <2>4, <2>5, <2>7, <2>8, <2>9 DEF ColumnsHave, S
  <1>5. CASE found # {}
    <2>1. found \in SUBSET Nat
      BY <1>1
    <2> DEFINE b == Min(found)
    <2>2. b \in found
      <3> HIDE DEF found
      <3> QED
        BY <1>5, <2>1, LeastIn
    <2>3. b \in 1..n /\ OfColumn(x, columns[b])
      BY <1>1, <2>2 DEF OfColumn
    <2> DEFINE d == [columns[b] EXCEPT !.positions = Append(@, x.position),
                                       !.entries = Append(@, x.entry)]
    <2>4. new = [columns EXCEPT ![b] = d]
      <3>1. new = [columns EXCEPT ![b].positions = Append(@, x.position),
                                  ![b].entries = Append(@, x.entry)]
        BY <1>3, <1>5
      <3> HIDE DEF b, x, found
      <3> QED
        BY <1>1, <2>3, <3>1
    <2>5. columns[b] \in S /\ ColumnHas(columns[b], xs, k)
      BY <1>1, <2>3 DEF ColumnsHave
    <2>6. /\ d \in S /\ d.name = columns[b].name /\ d.type = columns[b].type
          /\ ColumnHas(d, xs, k + 1)
      <3> HIDE DEF b, found
      <3> QED
        BY <2>3, <2>5, ColumnGrows
    <2> HIDE DEF b, d, x, found, S
    <2>7. /\ new \in Seq(S) /\ DOMAIN new = 1..n /\ new[b] = d
          /\ \A c \in 1..n : c # b => new[c] = columns[c]
      <3>1. columns \in Seq(S)
        BY DEF S
      <3> QED
        BY <1>1, <2>3, <2>4, <2>6, <3>1
    <2>8. \A c \in 1..n : new[c].name = columns[c].name /\ new[c].type = columns[c].type
      BY <2>6, <2>7
    <2>9. ASSUME NEW c \in 1..n, c # b PROVE ColumnHas(new[c], xs, k + 1)
      <3>1. ~OfColumn(columns[b], columns[c])
        BY <1>1, <2>3, <2>9 DEF ColumnsHave
      <3>2. ~OfColumn(x, columns[c])
        BY <2>3, <3>1 DEF OfColumn
      <3>3. ColumnHas(columns[c], xs, k)
        BY <1>1 DEF ColumnsHave
      <3>4. ColumnHas(columns[c], xs, k + 1)
        BY <3>2, <3>3, ColumnStays DEF x
      <3> QED
        BY <2>7, <2>9, <3>4
    <2>10. \A c \in 1..n : ColumnHas(new[c], xs, k + 1)
      BY <2>6, <2>7, <2>9
    <2>11. \A c, e \in 1..n : OfColumn(new[c], new[e]) => c = e
      BY <1>1, <2>8 DEF ColumnsHave, OfColumn
    <2>12. ASSUME NEW i \in 1..(k + 1) PROVE \E c \in 1..n : OfColumn(xs[i], new[c])
      <3>1. CASE i = k + 1
        BY <2>3, <2>8, <3>1 DEF OfColumn, x
      <3>2. CASE i \in 1..k
        <4>1. PICK c \in 1..n : OfColumn(xs[i], columns[c])
          BY <1>1, <3>2 DEF ColumnsHave
        <4> QED
          BY <2>8, <4>1 DEF OfColumn
      <3> QED
        BY <1>2, <3>1, <3>2
    <2> QED
      BY <2>7, <2>10, <2>11, <2>12 DEF ColumnsHave, S
  <1> QED
    BY <1>4, <1>5

(* The recursive definition of the loop over the fields has a solution. *)
Lays(f, m, groups, key, xs) ==
    f = [k \in 0..m |-> IF k = 0 THEN groups ELSE PushToGroup(f[k - 1], key, xs[k])]

LEMMA LaysExist ==
    ASSUME NEW groups, NEW key, NEW xs, NEW m \in Nat
    PROVE  \E f : Lays(f, m, groups, key, xs)
  <1> DEFINE T == {k \in Nat : \E f : Lays(f, k, groups, key, xs)}
             Look(gs, k) == PushToGroup(gs, key, xs[k])
  <1>1. 0 \in T
    <2>1. Lays([k \in 0..0 |-> groups], 0, groups, key, xs)
      BY DEF Lays
    <2> QED
      BY <2>1
  <1>2. ASSUME NEW k \in 0..(m - 1), k \in T PROVE k + 1 \in T
    <2>1. PICK f : Lays(f, k, groups, key, xs)
      BY <1>2
    <2> DEFINE g == [i \in 0..(k + 1) |-> IF i = k + 1 THEN Look(f[k], k + 1) ELSE f[i]]
    <2>2. k \in Nat /\ (k + 1) - 1 = k /\ k + 1 # 0
      OBVIOUS
    <2> HIDE DEF Look
    <2>3. \A i \in 0..k : f[i] = IF i = 0 THEN groups ELSE Look(f[i - 1], i)
      BY <2>1 DEF Lays, Look
    <2>4. ASSUME NEW i \in 0..(k + 1) PROVE g[i] = IF i = 0 THEN groups ELSE Look(g[i - 1], i)
      <3>1. CASE i = k + 1
        <4>1. g[i] = Look(f[k], k + 1) /\ g[k] = f[k]
          BY <2>2, <3>1
        <4> QED
          BY <2>2, <3>1, <4>1
      <3>2. CASE i # k + 1
        <4>1. i \in 0..k /\ g[i] = f[i]
          BY <2>2, <3>2
        <4>2. i # 0 => i - 1 \in 0..(k + 1) /\ i - 1 # k + 1
          BY <2>2, <4>1
        <4>3. i # 0 => g[i - 1] = f[i - 1]
          BY <4>2
        <4> QED
          BY <2>3, <4>1, <4>3
      <3> QED
        BY <3>1, <3>2
    <2>5. g = [i \in 0..(k + 1) |-> g[i]]
      OBVIOUS
    <2> HIDE DEF g
    <2>6. g = [i \in 0..(k + 1) |-> IF i = 0 THEN groups ELSE Look(g[i - 1], i)]
      BY <2>4, <2>5
    <2>7. Lays(g, k + 1, groups, key, xs)
      BY <2>6 DEF Lays, Look
    <2> QED
      BY <2>2, <2>7
  <1> HIDE DEF T
  <1>3. \A k \in 0..m : k \in T
    BY <1>1, <1>2, UpTo
  <1>4. m \in T
    BY <1>3
  <1> QED
    BY <1>4 DEF T

LEMMA LaysGo ==
    ASSUME NEW groups, NEW key, NEW xs, NEW m \in Nat, Len(xs) = m
    PROVE  /\ LaidOut(groups, key, xs)[0] = groups
           /\ \A k \in 1..m : LaidOut(groups, key, xs)[k] =
                PushToGroup(LaidOut(groups, key, xs)[k - 1], key, xs[k])
  <1> DEFINE Is(f) == Lays(f, m, groups, key, xs)
             s == LaidOut(groups, key, xs)
             Look(gs, k) == PushToGroup(gs, key, xs[k])
  <1>1. s = CHOOSE f : Is(f)
    BY DEF LaidOut, Lays
  <1>2. \E f : Is(f)
    BY LaysExist
  <1> HIDE DEF Is, s
  <1>3. Is(s)
    BY <1>1, <1>2
  <1> HIDE DEF Look
  <1>4. \A k \in 0..m : s[k] = IF k = 0 THEN groups ELSE Look(s[k - 1], k)
    BY <1>3 DEF Is, Lays, Look
  <1>5. s[0] = groups
    BY <1>4
  <1>6. \A k \in 1..m : k \in 0..m /\ k # 0
    OBVIOUS
  <1>7. \A k \in 1..m : s[k] = Look(s[k - 1], k)
    BY <1>4, <1>6
  <1> QED
    BY <1>5, <1>7 DEF s, Look

(* The first field makes the group, and all others go into it. *)
LEMMA GroupPush ==
    ASSUME NEW S, NEW groups \in Seq(S), NEW key, \A g \in DOMAIN groups : groups[g].key # key,
           NEW x
    PROVE  /\ PushToGroup(groups, key, x) = Append(groups, Group(key, PushToColumn(<<>>, x)))
           /\ \A columns :
                PushToGroup(Append(groups, Group(key, columns)), key, x) =
                  Append(groups, Group(key, PushToColumn(columns, x)))
  <1>1. PushToGroup(groups, key, x) = Append(groups, Group(key, PushToColumn(<<>>, x)))
    <2>1. {g \in DOMAIN groups : groups[g].key = key} = {}
      OBVIOUS
    <2> QED
      BY <2>1 DEF PushToGroup
  <1>2. ASSUME NEW columns
        PROVE  PushToGroup(Append(groups, Group(key, columns)), key, x) =
                  Append(groups, Group(key, PushToColumn(columns, x)))
    <2> DEFINE old == Append(groups, Group(key, columns))
               found == {g \in DOMAIN old : old[g].key = key}
               pushed == PushToColumn(columns, x)
    <2>1. PICK n \in Nat : n = Len(groups) /\ DOMAIN groups = 1..n
      OBVIOUS
    <2>2. Group(key, columns).key = key
      BY DEF Group
    <2>3. /\ DOMAIN old = 1..(n + 1) /\ old[n + 1] = Group(key, columns)
          /\ \A g \in 1..n : old[g] = groups[g]
      <3>1. groups \in Seq(S \cup {Group(key, columns)})
        OBVIOUS
      <3> QED
        BY <2>1, <3>1
    <2> HIDE DEF old
    <2>4. found = {n + 1}
      <3>1. \A g \in 1..(n + 1) : g \in 1..n \/ g = n + 1
        OBVIOUS
      <3>2. n + 1 \in 1..(n + 1)
        OBVIOUS
      <3> QED
        BY <2>1, <2>2, <2>3, <3>1, <3>2
    <2>5. Min(found) = n + 1
      <3>1. found \in SUBSET Nat /\ found # {}
        BY <2>4
      <3> HIDE DEF found
      <3>2. Min(found) \in found
        BY <3>1, LeastIn
      <3> QED
        BY <2>4, <3>2
    <2>6. PushToGroup(old, key, x) = [old EXCEPT ![n + 1].columns = PushToColumn(@, x)]
      <3>1. PushToGroup(old, key, x) = [old EXCEPT ![Min(found)].columns = PushToColumn(@, x)]
        BY <2>4 DEF PushToGroup
      <3> QED
        BY <2>5, <3>1
    <2>7. PushToGroup(old, key, x) = [old EXCEPT ![n + 1] = Group(key, pushed)]
      <3>1. [old[n + 1] EXCEPT !.columns = PushToColumn(@, x)] = Group(key, pushed)
        BY <2>3 DEF Group
      <3> HIDE DEF pushed
      <3> QED
        BY <2>3, <2>6, <3>1
    <2> HIDE DEF pushed
    <2>8. [old EXCEPT ![n + 1] = Group(key, pushed)] = Append(groups, Group(key, pushed))
      <3> DEFINE a == Group(key, columns)
                 b == Group(key, pushed)
      <3>1. groups \in Seq(S \cup {a, b}) /\ a \in S \cup {a, b} /\ b \in S \cup {a, b}
        OBVIOUS
      <3> HIDE DEF a, b
      <3>2. old = Append(groups, a)
        BY DEF old, a
      <3>3. [old EXCEPT ![n + 1] = b] = Append(groups, b)
        <4> DEFINE l == [old EXCEPT ![n + 1] = b]
                   r == Append(groups, b)
        <4>1. /\ old \in Seq(S \cup {a, b}) /\ Len(old) = n + 1
              /\ \A i \in 1..n : old[i] = groups[i]
          BY <2>1, <3>1, <3>2
        <4>2. /\ l \in Seq(S \cup {a, b}) /\ Len(l) = n + 1 /\ l[n + 1] = b
              /\ \A i \in 1..n : l[i] = old[i]
          BY <3>1, <4>1
        <4>3. /\ r \in Seq(S \cup {a, b}) /\ Len(r) = n + 1 /\ r[n + 1] = b
              /\ \A i \in 1..n : r[i] = groups[i]
          BY <2>1, <3>1
        <4> HIDE DEF l, r
        <4>4. \A i \in 1..(n + 1) : i \in 1..n \/ i = n + 1
          OBVIOUS
        <4>5. \A i \in 1..Len(l) : l[i] = r[i]
          BY <4>1, <4>2, <4>3, <4>4
        <4>6. l = r
          BY <4>2, <4>3, <4>5, SeqEqual
        <4> QED
          BY <4>6 DEF l, r
      <3> QED
        BY <3>3 DEF b
    <2> QED
      BY <2>7, <2>8 DEF old, pushed
  <1> QED
    BY <1>1, <1>2

(* An array of objects becomes one group, whose columns differ in their    *)
(* names or types and have between them every field of every object, once: *)
(* a column has the fields of its name and type in the order they came in, *)
(* each with the position of its object (object_array_key_columns_find_    *)
(* or_new and object_array_key_column_push, columndoc.c:936-1046).         *)
THEOREM ColumnsHaveAll ==
    ASSUME NEW P, NEW N, NEW T, NEW E, NEW S, NEW groups \in Seq(S), NEW key,
           \A g \in DOMAIN groups : groups[g].key # key,
           NEW xs \in Seq(Fields(P, N, T, E)), xs # <<>>
    PROVE  \E columns \in Seq(ColumnSet(P, N, T, E)) :
             /\ LaidOut(groups, key, xs)[Len(xs)] = Append(groups, Group(key, columns))
             /\ ColumnsHave(columns, xs, Len(xs))
  <1> DEFINE s == LaidOut(groups, key, xs)
             C == Seq(ColumnSet(P, N, T, E))
             Has(gs, k) == \E columns \in C : /\ gs = Append(groups, Group(key, columns))
                                              /\ ColumnsHave(columns, xs, k)
  <1>1. PICK m \in Nat : m = Len(xs) /\ m >= 1 /\ \A k \in 1..m : xs[k] \in Fields(P, N, T, E)
    OBVIOUS
  <1> DEFINE U == {k \in 0..m : k >= 1 => Has(s[k], k)}
  <1>2. s[0] = groups /\ \A k \in 1..m : s[k] = PushToGroup(s[k - 1], key, xs[k])
    <2>1. s[0] = groups
      BY <1>1, LaysGo
    <2>2. \A k \in 1..m : s[k] = PushToGroup(s[k - 1], key, xs[k])
      BY <1>1, LaysGo
    <2> QED
      BY <2>1, <2>2
  <1> HIDE DEF s
  <1>3. 0 \in U
    OBVIOUS
  <1>4. ASSUME NEW k \in 0..(m - 1), k \in U PROVE k + 1 \in U
    <2>1. k \in Nat /\ k + 1 \in 1..m /\ k + 1 \in 0..m /\ (k + 1) - 1 = k
      OBVIOUS
    <2>2. s[k + 1] = PushToGroup(s[k], key, xs[k + 1]) /\ xs[k + 1] \in Fields(P, N, T, E)
      BY <1>1, <1>2, <2>1
    <2>3. Has(s[k + 1], k + 1)
      <3>1. CASE k = 0
        <4> DEFINE new == PushToColumn(<<>>, xs[k + 1])
        <4>1. s[k + 1] = Append(groups, Group(key, new))
          BY <1>2, <2>2, <3>1, GroupPush
        <4>2. <<>> \in C /\ ColumnsHave(<<>>, xs, k)
          <5>1. <<>> \in C /\ DOMAIN <<>> = {}
            OBVIOUS
          <5>2. 1..k = {}
            BY <3>1
          <5> QED
            BY <5>1, <5>2 DEF ColumnsHave
        <4>3. new \in C /\ ColumnsHave(new, xs, k + 1)
          BY <2>1, <2>2, <4>2, PushKeeps
        <4> HIDE DEF new, C
        <4> QED
          BY <4>1, <4>3
      <3>2. CASE k # 0
        <4>1. Has(s[k], k)
          BY <1>4, <2>1, <3>2
        <4>2. PICK columns \in C : /\ s[k] = Append(groups, Group(key, columns))
                                   /\ ColumnsHave(columns, xs, k)
          BY <4>1
        <4> DEFINE new == PushToColumn(columns, xs[k + 1])
        <4>3. s[k + 1] = Append(groups, Group(key, new))
          <5>1. PushToGroup(Append(groups, Group(key, columns)), key, xs[k + 1]) =
                  Append(groups, Group(key, new))
            BY GroupPush
          <5> QED
            BY <2>2, <4>2, <5>1
        <4>4. new \in C /\ ColumnsHave(new, xs, k + 1)
          BY <2>1, <2>2, <4>2, PushKeeps
        <4> HIDE DEF new, C
        <4> QED
          BY <4>3, <4>4
      <3> QED
        BY <3>1, <3>2
    <2> HIDE DEF Has
    <2> QED
      BY <2>1, <2>3
  <1>5. m \in U
    <2> HIDE DEF U
    <2>1. \A k \in 0..m : k \in U
      BY <1>3, <1>4, UpTo
    <2> QED
      BY <2>1
  <1>6. Has(s[m], m)
    BY <1>1, <1>5
  <1> QED
    BY <1>1, <1>6 DEF s
=============================================================================

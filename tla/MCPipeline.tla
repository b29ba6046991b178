------------------------------ MODULE MCPipeline ------------------------------
(* Texts for module Pipeline: every sequence of a few tokens, and JSON     *)
(* documents with fields of every sort.  A text in a document is its place *)
(* in the order of texts; the identifiers of the dictionary have another.  *)
EXTENDS Pipeline

MCBits == [t \in SignedSet \cup UnsignedSet |->
             CASE t \in {"i8", "u8"} -> 3 [] t \in {"i16", "u16"} -> 4
               [] t \in {"i32", "u32"} -> 5 [] OTHER -> 6]

MCIds == <<11, 13, 12, 14>>

MCSource == {Token(type, IF type = "string" THEN 1 ELSE IF type = "int" THEN 3 ELSE 0) :
               type \in TokenTypes \ {"true", "false", "float"}}

-----------------------------------------------------------------------------
(* Documents within the bound on tokens *)

Leaves == {Word("true"), Word("null"), Text(1), Number(3, FALSE), Number(3, TRUE)}

Seqs(S) == {<<>>} \cup {<<a>> : a \in S} \cup {<<a, b>> : a, b \in S}

Flat == Leaves \cup {Array(s) : s \in Seqs(Leaves)}
          \cup {Object(m) : m \in Seqs({Member(1, v) : v \in Leaves})}

Short == {d \in Flat \cup {Array(s) : s \in Seqs(Flat)} \cup {Object(m) : m \in Seqs({Member(1, v) : v \in Flat})} :
            Len(JsonPrint(d)) <= MaxTokens}

-----------------------------------------------------------------------------
(* Larger ones *)

I(n) == Number(n, FALSE)

F(n) == Number(n, TRUE)

Null == Word("null")

O1(v) == Object(<<Member(1, v)>>)

O2(v, w) == Object(<<Member(1, v), Member(2, w)>>)

O3(u, v, w) == Object(<<Member(3, u), Member(1, v), Member(2, w)>>)

Scalars == {Null, Word("false"), Text(2), I(1), I(5), I(-9), I(40), F(3)}

OfArrays == {Array(s) : s \in {<<>>, <<Null, Null>>, <<I(1)>>, <<I(1), Null, I(9)>>,
            <<I(9), I(-2)>>, <<F(1), I(2)>>, <<I(2), F(1)>>, <<I(40), I(1)>>, <<I(40), I(-1)>>,
            <<Word("true"), Null, Word("false")>>, <<Text(2), Text(1)>>, <<Text(1), Null>>,
            <<I(1), Text(1)>>, <<F(1), Null>>, <<I(31), I(1)>>}}

Two == Array(<<O1(I(2)), O2(I(1), I(1))>>)

Rows == {Two} \cup {Array(s) : s \in
           {<<O2(I(1), Text(2)), Object(<<>>), O1(I(0))>>,
            <<O1(Array(<<I(2), I(1)>>)), O2(Text(1), Null), O1(Array(<<I(1), I(2)>>))>>,
            <<O1(O1(I(1))), O1(O2(I(2), I(1)))>>,
            <<O1(I(1)), Null, Object(<<>>)>>,
            <<O1(Two), O2(I(1), I(2))>>}}

(* Three values that go into one group, out of order. *)
Triples == {O3(I(3), I(-1), I(1)), O3(Text(1), Text(3), Text(2)), O3(F(5), F(-1), F(1)),
            O3(Array(<<I(2), I(1)>>), Array(<<I(1), I(1)>>), Array(<<I(0), I(2)>>)),
            O3(O1(I(1)), O2(I(2), I(1)), Object(<<>>)), O3(Null, Null, Null),
            O3(Array(<<Null, Null>>), Null, Array(<<Null, Null, Null>>)),
            O3(Two, Array(<<O1(I(1)), O1(I(1)), O1(I(2))>>), I(1))}

Tops == {Two, Array(<<O1(I(1)), O1(I(2)), O2(I(0), I(1))>>), Array(<<O1(I(1)), I(1)>>),
         Array(<<Object(<<Member(1, Array(<<Array(<<>>)>>))>>)>>),
         Array(<<O1(O1(Array(<<Array(<<>>)>>)))>>), O1(O1(Array(<<Array(<<Text(1)>>)>>)))}

Large == Tops \cup Triples \cup {O1(v) : v \in Scalars \cup OfArrays \cup Rows}
           \cup {O2(v, I(1)) : v \in Rows} \cup {O1(O2(v, Text(1))) : v \in Rows}

MCLong == {JsonPrint(d) : d \in Large}

MCDocuments == Short \cup Large

-----------------------------------------------------------------------------
(* Iterators *)

MCMasks == {MaskAny, {"prop", "i8", "string", "object"}, {"array"} \cup TypeSet,
            {"prop", "array", "i8", "null"}}
=============================================================================

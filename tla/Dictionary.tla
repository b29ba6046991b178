----------------------------- MODULE Dictionary -----------------------------
(***************************************************************************)
(* What a string dictionary promises to its users (strdic.h): a string     *)
(* gets an identifier of its own when it is first inserted, keeps it as    *)
(* long as the dictionary lives, and the callers are told nothing else.    *)
(***************************************************************************)
CONSTANTS Strings,  \* the strings that may be inserted
          Ids,      \* the identifiers
          NoId      \* the string has no identifier

VARIABLES id_of,    \* the identifier of each string
          answers   \* the pairs <<string, identifier>> callers were told so far

vars == <<id_of, answers>>

Init == /\ id_of = [s \in Strings |-> NoId]
        /\ answers = {}

(* The strings of S, all new, get identifiers no string has. *)
Add(S) == /\ \A s \in S : id_of[s] = NoId /\ id_of'[s] \in Ids
          /\ \A s \in S : \A t \in Strings \ {s} : id_of'[s] # id_of'[t]
          /\ \A s \in Strings \ S : id_of'[s] = id_of[s]
          /\ UNCHANGED answers

(* A caller is told the identifiers of strings that have one. *)
Answer(S) == /\ \A s \in S : id_of[s] # NoId
             /\ answers' = answers \cup {<<s, id_of[s]>> : s \in S}
             /\ UNCHANGED id_of

Next == \E S \in SUBSET Strings : Add(S) \/ Answer(S)

Spec == Init /\ [][Next]_vars
=============================================================================

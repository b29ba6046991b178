-------------------------- MODULE MCArchiveStrings --------------------------
(* Module ArchiveStrings for TLC: four strings, three of them in the same  *)
(* bucket of every cache, one inside another, one of size zero.            *)
EXTENDS ArchiveStrings

MCEntries == <<[id |-> 2, text |-> "phone"], [id |-> 4, text |-> "phones"],
               [id |-> 6, text |-> ""], [id |-> 3, text |-> "name"]>>

MCSize == ("phone" :> 5) @@ ("phones" :> 6) @@ ("" :> 0) @@ ("name" :> 4)

MCHashOf == [x \in {2, 3, 4, 6, 8} |-> x]

MCTexts == DOMAIN MCSize

MCOccurs == {<<a, b>> \in MCTexts \X MCTexts :
               a = b \/ a = "" \/ (a = "phone" /\ b = "phones")}

MCLimits == {-1, 0, 2}

MCNoLimit == {-1}
=============================================================================

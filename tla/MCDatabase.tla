----------------------------- MODULE MCDatabase -----------------------------
(* Model values and symmetry for checking Database.                        *)
EXTENDS Database, TLC

CONSTANTS w1, a1, p, q, v, w

OneWindow == {w1}
OneAgent == {a1}
TwoProps == {p, q}
TwoViews == {v, w}
SomePeople == {"ada", "ADA"}

(* Two words that differ in a capital beyond A to Z, and one that contains *)
(* the small one; two accounts that differ in capitals from A to Z.        *)
SomeWords == {"uml", "UML", "true"}
SomeParts == [t \in SomeWords \cup SomePeople |->
                 IF t = "true" THEN {"uml"} ELSE {}]
SmallAToZ == [t \in SomeWords \cup SomePeople |->
                 IF t = "ADA" THEN "ada" ELSE t]
SmallAll == [SmallAToZ EXCEPT !["UML"] = "uml"]
SomeNumerals == <<"3", "5">>
SomeDays == <<"d1", "d2">>
Myself == {"ada"}
SomeWritten == {Number("3"), NoValue}
Symmetry == Permutations(TwoProps) \cup Permutations(TwoViews)
=============================================================================

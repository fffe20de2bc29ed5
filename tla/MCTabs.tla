------------------------------- MODULE MCTabs -------------------------------
(* Model values for checking Tabs: a document, a database with one row,    *)
(* and a document this window may create.                                  *)
EXTENDS Tabs, TLC

CONSTANTS d, base, n, r

Documents == <<d, base, n>>
OneRow == {r}
OneFresh == {n}
InBase == [x \in {r} |-> base]
SomeStarts == {<<>>, <<r, d>>}
SomeAddresses == {Nil, d, r}
=============================================================================

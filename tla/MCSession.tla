----------------------------- MODULE MCSession -----------------------------
(***************************************************************************)
(* Instances of Session for TLC.                                           *)
(***************************************************************************)
EXTENDS Session, TLC

Text(size, value) == [size |-> size, digits |-> TRUE, value |-> value]

\* "100", which is valid; "000", whose number the server takes for a failure; and
\* "65636", which a heading would turn into 100.
Texts == {Text(3, 100), Text(3, 0), Text(5, 65636)}

OneText == {Text(3, 100)}

\* A password that is long enough.
OnePassword == {[size |-> 6, alnum |-> TRUE, id |-> 1]}

Symmetry == Permutations(Clients) \union Permutations(Conns) \union Permutations(Workers)
=============================================================================

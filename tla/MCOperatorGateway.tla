--------------------------- MODULE MCOperatorGateway ---------------------------
(***************************************************************************)
(* Two clients, one entity, four places and two overlapping areas.  Tokens *)
(* of an analyst, of a viewer, and one that has expired.                   *)
(***************************************************************************)
EXTENDS OperatorGateway, TLC

Token(good, roles) == [good |-> good, subject |-> "user", roles |-> roles]
MCTokens == {Token(TRUE, {"Analyst"}), Token(TRUE, {"Viewer"}), Token(FALSE, {"Analyst"})}

\* A place in the first area, one on the edge of both, one in the second area
\* and one beside them.
MCPositions == {<<0, 0>>, <<1, 1>>, <<2, 2>>, <<0, 2>>}
MCAreas == {[low |-> <<0, 0>>, high |-> <<1, 1>>], [low |-> <<1, 1>>, high |-> <<2, 2>>]}

Symmetry == Permutations(Sockets)
===============================================================================

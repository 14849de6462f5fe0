--------------------------- MODULE MCMatchService ---------------------------
(***************************************************************************)
(* A small instance of MatchService: one player with two devices.          *)
(***************************************************************************)
EXTENDS MatchService, TLC

CONSTANTS c1, c2, p1

Devices == c1 :> p1 @@ c2 :> p1
Both    == {"ranked", "casual"}

\* "casual:1" comes before "ranked:1".
ByName  == {<< << "casual", p1 >>, << "ranked", p1 >> >>}
=============================================================================

--------------------------------- MODULE Pot ---------------------------------
(***************************************************************************)
(* What the dining savages ask for (problems.md:142-154): nobody takes a   *)
(* serving from an empty pot, and the cook fills the pot with M servings   *)
(* only when it is empty.                                                  *)
(***************************************************************************)
EXTENDS Naturals

CONSTANT M

VARIABLE servings

PotInit == servings \in {0, M}

GetServing == servings > 0 /\ servings' = servings - 1

PutServings == servings = 0 /\ servings' = M

PotSpec == PotInit /\ [][GetServing \/ PutServings]_servings
=============================================================================

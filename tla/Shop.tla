--------------------------------- MODULE Shop ---------------------------------
(***************************************************************************)
(* What a barbershop asks for (problems.md:236-247): at most N_CHAIRS      *)
(* customers are inside, the others leave at once; one haircut at a time;  *)
(* nobody who came in leaves without one.                                  *)
(***************************************************************************)
EXTENDS Naturals, FiniteSets

CONSTANTS Customers, N_CHAIRS

VARIABLES waiting, in_chair, shorn     \* the customers inside

shopVars == <<waiting, in_chair, shorn>>

inside == waiting \cup in_chair \cup shorn

ShopInit == waiting = {} /\ in_chair = {} /\ shorn = {}

Enter(c) ==
  /\ c \notin inside /\ Cardinality(inside) < N_CHAIRS
  /\ waiting' = waiting \cup {c}
  /\ UNCHANGED <<in_chair, shorn>>

BeginCut(c) ==
  /\ c \in waiting /\ in_chair = {}
  /\ waiting' = waiting \ {c}
  /\ in_chair' = {c}
  /\ UNCHANGED shorn

EndCut(c) ==
  /\ in_chair = {c}
  /\ in_chair' = {}
  /\ shorn' = shorn \cup {c}
  /\ UNCHANGED waiting

Leave(c) ==
  /\ c \in shorn
  /\ shorn' = shorn \ {c}
  /\ UNCHANGED <<waiting, in_chair>>

ShopNext == \E c \in Customers : Enter(c) \/ BeginCut(c) \/ EndCut(c) \/ Leave(c)

ShopSpec == ShopInit /\ [][ShopNext]_shopVars
=============================================================================

---------------------------- MODULE SmokersTable ----------------------------
(***************************************************************************)
(* What the cigarette smokers ask for (problems.md:12-35): the agent puts  *)
(* two different ingredients on the table; only the smoker who owns the    *)
(* third one takes them, and takes both.  A patient agent waits until the  *)
(* table is empty; the agent of the harder variant (problems.md:80) never  *)
(* waits, and any two different ingredients may meet.                      *)
(***************************************************************************)
EXTENDS Naturals

VARIABLES
  patient,
  on_table,    \* [ingredient -> how many of them nobody has taken yet]
  cigarettes   \* [smoker -> pairs taken for it and not yet smoked]

tableVars == <<patient, on_table, cigarettes>>

Ingredients == 0..2

Nothing == [i \in Ingredients |-> 0]

TableInit == patient \in BOOLEAN /\ on_table = Nothing /\ cigarettes = Nothing

Place(x) ==               \* the two ingredients other than x
  /\ patient => on_table = Nothing
  /\ on_table' = [i \in Ingredients |-> on_table[i] + (IF i = x THEN 0 ELSE 1)]
  /\ UNCHANGED <<patient, cigarettes>>

Take(k) ==
  /\ \A i \in Ingredients \ {k} : on_table[i] > 0
  /\ on_table' = [i \in Ingredients |-> on_table[i] - (IF i = k THEN 0 ELSE 1)]
  /\ cigarettes' = [cigarettes EXCEPT ![k] = @ + 1]
  /\ UNCHANGED patient

Smoke(k) ==
  /\ cigarettes[k] > 0
  /\ cigarettes' = [cigarettes EXCEPT ![k] = @ - 1]
  /\ UNCHANGED <<patient, on_table>>

TableNext == \E k \in Ingredients : Place(k) \/ Take(k) \/ Smoke(k)

TableSpec == TableInit /\ [][TableNext]_tableVars
=============================================================================

\* Two chefs and two customers on two slots, three dishes: a slot is used again
\* and either side is refused and parks.
SPECIFICATION MCSpec
CONSTANTS
  p1 = p1
  p2 = p2
  c1 = c1
  c2 = c2
  Producers = {p1, p2}
  Consumers = {c1, c2}
  Dishes = {1}
  NoDish = 0
  N = 2
  MaxDishes = 3
SYMMETRY Symmetry
INVARIANTS
  TypeOK
  ExclusiveSlot
  NobodyOverlooked
PROPERTIES
  RefusalExactWhenQuiet
  RefinesFIFO

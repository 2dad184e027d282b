\* Two chefs and one customer: the smallest instance in which one chef may
\* overtake another between its CAS and its publication.
SPECIFICATION MCSpec
CONSTANTS
  p1 = p1
  p2 = p2
  c1 = c1
  c2 = c2
  Producers = {p1, p2}
  Consumers = {c1}
  Dishes = {1}
  NoDish = 0
  N = 2
  MaxDishes = 2
PROPERTY
  NulloptMeansEmpty

\* Two chefs and one customer, four dishes on two slots: both chefs are refused
\* and sleep at once, so that a notification has to choose between them, and one
\* that is lost leaves a chef asleep with its dish.
SPECIFICATION MCFairSpec
CONSTANTS
  p1 = p1
  p2 = p2
  c1 = c1
  c2 = c2
  Producers = {p1, p2}
  Consumers = {c1}
  Dishes = {1}
  NoDish = 0
  N = 2
  MaxDishes = 4
PROPERTY
  EveryDishEaten

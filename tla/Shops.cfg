\* Three customers on two chairs; Hilzer's shop with two ushers and two barbers;
\* two deer, and three elves in groups of two.
SPECIFICATION MCSpec
CONSTANTS
  Programs = {"barbershop_0", "barbershop_1", "barbershop_2", "hilzer", "santa"}
  M = 1
  Diners = 1
  Generations = 0
  Rounds = 0
  BoardRounds = 2
  Draws <- MCDraws
  NCustomers = 3
  N_CHAIRS = 2
  Barbers = 2
  Ushers = 2
  MAX_CUSTOMERS = 2
  SOFA_CAPACITY = 2
  LeftOut <- MCLeftOut
  Deer = 2
  Elves = 3
  Group = 2
INVARIANTS
  BinarySemaphores
  InOrder
  GroupsStayTogether
PROPERTIES
  RefinesShop
  ShopsKeepServing

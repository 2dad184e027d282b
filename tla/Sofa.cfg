\* Hilzer's shop with fewer places on the sofa than in the shop: an usher waits
\* for a place while another customer stands.
SPECIFICATION MCSpec
CONSTANTS
  Programs = {"hilzer"}
  M = 1
  Diners = 1
  Generations = 0
  Rounds = 0
  BoardRounds = 2
  Draws <- MCDraws
  NCustomers = 3
  N_CHAIRS = 2
  Barbers = 2
  Ushers = 2
  MAX_CUSTOMERS = 2
  SOFA_CAPACITY = 1
  LeftOut <- MCLeftOut
  Deer = 1
  Elves = 1
  Group = 1
INVARIANT
  SofaAndRegister
PROPERTY
  ShopsKeepServing

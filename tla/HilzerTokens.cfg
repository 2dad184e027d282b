\* One usher and one customer are enough for the usher to take back its token.
SPECIFICATION MCSpec
CONSTANTS
  Programs = {"hilzer"}
  M = 1
  Diners = 1
  Generations = 0
  Rounds = 0
  BoardRounds = 2
  Draws <- MCDraws
  NCustomers = 2
  N_CHAIRS = 2
  Barbers = 1
  Ushers = 1
  MAX_CUSTOMERS = 2
  SOFA_CAPACITY = 1
  LeftOut <- MCLeftOut
  Deer = 2
  Elves = 2
  Group = 2
INVARIANT
  UsherAwaitsSeating

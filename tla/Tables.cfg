\* Three diners on a pot of two servings; three generations for the smokers that
\* look themselves; three pairs at once in the harder variant.
SPECIFICATION MCSpec
CONSTANTS
  Programs = {"savages_1", "savages_2", "savages_3", "savages_4",
              "smokers_1", "smokers_2", "smokers_3", "smokers_3_1",
              "smokers_hard", "smokers_atomics"}
  M = 2
  Diners = 3
  Generations = 3
  Rounds = 3
  BoardRounds = 2
  Draws <- MCDraws
  NCustomers = 1
  N_CHAIRS = 1
  Barbers = 1
  Ushers = 1
  MAX_CUSTOMERS = 1
  SOFA_CAPACITY = 1
  LeftOut <- MCLeftOut
  Deer = 1
  Elves = 1
  Group = 1
INVARIANTS
  TakenForGranted
PROPERTIES
  RefinesPot
  RefinesTable
  TablesGoRound

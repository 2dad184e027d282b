\* Three players and three rounds, so that the first of a round may be back before
\* the last has left it; two readers that come back for ever and two writers of
\* two writes each; ten pings and pongs; three horses that jump one or two of
\* three lengths; three workers at the spinlock.
SPECIFICATION MCSpec
CONSTANTS
  a = a
  b = b
  c = c
  Players = {a, b, c}
  rounds = 3
  NoOne = NoOne
  r1 = r1
  r2 = r2
  w1 = w1
  w2 = w2
  Readers = {r1, r2}
  Writers = {w1, w2}
  Writes = 2
  STOP_AT = 10
  horses = 3
  finish = 3
  Deltas = {1, 2}
  SpinWorkers = 3
  Wrap = 4
INVARIANTS
  TypeOK
  NobodyLeftBehind
  CurrentCountsWaiters
  LockInv
  NoDataRace
  RaceOver
PROPERTIES
  RefinesBarrier
  EverybodyGetsThere

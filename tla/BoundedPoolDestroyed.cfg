\* One worker and three submitters on one place in the bounded pool: two
\* submitters can be blocked when the stop is sent.
SPECIFICATION MCSpec
CONSTANTS
  w1 = w1
  w2 = w2
  w3 = w3
  t1 = t1
  t2 = t2
  t3 = t3
  s1 = s1
  s2 = s2
  s3 = s3
  Workers = {w1, w2, w3}
  MainTasks = {t1, t2}
  Child <- MCChild
  BoundedWorkers = {w1}
  Submitters = {s1, s2, s3}
  capacity = 1
  NumWorkers = 2
  ForgetWorkers = 3
  Total = 10
  size = 2
  NoTask = NoTask
  NoOne = NoOne
  Main = Main
INVARIANT
  NoBlockedSubmitterLeftInside

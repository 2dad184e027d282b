\* Futures: three workers and three tasks, one submitted from a running task.
\* Bounded: two workers and three submitters on one place.  Work stealing: two
\* workers.  Fire and forget: three workers and ten tasks, as in main;
\* cancellation: main's two workers.  Workers and submitters sleep, wake for the
\* task of another and meet the stop anywhere.
SPECIFICATION MCSpec
CONSTANTS
  w1 = w1
  w2 = w2
  w3 = w3
  t1 = t1
  t2 = t2
  t3 = t3
  s1 = s1
  s2 = s2
  s3 = s3
  Workers = {w1, w2, w3}
  MainTasks = {t1, t2}
  Child <- MCChild
  BoundedWorkers = {w1, w2}
  Submitters = {s1, s2, s3}
  capacity = 1
  NumWorkers = 2
  ForgetWorkers = 3
  Total = 10
  size = 2
  NoTask = NoTask
  NoOne = NoOne
  Main = Main
INVARIANTS
  NobodySleepsOverWork
  CounterFollowsQueues
  StoppedMeansStopped
PROPERTIES
  RefinesService
  PoolsStop

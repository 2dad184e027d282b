\* Two chefs and two customers, two places, two kinds of dish: notifications
\* are delayed, stolen and lost; the counter's indices wrap after every second push, and it is full and empty again and
\* again.  The SPSC rings with main's own values, four slots and twenty
\* elements: both indices wrap five times, and the blocking threads sleep.
SPECIFICATION MCSpec
CONSTANTS
  p1 = p1
  p2 = p2
  c1 = c1
  c2 = c2
  Producers = {p1, p2}
  Consumers = {c1, c2}
  Dishes = {1, 2}
  NoDish = 0
  NoOne = NoOne
  size = 2
  slots = 4
  Total = 20
INVARIANTS
  ArraysWellUsed
  NobodyForgotten
  TokensCoverQueue
  NoLostWakeup
PROPERTIES
  QueueRefinesFIFO
  RefinesSemaQueue
  RefinesFIFO
  RefinesRingFIFO
  CounterKeepsMoving
  DishesKeepMoving

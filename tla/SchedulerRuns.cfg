\* The five scheduling simulators of hw3.
CONSTANTS
  n = 3
  \* Ties, a burst of 0, idle time before, between and after arrivals; a
  \* quantum shorter and longer than a burst.
  Bursts = {0, 1, 2, 3}
  Arrivals = {0, 1, 3}
  Priorities = {1, 2}
  quantum = 2
  \* Processes that end in each of the queues; arrivals that interrupt a turn
  \* in the second queue and in the third.
  MlfqBursts = {1, 9, 25, 40}
  MlfqArrivals = {0, 12, 30}
  q1_quantum = 8
  q2_quantum = 16
SPECIFICATION FairSpec
INVARIANTS TypeOK TimesAddUp ShortestFirstOptimal CutShortByStaleHead LevelsInOrder
PROPERTIES SchedulersEnd

SPECIFICATION FairSpec
CONSTANTS
  k1 = k1
  t1 = t1
  t2 = t2
  Conns = {k1}
  Tasks = {t1, t2}
  NoThread = NoThread
  NoTask = NoTask
  Width = 9
  Plans = {"work", "exit"}
INVARIANTS
  TypeOK
  LastOut
  NotForgotten
  OwnHandle
PROPERTIES
  ShutsDown
  Served

SPECIFICATION Spec
CONSTANTS
  Threads = {t1, t2}
  Records = {r1}
  QueueMax = 1
  MessageTimeout = 4
  FlushTimeout = 2
  MaxHellos = 2
  Callbacks = {"sni", "features"}
  Configurations = {{}, {"kafka"}, {"kafka", "features"}, {"sni", "features"}}
INVARIANT
  FeatureCopiesFreed
CHECK_DEADLOCK FALSE

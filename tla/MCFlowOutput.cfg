SPECIFICATION Spec
CONSTANTS
  Threads = {t1, t2}
  Records = {r1, r2, r3}
  QueueMax = 2
  MessageTimeout = 4
  FlushTimeout = 2
  MaxHellos = 2
  Callbacks = {"sni", "features"}
  Configurations = {{}, {"kafka"}, {"kafka", "features"}, {"sni", "features"}}
INVARIANTS
  OutputTypeOK
  NoRacyTopicMap
  LostWereRecent
  StringsLive
PROPERTIES
  PromiseKept
  QueueDrains
CHECK_DEADLOCK FALSE

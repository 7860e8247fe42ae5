SPECIFICATION LiveSpec
CONSTANTS
  Main = Main
  Connector = Connector
  Receiver = Receiver
  Encoder = Encoder
  Threads = {Main, Connector, Receiver, Encoder}
  None = None
  Transports = {t1, t2}
  Halves = {t1}
  Inbox = 1
  Configs = {c1}
  Timers = {r1, r2}
  MaxStarts = 2
  MaxAttempts = 2
INVARIANTS
  TypeOK
  NativeCallsAreSafe
  ConnectionIsWatched
PROPERTIES
  ConnectionIsRestored
CHECK_DEADLOCK FALSE

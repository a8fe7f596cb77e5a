CONSTANTS
  None = None
  WatchConns = {c1}
  r1 = r1
  r2 = r2
  r3 = r3
  Runtimes = {r1, r2, r3}
  Keys = {k1}
  Entries = {pods}
  PodEntry = pods
  EventEntry = pods
  EntryOf <- MCEntryOf
SPECIFICATION WatchSpec
INVARIANT LiveHasHandler
CHECK_DEADLOCK FALSE

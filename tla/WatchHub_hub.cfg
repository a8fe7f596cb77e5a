CONSTANTS
  None = None
  WatchConns = {c1, c2}
  r1 = r1
  r2 = r2
  r3 = r3
  Runtimes = {r1, r2, r3}
  Keys = {k1}
  Entries = {pods}
  PodEntry = pods
  EventEntry = pods
  EntryOf <- MCEntryOf
SPECIFICATION FairWatchSpec
CONSTRAINT Ordered
CONSTRAINT ThirdWithOne
INVARIANT SubsMirror
INVARIANT NeededInformersRun
INVARIANT NoHandlerLeak
PROPERTY InformersDrain
CHECK_DEADLOCK FALSE

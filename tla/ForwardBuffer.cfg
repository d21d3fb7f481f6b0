\* Batches of the consumer, of timers and of an admin overlap, and sessions
\* break, are removed and are replaced.
CONSTANTS
    Actions = {"Status", "Meter"}
    Interval = 2
    MaxMessages = 4
    MaxMishaps = 1
SPECIFICATION FairSpec
INVARIANTS TypeOK NewestLast KeepsLatest BufferedHasFlush
PROPERTIES Forwarded

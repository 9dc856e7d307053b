CONSTANTS
    Client = {c1, c2, c3}
    TicksPerSecond = 2
    sleep_avg = 1
    sleep_var = 1
    Width = 8
    NotServedTime = 1
    EmptyTime = 3
    MaxOversleep = 1
SPECIFICATION FairSpec
INVARIANTS TypeOK QueueInOrder ExactWhenPunctual
PROPERTIES ScheduledIsServed

\* The same with every hazard: creations that race or are cut short, and
\* holders that keep the lock for longer than a health check waits.
SPECIFICATION FairSpec
CONSTANTS
    Proc = {p1, p2, p3}
    Free = Free
    Dead = Dead
    Hazards = {"race", "torn", "slow"}
INVARIANTS
    NoLeak
PROPERTIES
    HealthEnds

\* A health check beside a holder that keeps the lock for longer than it waits.
SPECIFICATION Spec
CONSTANTS
    Proc = {p1, p2, p3}
    Free = Free
    Dead = Dead
    Hazards = {"slow"}
PROPERTY
    HealthSparesLiving

CONSTANTS
    Refreshers = {r1, r2}
    Admins = {a1}
    LastSecret = 4
    Slow = {{r1, r2, a1}}
    Profiles = {{r1, r2, a1}}
    MaxFaults = 0
SPECIFICATION Spec
INVARIANT StoredSecretsAreLive
CHECK_DEADLOCK FALSE

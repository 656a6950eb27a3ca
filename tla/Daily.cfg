CONSTANTS
    Crons = {c1, c2}
    LastDate = 3
    CatchUp = 2
    MaxAttempts = 2
    Hashes = {"x", "y", "z"}
    MaxTriggers = 1
    MaxChanges = 2
    MaxFaults = 2
SPECIFICATION PartsSpec
SYMMETRY CronSymmetry
INVARIANTS
    DailyJobsSound
PROPERTIES
    ImplementsRepository

SPECIFICATION StoreSpec
CONSTANTS
    Parts = {"domains", "users", "jobs", "suite", "sqlite", "postgres", "register", "failing", "reports"}
    Filters <- Plain
    MaxTime = 2
    NodeInputs = {}
    DomainInputs = {}
    UserInputs = {}
    JobInputs = {}
    Openers = {n1, n2}
    Registrations = {c1, c2, c3}
    Readers = {r1, r2}
CHECK_DEADLOCK FALSE
 
INVARIANT SuiteConforms
INVARIANT MigrationsConverge
INVARIANT RegistrationHolds
INVARIANT ProfilesOwn
 
PROPERTY FirstWriteStays

SPECIFICATION Spec
CONSTANTS
    Registrars = {r1, r2}
    c1 = c1
    c2 = c2
    Contents = {c1, c2}
    Edited = Edited
    Nothing = Nothing
    NFiles = 2
    MaxAttempts = 2
    MaxCrashes = 1
    MaxEdits = 1
    MaxCommits = 1
    StartLists <- EmptyOrOne
SYMMETRY Interchangeable
INVARIANTS
  RegistrationInv
  VersionsKept
  InStep
  ConfirmedOnly
CHECK_DEADLOCK FALSE

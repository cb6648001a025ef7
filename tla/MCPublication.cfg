CONSTANTS
    one = one
    two = two
    far = far
    home = home
    away = away
    Tools <- MCTools
    Repositories <- MCRepositories
    Home <- MCHome
    Dependents <- MCDependents
    Names = {1, 2}
    Commands = {c1, c2}
    None = None
    MaxFaults = 2
SYMMETRY MCSymmetry
SPECIFICATION Spec
INVARIANT ListedAsPublished
PROPERTY FailureRestores

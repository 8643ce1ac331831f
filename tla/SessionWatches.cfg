CONSTANTS
    Configs = {c}
    Projects = {p}
    AutoImports = auto
    Globs = {x, y}
    Absent = Absent
    None = None
    MaxSnapshots = 3
SPECIFICATION Spec
SYMMETRY GlobSymmetry
INVARIANTS
    CountsMatchGroups
    WatchedAsAsked
    CountedIsWatched
CHECK_DEADLOCK FALSE

CONSTANTS
    Base = {"A", "B"}
    Yaml = {"A"}
    Bundled = {"B"}
    Official = {"A", "B"}
    Account = {"B"}
    PodName = "B"
    MaxSuffix = 2
    MaxWrites = 3
    MaxGen = 2
SPECIFICATION Spec
INVARIANT UpdatesShown
PROPERTIES NoResurrection NothingLost SelectionFollows PodSavedOnce
CHECK_DEADLOCK FALSE

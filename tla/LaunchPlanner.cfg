CONSTANTS
    a = a
    b = b
    Root = {a, b}
    Undefined = Undefined
    FolderLists <- Lists
    Caller = {l1}
    Selections <- SomeChoices
    MaxEvents = 3
    MaxConcurrency = 1
    MaxOutstanding = 1
SPECIFICATION LaunchSpec
CHECK_DEADLOCK FALSE
INVARIANTS LaunchTypeOK FoldersAnswered PlansJustified

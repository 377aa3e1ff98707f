SPECIFICATION Spec
CONSTANTS
    l1 = l1
    l2 = l2
    Unreadable = Unreadable
    Names <- Chrome
    Versions <- TiedVersions
    Loads <- OneLoad
    Discovery = TRUE
    MaxImages = 1
    MaxEdits = 0
INVARIANT FindIsDetermined

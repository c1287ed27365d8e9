SPECIFICATION Spec
CONSTANTS
    Files <- Texts
    Written = {}
    Pieces <- ShortPieces
    Catalogs = {{"apply_patch"}}
    Shown = 2
    MaxEdit = 6
    MaxChanges = 0
CHECK_DEADLOCK FALSE
INVARIANTS NeverElsewhere

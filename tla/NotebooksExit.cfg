SPECIFICATION NotebooksSpec
CONSTANTS
    PageFiles = {f, g}
    MaxNotebooks = 1
    MaxControls = 2
    MaxEdits = 1
    WritesMayFail = FALSE
INVARIANT
    ChosenPagesAreSaved
CHECK_DEADLOCK FALSE

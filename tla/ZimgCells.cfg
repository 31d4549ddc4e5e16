\* Up to four cells in rows, columns and a 2 x 2 grid; the source rows of a cell
\* differ from its output rows, and the second frame finds the scratch of the first.
CONSTANTS
    Budgets = {1, 4}
    Sources = {4, 6}
    Targets = {6, 8}
    Minimums = {2}
    MaxCells = 4
    Formats <- AllFormats
    MaxFrames = 2
SPECIFICATION CellsSpec
INVARIANTS FrameComplete NoConflict OnlyFinished StorageMatchesPlan

\* Narrow and wide frames, small budgets; 2 and 3 source lines per axis make the
\* degenerate cells of tiny sources appear.
CONSTANTS
    Budgets = {1, 3, 4, 6}
    Sources = {2, 3, 6, 10}
    Targets = {6, 8, 14}
    Minimums = {1, 4}
    MaxCells = 5
SPECIFICATION Spec
INVARIANTS CellsTile GridBest PlanSettled

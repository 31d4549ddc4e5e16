---------------------------- MODULE MCZimgCells ----------------------------
EXTENDS ZimgCells

\* I420, I422 and I444.
AllFormats == {[w |-> 1, h |-> 1], [w |-> 1, h |-> 0], [w |-> 0, h |-> 0]}
=============================================================================

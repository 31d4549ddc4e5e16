---------------------------- MODULE MCObservers ----------------------------
EXTENDS Observers

Playback(x, y, a, t, u, measured) ==
    [w |-> x, h |-> y, luma |-> TRUE, advice |-> a, threshold |-> t, usm |-> u, metrics |-> measured]

\* Sizes at and around the grid step and the block size, and every combination
\* of options on a size that has both kinds of samples.
SomePlaybacks ==
    {Playback(x, y, TRUE, 4, TRUE, FALSE) : x, y \in {1, 4, 5, 6, 8, 9, 13}}
    \cup {Playback(13, 13, a, t, u, FALSE) : a, u \in BOOLEAN, t \in {0, 4}}
    \cup {Playback(6, 6, FALSE, 4, TRUE, TRUE)}
    \cup {[Playback(13, 13, TRUE, 4, TRUE, FALSE) EXCEPT !.luma = FALSE]}

\* Noisy, smooth with blocks, and neither.
SomePictures == {[lap |-> 5, edge |-> 0], [lap |-> 1, edge |-> 9], [lap |-> 4, edge |-> 2]}
=============================================================================

------------------------------ MODULE MCFilter ------------------------------
EXTENDS Filter

\* Zero-copy on, off and for one side, with and without room for columns.
AllOptions == [src : BOOLEAN, dst : BOOLEAN, wide : BOOLEAN]

=============================================================================

------------------------------ MODULE MCFrame ------------------------------
\* A column of strings before one of numbers; at most one string in each row and
\* two in the array, and the one that is copied.
EXTENDS Frame

MCTypes == <<"S", "I">>
MCHeap == 1 .. 5
=============================================================================

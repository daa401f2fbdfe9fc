------------------------------ MODULE MCVolume ------------------------------
EXTENDS Volume

\* Every tenth, both sides of the ends of the scale and of a step of the
\* balance, volumes at which the divisions round, and one above 100.
SomeVolumes == {10 * i : i \in 0 .. 10} \cup {1, 9, 11, 33, 49, 55, 77, 99, 150}
SomeBalances == {0, 4, 25, 45, 49, 50, 51, 55, 75, 100}
SomeLevels == {0, 1, 10, 51, 128, 254, 255}
=============================================================================

-------------------------------- MODULE MCToc --------------------------------
(***************************************************************************)
(* Discs of one to three tracks, audio or data, that start on either side  *)
(* of a second or a minute, and one whose first track has number 3.        *)
(***************************************************************************)
EXTENDS Toc

AllSystems == {"linux", "freebsd", "openbsd", "osf1", "ultrix", "aix", "irix"}

Starts == {<<150, 449>>, <<182, 4499, 4575>>, <<150, 299, 450, 4500>>,
           <<224, 374, 375, 4499>>}
AnyDisc == {[first |-> 1, start |-> s, data |-> b] : s \in Starts, b \in {{}, {1}, {2}}}
MCDiscs == {d \in AnyDisc : d.data \subseteq 1 .. Len(d.start) - 1}
             \cup {[first |-> 3, start |-> <<150, 299, 450>>, data |-> {}]}
MCHeads == {150, 224, 299, 374, 448, 4498, 4499}
MCPositions == {1, 3, 60}
=============================================================================

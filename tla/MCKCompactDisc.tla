--------------------------- MODULE MCKCompactDisc ---------------------------
(***************************************************************************)
(* The discs of the runs: Long has three tracks of two seconds, so that a  *)
(* poll each second sees every track; Short has two, Single one of one     *)
(* second, all of them audio; Extra has an audio track and a data track.   *)
(***************************************************************************)
EXTENDS KCompactDisc

CONSTANTS Long, Short, Single, Extra

MCTrackStart ==
  [c \in Discs |-> CASE c = Long -> <<150, 300, 450, 600>>
                     [] c \in {Short, Extra} -> <<150, 225, 300>>
                     [] c = Single -> <<150, 225>>]
MCDataTracks == [c \in Discs |-> IF c = Extra THEN {2} ELSE {}]
=============================================================================

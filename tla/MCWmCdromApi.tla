---------------------------- MODULE MCWmCdromApi ----------------------------
(***************************************************************************)
(* The discs of the runs: AudioA and AudioB are audio discs, Extra is a    *)
(* CD-EXTRA disc (its last track is data), Mixed a mixed-mode disc (its    *)
(* first track is data), Data a data disc.  A track lasts two seconds.     *)
(***************************************************************************)
EXTENDS WmCdromApi

CONSTANTS AudioA, AudioB, Extra, Mixed, Data

MCTrackStart ==
  [c \in Discs |->
     IF c = AudioB THEN <<150, 300>>
     ELSE IF c = Data THEN <<150, 225>>
     ELSE IF c = AudioA THEN <<150, 300, 450>> ELSE <<150, 300, 450, 600>>]
MCDataTracks ==
  [c \in Discs |-> CASE c = Extra -> {3} [] c = Mixed -> {1}
                     [] c = Data  -> {1} [] OTHER     -> {}]
=============================================================================

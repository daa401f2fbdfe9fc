------------------------------- MODULE Player -------------------------------
(***************************************************************************)
(* What an application may rely on when it gives orders to a player that   *)
(* also acts by itself (kcompactdisc.h): an order is carried out at once,  *)
(* later or not at all, and of itself the player only goes on playing and  *)
(* ejects, as the last order allows.  PlayerOrders, Phonon and Interface   *)
(* implement it.                                                           *)
(***************************************************************************)

VARIABLES
  order,     \* the last order: "none", "play", "pause", "stop", "eject", "close"
  playing,   \* there is sound
  tray       \* "closed", "ejected" by the player, or "opened" by hand

vars == <<order, playing, tray>>

\* Nothing is heard any more that was not heard before.
NoStart == playing' \in {playing, FALSE}

Init == order = "none" /\ playing = FALSE /\ tray \in {"closed", "opened"}

\* playTrack(), playPosition(), play(), next() and prev(); pause() resumes as well.
Play  == order' = "play"  /\ playing' \in BOOLEAN /\ UNCHANGED tray
Pause == order' = "pause" /\ playing' \in BOOLEAN /\ UNCHANGED tray

\* A player that is told to stop is silent.
Stop  == order' = "stop"  /\ playing' = FALSE /\ UNCHANGED tray

\* eject() opens the tray or closes it.
Eject == order' = "eject" /\ NoStart /\ tray' \in {tray, "ejected"}
Close == order' = "close" /\ NoStart /\ tray' \in {tray, "closed"}

Order == Play \/ Pause \/ Stop \/ Eject \/ Close

\* By itself: the next track begins, unless the application has had it stop ...
GoesOn == order \notin {"stop", "close"} /\ playing' = TRUE /\ UNCHANGED <<order, tray>>

\* ... and the disc comes out, if that was ordered last.
Ejects == order = "eject" /\ tray' = "ejected" /\ playing' = FALSE /\ UNCHANGED order

\* A disc ends or fails; a person opens and closes the tray.
Silence == playing' = FALSE /\ UNCHANGED <<order, tray>>
Opened  == tray = "closed" /\ tray' = "opened" /\ playing' = FALSE /\ UNCHANGED order
Closed  == tray' = "closed" /\ NoStart /\ UNCHANGED order

Next == Order \/ GoesOn \/ Ejects \/ Silence \/ Opened \/ Closed

Spec == Init /\ [][Next]_vars
=============================================================================

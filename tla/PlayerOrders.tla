---------------------------- MODULE PlayerOrders ----------------------------
(***************************************************************************)
(* KCompactDisc with a history of what the application ordered: what the   *)
(* object does of itself, from its timer, must serve the last order.       *)
(***************************************************************************)
EXTENDS KCompactDisc

VARIABLES
  order,     \* the last order; "opened" when an "eject" finds or leaves the tray open
  tick,      \* 0 once a slot was called since the last poll; polls without
             \* a slot between them make it 1, 2, 1, ...
  ejected    \* the tray is open, and the object has opened it

history == <<order, tick, ejected>>

Opens == drive.tray = "closed" /\ drive'.tray = "open"
MayEject == ejected' = (drive'.tray = "open" /\ (ejected \/ Opens))
Ordered(o) == order' = o /\ tick' = 0 /\ MayEject

\* next(), prev() and play() order nothing when there is no track to play.
OrderPlay  == (PlayTrackSlot \/ PlayPosition) /\ Ordered("play")
OrderEntry ==
  /\ NextTrack \/ PrevTrack \/ Play
  /\ Ordered(IF m_statusExpected' = "Playing" THEN "play" ELSE order)
OrderPause == Pause /\ Ordered("pause")
OrderStop  == Stop /\ Ordered("stop")
OrderEject ==
  (EjectPlaying \/ EjectStopped) /\ Ordered(IF drive'.tray = "open" THEN "opened" ELSE "eject")
OrderClose == CloseEjected /\ Ordered("close")
OrderModes == (SetLoopPlaylist \/ SetRandomPlaylist) /\ Ordered(order)

TimerPoll ==
  /\ Poll
  /\ order' = (IF Opens /\ order = "eject" THEN "opened" ELSE order)
  /\ tick' = IF tick = 1 THEN 2 ELSE 1
  /\ MayEject
DriveTurns == Turn /\ UNCHANGED history
Disturbed  ==
  Hardware /\ UNCHANGED <<order, tick>> /\ ejected' = (ejected /\ drive'.tray = "open")

OrdersInit == Init /\ order = "none" /\ tick = 1 /\ ejected = FALSE
OrdersNext ==
  \/ OrderPlay \/ OrderEntry \/ OrderPause \/ OrderStop \/ OrderEject
  \/ OrderClose \/ OrderModes \/ TimerPoll \/ DriveTurns \/ Disturbed

OrdersSpec == OrdersInit /\ [][OrdersNext]_<<vars, history>>

ByTimer == tick' \notin {0, tick}

\* timerExpired always starts its timer again, and nothing disables it; a
\* drive with a disc in it spins up, and one that plays gets to the end.
FairSpec ==
  OrdersSpec /\ []<><<ByTimer>>_tick /\ WF_<<vars, history>>(DriveTurns)

(***************************************************************************)
(* Properties.                                                             *)
(***************************************************************************)

\* What an application sees of this is a Player: after stop(), or once the tray
\* was closed, the object starts no playing by itself, whatever disc comes, and
\* it opens the tray by itself only if eject() came after the last order to
\* play, pause, stop or close.
Tray == IF drive.tray = "closed" THEN "closed" ELSE IF ejected THEN "ejected" ELSE "opened"
P == INSTANCE Player WITH
       order   <- IF order = "opened" THEN "eject" ELSE order,
       playing <- drive.audio = "play",
       tray    <- Tray
ServesOrders == P!Spec

\* The track that follows another without an order is the next of the
\* playlist ("a list is created in which each track is listed only once. The
\* tracks are picked off one by one until the end of the list"), as long as the
\* playlist is not a random one: see the README.  In loop mode the first
\* track follows the last.
Successor(p, t, u) ==
  \/ \E i \in DOMAIN p \ {Len(p)} : p[i] = t /\ p[i + 1] = u
  \/ m_loopPlaylist /\ p[Len(p)] = t /\ p[1] = u
FollowsUnordered ==
  /\ ByTimer /\ tick # 0 /\ m_tracks' = m_tracks
  /\ m_track # 0 /\ m_track' \notin {0, m_track}
TracksFollowInOrder ==
  [][FollowsUnordered /\ ~m_randomPlaylist
       => Successor(m_playlist, m_track, m_track')]_vars

\* eject() while a disc is playing or paused leads to an open tray, unless the
\* disc is mounted or another order comes.
EjectOpensTray ==
  (order = "eject" /\ m_status \in {"Playing", "Paused"})
    ~> (drive.tray = "open" \/ drive.held \/ order # "eject")

\* At the end of a track that is not the last of the playlist the next starts.
NextListed == \A e \in Following : e.at # 0
AdvancesAtEnd ==
  (order = "play" /\ m_status = "Playing" /\ drive.audio = "completed" /\ NextListed)
    ~> (drive.audio = "play" \/ order # "play" \/ ~Ready(drive) \/ ~NextListed)
=============================================================================

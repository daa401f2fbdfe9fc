---------------------------- MODULE KCompactDisc ----------------------------
(***************************************************************************)
(* A KCompactDisc object playing through libworkman: the slots of          *)
(* src/kcompactdisc.cpp, the state and the playlist of                     *)
(* src/kcompactdisc_p.cpp, and KWMLibCompactDiscPrivate                    *)
(* (src/wmlib_interface.cpp) with its one-second timer, over the drive of  *)
(* WmCdrom.  Slots and timer run on one thread: each is one action.        *)
(* setDevice has succeeded; its object is not destroyed.                   *)
(***************************************************************************)
EXTENDS WmCdrom, Playlist

CONSTANTS
  TrackNumbers,   \* arguments of playTrack
  Positions,      \* arguments of playPosition, in seconds
  LoopArgs,       \* arguments of setLoopPlaylist
  RandomArgs,     \* arguments of setRandomPlaylist
  Unseen          \* the drive may change twice between two polls

ASSUME PlayerAssumption ==
  /\ TrackNumbers \subseteq Nat /\ Positions \subseteq Nat
  /\ LoopArgs \subseteq BOOLEAN /\ RandomArgs \subseteq BOOLEAN
  /\ Unseen \in BOOLEAN

VARIABLES
  drive,              \* the drive and its handle, m_handle
  m_status,           \* the status last shown to the application
  m_statusExpected,   \* the status the application has asked for
  m_track, m_tracks,  \* current track and number of tracks, 0 when unknown
  m_discId,           \* the disc that id, signature and titles are of
  m_playlist,
  m_loopPlaylist, m_randomPlaylist,
  seen                \* the timer has looked at the drive since it changed

disc  == <<m_tracks, m_discId>>
modes == <<m_loopPlaylist, m_randomPlaylist>>
vars  == <<drive, m_status, m_statusExpected, m_track, disc, m_playlist, modes, seen>>

Status == {"Playing", "Paused", "Stopped", "Ejected", "NoDisc", "NotReady", "Error"}

\* Mutant: an unknown mode is cast to a status.
MutantDiscStatusTranslate(mode) ==
  CASE mode \in {"TRACK_DONE", "PLAYING"} -> "Playing"
    [] mode = "PAUSED"                    -> "Paused"
    [] mode = "STOPPED"                   -> "Stopped"
    [] mode = "EJECTED"                   -> "Ejected"
    [] mode \in {"NO_DISC", "UNKNOWN"}    -> "NoDisc"
    [] OTHER                              -> mode

DiscStatusTranslate(mode) ==
  CASE mode \in {"TRACK_DONE", "PLAYING"} -> "Playing"
    [] mode = "PAUSED"                    -> "Paused"
    [] mode = "STOPPED"                   -> "Stopped"
    [] mode = "EJECTED"                   -> "Ejected"
    [] mode \in {"NO_DISC", "UNKNOWN"}    -> "NoDisc"
    [] OTHER                              -> "Error"

\* The constructor, and wm_cd_init on a drive nobody has played from.
Init ==
  /\ Opened(drive) /\ seen = TRUE
  /\ m_status = "NoDisc" /\ m_statusExpected = "NoDisc"
  /\ m_track = 0 /\ m_tracks = 0 /\ m_discId = NoDisc
  /\ m_playlist = << >>
  /\ m_loopPlaylist = FALSE /\ m_randomPlaylist = FALSE

(***************************************************************************)
(* The application's slots.                                                *)
(***************************************************************************)

\* KWMLibCompactDiscPrivate::playTrackPosition with tracks = m_tracks
PlayTrackPosition(d, tracks, track, pos) ==
  LET first == IF track \in 1 .. tracks THEN track ELSE 1
      last  == IF first + 1 \in 1 .. tracks THEN first + 1 ELSE 0
  IN  WmCdPlay(d, first, pos, last)

\* playTrack
PlayTrack(track) ==
  /\ drive' = PlayTrackPosition(drive, m_tracks, track, 0)
  /\ m_statusExpected' = "Playing"

PlayTrackSlot ==
  /\ \E t \in TrackNumbers : PlayTrack(t)
  /\ UNCHANGED <<m_status, m_track, disc, m_playlist, modes, seen>>

PlayPosition ==
  /\ \E p \in Positions : drive' = PlayTrackPosition(drive, m_tracks, m_track, p)
  /\ m_statusExpected' = "Playing"
  /\ UNCHANGED <<m_status, m_track, disc, m_playlist, modes, seen>>

Following ==
  NextEntries(m_playlist, m_track, m_tracks, m_loopPlaylist, m_randomPlaylist)
Preceding ==
  PrevEntries(m_playlist, m_track, m_tracks, m_loopPlaylist, m_randomPlaylist)

\* doCommand(Next) and doCommand(Prev): play the track of one of the entries.
PlayEntry(entries) ==
  /\ \E e \in entries :
       /\ m_playlist' = e.list
       /\ IF TrackOf(e) # 0 THEN PlayTrack(TrackOf(e))
          ELSE UNCHANGED <<drive, m_statusExpected>>
  /\ UNCHANGED <<m_status, m_track, disc, modes, seen>>

NextTrack == PlayEntry(Following)
PrevTrack == PlayEntry(Preceding)

\* doCommand(Play) does nothing while the status shown is Playing.
Play == m_status # "Playing" /\ NextTrack

Pause ==
  /\ m_statusExpected' = IF m_status = "Paused" THEN "Playing" ELSE "Paused"
  /\ drive' = WmCdPause(drive)
  /\ UNCHANGED <<m_status, m_track, disc, m_playlist, modes, seen>>

\* Mutant: what is expected stays as it was.
MutantStop ==
  /\ drive' = WmCdStop(drive)
  /\ UNCHANGED <<m_status, m_statusExpected, m_track, disc, m_playlist, modes, seen>>

Stop ==
  /\ m_statusExpected' = "Stopped"
  /\ drive' = WmCdStop(drive)
  /\ UNCHANGED <<m_status, m_track, disc, m_playlist, modes, seen>>

\* doCommand(Eject), which opens the tray ...
EjectPlaying ==
  /\ m_status \notin {"Ejected", "Stopped"}
  /\ m_statusExpected' = "Ejected"
  /\ drive' = WmCdStop(drive)
  /\ UNCHANGED <<m_status, m_track, disc, m_playlist, modes, seen>>

EjectStopped ==
  /\ m_status = "Stopped"
  /\ drive' = WmCdEject(drive)
  /\ UNCHANGED <<m_status, m_statusExpected, m_track, disc, m_playlist, modes, seen>>

\* ... or closes it.
CloseEjected ==
  /\ m_status = "Ejected"
  /\ m_statusExpected' = "Stopped"
  /\ drive' = WmCdCloseTray(drive)
  /\ UNCHANGED <<m_status, m_track, disc, m_playlist, modes, seen>>

\* setLoopPlaylist and doCommand(Loop), setRandomPlaylist and doCommand(Random)
SetLoopPlaylist ==
  /\ m_loopPlaylist' \in LoopArgs
  /\ UNCHANGED <<drive, m_status, m_statusExpected, m_track, disc, m_playlist,
                 m_randomPlaylist, seen>>

SetRandomPlaylist ==
  /\ m_randomPlaylist' \in RandomArgs
  /\ m_playlist' \in Playlists(m_tracks, m_randomPlaylist')
  /\ UNCHANGED <<drive, m_status, m_statusExpected, m_track, disc,
                 m_loopPlaylist, seen>>

(***************************************************************************)
(* timerExpired.  Looked and Shown are the drive and the status after its  *)
(* wm_cd_status.                                                           *)
(***************************************************************************)

Looked == WmCdStatus(drive)
Shown  == DiscStatusTranslate(Looked.cur_cdmode)

\* The last part of timerExpired, with the status and the drive it leaves.
UpdateTrack ==
  m_track' = CASE m_status' = "Playing"              -> WmCdGetCurTrack(drive')
               [] m_status' = "Stopped"              -> 0
               [] m_status' \in {"Ejected", "NoDisc"} /\ m_status' # m_status -> 0
               [] OTHER                              -> m_track

\* The status is what it was.
PollSame ==
  /\ Shown = m_status
  /\ drive' = Looked /\ m_status' = m_status /\ seen' = TRUE
  /\ UpdateTrack
  /\ UNCHANGED <<m_statusExpected, disc, m_playlist, modes>>

\* Mutant: a disc that plays is expected to play on, not to stop.
MutantAdvances == Shown = "Stopped" /\ m_statusExpected = "Paused"

\* skipStatusChange asks for the next track and plays it, if the disc has
\* stopped and neither that nor its ejection was expected.
Advances == Shown = "Stopped" /\ m_statusExpected \notin {"Ejected", "Stopped"}

PollAdvance ==
  /\ Shown # m_status /\ Advances
  /\ \E e \in Following :
       /\ TrackOf(e) # 0
       /\ m_playlist' = e.list
       /\ drive' = PlayTrackPosition(Looked, m_tracks, TrackOf(e), 0)
  /\ seen' = TRUE
  /\ UNCHANGED <<m_status, m_statusExpected, m_track, disc, modes>>

\* Mutant: a new disc is looked at only when it has stopped.
MutantNewDisc ==
  IF m_status' \in {"Ejected", "NoDisc"}
  THEN m_tracks' = 0 /\ m_discId' = NoDisc /\ m_playlist' = m_playlist
  ELSE IF m_status' = "Stopped" /\ m_tracks = 0 /\ WmCdGetCountOfTracks(drive') > 0
  THEN /\ m_tracks' = WmCdGetCountOfTracks(drive') /\ m_discId' = drive'.trk
       /\ m_playlist' \in Playlists(m_tracks', m_randomPlaylist)
  ELSE UNCHANGED <<disc, m_playlist>>

\* Mutant: no playlist is made for a new disc.
MutantUpdateDisc ==
  /\ m_playlist' = m_playlist
  /\ IF m_status' \in {"Ejected", "NoDisc"} THEN m_tracks' = 0 /\ m_discId' = NoDisc
     ELSE IF m_tracks = 0 /\ WmCdGetCountOfTracks(drive') > 0
     THEN m_tracks' = WmCdGetCountOfTracks(drive') /\ m_discId' = drive'.trk
     ELSE UNCHANGED disc

\* clearDiscInfo, or the information of a disc that is new to the object.
UpdateDisc ==
  IF m_status' \in {"Ejected", "NoDisc"}
  THEN m_tracks' = 0 /\ m_discId' = NoDisc /\ m_playlist' = m_playlist
  ELSE IF m_tracks = 0 /\ WmCdGetCountOfTracks(drive') > 0
  THEN /\ m_tracks' = WmCdGetCountOfTracks(drive') /\ m_discId' = drive'.trk
       /\ m_playlist' \in Playlists(m_tracks', m_randomPlaylist)
  ELSE UNCHANGED <<disc, m_playlist>>

\* Mutant: the ejection is left to the application.
MutantPollChange ==
  /\ Shown # m_status
  /\ Advances => \A e \in Following : TrackOf(e) = 0
  /\ drive' = Looked /\ m_status' = Shown /\ seen' = TRUE
  /\ UpdateDisc /\ UpdateTrack
  /\ UNCHANGED <<m_statusExpected, modes>>

\* The status changes; a disc that has stopped is ejected if that is expected.
PollChange ==
  /\ Shown # m_status
  /\ Advances => \A e \in Following : TrackOf(e) = 0
  /\ drive' = IF Shown = "Stopped" /\ m_statusExpected = "Ejected"
              THEN WmCdEject(Looked) ELSE Looked
  /\ m_status' = Shown /\ seen' = TRUE
  /\ UpdateDisc /\ UpdateTrack
  /\ UNCHANGED <<m_statusExpected, modes>>

Poll == PollSame \/ PollAdvance \/ PollChange

(***************************************************************************)
(* The hardware.                                                           *)
(***************************************************************************)

Hardware ==
  /\ Unseen \/ seen
  /\ \/ OpenByHand(drive, drive') \/ CloseByHand(drive, drive')
     \/ SwapDisc(drive, drive') \/ TocRecovers(drive, drive')
     \/ Mount(drive, drive') \/ AudioFails(drive, drive')
     \/ PauseTimesOut(drive, drive')
  /\ seen' = FALSE
  /\ UNCHANGED <<m_status, m_statusExpected, m_track, disc, m_playlist, modes>>

\* What the drive does of itself, sooner or later.
Turn ==
  /\ Unseen \/ seen
  /\ SpinUp(drive, drive') \/ PlayOn(drive, drive') \/ StatusDecays(drive, drive')
  /\ seen' = FALSE
  /\ UNCHANGED <<m_status, m_statusExpected, m_track, disc, m_playlist, modes>>

Next ==
  \/ PlayTrackSlot \/ PlayPosition \/ NextTrack \/ PrevTrack \/ Play
  \/ Pause \/ Stop \/ EjectPlaying \/ EjectStopped \/ CloseEjected
  \/ SetLoopPlaylist \/ SetRandomPlaylist
  \/ Poll \/ Hardware \/ Turn

Spec == Init /\ [][Next]_vars

(***************************************************************************)
(* Properties.                                                             *)
(***************************************************************************)

\* The type of the variables.
TypeOK ==
  /\ drive \in Handle
  /\ m_status \in Status /\ m_statusExpected \in Status
  /\ m_track \in Nat /\ m_tracks \in Nat /\ m_discId \in Discs \cup {NoDisc}
  /\ m_playlist \in Seq(Nat)
  /\ m_loopPlaylist \in BOOLEAN /\ m_randomPlaylist \in BOOLEAN
  /\ seen \in BOOLEAN

\* While a disc is known the playlist names each of its tracks once, in
\* whatever order discs, polls and the two switches came.
PlaylistMatchesDisc ==
  m_tracks # 0 =>
    /\ m_tracks = LastTrack(m_discId)
    /\ Len(m_playlist) = m_tracks
    /\ m_playlist \in Injection(1 .. m_tracks, 1 .. m_tracks)

\* The start frames of a disc that is shown as playing have been read:
\* timerExpired takes the first of them from a list that is empty otherwise.
PlayingDiscKnown == m_status = "Playing" => m_tracks # 0

\* next(), prev() and the automatic advance never index the playlist outside
\* its bounds, though wrapping around builds a new one of m_tracks entries.
EntriesInList ==
  \A e \in Following \cup Preceding : e.at \in {0} \cup DOMAIN e.list
=============================================================================

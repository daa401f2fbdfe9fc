------------------------------- MODULE Phonon -------------------------------
(***************************************************************************)
(* A KCompactDisc object playing through Phonon: the slots of              *)
(* src/kcompactdisc.cpp over KPhononCompactDiscPrivate                     *)
(* (src/phonon_interface.cpp).  Nothing is polled: a backend of Phonon     *)
(* carries out orders and emits its signals in order, but a slot may be    *)
(* called while signals are still under way.  createInterface has          *)
(* succeeded, so that the producer exists.                                 *)
(***************************************************************************)
EXTENDS Playlist

CONSTANTS
  Titles,         \* numbers of titles of the discs there are
  TrackNumbers,   \* arguments of playTrack
  LoopArgs,       \* arguments of setLoopPlaylist
  RandomArgs,     \* arguments of setRandomPlaylist
  Backlog         \* signals under way at most

ASSUME PhononAssumption ==
  /\ Titles \subseteq Nat \ {0} /\ TrackNumbers \subseteq Nat
  /\ LoopArgs \subseteq BOOLEAN /\ RandomArgs \subseteq BOOLEAN
  /\ Backlog \in Nat

VARIABLES
  media,              \* the media object and its controller
  signals,            \* the signals under way: states, and ticks
  tray, disc,         \* the drive: "closed", "ejected" by the object or "opened"
                      \* by hand; number of titles of its disc, or 0
  m_status, m_statusExpected, m_track, m_tracks, m_playlist,
  m_loopPlaylist, m_randomPlaylist,
  order,              \* the last order of the application
  hurried             \* it was given while signals were under way

drive == <<tray, disc>>
modes == <<m_loopPlaylist, m_randomPlaylist>>
vars  == <<media, signals, drive, m_status, m_statusExpected, m_track, m_tracks,
           m_playlist, modes, order, hurried>>

State  == {"Loading", "Stopped", "Playing", "Paused", "Error"}
Status == {"Playing", "Paused", "Stopped", "NoDisc", "NotReady"}

\* Mutant: a backend that buffers is taken to have stopped.
MutantDiscStatusTranslate(state) ==
  CASE state = "Playing"                   -> "Playing"
    [] state = "Paused"                    -> "Paused"
    [] state \in {"Stopped", "Buffering"}  -> "Stopped"
    [] state = "Error"                     -> "NoDisc"
    [] state = "Loading"                   -> "NotReady"

DiscStatusTranslate(state) ==
  CASE state = "Playing"                   -> "Playing"
    [] state = "Paused"                    -> "Paused"
    [] state = "Stopped"                   -> "Stopped"
    [] state = "Error"                     -> "NoDisc"
    [] state \in {"Loading", "Buffering"}  -> "NotReady"

(***************************************************************************)
(* The backend.  It answers an order with a new state of the media object  *)
(* and the signals of the states it went through.                          *)
(***************************************************************************)

OpticalDisc == tray = "closed" /\ disc # 0

\* The answer to an order that was given with q under way.
Becomes(m, q, states) == media' = m /\ signals' = q \o states
Ignores(q) == Becomes(media, q, << >>)

\* setCurrentTitle, seek and play
MediaPlay(track, q) ==
  LET Title(titles) == IF track \in 1 .. titles THEN track
                       ELSE IF media.title \in 1 .. titles THEN media.title ELSE 1
      Plays(titles) == [state |-> "Playing", title |-> Title(titles), titles |-> titles]
  IN  \/ /\ media.state = "Playing"
         /\ \E states \in {<< >>, <<"Buffering", "Playing">>} :
              Becomes(Plays(media.titles), q, states)
      \/ /\ media.state \in {"Stopped", "Paused"}
         /\ Becomes(Plays(media.titles), q, <<"Playing">>)
      \/ /\ media.state \in {"Loading", "Error"} /\ OpticalDisc
         /\ Becomes(Plays(disc), q, <<"Loading", "Playing">>)
      \/ media.state \in {"Loading", "Error"} /\ ~OpticalDisc /\ Ignores(q)

MediaPause(q) ==
  \/ media.state = "Playing" /\ Becomes([media EXCEPT !.state = "Paused"], q, <<"Paused">>)
  \/ media.state # "Playing" /\ Ignores(q)

MediaStop(q) ==
  \/ /\ media.state \in {"Playing", "Paused"}
     /\ Becomes([media EXCEPT !.state = "Stopped"], q, <<"Stopped">>)
  \/ media.state \notin {"Playing", "Paused"} /\ Ignores(q)

\* The tray opens: the media object fails, unless it has done so before.
Fails(q) ==
  IF media.state = "Error" THEN Ignores(q)
  ELSE Becomes([state |-> "Error", title |-> 0, titles |-> 0], q, <<"Error">>)

\* KPhononCompactDiscPrivate::eject
DriveEject(q) ==
  IF OpticalDisc THEN Fails(q) /\ tray' = "ejected" /\ disc' = disc
  ELSE Ignores(q) /\ UNCHANGED drive

(***************************************************************************)
(* The slots.                                                              *)
(***************************************************************************)

Room == Len(signals) + 2 <= Backlog
Ordered(o) == Room /\ order' = o /\ hurried' = (hurried \/ signals # << >>)

PlayTrack(track) == MediaPlay(track, signals) /\ m_statusExpected' = "Playing"

PlayTrackSlot ==
  /\ Ordered("play")
  /\ \E track \in TrackNumbers : PlayTrack(track)
  /\ UNCHANGED <<drive, m_status, m_track, m_tracks, m_playlist, modes>>

PlayPosition ==
  /\ Ordered("play") /\ PlayTrack(m_track)
  /\ UNCHANGED <<drive, m_status, m_track, m_tracks, m_playlist, modes>>

Following ==
  NextEntries(m_playlist, m_track, m_tracks, m_loopPlaylist, m_randomPlaylist)
Preceding ==
  PrevEntries(m_playlist, m_track, m_tracks, m_loopPlaylist, m_randomPlaylist)

\* An index outside its list ends the process.
InList(entries) == {e \in entries : e.at \in {0} \cup DOMAIN e.list}

PlayEntry(entries) ==
  /\ \E e \in InList(entries) :
       /\ m_playlist' = e.list
       /\ IF TrackOf(e) # 0 THEN Ordered("play") /\ PlayTrack(TrackOf(e))
          ELSE UNCHANGED <<media, signals, m_statusExpected, order, hurried>>
  /\ UNCHANGED <<drive, m_status, m_track, m_tracks, modes>>

NextTrack == PlayEntry(Following)
PrevTrack == PlayEntry(Preceding)
Play      == m_status # "Playing" /\ NextTrack

Pause ==
  /\ Ordered("pause") /\ MediaPause(signals)
  /\ m_statusExpected' = IF m_status = "Paused" THEN "Playing" ELSE "Paused"
  /\ UNCHANGED <<drive, m_status, m_track, m_tracks, m_playlist, modes>>

\* Mutant: what is expected stays as it was.
MutantStop ==
  /\ Ordered("stop") /\ MediaStop(signals)
  /\ UNCHANGED <<drive, m_status, m_statusExpected, m_track, m_tracks, m_playlist, modes>>

Stop ==
  /\ Ordered("stop") /\ MediaStop(signals) /\ m_statusExpected' = "Stopped"
  /\ UNCHANGED <<drive, m_status, m_track, m_tracks, m_playlist, modes>>

\* doCommand(Eject).  The status is never "Ejected": the tray is never closed.
EjectPlaying ==
  /\ m_status # "Stopped" /\ Ordered("eject")
  /\ MediaStop(signals) /\ m_statusExpected' = "Ejected"
  /\ UNCHANGED <<drive, m_status, m_track, m_tracks, m_playlist, modes>>

EjectStopped ==
  /\ m_status = "Stopped" /\ Ordered("eject") /\ DriveEject(signals)
  /\ UNCHANGED <<m_status, m_statusExpected, m_track, m_tracks, m_playlist, modes>>

SetLoopPlaylist ==
  /\ m_loopPlaylist' \in LoopArgs
  /\ UNCHANGED <<media, signals, drive, m_status, m_statusExpected, m_track, m_tracks,
                 m_playlist, m_randomPlaylist, order, hurried>>

SetRandomPlaylist ==
  /\ m_randomPlaylist' \in RandomArgs
  /\ m_playlist' \in Playlists(m_tracks, m_randomPlaylist')
  /\ UNCHANGED <<media, signals, drive, m_status, m_statusExpected, m_track, m_tracks,
                 m_loopPlaylist, order, hurried>>

Slot ==
  \/ PlayTrackSlot \/ PlayPosition \/ NextTrack \/ PrevTrack \/ Play \/ Pause
  \/ Stop \/ EjectPlaying \/ EjectStopped \/ SetLoopPlaylist \/ SetRandomPlaylist

(***************************************************************************)
(* The handlers of the signals.  The titles are those the controller has   *)
(* when the signal is handled, not those it had when it was emitted.       *)
(***************************************************************************)

Under(q) == hurried' = (hurried /\ q # << >>)

\* tick
HandleTick ==
  /\ signals # << >> /\ Head(signals) = "tick"
  /\ m_track' = media.title
  /\ Ignores(Tail(signals)) /\ Under(signals')
  /\ UNCHANGED <<drive, m_status, m_statusExpected, m_tracks, m_playlist, modes, order>>

\* stateChanged with the first of the signals
Handled == signals # << >> /\ Head(signals) # "tick"
Shown   == DiscStatusTranslate(Head(signals))

HandleSame ==
  /\ Handled /\ Shown = m_status
  /\ Ignores(Tail(signals)) /\ Under(signals')
  /\ UNCHANGED <<drive, m_status, m_statusExpected, m_track, m_tracks, m_playlist,
                 modes, order>>

\* Mutant: the next track comes before the ejection.
MutantAdvances == Shown = "Stopped" /\ m_statusExpected # "Stopped"

\* skipStatusChange plays the next track, if the disc has stopped and neither
\* that nor its ejection was expected.
Advances == Shown = "Stopped" /\ m_statusExpected \notin {"Ejected", "Stopped"}

HandleAdvance ==
  /\ Handled /\ Shown # m_status /\ Advances
  /\ \E e \in InList(Following) :
       /\ TrackOf(e) # 0
       /\ m_playlist' = e.list
       /\ MediaPlay(TrackOf(e), Tail(signals))
  /\ Under(signals')
  /\ UNCHANGED <<drive, m_status, m_statusExpected, m_track, m_tracks, modes, order>>

\* Mutant: the titles are counted only for a disc that plays.
MutantUpdateDisc ==
  IF m_status' = "NoDisc"
  THEN m_track' = 0 /\ m_tracks' = 0 /\ m_playlist' = m_playlist
  ELSE /\ m_track' = m_track
       /\ IF m_status' = "Playing" /\ m_tracks = 0 /\ media'.titles > 0
          THEN /\ m_tracks' = media'.titles
               /\ m_playlist' \in Playlists(m_tracks', m_randomPlaylist)
          ELSE UNCHANGED <<m_tracks, m_playlist>>

\* Mutant: the number of titles survives the disc.
MutantClearDisc ==
  IF m_status' = "NoDisc"
  THEN m_track' = 0 /\ UNCHANGED <<m_tracks, m_playlist>>
  ELSE /\ m_track' = m_track
       /\ IF m_tracks = 0 /\ media'.titles > 0
          THEN /\ m_tracks' = media'.titles
               /\ m_playlist' \in Playlists(m_tracks', m_randomPlaylist)
          ELSE UNCHANGED <<m_tracks, m_playlist>>

\* clearDiscInfo, or the number of titles of a disc that is new to the object.
UpdateDisc ==
  IF m_status' = "NoDisc"
  THEN m_track' = 0 /\ m_tracks' = 0 /\ m_playlist' = m_playlist
  ELSE /\ m_track' = m_track
       /\ IF m_tracks = 0 /\ media'.titles > 0
          THEN /\ m_tracks' = media'.titles
               /\ m_playlist' \in Playlists(m_tracks', m_randomPlaylist)
          ELSE UNCHANGED <<m_tracks, m_playlist>>

HandleChange ==
  /\ Handled /\ Shown # m_status
  /\ Advances => \E e \in InList(Following) : TrackOf(e) = 0
  /\ IF Shown = "Stopped" /\ m_statusExpected = "Ejected" THEN DriveEject(Tail(signals))
     ELSE Ignores(Tail(signals)) /\ UNCHANGED drive
  /\ m_status' = Shown
  /\ UpdateDisc /\ Under(signals')
  /\ UNCHANGED <<m_statusExpected, modes, order>>

Deliver == HandleTick \/ HandleSame \/ HandleAdvance \/ HandleChange

(***************************************************************************)
(* What the backend, the drive and a person do of themselves.              *)
(***************************************************************************)

player == <<m_status, m_statusExpected, m_track, m_tracks, m_playlist, modes, order, hurried>>

\* The source is loaded.
Load ==
  /\ media.state = "Loading" /\ Room
  /\ IF OpticalDisc
     THEN Becomes([state |-> "Stopped", title |-> 1, titles |-> disc], signals, <<"Stopped">>)
     ELSE Fails(signals)
  /\ UNCHANGED <<drive, player>>

\* A title ends; the controller may go on to the next by itself.
TitleEnds ==
  /\ media.state = "Playing" /\ Room
  /\ \/ media.title < media.titles /\ Becomes([media EXCEPT !.title = @ + 1], signals, << >>)
     \/ Becomes([media EXCEPT !.state = "Stopped"], signals, <<"Stopped">>)
  /\ UNCHANGED <<drive, player>>

Tick ==
  /\ media.state = "Playing" /\ Room /\ \A i \in DOMAIN signals : signals[i] # "tick"
  /\ Becomes(media, signals, <<"tick">>)
  /\ UNCHANGED <<drive, player>>

Tray ==
  /\ \/ tray = "closed" /\ Room /\ Fails(signals) /\ tray' = "opened" /\ disc' = disc
     \/ tray # "closed" /\ disc' \in Titles \cup {0} /\ tray' = "closed" /\ Ignores(signals)
  /\ UNCHANGED player

\* The constructor, and createInterface, which calls stateChanged with the
\* state of the media object it has made: loading its source, or done.
Init ==
  /\ tray = "closed" /\ disc \in Titles \cup {0}
  /\ media \in {[state |-> "Loading", title |-> 0, titles |-> 0],
                IF disc = 0 THEN [state |-> "Error", title |-> 0, titles |-> 0]
                ELSE [state |-> "Stopped", title |-> 1, titles |-> disc]}
  /\ signals = << >>
  /\ m_status = DiscStatusTranslate(media.state) /\ m_statusExpected = "NoDisc"
  /\ m_track = 0 /\ m_tracks = media.titles /\ m_playlist = [i \in 1 .. m_tracks |-> i]
  /\ m_loopPlaylist = FALSE /\ m_randomPlaylist = FALSE
  /\ order = "none" /\ hurried = FALSE

Next == Slot \/ Deliver \/ Load \/ TitleEnds \/ Tick \/ Tray

Spec == Init /\ [][Next]_vars

\* The event loop delivers what is under way.
FairSpec == Spec /\ WF_vars(Deliver)

(***************************************************************************)
(* Properties.                                                             *)
(***************************************************************************)

\* Once every signal has been handled the object shows the state of the media
\* object, and knows and lists the titles of the disc, although it has counted
\* them when an earlier signal was handled.
SettlesOnDisc ==
  signals = << >> =>
    /\ m_status = DiscStatusTranslate(media.state)
    /\ m_tracks = media.titles
    /\ m_tracks # 0 => m_playlist \in Injection(1 .. m_tracks, 1 .. m_tracks)

\* tick() asks for the meta data of another title only while the lists of
\* artists and titles, of m_tracks + 1 entries, have one for it, if no order
\* was given while signals were under way: see the README.
TitleInList ==
  [][~hurried /\ HandleTick /\ m_track' # m_track => m_tracks # 0 /\ m_track' <= m_tracks]_vars

\* What an application sees of this is a Player, whatever signals are under way:
\* stop() silences it and nothing starts playing by itself after that, and the
\* disc comes out by itself only if eject() came last.
P == INSTANCE Player WITH playing <- media.state = "Playing"
ServesOrders == P!Spec

\* Of itself, the object does not leave a title that is playing or paused for
\* another, if no order was given while signals were under way.
TitleNotInterrupted ==
  [][~hurried /\ Deliver /\ media.state \in {"Playing", "Paused"}
       => media'.title \in {media.title, 0}]_vars

\* Once the ejection of a disc that is shown as playing or paused is expected,
\* the tray opens, or the disc has left, or another order comes.
EjectOpensTray ==
  (m_statusExpected = "Ejected" /\ m_status \in {"Playing", "Paused"} /\ media.state # "Error")
    ~> (tray # "closed" \/ m_statusExpected # "Ejected")
=============================================================================

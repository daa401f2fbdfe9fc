------------------------- MODULE KCompactDiscProofs -------------------------
(***************************************************************************)
(* Theorems about KCompactDisc's Spec, for every set of discs, every       *)
(* argument of the slots, and a drive whose changes may go unseen; and     *)
(* about PlayerOrders' OrdersSpec, which adds the history of the orders:   *)
(* with its timer the object implements Player, and it goes through the    *)
(* tracks in order.                                                        *)
(***************************************************************************)
EXTENDS PlayerOrders, WmCdromLemmas

\* make_playlist leaves a list of each track, once.
LEMMA PlaylistsType ==
  ASSUME NEW n \in Nat, NEW random \in BOOLEAN, NEW p \in Playlists(n, random)
  PROVE  /\ p \in Injection(1 .. n, 1 .. n)
         /\ p \in Seq(Nat) /\ Len(p) = n
<1>1. p \in Injection(1 .. n, 1 .. n)
  BY DEF Playlists, Injection, IsInjective
<1>2. p \in [1 .. n -> 1 .. n]
  BY <1>1 DEF Injection
<1> QED
  BY <1>1, <1>2

\* The list next() and prev() leave is the old one or a new one as good.
LEMMA EntriesList ==
  ASSUME NEW p, NEW track, NEW n, NEW loop, NEW random,
         NEW e \in NextEntries(p, track, n, loop, random)
                     \cup PrevEntries(p, track, n, loop, random)
  PROVE  e.list = p \/ (random /\ e.list \in Playlists(n, random))
<1>1. \A q, i : Entry(q, i).list = q
  BY DEF Entry
<1>2. \A q \in Wrapped(p, n, random) :
        q = p \/ (random /\ q \in Playlists(n, random))
  BY DEF Wrapped
<1>3. CASE e \in NextEntries(p, track, n, loop, random)
  BY <1>1, <1>2, <1>3 DEF NextEntries
<1>4. CASE e \in PrevEntries(p, track, n, loop, random)
  BY <1>1, <1>2, <1>4 DEF PrevEntries
<1> QED
  BY <1>3, <1>4

(***************************************************************************)
(* The inductive invariant: the playlist is one of the disc whose tracks   *)
(* m_tracks counts, which is that of a complete table of contents.         *)
(***************************************************************************)
ListOf(tracks, id, p) ==
  tracks # 0 => /\ id \in Discs /\ tracks = LastTrack(id)
                /\ Len(p) = tracks /\ p \in Injection(1 .. tracks, 1 .. tracks)

IInv ==
  /\ Sound(drive)
  /\ m_status \in Status /\ m_statusExpected \in Status
  /\ m_track \in Nat /\ m_tracks \in Nat /\ m_discId \in Discs \cup {NoDisc}
  /\ m_playlist \in Seq(Nat)
  /\ m_loopPlaylist \in BOOLEAN /\ m_randomPlaylist \in BOOLEAN
  /\ seen \in BOOLEAN
  /\ ListOf(m_tracks, m_discId, m_playlist)

\* The inductive invariant holds of a new object.
LEMMA PlayerInit == Init => IInv
<1> SUFFICES ASSUME Init PROVE IInv
  OBVIOUS
<1>1. Sound(drive)
  BY OpenedSound DEF Init
<1>2. << >> \in Seq(Nat)
  OBVIOUS
<1> QED
  BY <1>1, <1>2 DEF Init, IInv, Status, ListOf

\* The part of the invariant that next(), prev() and the advance disturb.
LEMMA EntryKeepsList ==
  ASSUME IInv, NEW e \in Following \cup Preceding, m_playlist' = e.list
  PROVE  m_playlist' \in Seq(Nat) /\ ListOf(m_tracks, m_discId, m_playlist')
<1>1. e.list = m_playlist \/ e.list \in Playlists(m_tracks, m_randomPlaylist)
  BY EntriesList DEF Following, Preceding
<1>2. CASE e.list = m_playlist
  BY <1>2 DEF IInv
<1>3. CASE e.list \in Playlists(m_tracks, m_randomPlaylist)
  BY <1>3, PlaylistsType DEF IInv, ListOf
<1> QED
  BY <1>1, <1>2, <1>3

\* playTrackPosition leaves a sound drive, whatever track it is given.
LEMMA PlayPositionSound ==
  ASSUME NEW d, Sound(d), NEW tracks, NEW track, NEW pos
  PROVE  Sound(PlayTrackPosition(d, tracks, track, pos))
BY PlaySound DEF PlayTrackPosition

\* The slots preserve the inductive invariant.
LEMMA SlotStep ==
  ASSUME IInv,
         \/ PlayTrackSlot \/ PlayPosition \/ NextTrack \/ PrevTrack \/ Play
         \/ Pause \/ Stop \/ EjectPlaying \/ EjectStopped \/ CloseEjected
         \/ SetLoopPlaylist \/ SetRandomPlaylist
  PROVE  IInv'
<1>1. CASE PlayTrackSlot \/ PlayPosition
  <2>1. Sound(drive')
    BY <1>1, PlayPositionSound DEF PlayTrackSlot, PlayTrack, PlayPosition, IInv
  <2>2. m_statusExpected' = "Playing"
    BY <1>1 DEF PlayTrackSlot, PlayTrack, PlayPosition
  <2> QED
    BY <1>1, <2>1, <2>2 DEF PlayTrackSlot, PlayPosition, IInv, Status, disc, modes
<1>2. ASSUME NEW entries, entries \subseteq Following \cup Preceding, PlayEntry(entries)
      PROVE  IInv'
  <2>1. PICK e \in Following \cup Preceding :
          /\ m_playlist' = e.list
          /\ \/ PlayTrack(TrackOf(e))
             \/ UNCHANGED <<drive, m_statusExpected>>
    BY <1>2 DEF PlayEntry
  <2>2. m_playlist' \in Seq(Nat) /\ ListOf(m_tracks, m_discId, m_playlist')
    BY <2>1, EntryKeepsList
  <2>3. Sound(drive') /\ m_statusExpected' \in Status
    <3>1. CASE PlayTrack(TrackOf(e))
      BY <3>1, PlayPositionSound DEF PlayTrack, IInv, Status
    <3>2. CASE UNCHANGED <<drive, m_statusExpected>>
      BY <3>2 DEF IInv
    <3> QED
      BY <2>1, <3>1, <3>2
  <2> QED
    BY <1>2, <2>2, <2>3 DEF PlayEntry, IInv, disc, modes
<1>3. CASE NextTrack \/ PrevTrack \/ Play
  BY <1>2, <1>3 DEF NextTrack, PrevTrack, Play
<1>4. CASE Pause
  <2>1. Sound(drive') /\ m_statusExpected' \in Status
    BY <1>4, PauseSound DEF Pause, IInv, Status
  <2> QED
    BY <1>4, <2>1 DEF Pause, IInv, disc, modes
<1>5. CASE Stop \/ EjectPlaying
  <2>1. Sound(drive') /\ m_statusExpected' \in Status
    BY <1>5, StopSound DEF Stop, EjectPlaying, IInv, Status
  <2> QED
    BY <1>5, <2>1 DEF Stop, EjectPlaying, IInv, disc, modes
<1>6. CASE EjectStopped \/ CloseEjected
  <2>1. Sound(drive') /\ m_statusExpected' \in Status
    BY <1>6, TraySound DEF EjectStopped, CloseEjected, IInv, Status
  <2> QED
    BY <1>6, <2>1 DEF EjectStopped, CloseEjected, IInv, disc, modes
<1>7. CASE SetLoopPlaylist
  <2>1. m_loopPlaylist' \in BOOLEAN
    BY <1>7, PlayerAssumption DEF SetLoopPlaylist
  <2> QED
    BY <1>7, <2>1 DEF SetLoopPlaylist, IInv, disc
<1>8. CASE SetRandomPlaylist
  <2>1. m_randomPlaylist' \in BOOLEAN
    BY <1>8, PlayerAssumption DEF SetRandomPlaylist
  <2>2. m_playlist' \in Seq(Nat) /\ ListOf(m_tracks, m_discId, m_playlist')
    BY <1>8, <2>1, PlaylistsType DEF SetRandomPlaylist, IInv, ListOf
  <2> QED
    BY <1>8, <2>1, <2>2 DEF SetRandomPlaylist, IInv, disc
<1> QED
  BY <1>1, <1>3, <1>4, <1>5, <1>6, <1>7, <1>8

\* The current track and the number of tracks the getters return.
LEMMA GettersType ==
  ASSUME NEW d, Sound(d)
  PROVE  /\ WmCdGetCurTrack(d) \in Nat /\ WmCdGetCountOfTracks(d) \in Nat
         /\ WmCdGetCountOfTracks(d) > 0 => HoldsToc(d) /\ WmCdGetCountOfTracks(d) = d.ntracks
<1>1. d.ntracks \in Nat /\ d.curtrack \in Nat
  BY DEF Sound, Handle
<1> QED
  BY <1>1 DEF WmCdGetCurTrack, WmCdGetCountOfTracks, Sound, Known

\* A poll by the timer preserves the inductive invariant.
LEMMA PollStep ==
  ASSUME IInv, Poll
  PROVE  IInv'
<1>1. Sound(Looked) /\ Shown \in Status
  BY StatusSound DEF IInv, Looked, Shown, DiscStatusTranslate, Status
<1>2. ASSUME UpdateTrack, Sound(drive') PROVE m_track' \in Nat
  <2>1. WmCdGetCurTrack(drive') \in Nat /\ m_track \in Nat
    BY <1>2, GettersType DEF IInv
  <2> QED
    BY <1>2, <2>1 DEF UpdateTrack
<1>3. CASE PollSame
  <2>1. Sound(drive') /\ m_status' \in Status /\ m_track' \in Nat
    BY <1>1, <1>2, <1>3 DEF PollSame, IInv
  <2> QED
    BY <1>3, <2>1 DEF PollSame, IInv, disc, modes
<1>4. CASE PollAdvance
  <2>1. PICK e \in Following :
          /\ m_playlist' = e.list
          /\ drive' = PlayTrackPosition(Looked, m_tracks, TrackOf(e), 0)
    BY <1>4 DEF PollAdvance
  <2>2. Sound(drive')
    BY <1>1, <2>1, PlayPositionSound
  <2>3. m_playlist' \in Seq(Nat) /\ ListOf(m_tracks, m_discId, m_playlist')
    BY <2>1, EntryKeepsList
  <2> QED
    BY <1>4, <2>2, <2>3 DEF PollAdvance, IInv, disc, modes
<1>5. CASE PollChange
  <2>1. Sound(drive') /\ m_status' \in Status /\ m_track' \in Nat
    BY <1>1, <1>2, <1>5, TraySound DEF PollChange
  <2>2. /\ m_tracks' \in Nat /\ m_discId' \in Discs \cup {NoDisc}
        /\ m_playlist' \in Seq(Nat) /\ ListOf(m_tracks', m_discId', m_playlist')
    <3>1. CASE m_status' \in {"Ejected", "NoDisc"}
      BY <1>5, <3>1 DEF PollChange, UpdateDisc, IInv, ListOf
    <3>2. CASE /\ m_status' \notin {"Ejected", "NoDisc"}
               /\ m_tracks = 0 /\ WmCdGetCountOfTracks(drive') > 0
      <4>1. /\ m_tracks' = WmCdGetCountOfTracks(drive') /\ m_discId' = drive'.trk
            /\ m_playlist' \in Playlists(m_tracks', m_randomPlaylist)
        BY <1>5, <3>2 DEF PollChange, UpdateDisc
      <4>2. /\ m_tracks' \in Nat /\ m_discId' \in Discs
            /\ m_tracks' = LastTrack(m_discId')
        BY <2>1, <3>2, <4>1, GettersType DEF HoldsToc
      <4> QED
        BY <4>1, <4>2, PlaylistsType DEF IInv, ListOf
    <3>3. CASE /\ m_status' \notin {"Ejected", "NoDisc"}
               /\ ~(m_tracks = 0 /\ WmCdGetCountOfTracks(drive') > 0)
      BY <1>5, <3>3 DEF PollChange, UpdateDisc, disc, IInv
    <3> QED
      BY <3>1, <3>2, <3>3
  <2> QED
    BY <1>5, <2>1, <2>2 DEF PollChange, IInv, modes
<1> QED
  BY <1>3, <1>4, <1>5 DEF Poll

\* Every slot, poll and change of the drive preserves the inductive invariant.
LEMMA PlayerStep == IInv /\ [Next]_vars => IInv'
<1> SUFFICES ASSUME IInv, [Next]_vars PROVE IInv'
  OBVIOUS
<1>1. CASE Hardware \/ Turn
  <2>1. Moved(drive, drive')
    BY <1>1, HardwareMoves DEF Hardware, Turn, IInv, Sound
  <2>2. Sound(drive')
    BY <2>1, MovedSound DEF IInv
  <2> QED
    BY <1>1, <2>2 DEF Hardware, Turn, IInv, disc, modes
<1>2. CASE Poll
  BY <1>2, PollStep
<1>3. CASE UNCHANGED vars
  BY <1>3 DEF vars, IInv, disc, modes
<1> QED
  BY <1>1, <1>2, <1>3, SlotStep DEF Next

\* The inductive invariant: the drive is sound, and the playlist that of the
\* known disc.
THEOREM PlayerInvariant == Spec => []IInv
<1> QED
  BY PlayerInit, PlayerStep, PTL DEF Spec

\* The type of the variables is right.
THEOREM PlayerTypeCorrect == Spec => []TypeOK
<1>1. IInv => TypeOK
  BY DEF IInv, Sound, TypeOK
<1> QED
  BY <1>1, PlayerInvariant, PTL

\* The playlist names each track of the known disc once, whatever discs come
\* and go between polls, whatever the slots are called with.
THEOREM PlayerPlaylistMatchesDisc == Spec => []PlaylistMatchesDisc
<1>1. IInv => PlaylistMatchesDisc
  BY DEF IInv, ListOf, PlaylistMatchesDisc
<1> QED
  BY <1>1, PlayerInvariant, PTL

(***************************************************************************)
(* What keeps the shown playing from being that of an unknown disc.  A     *)
(* handle may go on to show "playing" of a disc that is gone, since        *)
(* wm_cd_status assigns no mode for WM_CDM_NO_DISC.  Gone(d, looked): its  *)
(* number of tracks is still that of the disc, none is ready, and the      *)
(* drive that was looked at is at least two changes from one that is.      *)
(***************************************************************************)
PlayMode(mode) == mode \in {"PLAYING", "TRACK_DONE"}
Away(d) == d.tray = "open" \/ d.disc = NoDisc
Gone(d, looked) ==
  PlayMode(d.cur_cdmode) /\ ~DiscReady(d.oldmode) =>
    d.ntracks >= 1 /\ ~Ready(d) /\ (looked => Away(d))

\* A handle that shows playing counts the tracks of a disc.
LEMMA ShownCounts ==
  ASSUME NEW d, Sound(d), NEW looked, Gone(d, looked), PlayMode(d.cur_cdmode)
  PROVE  WmCdGetCountOfTracks(d) > 0 /\ WmCdGetCountOfTracks(d) \in Nat
<1>1. d.ntracks \in Nat
  BY DEF Sound, Handle
<1>2. d.ntracks >= 1
  <2>1. CASE DiscReady(d.oldmode)
    BY <2>1, DiscAssumption DEF Sound, Known, HoldsToc
  <2>2. CASE ~DiscReady(d.oldmode)
    BY <2>2 DEF Gone
  <2> QED
    BY <2>1, <2>2
<1>3. ~NoDiscMode(d.cur_cdmode)
  BY DEF PlayMode, NoDiscMode
<1> QED
  BY <1>1, <1>2, <1>3 DEF WmCdGetCountOfTracks

\* A status that goes on to show playing, of no disc, has found none in the drive.
LEMMA StatusGone ==
  ASSUME NEW d, Sound(d), Gone(d, FALSE)
  PROVE  Gone(WmCdStatus(d), TRUE)
<1> DEFINE s == WmCdStatus(d)
           w == WithToc(d)
<1>1. /\ d \in Handle /\ w \in Handle /\ s.tray = d.tray /\ s.disc = d.disc /\ s.media = d.media
      /\ s.oldmode = StatusMode(d) /\ s.cur_cdmode = ShownMode(SwitchMode(d), w.cur_cdmode)
  BY StatusKeeps, WithTocType DEF Sound
<1>2. s.ntracks = w.ntracks
  BY <1>1 DEF WmCdStatus, Handle
<1> HIDE DEF s
<1>3. SUFFICES ASSUME PlayMode(s.cur_cdmode), ~DiscReady(StatusMode(d))
               PROVE  s.ntracks >= 1 /\ ~Ready(d) /\ Away(d)
  BY <1>1 DEF Gone, s, Ready, Loaded, Away
<1>4. SwitchMode(d) = StatusMode(d)
  BY <1>3 DEF SwitchMode, Parked, DiscReady
<1>5. StatusMode(d) = "NO_DISC" /\ PlayMode(w.cur_cdmode)
  BY <1>1, <1>3, <1>4 DEF ShownMode, PlayMode, DiscReady
<1>6. CASE DeviceChanged(d)
  <2>1. TocEntryFails(d) \/ GenMode(d) = "NO_DISC"
    BY <1>5 DEF StatusMode
  <2>2. DiscReady(GenMode(d)) /\ NoDiscMode(d.oldmode)
    BY <1>6 DEF DeviceChanged
  <2>3. Ready(d)
    BY <1>1, <2>2, GenModeType
  <2>4. w.cur_cdmode \in {d.cur_cdmode, "UNKNOWN"}
    BY <1>1, <1>6 DEF WithToc, ReadToc, Handle
  <2>5. PlayMode(d.cur_cdmode)
    BY <1>5, <2>4 DEF PlayMode
  <2> QED
    BY <2>2, <2>3, <2>5 DEF Gone, NoDiscMode, DiscReady
<1>7. CASE ~DeviceChanged(d)
  <2>1. w = d /\ GenMode(d) = "NO_DISC"
    BY <1>5, <1>7 DEF WithToc, StatusMode
  <2>2. DriveStatus(d) = "no_disc"
    BY <1>1, <2>1, GenModeType DEF GenMode
  <2>3. d.tray \in {"open", "closed"}
    BY <1>1 DEF Handle
  <2>4. Away(d) /\ ~Ready(d)
    BY <2>2, <2>3 DEF DriveStatus, Away, Ready, Loaded
  <2>5. d.ntracks >= 1
    <3>1. CASE DiscReady(d.oldmode)
      BY <3>1, DiscAssumption DEF Sound, Known, HoldsToc
    <3>2. CASE ~DiscReady(d.oldmode)
      BY <1>5, <2>1, <3>2 DEF Gone
    <3> QED
      BY <3>1, <3>2
  <2> QED
    BY <1>2, <2>1, <2>4, <2>5
<1> QED
  BY <1>6, <1>7

\* No ioctl brings a disc; the tray closed by one is not ready yet.
LEMMA IoctlGone ==
  ASSUME NEW d, Sound(d), Gone(d, TRUE)
  PROVE  /\ \A start, end : Gone(PlayMsf(d, start, end), TRUE)
         /\ Gone(PauseAudio(d), TRUE) /\ Gone(ResumeAudio(d), TRUE) /\ Gone(StopAudio(d), TRUE)
         /\ Gone(CloseTray(d), FALSE)
<1>1. d \in Handle /\ d.disc \in Discs \cup {NoDisc}
  BY DEF Sound, Handle
<1>2. ASSUME NEW e, Moved(d, e), e.tray = d.tray, e.disc = d.disc, e.media = d.media
      PROVE  Gone(e, TRUE)
  BY <1>2 DEF Moved, Gone, Away, Ready, Loaded
<1>3. ASSUME NEW start, NEW end PROVE Gone(PlayMsf(d, start, end), TRUE)
  <2> DEFINE e == PlayMsf(d, start, end)
  <2>1. Moved(d, e) /\ e.tray = d.tray /\ e.disc = d.disc /\ e.media = d.media
    BY <1>1, IoctlMoves DEF PlayMsf, Handle
  <2> HIDE DEF e
  <2>2. Gone(e, TRUE)
    BY <1>2, <2>1
  <2> QED
    BY <2>2 DEF e
<1>4. /\ Moved(d, PauseAudio(d)) /\ Moved(d, ResumeAudio(d)) /\ Moved(d, StopAudio(d))
      /\ Moved(d, CloseTray(d))
  BY <1>1, IoctlMoves
<1>5. Gone(PauseAudio(d), TRUE)
  <2>1. LET e == PauseAudio(d) IN e.tray = d.tray /\ e.disc = d.disc /\ e.media = d.media
    BY <1>1 DEF PauseAudio, Handle
  <2> QED
    BY <1>2, <1>4, <2>1
<1>6. Gone(ResumeAudio(d), TRUE)
  <2>1. LET e == ResumeAudio(d) IN e.tray = d.tray /\ e.disc = d.disc /\ e.media = d.media
    BY <1>1 DEF ResumeAudio, Handle
  <2> QED
    BY <1>2, <1>4, <2>1
<1>7. Gone(StopAudio(d), TRUE)
  <2>1. LET e == StopAudio(d) IN e.tray = d.tray /\ e.disc = d.disc /\ e.media = d.media
    BY <1>1 DEF StopAudio, Handle
  <2> QED
    BY <1>2, <1>4, <2>1
<1>8. Gone(CloseTray(d), FALSE)
  <2>1. CASE CloseTray(d) = d
    BY <2>1 DEF Gone
  <2>2. CASE CloseTray(d) # d
    <3>1. CloseTray(d).media = "spinup"
      BY <1>1, <2>2 DEF CloseTray, MoveTray, Handle
    <3> QED
      BY <1>4, <3>1 DEF Moved, Gone, Ready
  <2> QED
    BY <2>1, <2>2
<1> QED
  BY <1>3, <1>5, <1>6, <1>7, <1>8

\* No call but one to eject goes on to show playing, of no disc, unless the drive
\* it has looked at is without one; and to eject makes the drive one.
LEMMA CallGone ==
  ASSUME NEW d, Sound(d), Gone(d, FALSE), NEW looked \in BOOLEAN
  PROVE  /\ \A start, pos, end : Gone(WmCdPlay(d, start, pos, end), TRUE)
         /\ Gone(WmCdStop(d), TRUE) /\ Gone(WmCdPause(d), TRUE) /\ Gone(WmCdCloseTray(d), TRUE)
         /\ Gone(d, looked) => Gone(WmCdEject(d), looked)
<1> DEFINE s == WmCdStatus(d)
<1>1. Sound(s) /\ Gone(s, TRUE) /\ s \in Handle /\ d \in Handle
  BY StatusSound, StatusGone DEF Sound
<1>2. ASSUME NEW e, Sound(e), NEW f, Moved(e, f), Gone(f, FALSE) PROVE Gone(WmCdStatus(f), TRUE)
  BY <1>2, MovedSound, StatusGone
<1>3. ASSUME NEW e, Gone(e, TRUE) PROVE Gone(e, FALSE)
  BY <1>3 DEF Gone
<1>4. ASSUME NEW e, Sound(e), Gone(e, TRUE) PROVE Gone(WmCdStop(e), TRUE)
  <2>1. LET t == WmCdStatus(e) IN Sound(t) /\ Gone(t, TRUE)
    BY <1>3, <1>4, StatusSound, StatusGone
  <2> DEFINE t == WmCdStatus(e)
  <2> HIDE DEF t
  <2>2. Moved(t, StopAudio(t)) /\ Gone(StopAudio(t), FALSE)
    BY <1>3, <2>1, IoctlMoves, IoctlGone DEF t, Sound
  <2>3. Gone(WmCdStatus(StopAudio(t)), TRUE)
    BY <1>2, <2>1, <2>2 DEF t
  <2> QED
    BY <2>1, <2>3 DEF WmCdStop, t
<1>5. Gone(WmCdStop(d), TRUE)
  <2> HIDE DEF s
  <2>1. Moved(s, StopAudio(s)) /\ Gone(StopAudio(s), FALSE)
    BY <1>1, <1>3, IoctlMoves, IoctlGone
  <2>2. Gone(WmCdStatus(StopAudio(s)), TRUE)
    BY <1>1, <1>2, <2>1
  <2> QED
    BY <1>1, <2>2 DEF WmCdStop, s
<1>6. ASSUME NEW start, NEW pos, NEW end PROVE Gone(WmCdPlay(d, start, pos, end), TRUE)
  <2> DEFINE from == StartFrame(s.trk, start, pos, end)
             upto == EndFrame(s.trk, end)
             p == PlayMsf(s, from, upto)
  <2>1. Gone(WmCdStop(s), TRUE)
    BY <1>1, <1>4
  <2>2. Moved(s, p) /\ Gone(p, FALSE)
    <3> HIDE DEF s, from, upto
    <3> QED
      BY <1>1, <1>3, IoctlMoves, IoctlGone
  <2>3. Gone(WmCdStatus(p), TRUE)
    <3> HIDE DEF s, p
    <3> QED
      BY <1>1, <1>2, <2>2
  <2> QED
    BY <1>1, <2>1, <2>3 DEF WmCdPlay
<1>7. Gone(WmCdPause(d), TRUE)
  <2>1. Gone(PauseAudio(s), TRUE) /\ Gone(ResumeAudio(s), TRUE)
    BY <1>1, IoctlGone
  <2> QED
    BY <1>1, <2>1 DEF WmCdPause
<1>8. Gone(WmCdCloseTray(d), TRUE)
  <2> HIDE DEF s
  <2>1. Moved(s, CloseTray(s)) /\ Gone(CloseTray(s), FALSE)
    BY <1>1, IoctlMoves, IoctlGone
  <2>2. Gone(WmCdStatus(CloseTray(s)), TRUE)
    BY <1>1, <1>2, <2>1
  <2> QED
    BY <1>1, <2>2 DEF WmCdCloseTray, s
<1>9. ASSUME Gone(d, looked) PROVE Gone(WmCdEject(d), looked)
  <2> DEFINE t == EjectTray(d)
  <2>1. Moved(d, t)
    BY <1>1, IoctlMoves
  <2>2. ~Ready(t)
    BY <1>1 DEF EjectTray, MoveTray, Ready, Loaded, Handle
  <2> HIDE DEF t
  <2>3. Gone(t, FALSE)
    BY <2>1, <2>2 DEF Gone, Moved
  <2>4. Gone(WmCdStatus(t), TRUE)
    BY <1>2, <2>1, <2>3
  <2> QED
    BY <1>9, <2>4 DEF WmCdEject, t, Gone
<1> QED
  BY <1>5, <1>6, <1>7, <1>8, <1>9

(***************************************************************************)
(* The invariant when the timer sees every change of the drive: a disc     *)
(* shown as playing is known, one that is not known has no current track,  *)
(* and no track is numbered 0, so that an unknown disc is at no entry of   *)
(* the playlist.                                                           *)
(***************************************************************************)
Unknown == (m_tracks = 0 => m_track = 0) /\ Gone(drive, seen)
Numbered(p) == \A i \in DOMAIN p : p[i] # 0
KnownInv == IInv /\ PlayingDiscKnown /\ Unknown /\ Numbered(m_playlist)

\* The lists of make_playlist have no track 0.
LEMMA PlaylistsNumbered ==
  ASSUME NEW n \in Nat, NEW random, NEW p \in Playlists(n, random)
  PROVE  Numbered(p)
<1>1. p \in [1 .. n -> 1 .. n]
  BY DEF Playlists, Injection
<1> QED
  BY <1>1 DEF Numbered

\* What next() and prev() leave has none either.
LEMMA EntryNumbered ==
  ASSUME KnownInv, NEW e \in Following \cup Preceding
  PROVE  Numbered(e.list)
<1>1. e.list = m_playlist \/ e.list \in Playlists(m_tracks, m_randomPlaylist)
  BY EntriesList DEF Following, Preceding
<1> QED
  BY <1>1, PlaylistsNumbered DEF KnownInv, IInv

\* A new object knows no disc, and wm_cd_init shows none as playing.
LEMMA KnownInit == Init => KnownInv
<1> SUFFICES ASSUME Init PROVE KnownInv
  OBVIOUS
<1>1. IInv
  BY PlayerInit
<1>2. Gone(drive, TRUE)
  <2>1. PICK h \in IdleHardware : drive = WmCdStatus(NewHandle(h))
    BY DEF Init, Opened, WmCdInit
  <2>2. Sound(NewHandle(h)) /\ Gone(NewHandle(h), FALSE)
    BY <2>1, NewHandleSound DEF NewHandle, Gone, PlayMode
  <2> QED
    BY <2>1, <2>2, StatusGone
<1>3. m_track = 0 /\ m_tracks = 0 /\ m_status = "NoDisc" /\ seen = TRUE /\ m_playlist = << >>
  BY DEF Init
<1>4. Gone(drive, seen)
  BY <1>2, <1>3
<1>5. PlayingDiscKnown
  BY <1>3 DEF PlayingDiscKnown
<1>6. Unknown
  BY <1>3, <1>4 DEF Unknown
<1>7. Numbered(m_playlist)
  BY <1>3 DEF Numbered
<1> QED
  BY <1>1, <1>5, <1>6, <1>7 DEF KnownInv

\* No slot changes what is known of the disc, or brings one.
LEMMA KnownSlot ==
  ASSUME KnownInv,
         \/ PlayTrackSlot \/ PlayPosition \/ NextTrack \/ PrevTrack \/ Play
         \/ Pause \/ Stop \/ EjectPlaying \/ EjectStopped \/ CloseEjected
         \/ SetLoopPlaylist \/ SetRandomPlaylist
  PROVE  KnownInv'
<1>1. IInv' /\ Sound(drive) /\ seen \in BOOLEAN /\ m_tracks \in Nat
  BY SlotStep DEF KnownInv, IInv
<1>2. m_status' = m_status /\ m_track' = m_track /\ m_tracks' = m_tracks /\ seen' = seen
  BY DEF PlayTrackSlot, PlayPosition, NextTrack, PrevTrack, Play, PlayEntry, Pause, Stop,
         EjectPlaying, EjectStopped, CloseEjected, SetLoopPlaylist, SetRandomPlaylist, disc
<1>3. ASSUME NEW looked, Gone(drive, looked) PROVE Gone(drive, FALSE)
  BY <1>3 DEF Gone
<1>4. ASSUME NEW e, Gone(e, TRUE) PROVE Gone(e, seen)
  BY <1>4 DEF Gone
<1>5. ASSUME NEW tracks, NEW track, NEW pos, Gone(drive, seen)
      PROVE  Gone(PlayTrackPosition(drive, tracks, track, pos), seen)
  BY <1>1, <1>3, <1>4, <1>5, CallGone DEF PlayTrackPosition
<1>6. ASSUME Gone(drive, seen) PROVE Gone(drive', seen)
  <2>1. CASE PlayTrackSlot \/ PlayPosition
    BY <1>5, <1>6, <2>1 DEF PlayTrackSlot, PlayTrack, PlayPosition
  <2>2. CASE NextTrack \/ PrevTrack \/ Play
    <3>1. \/ \E e : PlayTrack(TrackOf(e))
          \/ UNCHANGED drive
      BY <2>2 DEF NextTrack, PrevTrack, Play, PlayEntry
    <3> QED
      BY <1>5, <1>6, <3>1 DEF PlayTrack
  <2>3. Gone(WmCdStop(drive), seen) /\ Gone(WmCdPause(drive), seen)
        /\ Gone(WmCdCloseTray(drive), seen) /\ Gone(WmCdEject(drive), seen)
    <3>1. Gone(drive, FALSE)
      BY <1>3, <1>6
    <3>2. /\ Gone(WmCdStop(drive), TRUE) /\ Gone(WmCdPause(drive), TRUE)
          /\ Gone(WmCdCloseTray(drive), TRUE) /\ Gone(WmCdEject(drive), seen)
      BY <1>1, <1>6, <3>1, CallGone
    <3> QED
      BY <1>4, <3>2
  <2>4. CASE Pause \/ Stop \/ EjectPlaying \/ EjectStopped \/ CloseEjected
    BY <2>3, <2>4 DEF Pause, Stop, EjectPlaying, EjectStopped, CloseEjected
  <2>5. CASE SetLoopPlaylist \/ SetRandomPlaylist
    BY <1>6, <2>5 DEF SetLoopPlaylist, SetRandomPlaylist
  <2> QED
    BY <2>1, <2>2, <2>4, <2>5
<1>7. Numbered(m_playlist')
  <2>1. CASE NextTrack \/ PrevTrack \/ Play
    <3>1. PICK e \in Following \cup Preceding : m_playlist' = e.list
      BY <2>1 DEF NextTrack, PrevTrack, Play, PlayEntry
    <3> QED
      BY <3>1, EntryNumbered
  <2>2. CASE SetRandomPlaylist
    BY <1>1, <2>2, PlaylistsNumbered DEF SetRandomPlaylist
  <2>3. CASE \/ PlayTrackSlot \/ PlayPosition \/ Pause \/ Stop \/ EjectPlaying \/ EjectStopped
             \/ CloseEjected \/ SetLoopPlaylist
    BY <2>3 DEF PlayTrackSlot, PlayPosition, Pause, Stop, EjectPlaying, EjectStopped,
                CloseEjected, SetLoopPlaylist, KnownInv
  <2> QED
    BY <2>1, <2>2, <2>3
<1>8. PlayingDiscKnown' /\ Unknown'
  BY <1>2, <1>6 DEF KnownInv, PlayingDiscKnown, Unknown
<1> QED
  BY <1>1, <1>7, <1>8 DEF KnownInv

\* timerExpired counts the tracks of a disc before it shows it as playing, and
\* forgets the current track with the disc.
LEMMA KnownPoll ==
  ASSUME KnownInv, Poll
  PROVE  KnownInv'
<1>1. IInv' /\ Sound(drive) /\ m_tracks \in Nat /\ m_track \in Nat
  BY PollStep DEF KnownInv, IInv
<1>2. Sound(Looked)
  BY <1>1, StatusSound DEF Looked
<1>3. Gone(Looked, TRUE) /\ (m_tracks = 0 => m_track = 0)
  BY <1>1, StatusGone DEF Looked, KnownInv, Unknown, Gone
<1>4. ASSUME Gone(Looked, TRUE) PROVE Gone(Looked, FALSE)
  BY <1>4 DEF Gone
<1>5. Shown = "Playing" <=> PlayMode(Looked.cur_cdmode)
  BY DEF Shown, DiscStatusTranslate, PlayMode
<1>6. seen' = TRUE
  BY DEF Poll, PollSame, PollAdvance, PollChange
<1>7. Numbered(m_playlist')
  <2>1. CASE PollSame
    BY <2>1 DEF PollSame, KnownInv
  <2>2. CASE PollAdvance
    <3>1. PICK e \in Following \cup Preceding : m_playlist' = e.list
      BY <2>2 DEF PollAdvance
    <3> QED
      BY <3>1, EntryNumbered
  <2>3. CASE PollChange
    <3>1. \/ m_playlist' = m_playlist
          \/ m_tracks' \in Nat /\ m_playlist' \in Playlists(m_tracks', m_randomPlaylist)
      BY <1>1, <2>3 DEF PollChange, UpdateDisc, IInv
    <3> QED
      BY <3>1, PlaylistsNumbered DEF KnownInv
  <2> QED
    BY <2>1, <2>2, <2>3 DEF Poll
<1>8. CASE PollSame
  <2>1. m_status' = m_status /\ m_tracks' = m_tracks /\ drive' = Looked /\ UpdateTrack
    BY <1>8 DEF PollSame, disc
  <2>2. PlayingDiscKnown'
    BY <2>1 DEF KnownInv, PlayingDiscKnown
  <2>3. m_tracks' = 0 => m_track' = 0
    BY <1>3, <2>1, <2>2 DEF UpdateTrack, PlayingDiscKnown
  <2> QED
    BY <1>1, <1>3, <1>6, <1>7, <2>1, <2>2, <2>3 DEF KnownInv, Unknown
<1>9. CASE PollAdvance
  <2>1. m_status' = m_status /\ m_tracks' = m_tracks /\ m_track' = m_track
    BY <1>9 DEF PollAdvance, disc
  <2>2. PICK e : drive' = PlayTrackPosition(Looked, m_tracks, TrackOf(e), 0)
    BY <1>9 DEF PollAdvance
  <2>3. Gone(drive', TRUE)
    BY <1>2, <1>3, <1>4, <2>2, CallGone DEF PlayTrackPosition
  <2> QED
    BY <1>1, <1>3, <1>6, <1>7, <2>1, <2>3 DEF KnownInv, PlayingDiscKnown, Unknown
<1>10. CASE PollChange
  <2>1. m_status' = Shown /\ m_status' # m_status /\ UpdateTrack /\ UpdateDisc
    BY <1>10 DEF PollChange
  <2>2. drive' = Looked \/ (Shown = "Stopped" /\ drive' = WmCdEject(Looked))
    BY <1>10 DEF PollChange
  <2>3. m_status' = "Playing" => m_tracks' # 0
    <3>1. SUFFICES ASSUME m_status' = "Playing", m_tracks = 0 PROVE m_tracks' # 0
      BY <2>1 DEF UpdateDisc, disc
    <3>2. drive' = Looked /\ PlayMode(Looked.cur_cdmode)
      BY <1>5, <2>1, <2>2, <3>1
    <3>3. WmCdGetCountOfTracks(drive') > 0 /\ WmCdGetCountOfTracks(drive') \in Nat
      BY <1>2, <1>3, <3>1, <3>2, ShownCounts
    <3> QED
      BY <2>1, <3>1, <3>3 DEF UpdateDisc
  <2>4. m_tracks' = 0 => m_tracks = 0 \/ m_status' \in {"Ejected", "NoDisc"}
    <3>1. CASE m_status' \in {"Ejected", "NoDisc"}
      BY <3>1
    <3>2. CASE m_status' \notin {"Ejected", "NoDisc"}
      BY <1>1, <2>1, <3>2 DEF UpdateDisc, disc
    <3> QED
      BY <3>1, <3>2
  <2>5. m_tracks' = 0 => m_track' = 0
    BY <1>3, <2>1, <2>3, <2>4 DEF UpdateTrack
  <2>6. Gone(drive', TRUE)
    BY <1>2, <1>3, <1>4, <2>2, CallGone
  <2> QED
    BY <1>1, <1>6, <1>7, <2>3, <2>5, <2>6 DEF KnownInv, PlayingDiscKnown, Unknown
<1> QED
  BY <1>8, <1>9, <1>10 DEF Poll

\* One change of a drive that the timer has looked at brings no disc that is ready
\* where there was none.
LEMMA HardwareGone ==
  ASSUME NEW d, Sound(d), Gone(d, TRUE), NEW e,
         \/ OpenByHand(d, e) \/ CloseByHand(d, e) \/ SwapDisc(d, e)
         \/ SpinUp(d, e) \/ TocRecovers(d, e) \/ PlayOn(d, e) \/ AudioFails(d, e)
         \/ StatusDecays(d, e) \/ PauseTimesOut(d, e) \/ Mount(d, e)
  PROVE  Gone(e, FALSE)
<1>1. d \in Handle /\ Moved(d, e)
  BY HardwareMoves DEF Sound
<1>2. SUFFICES ASSUME Away(d), ~Ready(d) PROVE ~Ready(e)
  BY <1>1 DEF Gone, Moved
<1>3. CASE OpenByHand(d, e) \/ CloseByHand(d, e)
  BY <1>1, <1>3 DEF OpenByHand, CloseByHand, MoveTray, Ready, Handle
<1>4. CASE SwapDisc(d, e)
  BY <1>1, <1>4 DEF SwapDisc, Ready, Loaded, Handle
<1>5. CASE SpinUp(d, e) \/ TocRecovers(d, e) \/ Mount(d, e)
  BY <1>2, <1>5 DEF SpinUp, SpinsUp, TocRecovers, Mount, Ready, Loaded, Away
<1>6. CASE PlayOn(d, e) \/ AudioFails(d, e) \/ StatusDecays(d, e) \/ PauseTimesOut(d, e)
  BY <1>1, <1>2, <1>6 DEF PlayOn, AudioFails, StatusDecays, PauseTimesOut, Ready, Loaded, Handle
<1> QED
  BY <1>3, <1>4, <1>5, <1>6

\* Every step preserves it.
LEMMA KnownStep ==
  ASSUME ~Unseen, KnownInv, [Next]_vars
  PROVE  KnownInv'
<1>1. CASE Hardware \/ Turn
  <2>1. /\ seen = TRUE /\ seen' = FALSE /\ m_status' = m_status /\ m_track' = m_track
        /\ m_tracks' = m_tracks /\ m_playlist' = m_playlist
    BY <1>1 DEF Hardware, Turn, disc, KnownInv, IInv
  <2>2. Gone(drive', FALSE)
    <3>1. Sound(drive)
      BY DEF KnownInv, IInv
    <3>2. Gone(drive, TRUE)
      BY <2>1 DEF KnownInv, Unknown
    <3> QED
      BY <1>1, <3>1, <3>2, HardwareGone DEF Hardware, Turn
  <2>3. IInv'
    BY <1>1, PlayerStep DEF Next, KnownInv
  <2> QED
    BY <2>1, <2>2, <2>3 DEF KnownInv, PlayingDiscKnown, Unknown, Numbered
<1>2. CASE Poll
  BY <1>2, KnownPoll
<1>3. CASE UNCHANGED vars
  <2>1. IInv'
    BY PlayerStep DEF KnownInv
  <2> QED
    BY <1>3, <2>1 DEF vars, disc, KnownInv, PlayingDiscKnown, Unknown, Numbered
<1> QED
  BY <1>1, <1>2, <1>3, KnownSlot DEF Next

\* timerExpired never takes the first start frame of a disc shown as playing
\* from an empty list, as long as the drive changes at most once between two
\* polls: although a disc that is gone may still be shown as playing.
THEOREM PlayerPlayingDiscKnown ==
  ASSUME ~Unseen
  PROVE  Spec => []PlayingDiscKnown
<1>1. KnownInv /\ [Next]_vars => KnownInv'
  BY KnownStep
<1>2. KnownInv => PlayingDiscKnown
  BY DEF KnownInv
<1> QED
  BY <1>1, <1>2, KnownInit, PTL DEF Spec

\* An entry of a list or none: the list is wrapped around only from its last
\* entry, and only that of a known disc has one that is the current track.
LEMMA EntriesListed ==
  ASSUME KnownInv
  PROVE  EntriesInList
<1>1. /\ m_playlist \in Seq(Nat) /\ m_tracks \in Nat /\ m_randomPlaylist \in BOOLEAN
      /\ m_tracks # 0 => Len(m_playlist) = m_tracks
      /\ m_tracks = 0 => m_track = 0
      /\ Numbered(m_playlist)
  BY DEF KnownInv, IInv, ListOf, Unknown
<1>2. \A q, i : Entry(q, i).list = q /\ Entry(q, i).at = i
  BY DEF Entry
<1>3. CASE m_playlist = << >>
  BY <1>2, <1>3 DEF EntriesInList, Following, Preceding, NextEntries, PrevEntries
<1>4. CASE m_playlist # << >> /\ ~Listed(m_playlist, m_track)
  <2>1. 1 \in DOMAIN m_playlist
    BY <1>1, <1>4
  <2> QED
    BY <1>2, <1>4, <2>1 DEF EntriesInList, Following, Preceding, NextEntries, PrevEntries
<1>5. CASE m_playlist # << >> /\ Listed(m_playlist, m_track)
  <2>1. m_tracks # 0
    BY <1>1, <1>5 DEF Listed, Numbered
  <2>2. IndexOf(m_playlist, m_track) \in DOMAIN m_playlist
    BY <1>5 DEF Listed, IndexOf
  <2>3. /\ DOMAIN m_playlist = 1 .. m_tracks /\ Len(m_playlist) = m_tracks /\ m_tracks \in Nat \ {0}
    BY <1>1, <2>1
  <2>4. \A q \in Wrapped(m_playlist, m_tracks, m_randomPlaylist) : DOMAIN q = 1 .. m_tracks
    <3>1. \A q \in Playlists(m_tracks, m_randomPlaylist) : DOMAIN q = 1 .. m_tracks
      BY DEF Playlists, Injection
    <3> QED
      BY <2>3, <3>1 DEF Wrapped
  <2>5. ASSUME NEW e \in Following PROVE e.at \in {0} \cup DOMAIN e.list
    <3>1. \/ e = Entry(m_playlist, IndexOf(m_playlist, m_track) + 1)
             /\ IndexOf(m_playlist, m_track) < Len(m_playlist)
          \/ \E q \in Wrapped(m_playlist, m_tracks, m_randomPlaylist) : e = Entry(q, 1)
          \/ e = Entry(m_playlist, 0)
      BY <1>5, <2>5 DEF Following, NextEntries
    <3> QED
      BY <1>2, <2>2, <2>3, <2>4, <3>1
  <2>6. ASSUME NEW e \in Preceding PROVE e.at \in {0} \cup DOMAIN e.list
    <3>1. \/ e = Entry(m_playlist, IndexOf(m_playlist, m_track) - 1)
             /\ IndexOf(m_playlist, m_track) > 1
          \/ \E q \in Wrapped(m_playlist, m_tracks, m_randomPlaylist) :
               e = Entry(q, Len(m_playlist))
          \/ e = Entry(m_playlist, 0)
      BY <1>5, <2>6 DEF Preceding, PrevEntries
    <3> QED
      BY <1>2, <2>2, <2>3, <2>4, <3>1
  <2> QED
    BY <2>5, <2>6 DEF EntriesInList
<1> QED
  BY <1>3, <1>4, <1>5

\* next(), prev() and the automatic advance never index the playlist outside its
\* bounds, although prev() takes its last index from the list before it is
\* shuffled, and the list outlives the disc it was made for.
THEOREM PlayerEntriesInList ==
  ASSUME ~Unseen
  PROVE  Spec => []EntriesInList
<1>1. KnownInv /\ [Next]_vars => KnownInv'
  BY KnownStep
<1>2. KnownInv => EntriesInList
  BY EntriesListed
<1> QED
  BY <1>1, <1>2, KnownInit, PTL DEF Spec

(***************************************************************************)
(* The invariant the refinement rests on: what is expected remembers the   *)
(* last order as far as the timer asks for it.                             *)
(***************************************************************************)
OrderInv ==
  /\ order \in {"stop", "close"} => m_statusExpected = "Stopped"
  /\ m_statusExpected = "Ejected" => order \in {"eject", "opened"}
TrayInv == ejected \in BOOLEAN /\ (ejected => drive.tray = "open")

OInv == Sane(drive) /\ OrderInv /\ TrayInv

\* A call that does not move the tray changes nothing of it.
LEMMA TrayStays ==
  ASSUME TrayInv, MayEject, drive'.tray = drive.tray
  PROVE  TrayInv' /\ Tray' = Tray
  BY DEF TrayInv, MayEject, Opens, Tray

\* Playing: the application may hear something, the tray does not move.
LEMMA PlayStep ==
  ASSUME OInv, OrderPlay
  PROVE  OInv' /\ P!Play
<1>1. order' = "play" /\ m_statusExpected' = "Playing" /\ MayEject
  BY DEF OrderPlay, Ordered, PlayTrackSlot, PlayPosition, PlayTrack
<1>2. Sane(drive') /\ drive'.tray = drive.tray
  BY PlaySane DEF OrderPlay, PlayTrackSlot, PlayTrack, PlayPosition, PlayTrackPosition, OInv
<1>3. TrayInv' /\ Tray' = Tray
  BY <1>1, <1>2, TrayStays DEF OInv
<1> QED
  BY <1>1, <1>2, <1>3 DEF OInv, OrderInv, P!Play

\* Next, previous, play: an order if there is a track, nothing otherwise.
LEMMA EntryStep ==
  ASSUME OInv, OrderEntry
  PROVE  OInv' /\ (P!Play \/ UNCHANGED P!vars)
<1>1. PICK entries : PlayEntry(entries)
  BY DEF OrderEntry, NextTrack, PrevTrack, Play
<1>2. MayEject /\ order' = IF m_statusExpected' = "Playing" THEN "play" ELSE order
  BY DEF OrderEntry, Ordered
<1>3. \/ m_statusExpected' = "Playing"
         /\ \E t : drive' = PlayTrackPosition(drive, m_tracks, t, 0)
      \/ UNCHANGED <<drive, m_statusExpected>>
  BY <1>1 DEF PlayEntry, PlayTrack
<1>4. Sane(drive') /\ drive'.tray = drive.tray
  BY <1>3, PlaySane DEF PlayTrackPosition, OInv
<1>5. TrayInv' /\ Tray' = Tray
  BY <1>2, <1>4, TrayStays DEF OInv
<1>6. OrderInv'
  BY <1>2, <1>3 DEF OInv, OrderInv
<1>7. CASE m_statusExpected' = "Playing"
  BY <1>2, <1>4, <1>5, <1>6, <1>7 DEF OInv, P!Play
<1>8. CASE m_statusExpected' # "Playing"
  BY <1>2, <1>3, <1>4, <1>5, <1>6, <1>8 DEF OInv, P!vars
<1> QED
  BY <1>7, <1>8

\* pause(), which may start the sound as well.
LEMMA PauseStep ==
  ASSUME OInv, OrderPause
  PROVE  OInv' /\ P!Pause
<1>1. order' = "pause" /\ m_statusExpected' \in {"Playing", "Paused"} /\ MayEject
  BY DEF OrderPause, Ordered, Pause
<1>2. Sane(drive') /\ drive'.tray = drive.tray
  BY PauseSane DEF OrderPause, Pause, OInv
<1>3. TrayInv' /\ Tray' = Tray
  BY <1>1, <1>2, TrayStays DEF OInv
<1> QED
  BY <1>1, <1>2, <1>3 DEF OInv, OrderInv, P!Pause

\* stop() silences the drive, whatever it is shown as.
LEMMA StopStep ==
  ASSUME OInv, OrderStop
  PROVE  OInv' /\ P!Stop
<1>1. order' = "stop" /\ m_statusExpected' = "Stopped" /\ MayEject
  BY DEF OrderStop, Ordered, Stop
<1>2. Sane(drive') /\ drive'.tray = drive.tray /\ drive'.audio # "play"
  BY StopSilences DEF OrderStop, Stop, OInv
<1>3. TrayInv' /\ Tray' = Tray
  BY <1>1, <1>2, TrayStays DEF OInv
<1> QED
  BY <1>1, <1>2, <1>3 DEF OInv, OrderInv, P!Stop

\* eject() stops the disc, and opens the tray if it had stopped.
LEMMA EjectStep ==
  ASSUME OInv, OrderEject
  PROVE  OInv' /\ P!Eject
<1>1. /\ order' = IF drive'.tray = "open" THEN "opened" ELSE "eject"
      /\ m_statusExpected' \in {m_statusExpected, "Ejected"} /\ MayEject
  BY DEF OrderEject, Ordered, EjectPlaying, EjectStopped
<1>2. OrderInv'
  BY <1>1 DEF OInv, OrderInv
<1>3. /\ Sane(drive') /\ drive'.tray \in {drive.tray, "open"}
      /\ drive'.audio = drive.audio \/ drive'.audio # "play"
  BY StopSilences, EjectSane DEF OrderEject, EjectPlaying, EjectStopped, OInv
<1>4. TrayInv' /\ Tray' \in {Tray, "ejected"}
  <2>1. CASE drive'.tray = drive.tray
    BY <1>1, <2>1, TrayStays DEF OInv
  <2>2. CASE drive'.tray = "open" /\ drive.tray # "open"
    <3>1. drive.tray = "closed"
      BY <2>2 DEF OInv, Sane, Sound, Handle
    <3> QED
      BY <1>1, <2>2, <3>1 DEF MayEject, Opens, TrayInv, Tray
  <2> QED
    BY <1>3, <2>1, <2>2
<1>5. (IF order' = "opened" THEN "eject" ELSE order') = "eject"
  BY <1>1
<1>6. (drive'.audio = "play") \in {drive.audio = "play", FALSE}
  BY <1>3
<1> QED
  BY <1>2, <1>3, <1>4, <1>5, <1>6 DEF OInv, P!Eject, P!NoStart

\* eject() closes an open tray.
LEMMA CloseStep ==
  ASSUME OInv, OrderClose
  PROVE  OInv' /\ P!Close
<1>1. order' = "close" /\ m_statusExpected' = "Stopped" /\ MayEject
  BY DEF OrderClose, Ordered, CloseEjected
<1>2. /\ Sane(drive') /\ drive'.tray \in {drive.tray, "closed"}
      /\ drive'.audio = drive.audio \/ drive'.audio # "play"
  BY CloseTraySane DEF OrderClose, CloseEjected, OInv
<1>3. TrayInv' /\ Tray' \in {Tray, "closed"}
  <2>1. CASE drive'.tray = drive.tray
    BY <1>1, <2>1, TrayStays DEF OInv
  <2>2. CASE drive'.tray = "closed"
    BY <1>1, <2>2 DEF MayEject, TrayInv, Tray
  <2> QED
    BY <1>2, <2>1, <2>2
<1>4. (drive'.audio = "play") \in {drive.audio = "play", FALSE}
  BY <1>2
<1> QED
  BY <1>1, <1>2, <1>3, <1>4 DEF OInv, OrderInv, P!Close, P!NoStart

\* The playlist switches order nothing.
LEMMA ModesStep ==
  ASSUME OInv, OrderModes
  PROVE  OInv' /\ UNCHANGED P!vars
<1>1. order' = order /\ MayEject /\ drive' = drive /\ m_statusExpected' = m_statusExpected
  BY DEF OrderModes, Ordered, SetLoopPlaylist, SetRandomPlaylist
<1>2. TrayInv' /\ Tray' = Tray
  BY <1>1, TrayStays DEF OInv
<1> QED
  BY <1>1, <1>2 DEF OInv, OrderInv, P!vars

\* A poll goes on to the next track only after an order to play or to pause,
\* and opens the tray only after one to eject.
LEMMA TimerStep ==
  ASSUME OInv, TimerPoll
  PROVE  OInv' /\ (P!GoesOn \/ P!Ejects \/ P!Silence \/ UNCHANGED P!vars)
<1> DEFINE shown(o) == IF o = "opened" THEN "eject" ELSE o
<1>1. /\ order' = IF Opens /\ order = "eject" THEN "opened" ELSE order
      /\ MayEject /\ m_statusExpected' = m_statusExpected
  BY DEF TimerPoll, Poll, PollSame, PollAdvance, PollChange
<1>2. OrderInv' /\ shown(order') = shown(order)
  BY <1>1 DEF OInv, OrderInv
<1>3. Sane(Looked) /\ Looked.tray = drive.tray /\ Looked.audio = drive.audio
  BY StatusSane DEF OInv, Looked
<1>4. CASE PollSame \/ (PollChange /\ drive' = Looked)
  <2>1. drive' = Looked
    BY <1>4 DEF PollSame
  <2>2. TrayInv' /\ Tray' = Tray
    BY <1>1, <1>3, <2>1, TrayStays DEF OInv
  <2> QED
    BY <1>2, <1>3, <2>1, <2>2 DEF OInv, P!vars
<1>5. CASE PollAdvance
  <2>1. Sane(drive') /\ drive'.tray = drive.tray
    BY <1>3, <1>5, PlaySane DEF PollAdvance, PlayTrackPosition
  <2>2. TrayInv' /\ Tray' = Tray
    BY <1>1, <2>1, TrayStays DEF OInv
  <2>3. order \notin {"stop", "close"}
    BY <1>5 DEF PollAdvance, Advances, OInv, OrderInv
  <2>4. CASE drive'.audio = "play"
    BY <1>2, <2>1, <2>2, <2>3, <2>4 DEF OInv, P!GoesOn
  <2>5. CASE drive'.audio # "play"
    BY <1>2, <2>1, <2>2, <2>5 DEF OInv, P!Silence
  <2> QED
    BY <2>4, <2>5
<1>6. CASE PollChange /\ drive' # Looked
  <2>1. drive' = WmCdEject(Looked) /\ m_statusExpected = "Ejected"
    BY <1>6 DEF PollChange
  <2>2. /\ Sane(drive') /\ drive'.tray \in {drive.tray, "open"}
        /\ drive'.audio = drive.audio \/ drive'.audio # "play"
        /\ drive'.tray # drive.tray => drive'.audio # "play"
    BY <1>3, <2>1, EjectSane
  <2>3. shown(order) = "eject"
    BY <2>1 DEF OInv, OrderInv
  <2>4. CASE drive'.tray = drive.tray
    <3>1. TrayInv' /\ Tray' = Tray
      BY <1>1, <2>4, TrayStays DEF OInv
    <3>2. CASE drive'.audio # "play"
      BY <1>2, <2>2, <3>1, <3>2 DEF OInv, P!Silence
    <3>3. CASE drive'.audio = drive.audio
      BY <1>2, <2>2, <3>1, <3>3 DEF OInv, P!vars
    <3> QED
      BY <2>2, <3>2, <3>3
  <2>5. CASE drive'.tray # drive.tray
    <3>1. drive.tray = "closed" /\ drive'.tray = "open"
      BY <2>2, <2>5 DEF OInv, Sane, Sound, Handle
    <3>2. TrayInv' /\ Tray' = "ejected"
      BY <1>1, <3>1 DEF MayEject, Opens, TrayInv, Tray
    <3> QED
      BY <1>2, <2>2, <2>3, <2>5, <3>2 DEF OInv, P!Ejects
  <2> QED
    BY <2>4, <2>5
<1> QED
  BY <1>4, <1>5, <1>6 DEF TimerPoll, Poll

\* The hardware falls silent by itself, and a person moves the tray.
LEMMA DriveStep ==
  ASSUME OInv, DriveTurns \/ Disturbed
  PROVE  OInv' /\ (P!Silence \/ P!Opened \/ P!Closed \/ UNCHANGED P!vars)
<1>1. /\ order' = order /\ m_statusExpected' = m_statusExpected
      /\ ejected' = ejected \/ ejected' = (ejected /\ drive'.tray = "open")
  BY DEF DriveTurns, Disturbed, Turn, Hardware, history
<1>2. OrderInv'
  BY <1>1 DEF OInv, OrderInv
<1>3. \/ OpenByHand(drive, drive') \/ CloseByHand(drive, drive') \/ SwapDisc(drive, drive')
      \/ SpinUp(drive, drive') \/ TocRecovers(drive, drive') \/ PlayOn(drive, drive')
      \/ AudioFails(drive, drive') \/ StatusDecays(drive, drive')
      \/ PauseTimesOut(drive, drive') \/ Mount(drive, drive')
  BY DEF DriveTurns, Disturbed, Turn, Hardware
<1>4. /\ Sane(drive') /\ (drive'.audio = drive.audio \/ drive'.audio # "play")
      /\ OpenByHand(drive, drive') =>
           drive.tray = "closed" /\ drive'.tray = "open" /\ drive'.audio # "play"
      /\ CloseByHand(drive, drive') => drive'.tray = "closed"
      /\ ~OpenByHand(drive, drive') /\ ~CloseByHand(drive, drive') => drive'.tray = drive.tray
  BY <1>3, HardwareSane DEF OInv
<1>5. CASE OpenByHand(drive, drive')
  <2>1. TrayInv' /\ Tray = "closed" /\ Tray' = "opened"
    BY <1>1, <1>4, <1>5 DEF OInv, TrayInv, Tray
  <2> QED
    BY <1>1, <1>2, <1>4, <1>5, <2>1 DEF OInv, P!Opened
<1>6. CASE CloseByHand(drive, drive')
  <2>1. Disturbed
    <3>1. drive'.tray # drive.tray
      BY <1>4, <1>6 DEF CloseByHand
    <3> QED
      BY <3>1, TurnKeepsTray DEF DriveTurns, Turn, OInv, Sane, Sound
  <2>2. TrayInv' /\ Tray' = "closed"
    BY <1>4, <1>6, <2>1 DEF OInv, TrayInv, Tray, Disturbed
  <2>3. (drive'.audio = "play") \in {drive.audio = "play", FALSE}
    BY <1>4
  <2> QED
    BY <1>1, <1>2, <1>4, <2>2, <2>3 DEF OInv, P!Closed, P!NoStart
<1>7. CASE ~OpenByHand(drive, drive') /\ ~CloseByHand(drive, drive')
  <2>1. TrayInv' /\ Tray' = Tray
    BY <1>1, <1>4, <1>7 DEF OInv, TrayInv, Tray
  <2>2. CASE drive'.audio = drive.audio
    BY <1>1, <1>2, <1>4, <2>1, <2>2 DEF OInv, P!vars
  <2>3. CASE drive'.audio # "play"
    BY <1>1, <1>2, <1>4, <2>1, <2>3 DEF OInv, P!Silence
  <2> QED
    BY <1>4, <2>2, <2>3
<1> QED
  BY <1>5, <1>6, <1>7

\* A new object has been given no order, and its drive is silent.
LEMMA OrdersInitial == OrdersInit => OInv /\ P!Init
<1> SUFFICES ASSUME OrdersInit PROVE OInv /\ P!Init
  OBVIOUS
<1>4. Sane(drive) /\ drive.audio # "play"
  BY OpenedSane DEF OrdersInit, Init
<1>5. drive.tray \in {"open", "closed"}
  BY <1>4 DEF Sane, Sound, Handle
<1>6. order = "none" /\ ejected = FALSE /\ m_statusExpected = "NoDisc"
  BY DEF OrdersInit, Init
<1>7. OInv
  BY <1>4, <1>6 DEF OInv, OrderInv, TrayInv
<1> QED
  BY <1>4, <1>5, <1>6, <1>7 DEF P!Init, Tray

\* Every step of the object and of the drive is a step of Player, or none.
LEMMA OrdersStep ==
  OInv /\ [OrdersNext]_<<vars, history>> => OInv' /\ [P!Next]_P!vars
<1> SUFFICES ASSUME OInv, [OrdersNext]_<<vars, history>> PROVE OInv' /\ [P!Next]_P!vars
  OBVIOUS
<1> USE DEF P!Next, P!Order
<1>1. CASE OrderPlay
  BY <1>1, PlayStep
<1>2. CASE OrderEntry
  BY <1>2, EntryStep
<1>3. CASE OrderPause
  BY <1>3, PauseStep
<1>4. CASE OrderStop
  BY <1>4, StopStep
<1>5. CASE OrderEject
  BY <1>5, EjectStep
<1>6. CASE OrderClose
  BY <1>6, CloseStep
<1>7. CASE OrderModes
  BY <1>7, ModesStep
<1>8. CASE TimerPoll
  BY <1>8, TimerStep
<1>9. CASE DriveTurns \/ Disturbed
  BY <1>9, DriveStep
<1>10. CASE UNCHANGED <<vars, history>>
  BY <1>10 DEF vars, history, OInv, OrderInv, TrayInv, Tray, P!vars
<1> QED
  BY <1>1, <1>2, <1>3, <1>4, <1>5, <1>6, <1>7, <1>8, <1>9, <1>10 DEF OrdersNext

(***************************************************************************)
(* The object with its timer implements Player: stop() silences the drive  *)
(* and nothing starts by itself after that, and the disc comes out by      *)
(* itself only if eject() came last, whatever discs come and go, whatever  *)
(* cannot be read from them, and whatever the slots are called with.       *)
(***************************************************************************)
THEOREM OrdersServed == OrdersSpec => ServesOrders
  BY OrdersInitial, OrdersStep, PTL DEF OrdersSpec, ServesOrders, P!Spec
(***************************************************************************)
(* The order of the tracks.  A drive that sounds, or is shown to, has a    *)
(* current track of the disc whose table of contents it holds (Tracked),   *)
(* and that is the disc the object knows (Serves), for as long as it knows *)
(* one.                                                                    *)
(***************************************************************************)
Sounds(d)   == d.audio \in {"play", "completed"}
Sounding(d) == PlayMode(d.cur_cdmode) \/ Sounds(d)
Tracked(d)  ==
  /\ Sounds(d) => DiscReady(d.oldmode)
  /\ Sounding(d) => HoldsToc(d) /\ d.curtrack \in 1 .. LastTrack(d.trk)
Serves(d, c) == (Ready(d) => d.disc = c) /\ (PlayMode(d.cur_cdmode) => d.trk = c)

Tidy(d) == Sane(d) /\ Fresh(d) /\ Gone(d, FALSE) /\ Tracked(d)

\* What a call that closes no tray leaves of a drive.
Keeps(d, e) ==
  /\ Tidy(e)
  /\ \A c : Serves(d, c) => Serves(e, c)
  /\ SpinsUp(e) => SpinsUp(d)

\* A status that shows playing has found the disc, or goes on to show it.
LEMMA StatusShows ==
  ASSUME NEW d, Sound(d), Gone(d, FALSE), PlayMode(WmCdStatus(d).cur_cdmode)
  PROVE  \/ StatusMode(d) \in {"PLAYING", "TRACK_DONE"}
         \/ StatusMode(d) = "NO_DISC" /\ PlayMode(d.cur_cdmode) /\ ~DeviceChanged(d)
<1> DEFINE s == WmCdStatus(d)
           w == WithToc(d)
<1>1. d \in Handle /\ w \in Handle /\ s.cur_cdmode = ShownMode(SwitchMode(d), w.cur_cdmode)
  BY StatusKeeps, WithTocType DEF Sound
<1>2. StatusMode(d) \in {"PLAYING", "TRACK_DONE"} \/ (StatusMode(d) = "NO_DISC" /\ PlayMode(w.cur_cdmode))
  BY <1>1 DEF ShownMode, SwitchMode, PlayMode
<1>3. SUFFICES ASSUME StatusMode(d) = "NO_DISC", PlayMode(w.cur_cdmode)
               PROVE  PlayMode(d.cur_cdmode) /\ ~DeviceChanged(d)
  BY <1>2
<1>4. w.cur_cdmode \in {d.cur_cdmode, "UNKNOWN"}
  <2>1. CASE DeviceChanged(d)
    BY <1>1, <2>1 DEF WithToc, ReadToc, Handle
  <2>2. CASE ~DeviceChanged(d)
    BY <2>2 DEF WithToc
  <2> QED
    BY <2>1, <2>2
<1>5. PlayMode(d.cur_cdmode)
  BY <1>3, <1>4 DEF PlayMode
<1>6. ASSUME DeviceChanged(d) PROVE FALSE
  <2>1. Ready(d) /\ ~DiscReady(d.oldmode)
    BY <1>1, <1>6, GenModeType DEF DeviceChanged, NoDiscMode, DiscReady
  <2> QED
    BY <1>5, <2>1 DEF Gone
<1> QED
  BY <1>5, <1>6

\* The audio status of a drive that is found playing.
LEMMA FoundSounds ==
  ASSUME NEW d \in Handle, StatusMode(d) \in {"PLAYING", "TRACK_DONE"}
  PROVE  d.audio = IF StatusMode(d) = "PLAYING" THEN "play" ELSE "completed"
<1>1. StatusMode(d) = GenMode(d)
  BY DEF StatusMode
<1>2. GenMode(d) = SubchannelMode(d)
  BY <1>1 DEF GenMode
<1>3. d.audio \in {"play", "paused", "completed", "none", "invalid"}
  BY DEF Handle
<1> QED
  BY <1>1, <1>2, <1>3 DEF SubchannelMode, SubchannelOk

\* wm_cd_status starts no sound, nor shows one, and shows the one it finds; it
\* reads the track under the head of a drive that plays, and keeps the current
\* track of one that has ended, or is gone.
LEMMA StatusSounding ==
  ASSUME NEW d, Sane(d), Gone(d, FALSE), d.audio # "play" => Tracked(d)
  PROVE  LET s == WmCdStatus(d) IN
         /\ Sounding(s) => Sounding(d) /\ PlayMode(s.cur_cdmode)
         /\ Sounding(s) /\ d.audio # "play" =>
              s.curtrack = d.curtrack /\ s.trk = d.trk /\ s.ntracks = d.ntracks
<1> DEFINE s == WmCdStatus(d)
           w == WithToc(d)
<1>1. /\ d \in Handle /\ w \in Handle /\ Sound(d)
      /\ s.audio = d.audio /\ s.cur_cdmode = ShownMode(SwitchMode(d), w.cur_cdmode)
  BY StatusKeeps, WithTocType DEF Sane, Sound
<1>2. s.curtrack = CurTrack(d) /\ s.trk = w.trk /\ s.ntracks = w.ntracks
  BY <1>1 DEF WmCdStatus, Handle
<1>3. PlayMode(s.cur_cdmode) =>
        \/ StatusMode(d) \in {"PLAYING", "TRACK_DONE"} /\ Sounds(d)
        \/ StatusMode(d) = "NO_DISC" /\ PlayMode(d.cur_cdmode) /\ ~DeviceChanged(d)
  BY <1>1, StatusShows, FoundSounds DEF Sounds
<1> HIDE DEF s
<1>4. Sounds(d) => SubchannelMode(d) \in {"PLAYING", "TRACK_DONE"}
                   /\ (d.audio = "completed" => SubchannelMode(d) = "TRACK_DONE")
  BY DEF Sounds, Sane, Heard, SubchannelMode, SubchannelOk
<1>5. Sounds(d) => StatusMode(d) = SubchannelMode(d)
  <2>1. SUFFICES ASSUME Sounds(d) PROVE StatusMode(d) = SubchannelMode(d)
    OBVIOUS
  <2>2. GenMode(d) = SubchannelMode(d)
    BY <1>4, <2>1 DEF GenMode
  <2>3. DiscReady(StatusMode(d))
    BY <2>1, HeardMode DEF Sounds
  <2> QED
    BY <2>2, <2>3 DEF StatusMode, DiscReady
<1>6. Sounds(s) => PlayMode(s.cur_cdmode)
  BY <1>1, <1>4, <1>5 DEF Sounds, PlayMode, ShownMode, SwitchMode, Parked
<1>7. Sounding(s) => Sounding(d) /\ PlayMode(s.cur_cdmode)
  BY <1>3, <1>6 DEF Sounding
<1>8. ASSUME Sounding(s), d.audio # "play"
      PROVE  s.curtrack = d.curtrack /\ s.trk = d.trk /\ s.ntracks = d.ntracks
  <2>1. ~DeviceChanged(d)
    <3>1. CASE Sounds(d)
      BY <1>8, <3>1 DEF Tracked, DeviceChanged, NoDiscMode, DiscReady
    <3>2. CASE ~Sounds(d)
      BY <1>3, <1>7, <1>8, <3>2
    <3> QED
      BY <3>1, <3>2
  <2>2. w = d
    BY <2>1 DEF WithToc
  <2>3. CurTrack(d) = d.curtrack
    <3>1. CASE Sounds(d)
      <4>1. SubchannelMode(d) = "TRACK_DONE" /\ StatusMode(d) = "TRACK_DONE"
        BY <1>4, <1>5, <1>8, <3>1 DEF Sounds
      <4> QED
        BY <4>1 DEF CurTrack, Parked, SwitchMode
    <3>2. CASE ~Sounds(d)
      <4>1. StatusMode(d) = "NO_DISC"
        BY <1>3, <1>7, <1>8, <3>2
      <4>2. GenMode(d) = "NO_DISC"
        BY <2>1, <4>1 DEF StatusMode
      <4>3. SubchannelMode(d) \notin {"PLAYING", "PAUSED"}
        BY <4>2 DEF GenMode
      <4> QED
        BY <4>1, <4>3 DEF CurTrack, Parked, SwitchMode
    <3> QED
      BY <3>1, <3>2
  <2> QED
    BY <1>2, <2>2, <2>3
<1> QED
  BY <1>7, <1>8 DEF s

\* wm_cd_status leaves a current track of the disc, of a drive that sounds.
LEMMA StatusTracked ==
  ASSUME NEW d, Sane(d), Fresh(d), Gone(d, FALSE), d.audio # "play" => Tracked(d)
  PROVE  Tracked(WmCdStatus(d))
<1> DEFINE s == WmCdStatus(d)
<1>1. /\ Sane(s) /\ Sound(s) /\ s \in Handle /\ d \in Handle
      /\ s.audio = d.audio /\ s.oldmode = StatusMode(d) /\ s.head = d.head
      /\ s.disc = d.disc /\ Current(s)
  BY StatusSane, StatusKeeps, StatusCurrent DEF Sane, Sound
<1>2. Sounds(s) => DiscReady(s.oldmode)
  BY <1>1, HeardMode DEF Sounds
<1>3. CASE d.audio = "play"
  <2>1. s.curtrack = TrackAt(s.disc, s.head)
    BY <1>1, <1>3, StatusTrackPlayed
  <2> HIDE DEF s
  <2>2. DiscReady(s.oldmode) /\ HoldsToc(s) /\ s.trk = s.disc /\ s.trk \in Discs
    BY <1>1, <1>2, <1>3 DEF Sounds, Sound, Known, Current, HoldsToc
  <2>3. s.curtrack \in 1 .. LastTrack(s.trk)
    <3>1. s.head \in Nat
      BY <1>1 DEF Handle
    <3> QED
      BY <2>1, <2>2, <3>1, TrackAtType
  <2> QED
    BY <1>2, <2>2, <2>3 DEF Tracked, s
<1>4. CASE d.audio # "play"
  <2>1. Sounding(s) =>
          Sounding(d) /\ s.curtrack = d.curtrack /\ s.trk = d.trk /\ s.ntracks = d.ntracks
    BY <1>4, StatusSounding
  <2> HIDE DEF s
  <2> QED
    BY <1>2, <1>4, <2>1 DEF Tracked, HoldsToc, s
<1> QED
  BY <1>3, <1>4

\* wm_cd_status shows a disc as playing whose tracks are those in use.
LEMMA StatusServes ==
  ASSUME NEW d, Sound(d), Fresh(d), Gone(d, FALSE), NEW c, Serves(d, c)
  PROVE  Serves(WmCdStatus(d), c)
<1> DEFINE s == WmCdStatus(d)
<1>1. /\ d \in Handle /\ s.tray = d.tray /\ s.disc = d.disc /\ s.media = d.media
      /\ s.oldmode = StatusMode(d) /\ Current(s)
  BY StatusKeeps, StatusCurrent DEF Sound
<1>2. s.trk = WithToc(d).trk
  BY WithTocType DEF WmCdStatus, Sound, Handle
<1>3. PlayMode(s.cur_cdmode) =>
        \/ StatusMode(d) \in {"PLAYING", "TRACK_DONE"}
        \/ StatusMode(d) = "NO_DISC" /\ PlayMode(d.cur_cdmode) /\ ~DeviceChanged(d)
  BY StatusShows
<1> HIDE DEF s
<1>4. Ready(s) => s.disc = c
  BY <1>1 DEF Serves, Ready, Loaded
<1>5. ASSUME PlayMode(s.cur_cdmode) PROVE s.trk = c
  <2>1. CASE StatusMode(d) \in {"PLAYING", "TRACK_DONE"}
    BY <1>1, <1>4, <2>1 DEF Current, DiscReady
  <2>2. CASE PlayMode(d.cur_cdmode) /\ ~DeviceChanged(d)
    BY <1>2, <2>2 DEF WithToc, Serves
  <2> QED
    BY <1>3, <1>5, <2>1, <2>2
<1> QED
  BY <1>4, <1>5 DEF Serves, s

\* wm_cd_status of a drive that is tidy, or that has just begun to play.
LEMMA StatusTidy ==
  ASSUME NEW d, Sane(d), Fresh(d), Gone(d, FALSE), d.audio # "play" => Tracked(d)
  PROVE  Keeps(d, WmCdStatus(d))
<1> DEFINE s == WmCdStatus(d)
<1>1. /\ d \in Handle /\ Sane(s) /\ s.tray = d.tray /\ s.disc = d.disc /\ s.media = d.media
      /\ Current(s) /\ Gone(s, TRUE) /\ Tracked(s)
  BY StatusSane, StatusKeeps, StatusCurrent, StatusGone, StatusTracked DEF Sane, Sound
<1>2. \A c : Serves(d, c) => Serves(s, c)
  BY StatusServes DEF Sane
<1> HIDE DEF s
<1>3. Tidy(s)
  BY <1>1 DEF Tidy, Current, Fresh, Gone
<1>4. SpinsUp(s) => SpinsUp(d)
  BY <1>1 DEF SpinsUp, Ready, Loaded
<1> QED
  BY <1>2, <1>3, <1>4 DEF Keeps, s

\* A change that brings no disc and starts no sound.
LEMMA MoveTidy ==
  ASSUME NEW d, Tidy(d), NEW e, Moved(d, e), Sane(e), Fresh(e), Gone(e, FALSE),
         Sounds(e) => Sounds(d)
  PROVE  Tidy(e)
<1>1. Sounding(e) => Sounding(d)
  BY DEF Sounding, Moved
<1> QED
  BY <1>1 DEF Tidy, Tracked, HoldsToc, Moved

\* If none is ready afterwards but the one that was, the disc is served as before.
LEMMA MoveKeeps ==
  ASSUME NEW d, Tidy(d), NEW e, Moved(d, e), Tidy(e),
         Ready(e) => Ready(d) /\ e.disc = d.disc, SpinsUp(e) => SpinsUp(d)
  PROVE  Keeps(d, e)
<1>1. \A c : Serves(d, c) => Serves(e, c)
  BY DEF Serves, Moved
<1> QED
  BY <1>1 DEF Keeps

\* What two calls keep one after the other.
LEMMA KeepsOn ==
  ASSUME NEW d, NEW e, NEW f, Keeps(d, e), Keeps(e, f)
  PROVE  Keeps(d, f)
  BY DEF Keeps

\* A change of what is heard of a disc that stays where it is, and the status after
\* it.
LEMMA HushKeeps ==
  ASSUME NEW d, Tidy(d), NEW e, Moved(d, e), Sane(e), e.tray = d.tray, e.disc = d.disc,
         e.media = d.media, Sounds(e) => Sounds(d)
  PROVE  Keeps(d, e)
<1>1. Ready(e) = Ready(d) /\ SpinsUp(e) = SpinsUp(d)
  BY DEF Ready, Loaded, SpinsUp
<1>2. Fresh(e) /\ Gone(e, FALSE)
  BY <1>1 DEF Tidy, Moved, Fresh, Gone
<1> QED
  BY <1>1, <1>2, MoveTidy, MoveKeeps

\* wm_cd_stop.
LEMMA StopKeeps ==
  ASSUME NEW d, Tidy(d)
  PROVE  Keeps(d, WmCdStop(d))
<1> DEFINE s == WmCdStatus(d)
           t == StopAudio(s)
<1>1. Keeps(d, s)
  BY StatusTidy DEF Tidy
<1> HIDE DEF s
<1>2. Tidy(s) /\ Sane(s) /\ s \in Handle
  BY <1>1 DEF Keeps, Tidy, Sane, Sound
<1>3. Moved(s, t) /\ t.disc = s.disc /\ Sane(t) /\ t.tray = s.tray
  BY <1>2, IoctlMoves, IoctlKeepsDisc, IoctlSane
<1>4. t.media = s.media /\ (Sounds(t) => Sounds(s))
  BY <1>2 DEF StopAudio, Sounds, Handle
<1> HIDE DEF t
<1>5. Keeps(s, t)
  BY <1>2, <1>3, <1>4, HushKeeps
<1>6. Keeps(t, WmCdStatus(t))
  BY <1>5, StatusTidy DEF Keeps, Tidy
<1>7. Keeps(d, WmCdStatus(t))
  BY <1>1, <1>5, <1>6, KeepsOn
<1> QED
  BY <1>1, <1>7 DEF WmCdStop, s, t

\* wm_cd_play.
LEMMA PlayKeeps ==
  ASSUME NEW d, Tidy(d), NEW start, NEW pos, NEW end
  PROVE  Keeps(d, WmCdPlay(d, start, pos, end))
<1> DEFINE s == WmCdStatus(d)
           from == StartFrame(s.trk, start, pos, end)
           upto == EndFrame(s.trk, end)
           p == PlayMsf(s, from, upto)
<1>1. Keeps(d, s) /\ d \in Handle
  BY StatusTidy DEF Tidy, Sane, Sound
<1>2. Keeps(s, WmCdStop(s))
  BY <1>1, StopKeeps DEF Keeps
<1>3. ASSUME ~NoDiscMode(s.cur_cdmode), ~(s.ntracks < 1) PROVE Keeps(s, WmCdStatus(p))
  <2>1. Ready(s) => DiscReady(s.oldmode)
    BY <1>1, <1>3, ShownReady
  <2> HIDE DEF s, from, upto
  <2>2. Tidy(s) /\ Sane(s) /\ s \in Handle
    BY <1>1 DEF Keeps, Tidy, Sane, Sound
  <2>3. CASE p = s
    BY <2>2, <2>3, StatusTidy DEF Tidy
  <2>4. CASE p # s
    <3>1. Ready(s) /\ p = [s EXCEPT !.audio = "play", !.head = from, !.stopAt = upto]
      BY <2>4 DEF PlayMsf
    <3>2. Moved(s, p) /\ Sane(p) /\ p.tray = s.tray /\ p.disc = s.disc
      BY <2>1, <2>2, <3>1, IoctlMoves, IoctlKeepsDisc, PlayMsfSane
    <3>3. p.media = s.media /\ p.audio = "play"
      BY <2>2, <3>1 DEF Handle
    <3> HIDE DEF p
    <3>4. Ready(p) = Ready(s) /\ SpinsUp(p) = SpinsUp(s)
      BY <3>2, <3>3 DEF Ready, Loaded, SpinsUp
    <3>5. Fresh(p) /\ Gone(p, FALSE)
      BY <2>2, <3>2, <3>4 DEF Tidy, Moved, Fresh, Gone
    <3>6. Keeps(p, WmCdStatus(p))
      BY <3>2, <3>3, <3>5, StatusTidy
    <3>7. \A c : Serves(s, c) => Serves(p, c)
      BY <3>2, <3>4 DEF Serves, Moved
    <3> QED
      BY <3>4, <3>6, <3>7 DEF Keeps
  <2> QED
    BY <2>3, <2>4
<1> HIDE DEF s, p
<1>4. Keeps(d, WmCdStop(s))
  BY <1>1, <1>2, KeepsOn
<1>5. ASSUME ~NoDiscMode(s.cur_cdmode), ~(s.ntracks < 1) PROVE Keeps(d, WmCdStatus(p))
  BY <1>1, <1>3, <1>5, KeepsOn
<1> QED
  BY <1>1, <1>4, <1>5 DEF WmCdPlay, s, p

\* wm_cd_pause, which reads the current track before it resumes.
LEMMA PauseKeeps ==
  ASSUME NEW d, Tidy(d)
  PROVE  Keeps(d, WmCdPause(d))
<1> DEFINE s == WmCdStatus(d)
<1>1. /\ Keeps(d, s) /\ d \in Handle /\ s.oldmode = StatusMode(d) /\ s.audio = d.audio
      /\ s.cur_cdmode = ShownMode(SwitchMode(d), WithToc(d).cur_cdmode) /\ s.head = d.head
  BY StatusTidy, StatusKeeps DEF Tidy, Sane, Sound
<1>2. s.curtrack = CurTrack(d) /\ s.trk = WithToc(d).trk
  BY <1>1, WithTocType DEF WmCdStatus, Handle
<1> HIDE DEF s
<1>3. Tidy(s) /\ Sane(s) /\ Sound(s) /\ s \in Handle
  BY <1>1 DEF Keeps, Tidy, Sane, Sound
<1>4. Keeps(s, PauseAudio(s))
  <2> DEFINE e == PauseAudio(s)
  <2>1. Moved(s, e) /\ e.disc = s.disc /\ Sane(e) /\ e.tray = s.tray
    BY <1>3, IoctlMoves, IoctlKeepsDisc, IoctlSane
  <2>2. e.media = s.media /\ (Sounds(e) => Sounds(s))
    BY <1>3 DEF PauseAudio, Sounds, Handle
  <2> HIDE DEF e
  <2>3. Keeps(s, e)
    BY <1>3, <2>1, <2>2, HushKeeps
  <2> QED
    BY <2>3 DEF e
<1>5. ASSUME s.cur_cdmode = "PAUSED" PROVE Keeps(s, ResumeAudio(s))
  <2> DEFINE e == ResumeAudio(s)
  <2>1. Moved(s, e) /\ e.disc = s.disc /\ Sane(e) /\ e.tray = s.tray
    BY <1>3, IoctlMoves, IoctlKeepsDisc, IoctlSane
  <2>2. e.media = s.media /\ (s.audio # "paused" => e = s)
    BY <1>3 DEF ResumeAudio, Handle
  <2> HIDE DEF e
  <2>3. Ready(e) = Ready(s) /\ SpinsUp(e) = SpinsUp(s)
    BY <2>1, <2>2 DEF Ready, Loaded, SpinsUp
  <2>4. Fresh(e) /\ Gone(e, FALSE)
    BY <1>3, <2>1, <2>3 DEF Tidy, Moved, Fresh, Gone
  <2>5. CASE s.audio = "paused"
    <3>1. DiscReady(StatusMode(d))
      BY <1>1, <2>5, HeardMode DEF Tidy
    <3>2. SwitchMode(d) = "PAUSED" /\ ~Parked(d)
      BY <1>1, <1>5, <3>1 DEF ShownMode, SwitchMode, DiscReady
    <3>3. s.curtrack = TrackAt(s.trk, d.head)
      BY <1>2, <3>2 DEF CurTrack
    <3>4. DiscReady(s.oldmode) /\ HoldsToc(s) /\ s.trk \in Discs
      BY <1>1, <1>3, <3>1 DEF Sound, Known, HoldsToc
    <3>5. s.curtrack \in 1 .. LastTrack(s.trk)
      BY <1>1, <3>3, <3>4, TrackAtType DEF Handle
    <3>6. Tidy(e)
      BY <2>1, <2>4, <3>4, <3>5 DEF Tidy, Tracked, Moved, HoldsToc
    <3>7. Keeps(s, e)
      BY <1>3, <2>1, <2>3, <3>6, MoveKeeps
    <3> QED
      BY <3>7 DEF e
  <2>6. CASE s.audio # "paused"
    BY <1>3, <2>2, <2>6 DEF Keeps, e
  <2> QED
    BY <2>5, <2>6
<1>6. Keeps(d, PauseAudio(s)) /\ (s.cur_cdmode = "PAUSED" => Keeps(d, ResumeAudio(s)))
  BY <1>1, <1>4, <1>5, KeepsOn
<1> QED
  BY <1>1, <1>6 DEF WmCdPause, s

\* wm_cd_eject.
LEMMA EjectKeeps ==
  ASSUME NEW d, Tidy(d)
  PROVE  Keeps(d, WmCdEject(d)) /\ (~d.held => WmCdEject(d).tray = "open")
<1> DEFINE t == EjectTray(d)
<1>1. d \in Handle /\ Sane(d)
  BY DEF Tidy, Sane, Sound
<1>2. Moved(d, t) /\ Sane(t) /\ t.tray = "open" /\ t.disc = d.disc
  BY <1>1, IoctlMoves, IoctlKeepsDisc, TraySane
<1>3. Sounds(t) => Sounds(d)
  BY <1>1 DEF EjectTray, MoveTray, Sounds, Handle
<1> HIDE DEF t
<1>4. ~Ready(t) /\ ~SpinsUp(t)
  BY <1>2 DEF Ready, Loaded, SpinsUp
<1>5. Fresh(t) /\ Gone(t, FALSE)
  BY <1>2, <1>4 DEF Tidy, Moved, Fresh, Gone
<1>6. Keeps(d, t)
  BY <1>2, <1>3, <1>4, <1>5, MoveTidy, MoveKeeps
<1>7. Keeps(t, WmCdStatus(t)) /\ WmCdStatus(t).tray = "open"
  BY <1>2, <1>6, StatusTidy, StatusKeeps DEF Keeps, Tidy, Moved
<1>8. Keeps(d, WmCdStatus(t))
  BY <1>6, <1>7, KeepsOn
<1>9. Keeps(d, d)
  BY DEF Keeps
<1> QED
  BY <1>7, <1>8, <1>9 DEF WmCdEject, t

\* wm_cd_closetray.
LEMMA CloseTidy ==
  ASSUME NEW d, Tidy(d)
  PROVE  Tidy(WmCdCloseTray(d))
<1> DEFINE s == WmCdStatus(d)
           t == CloseTray(s)
<1>1. Tidy(s) /\ Gone(s, TRUE)
  BY StatusTidy, StatusGone DEF Tidy, Keeps, Sane
<1> HIDE DEF s
<1>2. Sane(s) /\ s \in Handle
  BY <1>1 DEF Tidy, Sane, Sound
<1>3. Moved(s, t) /\ t.disc = s.disc /\ Sane(t) /\ Gone(t, FALSE)
  BY <1>1, <1>2, IoctlMoves, IoctlKeepsDisc, TraySane, IoctlGone DEF Sane
<1>4. Sounds(t) => Sounds(s)
  BY <1>2 DEF CloseTray, MoveTray, Sounds, Handle
<1> HIDE DEF t
<1>5. Fresh(t)
  BY <1>1, <1>3 DEF Tidy, Moved, Fresh
<1>6. Tidy(t)
  BY <1>1, <1>3, <1>4, <1>5, MoveTidy
<1>7. Tidy(WmCdStatus(t))
  BY <1>6, StatusTidy DEF Tidy, Keeps
<1> QED
  BY <1>1, <1>7 DEF WmCdCloseTray, s, t

\* One change of a drive the timer has looked at: only a disc that spins up
\* gets ready.
LEMMA HardwareTidy ==
  ASSUME NEW d, Tidy(d), Current(d), Gone(d, TRUE), NEW e,
         \/ OpenByHand(d, e) \/ CloseByHand(d, e) \/ SwapDisc(d, e)
         \/ SpinUp(d, e) \/ TocRecovers(d, e) \/ PlayOn(d, e) \/ AudioFails(d, e)
         \/ StatusDecays(d, e) \/ PauseTimesOut(d, e) \/ Mount(d, e)
  PROVE  Tidy(e) /\ (~SpinsUp(d) => \A c : Serves(d, c) => Serves(e, c))
<1>1. d \in Handle /\ Sane(d) /\ Sound(d)
  BY DEF Tidy, Sane, Sound
<1>2. Moved(d, e) /\ Sane(e) /\ Fresh(e) /\ Gone(e, FALSE)
  BY <1>1, HardwareMoves, HardwareSane, HardwareFresh, HardwareGone
<1>3. CASE OpenByHand(d, e) \/ CloseByHand(d, e)
  <2>1. e.media = "spinup" /\ e.audio = "none"
    BY <1>1, <1>3 DEF OpenByHand, CloseByHand, MoveTray, Handle
  <2>2. ~Ready(e) /\ ~Sounds(e)
    BY <2>1 DEF Ready, Sounds
  <2> QED
    BY <1>2, <2>2, MoveTidy DEF Serves, Moved
<1>4. CASE SwapDisc(d, e)
  <2>1. Ready(e) = FALSE /\ e.audio = d.audio
    BY <1>1, <1>4 DEF SwapDisc, Ready, Loaded, Handle
  <2> QED
    BY <1>2, <2>1, MoveTidy DEF Serves, Moved, Sounds
<1>5. CASE SpinUp(d, e)
  <2>1. SpinsUp(d) /\ Sounds(e) = FALSE
    BY <1>1, <1>5 DEF SpinUp, SpunUp, Sounds, Handle
  <2> QED
    BY <1>2, <2>1, MoveTidy
<1>6. CASE \/ TocRecovers(d, e) \/ PlayOn(d, e) \/ AudioFails(d, e)
           \/ StatusDecays(d, e) \/ PauseTimesOut(d, e) \/ Mount(d, e)
  <2>1. /\ e.disc = d.disc /\ (Ready(e) => Ready(d)) /\ (Sounds(e) => Sounds(d))
    <3>1. CASE TocRecovers(d, e) \/ Mount(d, e)
      BY <1>1, <3>1 DEF TocRecovers, Mount, Sounds, Handle
    <3>2. CASE PlayOn(d, e) \/ AudioFails(d, e) \/ StatusDecays(d, e) \/ PauseTimesOut(d, e)
      BY <1>1, <3>2 DEF PlayOn, AudioFails, StatusDecays, PauseTimesOut, Ready, Loaded,
                        Sounds, Handle
    <3> QED
      BY <1>6, <3>1, <3>2
  <2> QED
    BY <1>2, <2>1, MoveTidy DEF Serves, Moved
<1> QED
  BY <1>3, <1>4, <1>5, <1>6

\* wm_cd_init leaves a tidy drive.
LEMMA OpenedTidy ==
  ASSUME NEW d, Opened(d)
  PROVE  Tidy(d) /\ Current(d) /\ d.audio # "play"
<1>1. PICK h \in IdleHardware : d = WmCdStatus(NewHandle(h))
  BY DEF Opened, WmCdInit
<1> DEFINE n == NewHandle(h)
<1>2. h.audio \notin {"play", "paused", "completed"}
  BY IdleSilent
<1>3. n.audio = h.audio /\ n.cur_cdmode = "INITIAL" /\ n.oldmode = "UNKNOWN"
  BY DEF NewHandle
<1>4. Sound(n) /\ d = WmCdStatus(n)
  BY <1>1, NewHandleSound
<1> HIDE DEF n
<1>5. Sane(n) /\ Fresh(n) /\ Gone(n, FALSE) /\ Tracked(n)
  BY <1>2, <1>3, <1>4 DEF Sane, Heard, Fresh, DiscReady, Gone, PlayMode, Tracked, Sounds, Sounding
<1>6. Tidy(d)
  BY <1>4, <1>5, StatusTidy DEF Keeps
<1> QED
  BY <1>6, OpenedSane, OpenedCurrent

(***************************************************************************)
(* The invariant when the timer sees every change: while a disc is known   *)
(* the drive serves it or none, so the current track is one of its tracks, *)
(* and the playlist, unless it is a random one, has them in order.         *)
(***************************************************************************)
InOrder(tracks, random, p) == tracks # 0 /\ ~random => p = [i \in 1 .. tracks |-> i]
FollowInv ==
  /\ KnownInv /\ Tidy(drive) /\ (seen => Current(drive))
  /\ InOrder(m_tracks, m_randomPlaylist, m_playlist)
  /\ m_track <= m_tracks
  /\ m_status \in {"NoDisc", "Ejected"} => m_tracks = 0
  /\ m_tracks # 0 => Serves(drive, m_discId) /\ (SpinsUp(drive) => ~seen)

\* A new object knows no disc.
LEMMA FollowInit == Init => FollowInv
<1> SUFFICES ASSUME Init PROVE FollowInv
  OBVIOUS
<1>1. KnownInv /\ Tidy(drive) /\ Current(drive)
  BY KnownInit, OpenedTidy DEF Init
<1>2. m_tracks = 0 /\ m_track = 0
  BY DEF Init
<1> QED
  BY <1>1, <1>2 DEF FollowInv, InOrder

\* next() and prev() leave a playlist in order.
LEMMA EntryInOrder ==
  ASSUME FollowInv, NEW e \in Following \cup Preceding
  PROVE  InOrder(m_tracks, m_randomPlaylist, e.list)
<1>1. e.list = m_playlist \/ m_randomPlaylist
  BY EntriesList DEF Following, Preceding
<1> QED
  BY <1>1 DEF FollowInv, InOrder

\* No slot brings a disc while one is known: eject() closes the tray only when
\* none is.
LEMMA FollowSlot ==
  ASSUME FollowInv,
         \/ PlayTrackSlot \/ PlayPosition \/ NextTrack \/ PrevTrack \/ Play
         \/ Pause \/ Stop \/ EjectPlaying \/ EjectStopped \/ CloseEjected
         \/ SetLoopPlaylist \/ SetRandomPlaylist
  PROVE  FollowInv'
<1>1. KnownInv' /\ Tidy(drive) /\ Sound(drive) /\ Fresh(drive)
  BY KnownSlot DEF FollowInv, Tidy, Sane
<1>2. /\ m_status' = m_status /\ m_track' = m_track /\ m_tracks' = m_tracks
      /\ m_discId' = m_discId /\ seen' = seen
  BY DEF PlayTrackSlot, PlayPosition, NextTrack, PrevTrack, Play, PlayEntry, Pause, Stop,
         EjectPlaying, EjectStopped, CloseEjected, SetLoopPlaylist, SetRandomPlaylist, disc
<1>3. Keeps(drive, drive)
  BY <1>1 DEF Keeps
<1>4. ASSUME NEW tracks, NEW track, NEW pos
      PROVE  LET e == PlayTrackPosition(drive, tracks, track, pos) IN
             Keeps(drive, e) /\ Current(e)
  BY <1>1, PlayKeeps, PlayCurrent DEF PlayTrackPosition
<1>5. /\ Keeps(drive, drive') \/ (m_tracks = 0 /\ Tidy(drive'))
      /\ seen => Current(drive')
  <2>1. CASE PlayTrackSlot \/ PlayPosition
    BY <1>4, <2>1 DEF PlayTrackSlot, PlayTrack, PlayPosition
  <2>2. CASE NextTrack \/ PrevTrack \/ Play
    <3>1. \/ \E e : PlayTrack(TrackOf(e))
          \/ UNCHANGED drive
      BY <2>2 DEF NextTrack, PrevTrack, Play, PlayEntry
    <3>2. CASE UNCHANGED drive
      BY <1>3, <3>2 DEF FollowInv
    <3>3. CASE \E e : PlayTrack(TrackOf(e))
      BY <1>4, <3>3 DEF PlayTrack
    <3> QED
      BY <3>1, <3>2, <3>3
  <2>3. CASE Pause
    BY <1>1, <2>3, PauseKeeps, PauseCurrent DEF Pause
  <2>4. CASE Stop \/ EjectPlaying
    BY <1>1, <2>4, StopKeeps, StopCurrent DEF Stop, EjectPlaying
  <2>5. CASE EjectStopped
    <3>1. drive' = WmCdEject(drive) /\ Keeps(drive, drive')
      BY <1>1, <2>5, EjectKeeps DEF EjectStopped
    <3>2. CASE drive.held
      BY <3>1, <3>2 DEF WmCdEject, FollowInv
    <3>3. CASE ~drive.held
      BY <1>1, <3>1, <3>3, TrayCurrent
    <3> QED
      BY <3>1, <3>2, <3>3
  <2>6. CASE CloseEjected
    <3>1. m_tracks = 0
      BY <2>6 DEF CloseEjected, FollowInv
    <3> QED
      BY <1>1, <2>6, <3>1, CloseTidy, TrayCurrent DEF CloseEjected
  <2>7. CASE SetLoopPlaylist \/ SetRandomPlaylist
    BY <1>3, <2>7 DEF SetLoopPlaylist, SetRandomPlaylist, FollowInv
  <2> QED
    BY <2>1, <2>2, <2>3, <2>4, <2>5, <2>6, <2>7
<1>6. InOrder(m_tracks', m_randomPlaylist', m_playlist')
  <2>1. CASE NextTrack \/ PrevTrack \/ Play
    <3>1. /\ \E e \in Following \cup Preceding : m_playlist' = e.list
          /\ m_randomPlaylist' = m_randomPlaylist
      BY <2>1 DEF NextTrack, PrevTrack, Play, PlayEntry, modes
    <3> QED
      BY <1>2, <3>1, EntryInOrder
  <2>2. CASE SetRandomPlaylist
    BY <1>2, <2>2 DEF SetRandomPlaylist, Playlists, InOrder
  <2>3. CASE \/ PlayTrackSlot \/ PlayPosition \/ Pause \/ Stop \/ EjectPlaying \/ EjectStopped
             \/ CloseEjected \/ SetLoopPlaylist
    <3>1. m_playlist' = m_playlist /\ m_randomPlaylist' = m_randomPlaylist
      BY <2>3 DEF PlayTrackSlot, PlayPosition, Pause, Stop, EjectPlaying, EjectStopped,
                  CloseEjected, SetLoopPlaylist, modes
    <3> QED
      BY <1>2, <3>1 DEF FollowInv
  <2> QED
    BY <2>1, <2>2, <2>3
<1>7. Tidy(drive') /\ (m_tracks # 0 => Serves(drive', m_discId) /\ (SpinsUp(drive') => ~seen))
  BY <1>5 DEF Keeps, FollowInv
<1> QED
  BY <1>1, <1>2, <1>5, <1>6, <1>7 DEF FollowInv

\* A disc just found is the one the drive serves.
LEMMA FoundServes ==
  ASSUME NEW d, Sound(d), Fresh(d), WmCdGetCountOfTracks(WmCdStatus(d)) > 0
  PROVE  Serves(WmCdStatus(d), WmCdStatus(d).trk)
<1> DEFINE s == WmCdStatus(d)
<1>1. Current(s) /\ d \in Handle /\ s \in Handle
  BY StatusCurrent, StatusSound DEF Sound
<1>2. ~NoDiscMode(s.cur_cdmode) /\ ~(s.ntracks < 1)
  BY <1>1 DEF WmCdGetCountOfTracks, Handle
<1>3. Ready(s) => DiscReady(s.oldmode)
  BY <1>1, <1>2, ShownReady
<1> HIDE DEF s
<1> QED
  BY <1>1, <1>3 DEF Current, Serves, s

\* A drive that spins up is shown without a disc.
LEMMA SpinsUpShown ==
  ASSUME NEW d, Sound(d), SpinsUp(d)
  PROVE  WmCdStatus(d).cur_cdmode = "NO_DISC"
<1>1. d \in Handle /\ ~Ready(d) /\ Loaded(d)
  BY DEF Sound, SpinsUp
<1>2. GenMode(d) = "UNKNOWN"
  <2>1. SubchannelMode(d) = "UNKNOWN"
    BY <1>1 DEF SubchannelMode, SubchannelOk
  <2>2. DriveStatus(d) = "not_ready"
    BY <1>1 DEF DriveStatus, Loaded, Ready
  <2> QED
    BY <2>1, <2>2 DEF GenMode
<1>3. StatusMode(d) = "UNKNOWN" /\ SwitchMode(d) = "UNKNOWN"
  BY <1>2 DEF StatusMode, DeviceChanged, DiscReady, SwitchMode, Parked
<1> QED
  BY <1>1, <1>3, StatusKeeps DEF ShownMode

\* What a poll finds in the drive.
LEMMA PollLooks ==
  ASSUME FollowInv
  PROVE  /\ Keeps(drive, Looked) /\ Tidy(Looked) /\ Current(Looked) /\ Sound(Looked)
         /\ Shown = "Playing" <=> PlayMode(Looked.cur_cdmode)
         /\ Sounding(Looked) => Shown = "Playing"
         /\ SpinsUp(drive) => Shown = "NoDisc"
<1>1. Tidy(drive) /\ Sane(drive) /\ Sound(drive) /\ Fresh(drive) /\ Gone(drive, FALSE)
      /\ Tracked(drive)
  BY DEF FollowInv, Tidy, Sane
<1>2. Keeps(drive, Looked) /\ Current(Looked)
  BY <1>1, StatusTidy, StatusCurrent DEF Looked
<1>3. Tidy(Looked) /\ Sound(Looked)
  BY <1>2 DEF Keeps, Tidy, Sane
<1>4. Shown = "Playing" <=> PlayMode(Looked.cur_cdmode)
  BY DEF Shown, DiscStatusTranslate, PlayMode
<1>5. Sounding(Looked) => PlayMode(Looked.cur_cdmode)
  BY <1>1, StatusSounding DEF Looked
<1>6. SpinsUp(drive) => Shown = "NoDisc"
  BY <1>1, SpinsUpShown DEF Looked, Shown, DiscStatusTranslate
<1> QED
  BY <1>2, <1>3, <1>4, <1>5, <1>6

\* What a poll leaves of it.
LEMMA PollLeaves ==
  ASSUME FollowInv, Poll
  PROVE  /\ Keeps(Looked, drive') /\ Current(drive')
         /\ Shown = "Playing" => drive' = Looked
<1>1. Tidy(Looked) /\ Current(Looked) /\ Sound(Looked) /\ Fresh(Looked)
  BY PollLooks DEF Tidy
<1>2. Keeps(Looked, Looked)
  BY <1>1 DEF Keeps
<1>3. CASE PollSame
  BY <1>1, <1>2, <1>3 DEF PollSame
<1>4. CASE PollAdvance
  <2>1. PICK e : drive' = PlayTrackPosition(Looked, m_tracks, TrackOf(e), 0)
    BY <1>4 DEF PollAdvance
  <2>2. Keeps(Looked, drive') /\ Current(drive')
    BY <1>1, <2>1, PlayKeeps, PlayCurrent DEF PlayTrackPosition
  <2> QED
    BY <1>4, <2>2 DEF PollAdvance, Advances
<1>5. CASE PollChange
  <2>1. CASE drive' = Looked
    BY <1>1, <1>2, <2>1
  <2>2. CASE drive' # Looked
    <3>1. Shown = "Stopped" /\ drive' = WmCdEject(Looked) /\ ~Looked.held
      BY <1>5, <2>2 DEF PollChange, WmCdEject
    <3> QED
      BY <1>1, <3>1, EjectKeeps, TrayCurrent
  <2> QED
    BY <2>1, <2>2
<1> QED
  BY <1>3, <1>4, <1>5 DEF Poll

\* The current track after a poll is that of a drive shown as playing, or the one
\* before it, or none.
LEMMA PollTrack ==
  ASSUME Poll
  PROVE  \/ m_track' \in {0, m_track}
         \/ /\ PollSame \/ PollChange
            /\ m_status' = "Playing" /\ Shown = "Playing"
            /\ m_track' = WmCdGetCurTrack(drive')
<1>1. CASE PollAdvance
  BY <1>1 DEF PollAdvance
<1>2. CASE PollSame \/ PollChange
  <2>1. UpdateTrack /\ m_status' = Shown
    BY <1>2 DEF PollSame, PollChange
  <2> QED
    BY <1>2, <2>1 DEF UpdateTrack
<1> QED
  BY <1>1, <1>2 DEF Poll

\* timerExpired reads the tracks of the disc in the drive, forgets a disc that has
\* gone before another is ready, and shows a track of the disc it knows.
LEMMA FollowPoll ==
  ASSUME FollowInv, Poll
  PROVE  FollowInv'
<1>1. KnownInv' /\ IInv' /\ seen' = TRUE
  BY KnownPoll DEF FollowInv, KnownInv, Poll, PollSame, PollAdvance, PollChange
<1>2. /\ Keeps(drive, Looked) /\ Tidy(Looked) /\ Current(Looked) /\ Sound(Looked)
      /\ Shown = "Playing" <=> PlayMode(Looked.cur_cdmode)
      /\ SpinsUp(drive) => Shown = "NoDisc"
  BY PollLooks
<1>3. /\ Keeps(Looked, drive') /\ Current(drive')
      /\ Shown = "Playing" => drive' = Looked
  BY PollLeaves
<1>4. Keeps(drive, drive') /\ Tidy(drive')
  BY <1>2, <1>3, KeepsOn DEF Keeps
<1>5. m_tracks \in Nat /\ m_track \in Nat /\ m_tracks' \in Nat /\ m_track' \in Nat
      /\ (m_tracks = 0 => m_track = 0) /\ (m_status' = "Playing" => m_tracks' # 0)
      /\ m_track <= m_tracks
  BY <1>1 DEF FollowInv, KnownInv, IInv, Unknown, PlayingDiscKnown
<1>6. \/ m_tracks' = m_tracks /\ m_discId' = m_discId
      \/ m_status' \in {"Ejected", "NoDisc"} /\ m_status' # m_status /\ m_tracks' = 0
      \/ /\ m_tracks = 0 /\ WmCdGetCountOfTracks(drive') > 0 /\ m_discId' = drive'.trk
         /\ m_playlist' \in Playlists(m_tracks', m_randomPlaylist)
  <2>1. CASE PollSame \/ PollAdvance
    BY <2>1 DEF PollSame, PollAdvance, disc
  <2>2. CASE PollChange
    <3>1. UpdateDisc /\ m_status' # m_status
      BY <2>2 DEF PollChange
    <3> QED
      BY <3>1 DEF UpdateDisc, disc
  <2> QED
    BY <2>1, <2>2 DEF Poll
<1>7. m_status' \in {"NoDisc", "Ejected"} => m_tracks' = 0
  <2>1. CASE PollSame \/ PollAdvance
    BY <2>1 DEF PollSame, PollAdvance, disc, FollowInv
  <2>2. CASE PollChange
    BY <2>2 DEF PollChange, UpdateDisc
  <2> QED
    BY <2>1, <2>2 DEF Poll
<1>8. SpinsUp(drive') => m_tracks' = 0
  <2>1. SUFFICES ASSUME SpinsUp(drive') PROVE m_tracks' = 0
    OBVIOUS
  <2>2. Shown = "NoDisc"
    BY <1>2, <1>4, <2>1 DEF Keeps
  <2>3. m_status' = "NoDisc"
    BY <2>2 DEF Poll, PollSame, PollAdvance, PollChange, Advances
  <2> QED
    BY <1>7, <2>3
<1>9. m_tracks' # 0 => Serves(drive', m_discId')
  <2>1. CASE m_tracks' = m_tracks /\ m_discId' = m_discId
    BY <1>4, <2>1 DEF FollowInv, Keeps
  <2>2. CASE WmCdGetCountOfTracks(drive') > 0 /\ m_discId' = drive'.trk
    <3>1. CASE drive' = Looked
      BY <2>2, <3>1, FoundServes DEF Looked, FollowInv, Tidy, Sane
    <3>2. CASE drive' # Looked /\ ~PollAdvance
      <4>1. drive' = WmCdEject(Looked) /\ ~Looked.held
        BY <3>2 DEF Poll, PollSame, PollChange, WmCdEject
      <4>2. drive'.tray = "open"
        BY <1>2, <4>1, EjectKeeps
      <4> QED
        BY <2>2, <4>2 DEF Serves, Ready, Loaded
    <3>3. CASE PollAdvance
      BY <2>1, <3>3 DEF PollAdvance, disc
    <3> QED
      BY <3>1, <3>2, <3>3
  <2> QED
    BY <1>6, <2>1, <2>2
<1>10. m_track' <= m_tracks'
  <2>1. CASE m_track' \in {0, m_track}
    <3>1. CASE m_status' \in {"Ejected", "NoDisc"} /\ m_status' # m_status
      <4>1. UpdateTrack
        BY <3>1 DEF Poll, PollSame, PollAdvance, PollChange
      <4>2. m_track' = 0
        BY <3>1, <4>1 DEF UpdateTrack
      <4> QED
        BY <1>5, <4>2
    <3>2. CASE ~(m_status' \in {"Ejected", "NoDisc"} /\ m_status' # m_status)
      BY <1>5, <1>6, <2>1, <3>2
    <3> QED
      BY <3>1, <3>2
  <2>2. CASE m_status' = "Playing" /\ Shown = "Playing" /\ m_track' = WmCdGetCurTrack(drive')
    <3>1. drive' = Looked /\ PlayMode(drive'.cur_cdmode)
      BY <1>2, <1>3, <2>2
    <3>2. m_track' = drive'.curtrack
      BY <2>2, <3>1 DEF WmCdGetCurTrack, PlayMode, NoDiscMode
    <3>3. drive'.curtrack \in 1 .. LastTrack(drive'.trk)
      BY <1>4, <3>1 DEF Tidy, Tracked, Sounding
    <3>4. drive'.trk = m_discId' /\ m_tracks' = LastTrack(m_discId')
      BY <1>1, <1>5, <1>9, <2>2, <3>1 DEF Serves, IInv, ListOf
    <3> QED
      BY <1>5, <3>2, <3>3, <3>4
  <2> QED
    BY <2>1, <2>2, PollTrack
<1>11. InOrder(m_tracks', m_randomPlaylist', m_playlist')
  <2>1. m_randomPlaylist' = m_randomPlaylist
    BY DEF Poll, PollSame, PollAdvance, PollChange, modes
  <2>2. CASE m_tracks' = 0 \/ m_playlist' \in Playlists(m_tracks', m_randomPlaylist)
    BY <2>1, <2>2 DEF InOrder, Playlists
  <2>3. CASE m_tracks' = m_tracks /\ m_playlist' = m_playlist
    BY <2>1, <2>3 DEF FollowInv
  <2>4. CASE PollAdvance
    <3>1. m_tracks' = m_tracks /\ \E e \in Following : m_playlist' = e.list
      BY <2>4 DEF PollAdvance, disc
    <3> QED
      BY <2>1, <3>1, EntryInOrder
  <2>5. CASE PollSame
    BY <2>3, <2>5 DEF PollSame, disc
  <2>6. CASE PollChange
    <3>1. UpdateDisc
      BY <2>6 DEF PollChange
    <3> QED
      BY <2>2, <2>3, <3>1 DEF UpdateDisc, disc
  <2> QED
    BY <2>4, <2>5, <2>6 DEF Poll
<1> QED
  BY <1>1, <1>3, <1>4, <1>7, <1>8, <1>9, <1>10, <1>11 DEF FollowInv

\* Every step preserves it: a disc that spins up is ready only after a poll has
\* forgotten the one before.
LEMMA FollowStep ==
  ASSUME ~Unseen, FollowInv, [Next]_vars
  PROVE  FollowInv'
<1>1. CASE Hardware \/ Turn
  <2>1. /\ seen = TRUE /\ seen' = FALSE /\ m_status' = m_status /\ m_track' = m_track
        /\ m_tracks' = m_tracks /\ m_discId' = m_discId /\ m_playlist' = m_playlist
        /\ m_randomPlaylist' = m_randomPlaylist
    BY <1>1 DEF Hardware, Turn, disc, modes, FollowInv, KnownInv, IInv
  <2>2. KnownInv'
    BY <1>1, KnownStep DEF Next, FollowInv
  <2>3. Tidy(drive) /\ Current(drive) /\ Gone(drive, TRUE)
    BY <2>1 DEF FollowInv, KnownInv, Unknown
  <2>4. Tidy(drive') /\ (~SpinsUp(drive) => \A c : Serves(drive, c) => Serves(drive', c))
    BY <1>1, <2>3, HardwareTidy DEF Hardware, Turn
  <2>5. m_tracks # 0 => Serves(drive', m_discId)
    BY <2>1, <2>4 DEF FollowInv
  <2> QED
    BY <2>1, <2>2, <2>4, <2>5 DEF FollowInv
<1>2. CASE Poll
  BY <1>2, FollowPoll
<1>3. CASE UNCHANGED vars
  <2>1. KnownInv'
    BY KnownStep DEF FollowInv
  <2> QED
    BY <1>3, <2>1 DEF vars, disc, modes, FollowInv
<1> QED
  BY <1>1, <1>2, <1>3, FollowSlot DEF Next

(***************************************************************************)
(* What plays while no order has come since the last poll is the current   *)
(* track or the one that follows it in the playlist; and the one that is   *)
(* under the head at a poll is still there a second later, or is the       *)
(* current track.                                                          *)
(***************************************************************************)
HeadTrack(d) == TrackAt(d.disc, d.head)
Allowed(t) == t = m_track \/ Successor(m_playlist, m_track, t)
Orderly ==
  tick # 0 /\ m_track # 0 /\ ~m_randomPlaylist =>
    /\ Sounding(drive) => Allowed(drive.curtrack)
    /\ drive.audio = "play" => Allowed(HeadTrack(drive))
    /\ seen /\ drive.audio = "play" =>
         HeadTrack(drive) \in {m_track, TrackAt(drive.disc, drive.head + 75)}

\* Every disc is an audio disc whose tracks last more than a second.
AudioDiscs ==
  \A c \in Discs :
    /\ DataTracks[c] = {}
    /\ \A t \in 1 .. LastTrack(c) : TrackStart[c][t + 1] - TrackStart[c][t] >= 76

\* wm_cd_stop and wm_cd_eject start no sound.
LEMMA HushSounding ==
  ASSUME NEW d, Tidy(d), ~Sounding(d)
  PROVE  /\ ~Sounding(WmCdStatus(d)) /\ ~Sounding(WmCdStop(d)) /\ ~Sounding(WmCdEject(d))
<1>1. d \in Handle /\ Sane(d)
  BY DEF Tidy, Sane, Sound
<1>2. ASSUME NEW e, Tidy(e), ~Sounding(e) PROVE ~Sounding(WmCdStatus(e))
  BY <1>2, StatusSounding DEF Tidy
<1>3. ASSUME NEW e, Moved(d, e), Sane(e), e.disc = d.disc, e.audio = "none" \/ e = d,
             Ready(e) => Ready(d)
      PROVE  ~Sounding(WmCdStatus(e))
  <2>1. ~Sounding(e) /\ (Sounds(e) => Sounds(d))
    BY <1>3 DEF Moved, Sounding, Sounds
  <2>2. Fresh(e) /\ Gone(e, FALSE)
    BY <1>3 DEF Tidy, Moved, Fresh, Gone
  <2>3. Tidy(e)
    BY <1>3, <2>1, <2>2, MoveTidy
  <2> QED
    BY <1>2, <2>1, <2>3
<1>4. ~Sounding(WmCdEject(d))
  <2> DEFINE e == EjectTray(d)
  <2>1. Moved(d, e) /\ Sane(e) /\ e.disc = d.disc /\ e.tray = "open"
    BY <1>1, IoctlMoves, IoctlKeepsDisc, TraySane
  <2>2. e.audio = "none" \/ e = d
    BY <1>1 DEF EjectTray, MoveTray, Handle
  <2> HIDE DEF e
  <2>3. ~Ready(e)
    BY <2>1 DEF Ready, Loaded
  <2>4. ~Sounding(WmCdStatus(e))
    BY <1>3, <2>1, <2>2, <2>3
  <2> QED
    BY <2>4 DEF WmCdEject, e
<1> DEFINE s == WmCdStatus(d)
<1>5. Tidy(s) /\ ~Sounding(s)
  BY <1>1, <1>2, StatusTidy DEF Tidy, Keeps
<1> HIDE DEF s
<1>6. ~Sounding(WmCdStatus(StopAudio(s)))
  <2> DEFINE e == StopAudio(s)
  <2>1. Sane(s) /\ s \in Handle
    BY <1>5 DEF Tidy, Sane, Sound
  <2>2. Keeps(s, e)
    <3>1. Moved(s, e) /\ e.disc = s.disc /\ Sane(e) /\ e.tray = s.tray
      BY <2>1, IoctlMoves, IoctlKeepsDisc, IoctlSane
    <3>2. e.media = s.media /\ (Sounds(e) => Sounds(s))
      BY <2>1 DEF StopAudio, Sounds, Handle
    <3> HIDE DEF e
    <3> QED
      BY <1>5, <3>1, <3>2, HushKeeps
  <2>3. Moved(s, e) /\ (Sounds(e) => Sounds(s))
    BY <2>1, IoctlMoves DEF StopAudio, Sounds, Handle
  <2> HIDE DEF e
  <2>4. Tidy(e) /\ ~Sounding(e)
    BY <1>5, <2>2, <2>3 DEF Keeps, Moved, Sounding
  <2> QED
    BY <1>2, <2>4 DEF e
<1> QED
  BY <1>4, <1>5, <1>6 DEF WmCdStop, s

\* wm_cd_play of a disc that is not shown as playing leaves it silent, or plays.
LEMMA PlaySounding ==
  ASSUME NEW d, Tidy(d), ~Sounding(d), NEW start, NEW pos, NEW end,
         Sounding(WmCdPlay(d, start, pos, end))
  PROVE  WmCdPlay(d, start, pos, end).audio = "play"
<1> DEFINE s == WmCdStatus(d)
           p == PlayMsf(s, StartFrame(s.trk, start, pos, end), EndFrame(s.trk, end))
<1>1. Tidy(s) /\ ~Sounding(s) /\ s \in Handle
  BY HushSounding, StatusTidy DEF Tidy, Keeps, Sane, Sound
<1> HIDE DEF s
<1>2. ~Sounding(WmCdStatus(s)) /\ ~Sounding(WmCdStop(s))
  BY <1>1, HushSounding
<1>3. p = s \/ (p \in Handle /\ p.audio = "play")
  <2>1. p = s \/ p.audio = "play"
    BY <1>1 DEF PlayMsf, Handle
  <2>2. p \in Handle
    BY <1>1, IoctlMoves DEF Moved
  <2> QED
    BY <2>1, <2>2
<1> HIDE DEF p
<1>4. ~Sounding(WmCdStatus(p)) \/ WmCdStatus(p).audio = "play"
  BY <1>2, <1>3, StatusKeeps
<1> QED
  BY <1>1, <1>2, <1>4 DEF WmCdPlay, s, p

\* The track of a playlist in order that follows the current one.
LEMMA NextInOrder ==
  ASSUME FollowInv, m_track # 0, ~m_randomPlaylist, NEW e \in Following, TrackOf(e) # 0
  PROVE  /\ e.list = m_playlist /\ TrackOf(e) \in 1 .. m_tracks
         /\ Successor(m_playlist, m_track, TrackOf(e))
<1>1. /\ m_tracks \in Nat \ {0} /\ m_track \in 1 .. m_tracks
      /\ m_playlist = [i \in 1 .. m_tracks |-> i] /\ Len(m_playlist) = m_tracks
  BY DEF FollowInv, KnownInv, IInv, InOrder, ListOf
<1>2. \A q, i : Entry(q, i).list = q /\ Entry(q, i).at = i
  BY DEF Entry
<1>3. Listed(m_playlist, m_track) /\ IndexOf(m_playlist, m_track) = m_track
        /\ m_playlist # << >>
  BY <1>1 DEF Listed, IndexOf
<1>4. \/ m_track < m_tracks /\ e = Entry(m_playlist, m_track + 1)
      \/ m_loopPlaylist /\ m_track = m_tracks /\ e = Entry(m_playlist, 1)
      \/ e = Entry(m_playlist, 0)
  BY <1>1, <1>3 DEF Following, NextEntries, Wrapped
<1>5. CASE m_track < m_tracks /\ e = Entry(m_playlist, m_track + 1)
  <2>1. TrackOf(e) = m_track + 1 /\ e.list = m_playlist
    BY <1>1, <1>2, <1>5 DEF TrackOf
  <2>2. m_track \in DOMAIN m_playlist \ {Len(m_playlist)}
    BY <1>1, <1>5
  <2>3. m_playlist[m_track] = m_track /\ m_playlist[m_track + 1] = TrackOf(e)
    BY <1>1, <1>5, <2>1
  <2>4. Successor(m_playlist, m_track, TrackOf(e))
    BY <2>2, <2>3 DEF Successor
  <2> QED
    BY <1>1, <1>5, <2>1, <2>4
<1>6. CASE m_loopPlaylist /\ m_track = m_tracks /\ e = Entry(m_playlist, 1)
  <2>1. /\ TrackOf(e) = 1 /\ e.list = m_playlist /\ m_playlist[1] = 1
        /\ m_playlist[Len(m_playlist)] = m_track
    BY <1>1, <1>2, <1>6 DEF TrackOf
  <2> QED
    BY <1>1, <1>6, <2>1 DEF Successor
<1>7. CASE e = Entry(m_playlist, 0)
  BY <1>2, <1>7 DEF TrackOf
<1> QED
  BY <1>4, <1>5, <1>6, <1>7

\* A change of the drive starts no sound, and moves the head by a second at most.
LEMMA HardwareTrack ==
  ASSUME NEW d, Tidy(d), NEW e,
         \/ OpenByHand(d, e) \/ CloseByHand(d, e) \/ SwapDisc(d, e)
         \/ SpinUp(d, e) \/ TocRecovers(d, e) \/ PlayOn(d, e) \/ AudioFails(d, e)
         \/ StatusDecays(d, e) \/ PauseTimesOut(d, e) \/ Mount(d, e)
  PROVE  /\ Sounding(e) => Sounding(d) /\ e.curtrack = d.curtrack
         /\ e.audio = "play" =>
              d.audio = "play" /\ e.disc = d.disc /\ e.head \in {d.head, d.head + 75}
<1>1. d \in Handle /\ Sane(d) /\ Heard(d)
  BY DEF Tidy, Sane, Sound
<1>2. Moved(d, e)
  BY <1>1, HardwareMoves
<1>3. /\ Sounds(e) => Sounds(d)
      /\ e.audio = "play" =>
           d.audio = "play" /\ e.disc = d.disc /\ e.head \in {d.head, d.head + 75}
  <2>1. CASE OpenByHand(d, e) \/ CloseByHand(d, e)
    <3>1. e.audio = "none"
      BY <1>1, <2>1 DEF OpenByHand, CloseByHand, MoveTray, Handle
    <3> QED
      BY <3>1 DEF Sounds
  <2>2. CASE SwapDisc(d, e)
    <3>1. e.audio = d.audio /\ d.tray = "open"
      BY <1>1, <2>2 DEF SwapDisc, Handle
    <3>2. d.audio # "play"
      BY <1>1, <3>1 DEF Heard, Ready, Loaded
    <3> QED
      BY <3>1, <3>2 DEF Sounds
  <2>3. CASE SpinUp(d, e)
    <3>1. e.audio \in {"none", "invalid"}
      BY <1>1, <2>3 DEF SpinUp, SpunUp, Handle
    <3> QED
      BY <3>1 DEF Sounds
  <2>4. CASE TocRecovers(d, e) \/ Mount(d, e)
    BY <1>1, <2>4 DEF TocRecovers, Mount, Sounds, Handle
  <2>5. CASE PlayOn(d, e)
    BY <1>1, <2>5 DEF PlayOn, Sounds, Handle
  <2>6. CASE AudioFails(d, e) \/ StatusDecays(d, e) \/ PauseTimesOut(d, e)
    BY <1>1, <2>6 DEF AudioFails, StatusDecays, PauseTimesOut, Sounds, Handle
  <2> QED
    BY <2>1, <2>2, <2>3, <2>4, <2>5, <2>6
<1> QED
  BY <1>2, <1>3 DEF Sounding, Moved

\* A change of the drive is heard at the next poll as the current track or the one
\* after it: no track is over within a second.
LEMMA OrderlyDrive ==
  ASSUME ~Unseen, AudioDiscs, FollowInv, Orderly, Hardware \/ Turn, tick' = tick
  PROVE  Orderly'
<1>1. /\ seen = TRUE /\ seen' = FALSE /\ m_track' = m_track /\ m_tracks' = m_tracks
      /\ m_playlist' = m_playlist /\ m_randomPlaylist' = m_randomPlaylist
      /\ m_loopPlaylist' = m_loopPlaylist
  BY DEF Hardware, Turn, disc, modes, FollowInv, KnownInv, IInv
<1>2. SUFFICES ASSUME tick # 0, m_track # 0, ~m_randomPlaylist
               PROVE  /\ Sounding(drive') => Allowed(drive'.curtrack)
                      /\ drive'.audio = "play" => Allowed(HeadTrack(drive'))
  BY <1>1 DEF Orderly, Allowed, Successor
<1>3. Tidy(drive) /\ drive \in Handle /\ Sane(drive)
  BY DEF FollowInv, Tidy, Sane, Sound
<1>4. /\ Sounding(drive') => Sounding(drive) /\ drive'.curtrack = drive.curtrack
      /\ drive'.audio = "play" =>
           /\ drive.audio = "play" /\ drive'.disc = drive.disc
           /\ drive'.head \in {drive.head, drive.head + 75}
  BY <1>3, HardwareTrack DEF Hardware, Turn
<1>5. /\ Sounding(drive) => Allowed(drive.curtrack)
      /\ drive.audio = "play" =>
           /\ Allowed(HeadTrack(drive))
           /\ HeadTrack(drive) \in {m_track, TrackAt(drive.disc, drive.head + 75)}
  BY <1>1, <1>2 DEF Orderly
<1>6. ASSUME drive'.audio = "play" PROVE Allowed(HeadTrack(drive'))
  <2>1. HeadTrack(drive') \in {HeadTrack(drive), TrackAt(drive.disc, drive.head + 75)}
    BY <1>4, <1>6 DEF HeadTrack
  <2>2. CASE HeadTrack(drive') = HeadTrack(drive)
    BY <1>4, <1>5, <1>6, <2>2
  <2>3. CASE /\ HeadTrack(drive) = m_track
             /\ HeadTrack(drive') = TrackAt(drive.disc, drive.head + 75)
    <3>1. Ready(drive) /\ drive.audio = "play"
      BY <1>3, <1>4, <1>6 DEF Sane, Heard
    <3>2. /\ m_tracks \in Nat \ {0} /\ m_track \in 1 .. m_tracks
          /\ m_discId \in Discs /\ m_tracks = LastTrack(m_discId) /\ Len(m_playlist) = m_tracks
          /\ drive.disc = m_discId /\ m_playlist = [i \in 1 .. m_tracks |-> i]
      BY <1>2, <3>1 DEF FollowInv, KnownInv, IInv, ListOf, Serves, InOrder
    <3>3. drive.head \in Nat /\ drive.head + 75 \in Nat
      BY <1>3 DEF Handle
    <3>4. TrackAt(m_discId, drive.head + 75) \in {m_track, m_track + 1}
      BY <2>3, <3>2, <3>3, TrackAtNextSecond DEF AudioDiscs, HeadTrack
    <3>5. TrackAt(m_discId, drive.head + 75) \in 1 .. m_tracks
      BY <3>2, <3>3, TrackAtType
    <3>6. CASE TrackAt(m_discId, drive.head + 75) = m_track
      BY <2>3, <3>2, <3>6 DEF Allowed
    <3>7. CASE TrackAt(m_discId, drive.head + 75) = m_track + 1
      <4>1. m_track + 1 \in 1 .. m_tracks /\ m_track \in DOMAIN m_playlist \ {Len(m_playlist)}
        BY <3>2, <3>5, <3>7
      <4>2. m_playlist[m_track] = m_track /\ m_playlist[m_track + 1] = m_track + 1
        BY <3>2, <4>1
      <4>3. Successor(m_playlist, m_track, m_track + 1)
        BY <4>1, <4>2 DEF Successor
      <4> QED
        BY <2>3, <3>2, <3>7, <4>3 DEF Allowed
    <3> QED
      BY <3>4, <3>6, <3>7
  <2> QED
    BY <1>4, <1>5, <1>6, <2>1, <2>2, <2>3
<1> QED
  BY <1>4, <1>5, <1>6

\* The track timerExpired goes on to is the one that follows, from its start.
LEMMA OrderlyAdvance ==
  ASSUME AudioDiscs, FollowInv, PollAdvance
  PROVE  Orderly'
<1>1. SUFFICES ASSUME m_track # 0, ~m_randomPlaylist, Sounding(drive')
               PROVE  /\ Allowed(drive.curtrack)' /\ Allowed(HeadTrack(drive))'
                      /\ HeadTrack(drive') = TrackAt(drive'.disc, drive'.head + 75)
  <2>1. m_track' = m_track /\ m_randomPlaylist' = m_randomPlaylist
    BY DEF PollAdvance, modes
  <2>2. drive'.audio = "play" => Sounding(drive')
    BY DEF Sounding, Sounds
  <2> QED
    BY <2>1, <2>2 DEF Orderly
<1>2. FollowInv' /\ Tidy(drive') /\ Sane(drive') /\ Fresh(drive')
  BY FollowPoll DEF Poll, FollowInv, Tidy
<1>3. Tidy(Looked) /\ Sound(Looked) /\ Sane(Looked) /\ Fresh(Looked) /\ ~Sounding(Looked)
  BY PollLooks DEF PollAdvance, Advances, Tidy
<1>4. PICK e \in Following :
        /\ TrackOf(e) # 0 /\ m_playlist' = e.list
        /\ drive' = PlayTrackPosition(Looked, m_tracks, TrackOf(e), 0)
  BY DEF PollAdvance
<1> DEFINE t == TrackOf(e)
<1>5. /\ m_playlist' = m_playlist /\ t \in 1 .. m_tracks
      /\ Successor(m_playlist, m_track, t)
  BY <1>1, <1>4, NextInOrder
<1>6. /\ m_track' = m_track /\ m_tracks' = m_tracks /\ m_discId' = m_discId
      /\ m_loopPlaylist' = m_loopPlaylist
  BY DEF PollAdvance, disc, modes
<1>7. Allowed(t)'
  BY <1>5, <1>6 DEF Allowed, Successor
<1> HIDE DEF t
<1>8. m_tracks \in Nat \ {0} /\ m_discId \in Discs /\ m_tracks = LastTrack(m_discId)
  BY <1>5 DEF FollowInv, KnownInv, IInv, ListOf
<1>9. PICK end \in {0, t + 1} : drive' = WmCdPlay(Looked, t, 0, end)
  BY <1>4, <1>5 DEF PlayTrackPosition, t
<1>10. drive'.audio = "play"
  BY <1>1, <1>3, <1>9, PlaySounding
<1>11. drive'.disc = m_discId
  <2>1. Ready(drive')
    BY <1>2, <1>10 DEF Sane, Heard
  <2> QED
    BY <1>2, <1>6, <1>8, <2>1 DEF FollowInv, Serves
<1>12. /\ DataTracks[m_discId] = {} /\ t \in AudioTracks(m_discId)
       /\ \A u \in 1 .. LastTrack(m_discId) :
            /\ TrackStart[m_discId][u + 1] - TrackStart[m_discId][u] >= 76
            /\ TrackStart[m_discId][u] \in Nat /\ TrackStart[m_discId][u + 1] \in Nat
            /\ TrackStart[m_discId][u] + 75 * 0 < TrackStart[m_discId][u + 1]
  BY <1>5, <1>8, StartsNat DEF AudioDiscs, AudioTracks
<1>13. HeadIn(drive', t, 0)
  <2>1. t \in Nat
    BY <1>5, <1>8
  <2> QED
    BY <1>3, <1>9, <1>10, <1>11, <1>12, <2>1, PlayStarts
<1>14. HeadTrack(drive') = t /\ drive'.head = TrackStart[m_discId][t]
  BY <1>11, <1>13 DEF HeadIn, HeadTrack
<1>15. TrackAt(drive'.disc, drive'.head + 75) = t
  <2>1. /\ t \in 1 .. LastTrack(m_discId)
        /\ TrackStart[m_discId][t] \in Nat /\ TrackStart[m_discId][t + 1] \in Nat
        /\ TrackStart[m_discId][t + 1] - TrackStart[m_discId][t] >= 76
    BY <1>5, <1>8, <1>12
  <2>2. /\ drive'.head + 75 \in Nat /\ TrackStart[m_discId][t] <= drive'.head + 75
        /\ drive'.head + 75 < TrackStart[m_discId][t + 1]
    BY <1>14, <2>1
  <2> QED
    BY <1>8, <1>11, <2>1, <2>2, TrackAtIs
<1>16. drive'.curtrack = t
  <2>1. WmCdStatus(drive') = drive'
    BY <1>3, <1>9, PlaySettled
  <2>2. WmCdStatus(drive').curtrack = HeadTrack(drive')
    BY <1>2, <1>10, StatusTrackPlayed DEF HeadTrack
  <2> QED
    BY <1>14, <2>1, <2>2
<1>17. Allowed(drive.curtrack)' /\ Allowed(HeadTrack(drive))'
  BY <1>6, <1>7, <1>14, <1>16 DEF Allowed, Successor
<1> QED
  BY <1>14, <1>15, <1>17

\* What a poll hears is the current track or the one that follows it.
LEMMA HeardInOrder ==
  ASSUME FollowInv, Orderly, tick # 0, m_track # 0, ~m_randomPlaylist, Sounding(Looked)
  PROVE  Allowed(Looked.curtrack)
<1>1. Sane(drive) /\ Fresh(drive) /\ Gone(drive, FALSE) /\ Tracked(drive)
  BY DEF FollowInv, Tidy
<1>2. CASE drive.audio = "play"
  BY <1>1, <1>2, StatusTrackPlayed DEF Orderly, Looked, HeadTrack
<1>3. CASE drive.audio # "play"
  <2>1. Sounding(drive) /\ Looked.curtrack = drive.curtrack
    BY <1>1, <1>3, StatusSounding DEF Looked
  <2> QED
    BY <2>1 DEF Orderly
<1> QED
  BY <1>2, <1>3

\* The track a poll finds playing becomes the current one.
LEMMA OrderlyPoll ==
  ASSUME FollowInv, PollSame \/ PollChange
  PROVE  Orderly'
<1>1. SUFFICES ASSUME Sounding(drive')
               PROVE  /\ drive'.curtrack = m_track'
                      /\ drive'.audio = "play" => HeadTrack(drive') = m_track'
  <2>1. drive'.audio = "play" => Sounding(drive')
    BY DEF Sounding, Sounds
  <2> QED
    BY <2>1 DEF Orderly, Allowed
<1>2. /\ Tidy(Looked) /\ (Shown = "Playing" <=> PlayMode(Looked.cur_cdmode))
      /\ Sounding(Looked) => Shown = "Playing"
  BY PollLooks
<1>3. Sounding(Looked)
  <2>1. drive' = Looked \/ drive' = WmCdEject(Looked)
    BY DEF PollSame, PollChange
  <2> QED
    BY <1>1, <1>2, <2>1, HushSounding
<1>4. drive' = Looked /\ m_track' = WmCdGetCurTrack(Looked)
  <2>1. Shown = "Playing" /\ UpdateTrack /\ m_status' = Shown /\ drive' = Looked
    BY <1>2, <1>3 DEF PollSame, PollChange
  <2> QED
    BY <2>1 DEF UpdateTrack
<1>5. m_track' = Looked.curtrack
  BY <1>2, <1>3, <1>4 DEF WmCdGetCurTrack, PlayMode, NoDiscMode
<1>6. Looked.audio = "play" => Looked.curtrack = HeadTrack(Looked)
  <2>1. Sane(drive) /\ Fresh(drive) /\ drive \in Handle
    BY DEF FollowInv, Tidy, Sane, Sound
  <2>2. Looked.audio = drive.audio /\ Looked.disc = drive.disc /\ Looked.head = drive.head
    BY <2>1, StatusKeeps DEF Looked
  <2>3. drive.audio = "play" => Looked.curtrack = TrackAt(drive.disc, drive.head)
    BY <2>1, StatusTrackPlayed DEF Looked
  <2> QED
    BY <2>2, <2>3 DEF HeadTrack
<1> QED
  BY <1>4, <1>5, <1>6

\* Every step of OrdersNext is one of Next, and keeps what plays in order.
LEMMA OrderlyStep ==
  ASSUME ~Unseen, AudioDiscs, FollowInv, Orderly, [OrdersNext]_<<vars, history>>
  PROVE  FollowInv' /\ Orderly'
<1>1. [Next]_vars
  BY DEF OrdersNext, OrderPlay, OrderEntry, OrderPause, OrderStop, OrderEject, OrderClose,
         OrderModes, TimerPoll, DriveTurns, Disturbed, Next
<1>2. FollowInv'
  BY <1>1, FollowStep
<1>3. CASE OrderPlay \/ OrderEntry \/ OrderPause \/ OrderStop \/ OrderEject \/ OrderClose
           \/ OrderModes
  <2>1. tick' = 0
    BY <1>3 DEF OrderPlay, OrderEntry, OrderPause, OrderStop, OrderEject, OrderClose,
                OrderModes, Ordered
  <2> QED
    BY <1>2, <2>1 DEF Orderly
<1>4. CASE TimerPoll
  BY <1>2, <1>4, OrderlyPoll, OrderlyAdvance DEF TimerPoll, Poll
<1>5. CASE DriveTurns \/ Disturbed
  <2>1. (Hardware \/ Turn) /\ tick' = tick
    BY <1>5 DEF DriveTurns, Disturbed, history
  <2> QED
    BY <1>2, <2>1, OrderlyDrive
<1>6. CASE UNCHANGED <<vars, history>>
  BY <1>2, <1>6 DEF vars, disc, modes, history, Orderly, Allowed, Successor
<1> QED
  BY <1>3, <1>4, <1>5, <1>6 DEF OrdersNext

\* A track that is not the current one, found by a poll with no order since the
\* last, is the one that follows.
LEMMA FollowsInOrder ==
  ASSUME FollowInv, Orderly, [OrdersNext]_<<vars, history>>
  PROVE  [FollowsUnordered /\ ~m_randomPlaylist => Successor(m_playlist, m_track, m_track')]_vars
<1>1. SUFFICES ASSUME FollowsUnordered, ~m_randomPlaylist
               PROVE  Successor(m_playlist, m_track, m_track')
  OBVIOUS
<1>2. tick' \notin {0, tick} /\ tick # 0 /\ m_track # 0 /\ m_track' \notin {0, m_track}
  BY <1>1 DEF FollowsUnordered, ByTimer
<1>3. Poll
  BY <1>2 DEF OrdersNext, OrderPlay, OrderEntry, OrderPause, OrderStop, OrderEject, OrderClose,
              OrderModes, TimerPoll, DriveTurns, Disturbed, Ordered, history
<1>4. Shown = "Playing" /\ m_track' = WmCdGetCurTrack(drive') /\ drive' = Looked
  BY <1>2, <1>3, PollTrack, PollLeaves
<1>5. PlayMode(Looked.cur_cdmode)
  BY <1>4, PollLooks
<1>6. m_track' = Looked.curtrack
  BY <1>4, <1>5 DEF WmCdGetCurTrack, PlayMode, NoDiscMode
<1>7. Allowed(Looked.curtrack)
  BY <1>1, <1>2, <1>5, HeardInOrder DEF Sounding
<1> QED
  BY <1>2, <1>6, <1>7 DEF Allowed

\* With audio discs the track that follows another without an order is the next of
\* the playlist, or the first after the last if it is repeated, unless the
\* playlist is a random one: whether the drive has run on into it, or timerExpired
\* has found the disc stopped at the end of a track and plays the next; as long as
\* the drive changes at most once between two polls.
THEOREM OrdersTracksFollow ==
  ASSUME ~Unseen, AudioDiscs
  PROVE  OrdersSpec => TracksFollowInOrder
<1>1. OrdersInit => FollowInv /\ Orderly
  BY FollowInit DEF OrdersInit, Init, Orderly
<1>2. FollowInv /\ Orderly /\ [OrdersNext]_<<vars, history>> => FollowInv' /\ Orderly'
  BY OrderlyStep
<1>3. FollowInv /\ Orderly /\ [OrdersNext]_<<vars, history>>
        => [FollowsUnordered /\ ~m_randomPlaylist
              => Successor(m_playlist, m_track, m_track')]_vars
  BY FollowsInOrder
<1> QED
  BY <1>1, <1>2, <1>3, PTL DEF OrdersSpec, TracksFollowInOrder
=============================================================================

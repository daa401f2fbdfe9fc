---------------------------- MODULE WmCdromLemmas ----------------------------
(***************************************************************************)
(* What the calls of WmCdrom preserve, for every set of discs: the type of *)
(* the handle, that its table of contents is complete when it is used, and *)
(* that it is the one of the disc in the drive.                            *)
(***************************************************************************)
EXTENDS WmCdrom, TLAPS, NaturalsInduction, WellFoundedInduction

\* The least-number principle, for a set.
LEMMA LeastNumber ==
  ASSUME NEW S, S \subseteq Nat, S # {}
  PROVE  \E x \in S : \A y \in S : x <= y
<1>1. PICK x \in S : \A y \in S : <<y, x>> \notin OpToRel(<, Nat)
  BY WFMin, NatLessThanWellFounded, Zenon
<1>2. \A y \in S : ~(y < x)
  BY <1>1, Zenon DEF OpToRel
<1> QED
  BY <1>2

\* The search loop of wm_cd_status finds a track.
LEMMA TrackAtSome ==
  ASSUME NEW c \in Discs, NEW f \in Nat
  PROVE  \E t \in 1 .. LastTrack(c) :
           /\ t = 1 \/ TrackStart[c][t] <= f
           /\ \A u \in (t + 1) .. LastTrack(c) : f < TrackStart[c][u]
<1> DEFINE n == LastTrack(c)
           After(t) == \A u \in (t + 1) .. n : f < TrackStart[c][u]
           S == {t \in 1 .. n : After(t)}
<1>1. n \in Nat \ {0}
  BY DiscAssumption
<1>2. \A u \in 1 .. n : TrackStart[c][u] \in Nat
  BY <1>1, DiscAssumption DEF LastTrack
<1>3. n \in S
  BY <1>1
<1>4. PICK t \in S : \A u \in S : t <= u
  <2>1. S \subseteq Nat /\ S # {}
    BY <1>1, <1>3
  <2> HIDE DEF S
  <2> QED
    BY <2>1, LeastNumber
<1>5. t = 1 \/ TrackStart[c][t] <= f
  <2>1. SUFFICES ASSUME t # 1, f < TrackStart[c][t] PROVE FALSE
    BY <1>1, <1>2, <1>4
  <2>2. t - 1 \in 1 .. n
    BY <1>1, <1>4, <2>1
  <2>3. After(t - 1)
    BY <1>1, <1>4, <2>1
  <2>4. t - 1 \in S
    BY <2>2, <2>3
  <2> QED
    BY <1>1, <1>4, <2>4
<1> QED
  BY <1>4, <1>5

\* The track it finds is one of the disc.
LEMMA TrackAtType ==
  ASSUME NEW c \in Discs, NEW f \in Nat
  PROVE  TrackAt(c, f) \in 1 .. LastTrack(c)
  BY TrackAtSome DEF TrackAt

(***************************************************************************)
(* Sound(d): d is a handle whose table of contents is complete when the    *)
(* mode says so, and whose oldmode was never the zero of memset.           *)
(***************************************************************************)
Known(d) ==
  /\ d.oldmode # "INITIAL"
  /\ (~NoDiscMode(d.cur_cdmode) /\ d.ntracks >= 1) \/ DiscReady(d.oldmode) => HoldsToc(d)
Sound(d) == d \in Handle /\ Known(d)

\* The modes gen_get_drive_status returns.
LEMMA GenModeType ==
  ASSUME NEW d \in Handle
  PROVE  /\ SubchannelMode(d) \in {"UNKNOWN", "PLAYING", "PAUSED", "STOPPED", "TRACK_DONE"}
         /\ SubchannelMode(d) # "UNKNOWN" => d.disc \in Discs /\ Ready(d)
         /\ GenMode(d) \in Mode \ {"INITIAL"}
         /\ GenMode(d) \in {"PLAYING", "PAUSED"} => SubchannelMode(d) = GenMode(d)
         /\ DiscReady(GenMode(d)) => Ready(d)
<1>1. d.audio \in {"play", "paused", "completed", "none", "invalid"}
  BY DEF Handle
<1>2. d.disc \in Discs \cup {NoDisc}
  BY DEF Handle
<1>3. SubchannelMode(d) \in {"UNKNOWN", "PLAYING", "PAUSED", "STOPPED", "TRACK_DONE"}
  BY <1>1 DEF SubchannelMode, SubchannelOk
<1>4. SubchannelMode(d) # "UNKNOWN" => d.disc \in Discs /\ Ready(d)
  BY <1>2 DEF SubchannelMode, SubchannelOk, Ready, Loaded
<1>5. GenMode(d) \in Mode \ {"INITIAL"}
  BY <1>3 DEF GenMode, Mode
<1>6. GenMode(d) \in {"PLAYING", "PAUSED"} => SubchannelMode(d) = GenMode(d)
  BY <1>3 DEF GenMode
<1>7. DiscReady(GenMode(d)) => Ready(d)
  <2>1. SUFFICES ASSUME DiscReady(GenMode(d)), SubchannelMode(d) = "UNKNOWN" PROVE Ready(d)
    BY <1>4
  <2>2. DriveStatus(d) = "audio"
    BY <2>1 DEF GenMode, DiscReady
  <2>3. d.tray \in {"open", "closed"} /\ SlotLoading \in BOOLEAN
    BY DiscAssumption DEF Handle
  <2>4. CASE d.tray = "open"
    BY <2>2, <2>3, <2>4 DEF DriveStatus, Ready, Loaded
  <2>5. CASE d.tray = "closed" /\ ~Ready(d)
    BY <2>2, <2>5 DEF DriveStatus, Ready, Loaded
  <2> QED
    BY <2>3, <2>4, <2>5
<1> QED
  BY <1>3, <1>4, <1>5, <1>6, <1>7

\* read_toc, for a disc that has come, leaves the fields of the handle in their
\* types, and ntracks and trk those of the disc unless an ioctl failed.
LEMMA WithTocType ==
  ASSUME NEW d \in Handle
  PROVE  /\ WithToc(d) \in Handle
         /\ DeviceChanged(d) /\ ~TocEntryFails(d) =>
              HoldsToc(WithToc(d)) /\ WithToc(d).trk = d.disc
         /\ DeviceChanged(d) /\ TocEntryFails(d) =>
              WithToc(d).cur_cdmode = "UNKNOWN" \/ WithToc(d).ntracks = 0
         /\ ~DeviceChanged(d) => WithToc(d) = d
         /\ WithToc(d).disc = d.disc /\ WithToc(d).tray = d.tray
         /\ WithToc(d).media = d.media
<1>1. d.disc \in Discs \cup {NoDisc}
  BY DEF Handle
<1>2. ~TocHeaderFails(d) => d.disc \in Discs /\ LastTrack(d.disc) \in Nat
  BY <1>1, DiscAssumption DEF TocHeaderFails, Ready, Loaded
<1>3. ~TocEntryFails(d) => ~TocHeaderFails(d)
  BY DEF TocHeaderFails, TocEntryFails
<1> DEFINE e == [d EXCEPT !.ntracks = 0]
<1>4. /\ e \in Handle /\ e.disc = d.disc /\ e.ntracks = 0
      /\ e.tray = d.tray /\ e.media = d.media
  BY DEF Handle
<1>5. TocHeaderFails(e) = TocHeaderFails(d) /\ TocEntryFails(e) = TocEntryFails(d)
  BY DEF TocHeaderFails, TocEntryFails, Ready, Loaded, Handle
<1>6. CASE ~DeviceChanged(d)
  BY <1>6 DEF WithToc
<1>7. CASE DeviceChanged(d) /\ TocHeaderFails(d)
  BY <1>3, <1>4, <1>5, <1>7 DEF WithToc, ReadToc
<1>8. CASE DeviceChanged(d) /\ ~TocHeaderFails(d)
  <2> DEFINE r == [e EXCEPT !.ntracks = LastTrack(e.disc), !.cur_cdmode = "UNKNOWN",
                            !.trk = IF TocEntryFails(e) THEN NoDisc ELSE e.disc]
  <2>1. WithToc(d) = r
    BY <1>5, <1>8 DEF WithToc, ReadToc
  <2>2. r \in Handle
    BY <1>2, <1>4, <1>8 DEF Handle, Mode
  <2>3. /\ r.cur_cdmode = "UNKNOWN" /\ r.ntracks = LastTrack(d.disc)
        /\ r.disc = d.disc /\ r.tray = d.tray /\ r.media = d.media
    BY <1>4 DEF Handle
  <2>4. ~TocEntryFails(d) => r.trk = d.disc
    BY <1>4, <1>5 DEF Handle
  <2> QED
    BY <1>2, <1>8, <2>1, <2>2, <2>3, <2>4 DEF HoldsToc
<1> QED
  BY <1>6, <1>7, <1>8

\* wm_cd_status leaves a sound drive: it indexes trk only when trk is complete.
LEMMA StatusSound ==
  ASSUME NEW d, Sound(d)
  PROVE  Sound(WmCdStatus(d))
<1> DEFINE toc == WithToc(d)
           cur == ShownMode(SwitchMode(d), toc.cur_cdmode)
           s == WmCdStatus(d)
<1>1. d \in Handle /\ Known(d)
  BY DEF Sound
<1>2. toc \in Handle
  BY <1>1, WithTocType
<1>3. StatusMode(d) \in Mode \ {"INITIAL"}
  BY <1>1, GenModeType DEF StatusMode, Mode
<1>4. SwitchMode(d) \in Mode \ {"INITIAL"}
  BY <1>3 DEF SwitchMode, Mode
<1>5. cur \in Mode
  BY <1>2, <1>4 DEF ShownMode, Mode, Handle
<1>6. DiscReady(StatusMode(d)) => HoldsToc(toc)
  <2>1. SUFFICES ASSUME DiscReady(StatusMode(d)) PROVE HoldsToc(toc)
    OBVIOUS
  <2>2. DiscReady(GenMode(d)) /\ ~(DeviceChanged(d) /\ TocEntryFails(d))
    BY <2>1 DEF StatusMode, DiscReady
  <2>3. CASE DeviceChanged(d)
    BY <1>1, <2>2, <2>3, WithTocType
  <2>4. CASE ~DeviceChanged(d)
    <3>1. ~NoDiscMode(d.oldmode) /\ d.oldmode # "INITIAL"
      BY <1>1, <2>2, <2>4 DEF DeviceChanged, Known
    <3>2. DiscReady(d.oldmode)
      BY <1>1, <3>1 DEF Handle, Mode, NoDiscMode, DiscReady
    <3> QED
      BY <1>1, <2>4, <3>2, WithTocType DEF Known
  <2> QED
    BY <2>3, <2>4
<1>7. CurTrack(d) \in Nat
  <2>1. CASE Parked(d)
    BY <2>1 DEF CurTrack, SwitchMode, Parked
  <2>2. CASE ~Parked(d) /\ SwitchMode(d) \in {"PLAYING", "PAUSED"}
    <3>1. StatusMode(d) \in {"PLAYING", "PAUSED"}
      BY <2>2 DEF SwitchMode
    <3>2. toc.trk \in Discs
      BY <1>6, <3>1 DEF DiscReady, HoldsToc
    <3>3. TrackAt(toc.trk, d.head) \in 1 .. LastTrack(toc.trk)
      BY <1>1, <3>2, TrackAtType DEF Handle
    <3>4. TrackAt(toc.trk, d.head) \in Nat
      BY <3>2, <3>3, DiscAssumption
    <3>5. CurTrack(d) = TrackAt(toc.trk, d.head)
      BY <2>2 DEF CurTrack, Parked
    <3> QED
      BY <3>4, <3>5
  <2>3. CASE /\ SwitchMode(d) = "NO_DISC" /\ ~Parked(d)
             /\ SubchannelMode(d) \in {"PLAYING", "PAUSED"}
    <3>1. d.disc \in Discs
      BY <1>1, <2>3, GenModeType
    <3>2. TrackAt(d.disc, d.head) \in 1 .. LastTrack(d.disc)
      BY <1>1, <3>1, TrackAtType DEF Handle
    <3>3. TrackAt(d.disc, d.head) \in Nat
      BY <3>1, <3>2, DiscAssumption
    <3>4. CurTrack(d) = TrackAt(d.disc, d.head)
      BY <2>3 DEF CurTrack, Parked
    <3> QED
      BY <3>3, <3>4
  <2>4. CASE /\ ~Parked(d) /\ SwitchMode(d) \notin {"PLAYING", "PAUSED"}
             /\ ~(SwitchMode(d) = "NO_DISC" /\ SubchannelMode(d) \in {"PLAYING", "PAUSED"})
    <3>1. CurTrack(d) = d.curtrack
      BY <2>4 DEF CurTrack, Parked
    <3> QED
      BY <1>1, <3>1 DEF Handle
  <2> QED
    BY <2>1, <2>2, <2>3, <2>4
<1>8. s \in Handle
  BY <1>2, <1>3, <1>5, <1>7 DEF WmCdStatus, Handle
<1>9. /\ s.oldmode = StatusMode(d) /\ s.cur_cdmode = cur
      /\ s.trk = toc.trk /\ s.ntracks = toc.ntracks
  BY <1>2 DEF WmCdStatus, Handle
<1>10. ~NoDiscMode(cur) /\ toc.ntracks >= 1 => HoldsToc(toc)
  <2>1. SUFFICES ASSUME ~NoDiscMode(cur), toc.ntracks >= 1, ~DiscReady(StatusMode(d))
                 PROVE  HoldsToc(toc)
    BY <1>6
  <2>2. SwitchMode(d) = StatusMode(d) /\ StatusMode(d) \in {"UNKNOWN", "EJECTED", "NO_DISC"}
    BY <1>3, <2>1 DEF SwitchMode, Parked, DiscReady, Mode
  <2>3. StatusMode(d) = "NO_DISC" /\ cur = toc.cur_cdmode
    BY <2>1, <2>2 DEF ShownMode, NoDiscMode
  <2>4. CASE DeviceChanged(d)
    <3>1. ~TocEntryFails(d)
      BY <1>1, <2>1, <2>3, <2>4, WithTocType DEF NoDiscMode
    <3> QED
      BY <1>1, <2>4, <3>1, WithTocType
  <2>5. CASE ~DeviceChanged(d)
    BY <1>1, <2>1, <2>3, <2>5, WithTocType DEF Known
  <2> QED
    BY <2>4, <2>5
<1> QED
  BY <1>3, <1>6, <1>8, <1>9, <1>10 DEF Sound, Known, HoldsToc

(***************************************************************************)
(* The drive moves, by an ioctl or by itself, and leaves the handle as it  *)
(* was.                                                                    *)
(***************************************************************************)
Moved(d, e) ==
  /\ e \in Handle
  /\ e.oldmode = d.oldmode /\ e.cur_cdmode = d.cur_cdmode
  /\ e.ntracks = d.ntracks /\ e.trk = d.trk /\ e.curtrack = d.curtrack

\* A step of the hardware leaves what libworkman knows sound.
LEMMA MovedSound ==
  ASSUME NEW d, NEW e, Sound(d), Moved(d, e)
  PROVE  Sound(e)
BY DEF Sound, Known, Moved, HoldsToc

\* Opening and closing the tray touch the hardware fields only.
LEMMA TrayMoves ==
  ASSUME NEW d \in Handle
  PROVE  Moved(d, d) /\ Moved(d, MoveTray(d, "open")) /\ Moved(d, MoveTray(d, "closed"))
<1>1. Moved(d, d)
  BY DEF Moved
<1>2. ASSUME NEW pos \in {"open", "closed"} PROVE Moved(d, MoveTray(d, pos))
  BY <1>2 DEF Moved, MoveTray, Handle
<1> QED
  BY <1>1, <1>2

\* The ioctls touch the hardware fields only.
LEMMA IoctlMoves ==
  ASSUME NEW d \in Handle
  PROVE  /\ \A start, end : Moved(d, PlayMsf(d, start, end))
         /\ Moved(d, PauseAudio(d)) /\ Moved(d, ResumeAudio(d)) /\ Moved(d, StopAudio(d))
         /\ Moved(d, EjectTray(d)) /\ Moved(d, CloseTray(d))
<1>1. ASSUME NEW start, NEW end PROVE Moved(d, PlayMsf(d, start, end))
  <2>1. CASE PlayMsf(d, start, end) = d
    BY <2>1 DEF Moved
  <2>2. CASE PlayMsf(d, start, end) # d
    <3>1. start \in Nat /\ end \in Nat
      BY <2>2 DEF PlayMsf
    <3>2. PlayMsf(d, start, end) = [d EXCEPT !.audio = "play", !.head = start, !.stopAt = end]
      BY <2>2 DEF PlayMsf
    <3> QED
      BY <3>1, <3>2 DEF Moved, Handle
  <2> QED
    BY <2>1, <2>2
<1>2. Moved(d, PauseAudio(d))
  BY DEF PauseAudio, Moved, Handle
<1>3. Moved(d, ResumeAudio(d))
  BY DEF ResumeAudio, Moved, Handle
<1>4. Moved(d, StopAudio(d))
  BY DEF StopAudio, Moved, Handle
<1>5. Moved(d, EjectTray(d)) /\ Moved(d, CloseTray(d))
  BY TrayMoves DEF EjectTray, CloseTray
<1> QED
  BY <1>1, <1>2, <1>3, <1>4, <1>5

\* What happens to the drive by hand or by itself touches the hardware fields
\* only.
LEMMA HardwareMoves ==
  ASSUME NEW d \in Handle, NEW e,
         \/ OpenByHand(d, e) \/ CloseByHand(d, e) \/ SwapDisc(d, e)
         \/ SpinUp(d, e) \/ TocRecovers(d, e) \/ PlayOn(d, e) \/ AudioFails(d, e)
         \/ StatusDecays(d, e) \/ PauseTimesOut(d, e) \/ Mount(d, e)
  PROVE  Moved(d, e)
<1>1. CASE OpenByHand(d, e) \/ CloseByHand(d, e)
  BY <1>1, TrayMoves DEF OpenByHand, CloseByHand
<1>2. CASE SwapDisc(d, e)
  <2>1. PICK c \in Discs \cup {NoDisc} : e = [d EXCEPT !.disc = c]
    BY <1>2 DEF SwapDisc
  <2> QED
    BY <2>1 DEF Moved, Handle
<1>3. CASE SpinUp(d, e)
  <2>1. PICK m \in {"nohdr", "noentry", "ok"} : e = SpunUp(d, m)
    BY <1>3 DEF SpinUp
  <2> QED
    BY <2>1 DEF SpunUp, Moved, Handle
<1>4. CASE TocRecovers(d, e)
  BY <1>4 DEF TocRecovers, Moved, Handle
<1>5. CASE PlayOn(d, e)
  BY <1>5 DEF PlayOn, Moved, Handle
<1>6. CASE AudioFails(d, e) \/ StatusDecays(d, e) \/ PauseTimesOut(d, e)
  BY <1>6 DEF AudioFails, StatusDecays, PauseTimesOut, Moved, Handle
<1>7. CASE Mount(d, e)
  BY <1>7 DEF Mount, Moved, Handle
<1> QED
  BY <1>1, <1>2, <1>3, <1>4, <1>5, <1>6, <1>7

(***************************************************************************)
(* The calls.                                                              *)
(***************************************************************************)

\* A status read after a step of the hardware leaves a sound drive.
LEMMA MovedStatusSound ==
  ASSUME NEW d, NEW e, Sound(d), Moved(d, e)
  PROVE  Sound(WmCdStatus(e))
BY MovedSound, StatusSound

\* wm_cd_stop leaves a sound drive.
LEMMA StopSound ==
  ASSUME NEW d, Sound(d)
  PROVE  Sound(WmCdStop(d))
<1> DEFINE s == WmCdStatus(d)
<1>1. Sound(s) /\ s \in Handle
  BY StatusSound DEF Sound
<1>2. Sound(WmCdStatus(StopAudio(s)))
  BY <1>1, IoctlMoves, MovedStatusSound
<1> QED
  BY <1>1, <1>2 DEF WmCdStop

\* wm_cd_play leaves a sound drive, whatever it is asked to play.
LEMMA PlaySound ==
  ASSUME NEW d, Sound(d), NEW start, NEW pos, NEW end
  PROVE  Sound(WmCdPlay(d, start, pos, end))
<1> DEFINE s == WmCdStatus(d)
           from == StartFrame(s.trk, start, pos, end)
           upto == EndFrame(s.trk, end)
<1>1. Sound(s) /\ s \in Handle
  BY StatusSound DEF Sound
<1>2. Moved(s, PlayMsf(s, from, upto))
  BY <1>1, IoctlMoves
<1>3. Sound(WmCdStatus(PlayMsf(s, from, upto)))
  BY <1>1, <1>2, MovedStatusSound
<1>4. Sound(WmCdStop(s))
  BY <1>1, StopSound
<1> QED
  BY <1>1, <1>3, <1>4 DEF WmCdPlay

\* wm_cd_pause leaves a sound drive.
LEMMA PauseSound ==
  ASSUME NEW d, Sound(d)
  PROVE  Sound(WmCdPause(d))
<1> DEFINE s == WmCdStatus(d)
<1>1. Sound(s) /\ s \in Handle
  BY StatusSound DEF Sound
<1>2. Sound(PauseAudio(s)) /\ Sound(ResumeAudio(s))
  BY <1>1, IoctlMoves, MovedSound
<1> QED
  BY <1>1, <1>2 DEF WmCdPause

\* wm_cd_eject and wm_cd_closetray leave a sound drive.
LEMMA TraySound ==
  ASSUME NEW d, Sound(d)
  PROVE  Sound(WmCdEject(d)) /\ Sound(WmCdCloseTray(d))
<1> DEFINE s == WmCdStatus(d)
<1>1. Sound(s) /\ s \in Handle /\ d \in Handle
  BY StatusSound DEF Sound
<1>2. Sound(WmCdStatus(EjectTray(d))) /\ Sound(WmCdStatus(CloseTray(s)))
  BY <1>1, IoctlMoves, MovedStatusSound
<1> QED
  BY <1>1, <1>2 DEF WmCdEject, WmCdCloseTray

\* The zeroed handle wm_cd_init starts from is sound.
LEMMA NewHandleSound ==
  ASSUME NEW h \in IdleHardware
  PROVE  Sound(NewHandle(h))
<1>1. NewHandle(h) \in Handle
  <2>1. /\ h.tray \in {"open", "closed"} /\ h.disc \in Discs \cup {NoDisc}
        /\ h.media \in {"spinup", "nohdr", "noentry", "ok"} /\ h.audio \in {"none", "invalid"}
        /\ h.head = 0 /\ h.stopAt = 0 /\ h.held \in BOOLEAN
    <3>1. CASE h \in StillHardware
      BY <3>1 DEF StillHardware
    <3>2. CASE h \notin StillHardware
      <4>1. PICK g \in StillHardware, m \in {"nohdr", "noentry", "ok"} : h = SpunUp(g, m)
        BY <3>2 DEF IdleHardware
      <4> QED
        BY <4>1 DEF StillHardware, SpunUp
    <3> QED
      BY <3>1, <3>2
  <2>2. {"UNKNOWN", "INITIAL"} \subseteq Mode
    BY DEF Mode
  <2> QED
    BY <2>1, <2>2 DEF NewHandle, Handle
<1>2. Known(NewHandle(h))
  BY DEF NewHandle, Known, DiscReady
<1> QED
  BY <1>1, <1>2 DEF Sound

\* A drive wm_cd_init has opened is sound.
LEMMA OpenedSound ==
  ASSUME NEW d, Opened(d)
  PROVE  Sound(d)
BY NewHandleSound, StatusSound DEF Opened, WmCdInit

(***************************************************************************)
(* Fresh(d): the table of contents in use is that of the disc in the       *)
(* drive.  Current(d): and that disc is ready.                             *)
(***************************************************************************)
Fresh(d)   == DiscReady(d.oldmode) => d.trk = d.disc
Current(d) == DiscReady(d.oldmode) => d.trk = d.disc /\ Ready(d)

\* wm_cd_status leaves the table of contents of the disc in the drive, or none in
\* use: a disc that was there before is one whose table is right already.
LEMMA StatusCurrent ==
  ASSUME NEW d, Sound(d), Fresh(d)
  PROVE  Current(WmCdStatus(d))
<1> DEFINE toc == WithToc(d)
           s == WmCdStatus(d)
<1>1. d \in Handle /\ toc \in Handle
  BY WithTocType DEF Sound
<1>2. /\ s.oldmode = StatusMode(d) /\ s.trk = toc.trk /\ s.disc = d.disc
      /\ s.tray = d.tray /\ s.media = d.media
  BY <1>1, WithTocType DEF WmCdStatus, Handle
<1>3. SUFFICES ASSUME DiscReady(StatusMode(d)) PROVE toc.trk = d.disc /\ Ready(d)
  BY <1>2 DEF Current, Ready, Loaded
<1>4. DiscReady(GenMode(d)) /\ ~(DeviceChanged(d) /\ TocEntryFails(d))
  BY <1>3 DEF StatusMode, DiscReady
<1>5. Ready(d)
  BY <1>1, <1>4, GenModeType
<1>6. CASE DeviceChanged(d)
  BY <1>1, <1>4, <1>5, <1>6, WithTocType
<1>7. CASE ~DeviceChanged(d)
  <2>1. DiscReady(d.oldmode)
    BY <1>1, <1>4, <1>7 DEF DeviceChanged, Sound, Known, Handle, Mode, NoDiscMode, DiscReady
  <2> QED
    BY <1>1, <1>5, <1>7, <2>1, WithTocType DEF Fresh
<1> QED
  BY <1>6, <1>7

\* No ioctl changes the disc, and only those of the tray its being ready.
LEMMA IoctlKeepsDisc ==
  ASSUME NEW d \in Handle
  PROVE  /\ \A start, end : PlayMsf(d, start, end).disc = d.disc
         /\ StopAudio(d).disc = d.disc
         /\ EjectTray(d).disc = d.disc /\ CloseTray(d).disc = d.disc
         /\ PauseAudio(d).disc = d.disc /\ ResumeAudio(d).disc = d.disc
         /\ Ready(d) => Ready(PauseAudio(d)) /\ Ready(ResumeAudio(d))
<1>1. /\ \A start, end : PlayMsf(d, start, end).disc = d.disc
      /\ StopAudio(d).disc = d.disc
  BY DEF PlayMsf, StopAudio, Handle
<1>2. EjectTray(d).disc = d.disc /\ CloseTray(d).disc = d.disc
  BY DEF EjectTray, CloseTray, MoveTray, Handle
<1>3. /\ PauseAudio(d).disc = d.disc /\ ResumeAudio(d).disc = d.disc
      /\ Ready(d) => Ready(PauseAudio(d)) /\ Ready(ResumeAudio(d))
  BY DEF PauseAudio, ResumeAudio, Ready, Loaded, Handle
<1> QED
  BY <1>1, <1>2, <1>3

\* A status after an ioctl after a status.
LEMMA MovedStatusCurrent ==
  ASSUME NEW d, NEW e, Sound(d), Fresh(d), Moved(d, e), e.disc = d.disc
  PROVE  Current(WmCdStatus(e))
<1>1. Sound(e)
  BY MovedSound
<1>2. Fresh(e)
  BY DEF Fresh, Moved
<1> QED
  BY <1>1, <1>2, StatusCurrent

\* wm_cd_stop leaves the table of contents of the disc in the drive.
LEMMA StopCurrent ==
  ASSUME NEW d, Sound(d), Fresh(d)
  PROVE  Current(WmCdStop(d))
<1> DEFINE s == WmCdStatus(d)
<1>1. Sound(s) /\ s \in Handle /\ Current(s) /\ Fresh(s)
  BY StatusSound, StatusCurrent DEF Sound, Current, Fresh
<1>2. Current(WmCdStatus(StopAudio(s)))
  BY <1>1, IoctlMoves, IoctlKeepsDisc, MovedStatusCurrent
<1> QED
  BY <1>1, <1>2 DEF WmCdStop

\* wm_cd_play leaves the table of contents of the disc in the drive.
LEMMA PlayCurrent ==
  ASSUME NEW d, Sound(d), Fresh(d), NEW start, NEW pos, NEW end
  PROVE  Current(WmCdPlay(d, start, pos, end))
<1> DEFINE s == WmCdStatus(d)
           from == StartFrame(s.trk, start, pos, end)
           upto == EndFrame(s.trk, end)
           e == PlayMsf(s, from, upto)
<1>1. Sound(s) /\ s \in Handle /\ Current(s) /\ Fresh(s)
  BY StatusSound, StatusCurrent DEF Sound, Current, Fresh
<1>2. Moved(s, e) /\ e.disc = s.disc
  BY <1>1, IoctlMoves, IoctlKeepsDisc
<1>3. Current(WmCdStatus(e))
  <2> HIDE DEF e
  <2> QED
    BY <1>1, <1>2, MovedStatusCurrent
<1>4. Current(WmCdStop(s))
  BY <1>1, StopCurrent
<1> QED
  BY <1>1, <1>3, <1>4 DEF WmCdPlay

\* wm_cd_pause leaves the table of contents of the disc in the drive.
LEMMA PauseCurrent ==
  ASSUME NEW d, Sound(d), Fresh(d)
  PROVE  Current(WmCdPause(d))
<1> DEFINE s == WmCdStatus(d)
<1>1. Sound(s) /\ s \in Handle /\ Current(s)
  BY StatusSound, StatusCurrent DEF Sound
<1>2. Current(PauseAudio(s)) /\ Current(ResumeAudio(s))
  BY <1>1, IoctlMoves, IoctlKeepsDisc DEF Current, Moved
<1> QED
  BY <1>1, <1>2 DEF WmCdPause

\* wm_cd_closetray and an eject that is not refused leave the table of
\* contents of the disc in the drive, or none in use.
LEMMA TrayCurrent ==
  ASSUME NEW d, Sound(d), Fresh(d)
  PROVE  /\ ~d.held => Current(WmCdEject(d))
         /\ Current(WmCdCloseTray(d))
<1> DEFINE s == WmCdStatus(d)
<1>1. Sound(s) /\ s \in Handle /\ Current(s) /\ Fresh(s) /\ d \in Handle
  BY StatusSound, StatusCurrent DEF Sound, Current, Fresh
<1>2. Current(WmCdStatus(EjectTray(d))) /\ Current(WmCdStatus(CloseTray(s)))
  BY <1>1, IoctlMoves, IoctlKeepsDisc, MovedStatusCurrent
<1> QED
  BY <1>1, <1>2 DEF WmCdEject, WmCdCloseTray

\* One change of the drive leaves the table of contents that of the disc: to
\* swap discs takes an open tray first.
LEMMA HardwareFresh ==
  ASSUME NEW d, Sound(d), Current(d), NEW e,
         \/ OpenByHand(d, e) \/ CloseByHand(d, e) \/ SwapDisc(d, e)
         \/ SpinUp(d, e) \/ TocRecovers(d, e) \/ PlayOn(d, e) \/ AudioFails(d, e)
         \/ StatusDecays(d, e) \/ PauseTimesOut(d, e) \/ Mount(d, e)
  PROVE  Fresh(e)
<1>1. d \in Handle /\ Moved(d, e)
  BY HardwareMoves DEF Sound
<1>2. SUFFICES ASSUME DiscReady(d.oldmode) PROVE e.disc = d.disc
  BY <1>1 DEF Fresh, Current, Moved
<1>3. d.tray = "closed"
  BY <1>2 DEF Current, Ready, Loaded
<1>4. CASE OpenByHand(d, e)
  BY <1>1, <1>4 DEF OpenByHand, MoveTray, Handle
<1>5. CASE SpinUp(d, e)
  <2>1. PICK m \in {"nohdr", "noentry", "ok"} : e = SpunUp(d, m)
    BY <1>5 DEF SpinUp
  <2> QED
    BY <1>1, <2>1 DEF SpunUp, Handle
<1>6. CASE TocRecovers(d, e) \/ PlayOn(d, e) \/ AudioFails(d, e)
  BY <1>1, <1>6 DEF TocRecovers, PlayOn, AudioFails, Handle
<1>7. CASE StatusDecays(d, e) \/ PauseTimesOut(d, e) \/ Mount(d, e)
  BY <1>1, <1>7 DEF StatusDecays, PauseTimesOut, Mount, Handle
<1> QED
  BY <1>3, <1>4, <1>5, <1>6, <1>7 DEF CloseByHand, SwapDisc

\* wm_cd_init leaves the table of contents of the disc in the drive.
LEMMA OpenedCurrent ==
  ASSUME NEW d, Opened(d)
  PROVE  Current(d)
<1>1. PICK h \in IdleHardware : d = WmCdStatus(NewHandle(h))
  BY DEF Opened, WmCdInit
<1>2. Fresh(NewHandle(h))
  BY DEF Fresh, NewHandle, DiscReady
<1>3. Sound(NewHandle(h))
  BY <1>1, NewHandleSound
<1> QED
  BY <1>1, <1>2, <1>3, StatusCurrent

(***************************************************************************)
(* Heard(d): a drive that says it plays, or has played, holds a disc the   *)
(* next status does not take for a missing one.  So wm_cd_stop, which does *)
(* nothing when no disc is shown, silences it.                             *)
(***************************************************************************)
Heard(d) ==
  d.audio \in {"play", "paused", "completed"} =>
    Ready(d) /\ (d.media = "ok" \/ DiscReady(d.oldmode))

Sane(d) == Sound(d) /\ Heard(d)

\* wm_cd_status touches nothing of the hardware.
LEMMA StatusKeeps ==
  ASSUME NEW d \in Handle
  PROVE  LET s == WmCdStatus(d) IN
         /\ s.tray = d.tray /\ s.disc = d.disc /\ s.media = d.media /\ s.audio = d.audio
         /\ s.head = d.head /\ s.oldmode = StatusMode(d)
         /\ s.cur_cdmode = ShownMode(SwitchMode(d), WithToc(d).cur_cdmode)
<1>1. WithToc(d) \in Handle
  BY WithTocType
<1>2. WithToc(d).audio = d.audio /\ WithToc(d).head = d.head
  <2>1. CASE ~DeviceChanged(d)
    BY <2>1 DEF WithToc
  <2>2. CASE DeviceChanged(d)
    BY <2>2 DEF WithToc, ReadToc, Handle
  <2> QED
    BY <2>1, <2>2
<1> QED
  BY <1>1, <1>2, WithTocType DEF WmCdStatus, Handle

\* A drive that is heard is shown with a disc, and as playing if it plays.
LEMMA HeardMode ==
  ASSUME NEW d, Sane(d), d.audio \in {"play", "paused", "completed"}
  PROVE  DiscReady(StatusMode(d)) /\ (d.audio = "play" => StatusMode(d) = "PLAYING")
<1>1. /\ SubchannelMode(d) # "UNKNOWN" /\ DiscReady(SubchannelMode(d))
      /\ d.audio = "play" => SubchannelMode(d) = "PLAYING"
  BY DEF Sane, Heard, SubchannelMode, SubchannelOk, DiscReady
<1>2. GenMode(d) = SubchannelMode(d)
  BY <1>1 DEF GenMode
<1>3. ~(DeviceChanged(d) /\ TocEntryFails(d))
  BY DEF Sane, Heard, DeviceChanged, TocEntryFails, NoDiscMode, DiscReady
<1> QED
  BY <1>1, <1>2, <1>3 DEF StatusMode

\* wm_cd_status of a sane drive.
LEMMA StatusSane ==
  ASSUME NEW d, Sane(d)
  PROVE  LET s == WmCdStatus(d) IN Sane(s) /\ s.tray = d.tray /\ s.audio = d.audio
<1> DEFINE s == WmCdStatus(d)
<1>1. d \in Handle /\ Sound(s)
  BY StatusSound DEF Sane, Sound
<1>2. /\ s.tray = d.tray /\ s.disc = d.disc /\ s.media = d.media /\ s.audio = d.audio
      /\ s.oldmode = StatusMode(d)
  BY <1>1, StatusKeeps
<1>3. Heard(s)
  <2> HIDE DEF s
  <2> QED
    BY <1>2, HeardMode DEF Heard, Sane, Ready, Loaded
<1> QED
  BY <1>1, <1>2, <1>3 DEF Sane

(***************************************************************************)
(* The calls: what they leave is sane, which of them move the tray, and    *)
(* that only playing and pausing start the sound.                          *)
(***************************************************************************)

\* CDROMPLAYMSF of a disc that has been found ready leaves a sane drive.
LEMMA PlayMsfSane ==
  ASSUME NEW d, Sane(d), Ready(d), d.media = "ok" \/ DiscReady(d.oldmode),
         NEW start, NEW end
  PROVE  Sane(PlayMsf(d, start, end)) /\ PlayMsf(d, start, end).tray = d.tray
<1>1. d \in Handle
  BY DEF Sane, Sound
<1>2. Sound(PlayMsf(d, start, end))
  BY <1>1, IoctlMoves, MovedSound DEF Sane
<1>3. Heard(PlayMsf(d, start, end)) /\ PlayMsf(d, start, end).tray = d.tray
  BY <1>1 DEF Heard, PlayMsf, Ready, Loaded, Handle
<1> QED
  BY <1>2, <1>3 DEF Sane

\* The other ioctls for audio leave a sane drive.
LEMMA IoctlSane ==
  ASSUME NEW d, Sane(d)
  PROVE  /\ LET e == PauseAudio(d) IN Sane(e) /\ e.tray = d.tray
         /\ LET e == ResumeAudio(d) IN Sane(e) /\ e.tray = d.tray
         /\ LET e == StopAudio(d) IN Sane(e) /\ e.tray = d.tray /\ e.audio # "play"
<1>1. d \in Handle
  BY DEF Sane, Sound
<1>2. Sound(PauseAudio(d)) /\ Sound(ResumeAudio(d)) /\ Sound(StopAudio(d))
  BY <1>1, IoctlMoves, MovedSound DEF Sane
<1>3. LET e == PauseAudio(d) IN Heard(e) /\ e.tray = d.tray
  BY <1>1 DEF Sane, Heard, PauseAudio, Ready, Loaded, Handle
<1>4. LET e == ResumeAudio(d) IN Heard(e) /\ e.tray = d.tray
  BY <1>1 DEF Sane, Heard, ResumeAudio, Ready, Loaded, Handle
<1>5. LET e == StopAudio(d) IN Heard(e) /\ e.tray = d.tray /\ e.audio # "play"
  BY <1>1 DEF Sane, Heard, StopAudio, Ready, Loaded, Handle
<1> QED
  BY <1>2, <1>3, <1>4, <1>5 DEF Sane

\* A tray that moves takes the sound with it.
LEMMA MoveSilences ==
  ASSUME NEW d \in Handle, NEW pos \in {"open", "closed"}
  PROVE  LET e == MoveTray(d, pos) IN Heard(e) /\ e.tray = pos /\ e.audio # "play"
  BY DEF MoveTray, Heard, Handle

\* CDROMEJECT and CDROMCLOSETRAY leave a sane drive.
LEMMA TraySane ==
  ASSUME NEW d, Sane(d)
  PROVE  /\ LET e == EjectTray(d) IN
            Sane(e) /\ e.tray = "open" /\ (e = d \/ e.audio # "play")
         /\ LET e == CloseTray(d) IN
            Sane(e) /\ e.tray \in {d.tray, "closed"} /\ (e = d \/ e.audio # "play")
<1>1. d \in Handle /\ Sound(EjectTray(d)) /\ Sound(CloseTray(d))
  BY IoctlMoves, MovedSound DEF Sane, Sound
<1> QED
  BY <1>1, MoveSilences DEF EjectTray, CloseTray, Sane

\* wm_cd_stop silences the drive.
LEMMA StopSilences ==
  ASSUME NEW d, Sane(d)
  PROVE  LET e == WmCdStop(d) IN Sane(e) /\ e.tray = d.tray /\ e.audio # "play"
<1> DEFINE s == WmCdStatus(d)
           t == StopAudio(s)
<1>1. Sane(s) /\ s.tray = d.tray /\ s.audio = d.audio
  BY StatusSane
<1>2. Sane(t) /\ t.tray = d.tray /\ t.audio # "play"
  <2> HIDE DEF s
  <2> QED
    BY <1>1, IoctlSane
<1>3. LET u == WmCdStatus(t) IN Sane(u) /\ u.tray = d.tray /\ u.audio # "play"
  <2> HIDE DEF t
  <2> QED
    BY <1>2, StatusSane
<1>4. CASE NoDiscMode(s.cur_cdmode) \/ s.cur_cdmode = "STOPPED"
  <2>1. d.audio # "play"
    <3>1. SUFFICES ASSUME d.audio = "play" PROVE FALSE
      OBVIOUS
    <3>2. StatusMode(d) = "PLAYING"
      BY <3>1, HeardMode
    <3>3. s.cur_cdmode = "PLAYING"
      BY <3>2, StatusKeeps DEF Sane, Sound, SwitchMode, Parked, ShownMode
    <3> QED
      BY <1>4, <3>3 DEF NoDiscMode
  <2> QED
    BY <1>1, <1>4, <2>1 DEF WmCdStop
<1>5. CASE ~(NoDiscMode(s.cur_cdmode) \/ s.cur_cdmode = "STOPPED")
  BY <1>3, <1>5 DEF WmCdStop
<1> QED
  BY <1>4, <1>5

\* A disc is shown only by a status that has found it ready.
LEMMA ShownReady ==
  ASSUME NEW d \in Handle,
         LET s == WmCdStatus(d) IN ~NoDiscMode(s.cur_cdmode) /\ ~(s.ntracks < 1) /\ Ready(s)
  PROVE  DiscReady(WmCdStatus(d).oldmode)
<1> DEFINE s == WmCdStatus(d)
<1>1. /\ s.oldmode = StatusMode(d)
      /\ s.cur_cdmode = ShownMode(SwitchMode(d), WithToc(d).cur_cdmode)
      /\ s.tray = d.tray /\ s.disc = d.disc /\ s.media = d.media
  BY StatusKeeps
<1>2. s.ntracks = WithToc(d).ntracks
  BY WithTocType DEF WmCdStatus, Handle
<1> HIDE DEF s
<1>3. ~NoDiscMode(s.cur_cdmode) /\ ~(s.ntracks < 1) /\ Ready(d)
  BY <1>1 DEF s, Ready, Loaded
<1>4. DiscReady(GenMode(d)) \/ GenMode(d) = "UNKNOWN"
  <2>1. DriveStatus(d) \notin {"no_disc", "tray_open"}
    BY <1>3 DEF DriveStatus, Ready, Loaded
  <2> QED
    BY <2>1, GenModeType DEF GenMode, DiscReady
<1>5. CASE GenMode(d) = "UNKNOWN"
  <2>1. StatusMode(d) \in {"UNKNOWN", "NO_DISC"} /\ ~DeviceChanged(d)
    BY <1>5 DEF StatusMode, DeviceChanged, DiscReady
  <2>2. s.cur_cdmode = "NO_DISC"
    BY <1>1, <1>5, <2>1 DEF StatusMode, SwitchMode, Parked, ShownMode
  <2> QED
    BY <1>3, <2>2 DEF NoDiscMode
<1>6. CASE DiscReady(GenMode(d))
  <2>1. CASE DeviceChanged(d) /\ TocEntryFails(d)
    <3>1. s.cur_cdmode = WithToc(d).cur_cdmode
      BY <1>1, <2>1 DEF StatusMode, SwitchMode, Parked, ShownMode
    <3>2. WithToc(d).cur_cdmode = "UNKNOWN" \/ WithToc(d).ntracks = 0
      BY <2>1, WithTocType
    <3> QED
      BY <1>2, <1>3, <3>1, <3>2 DEF NoDiscMode
  <2>2. CASE ~(DeviceChanged(d) /\ TocEntryFails(d))
    BY <1>1, <1>6, <2>2 DEF StatusMode, s
  <2> QED
    BY <2>1, <2>2
<1> QED
  BY <1>4, <1>5, <1>6

\* wm_cd_play plays only from a disc that is known.
LEMMA PlaySane ==
  ASSUME NEW d, Sane(d), NEW start, NEW pos, NEW end
  PROVE  LET e == WmCdPlay(d, start, pos, end) IN Sane(e) /\ e.tray = d.tray
<1> DEFINE s == WmCdStatus(d)
           from == StartFrame(s.trk, start, pos, end)
           upto == EndFrame(s.trk, end)
           p == PlayMsf(s, from, upto)
<1>1. Sane(s) /\ s.tray = d.tray /\ d \in Handle
  BY StatusSane DEF Sane, Sound
<1>2. LET e == WmCdStop(s) IN Sane(e) /\ e.tray = d.tray
  BY <1>1, StopSilences
<1>3. CASE NoDiscMode(s.cur_cdmode) \/ s.ntracks < 1
  BY <1>1, <1>3 DEF WmCdPlay
<1>4. CASE ~NoDiscMode(s.cur_cdmode) /\ ~(s.ntracks < 1)
  <2>1. Ready(s) => s.media = "ok" \/ DiscReady(s.oldmode)
    BY <1>1, <1>4, ShownReady
  <2>2. Sane(p) /\ p.tray = d.tray
    <3> HIDE DEF s, from, upto
    <3>1. CASE Ready(s)
      BY <1>1, <2>1, <3>1, PlayMsfSane
    <3>2. CASE ~Ready(s)
      BY <1>1, <3>2 DEF PlayMsf
    <3> QED
      BY <3>1, <3>2
  <2>3. LET e == WmCdStatus(p) IN Sane(e) /\ e.tray = d.tray
    <3> HIDE DEF p
    <3> QED
      BY <2>2, StatusSane
  <2> QED
    BY <1>2, <1>4, <2>3 DEF WmCdPlay
<1> QED
  BY <1>3, <1>4

\* wm_cd_pause leaves the tray alone.
LEMMA PauseSane ==
  ASSUME NEW d, Sane(d)
  PROVE  LET e == WmCdPause(d) IN Sane(e) /\ e.tray = d.tray
<1> DEFINE s == WmCdStatus(d)
<1>1. Sane(s) /\ s.tray = d.tray
  BY StatusSane
<1> HIDE DEF s
<1>2. /\ LET e == PauseAudio(s) IN Sane(e) /\ e.tray = d.tray
      /\ LET e == ResumeAudio(s) IN Sane(e) /\ e.tray = d.tray
  BY <1>1, IoctlSane
<1> QED
  BY <1>1, <1>2 DEF WmCdPause, s

\* wm_cd_eject opens the tray or leaves it as it is.
LEMMA EjectSane ==
  ASSUME NEW d, Sane(d)
  PROVE  LET e == WmCdEject(d) IN
         /\ Sane(e) /\ e.tray \in {d.tray, "open"}
         /\ e.audio \in {d.audio} \/ e.audio # "play"
         /\ e.tray # d.tray => e.audio # "play"
<1> DEFINE t == EjectTray(d)
<1>1. Sane(t) /\ t.tray = "open" /\ (t = d \/ t.audio # "play")
  BY TraySane
<1>2. LET e == WmCdStatus(t) IN Sane(e) /\ e.tray = t.tray /\ e.audio = t.audio
  <2> HIDE DEF t
  <2> QED
    BY <1>1, StatusSane
<1> QED
  BY <1>1, <1>2 DEF WmCdEject

\* wm_cd_closetray closes the tray or leaves it as it is.
LEMMA CloseTraySane ==
  ASSUME NEW d, Sane(d)
  PROVE  LET e == WmCdCloseTray(d) IN
         /\ Sane(e) /\ e.tray \in {d.tray, "closed"}
         /\ e.audio = d.audio \/ e.audio # "play"
<1> DEFINE s == WmCdStatus(d)
           t == CloseTray(s)
<1>1. Sane(s) /\ s.tray = d.tray /\ s.audio = d.audio
  BY StatusSane
<1>2. Sane(t) /\ t.tray \in {d.tray, "closed"} /\ (t.audio = d.audio \/ t.audio # "play")
  <2> HIDE DEF s
  <2> QED
    BY <1>1, TraySane
<1>3. LET e == WmCdStatus(t) IN Sane(e) /\ e.tray = t.tray /\ e.audio = t.audio
  <2> HIDE DEF t
  <2> QED
    BY <1>2, StatusSane
<1> QED
  BY <1>1, <1>2, <1>3 DEF WmCdCloseTray

\* What happens to the drive by hand or by itself leaves it sane and starts no
\* sound.
LEMMA HardwareSane ==
  ASSUME NEW d, Sane(d), NEW e,
         \/ OpenByHand(d, e) \/ CloseByHand(d, e) \/ SwapDisc(d, e)
         \/ SpinUp(d, e) \/ TocRecovers(d, e) \/ PlayOn(d, e) \/ AudioFails(d, e)
         \/ StatusDecays(d, e) \/ PauseTimesOut(d, e) \/ Mount(d, e)
  PROVE  /\ Sane(e) /\ (e.audio = d.audio \/ e.audio # "play")
         /\ OpenByHand(d, e) => d.tray = "closed" /\ e.tray = "open" /\ e.audio # "play"
         /\ CloseByHand(d, e) => e.tray = "closed"
         /\ ~OpenByHand(d, e) /\ ~CloseByHand(d, e) => e.tray = d.tray
<1>1. d \in Handle /\ Sound(e)
  BY HardwareMoves, MovedSound DEF Sane, Sound
<1>2. CASE OpenByHand(d, e)
  BY <1>1, <1>2, MoveSilences DEF OpenByHand, CloseByHand, Sane
<1>3. CASE CloseByHand(d, e)
  BY <1>1, <1>3, MoveSilences DEF OpenByHand, CloseByHand, Sane
<1>4. ASSUME ~OpenByHand(d, e), ~CloseByHand(d, e)
      PROVE  Heard(e) /\ (e.audio = d.audio \/ e.audio # "play") /\ e.tray = d.tray
  <2>1. CASE SwapDisc(d, e)
    <3>1. d.audio \notin {"play", "paused", "completed"}
      BY <2>1 DEF SwapDisc, Sane, Heard, Ready, Loaded
    <3>2. PICK c : e = [d EXCEPT !.disc = c]
      BY <2>1 DEF SwapDisc
    <3> QED
      BY <1>1, <3>1, <3>2 DEF Heard, Handle
  <2>2. CASE SpinUp(d, e)
    <3>1. PICK m \in {"nohdr", "noentry", "ok"} : e = SpunUp(d, m)
      BY <2>2 DEF SpinUp
    <3> QED
      BY <1>1, <3>1 DEF SpunUp, Heard, Handle
  <2>3. CASE TocRecovers(d, e)
    BY <1>1, <2>3 DEF TocRecovers, Sane, Heard, Ready, Loaded, Handle
  <2>4. CASE PlayOn(d, e)
    BY <1>1, <2>4 DEF PlayOn, Sane, Heard, Ready, Loaded, Handle
  <2>5. CASE AudioFails(d, e) \/ StatusDecays(d, e) \/ PauseTimesOut(d, e)
    BY <1>1, <2>5 DEF AudioFails, StatusDecays, PauseTimesOut, Heard, Handle
  <2>6. CASE Mount(d, e)
    BY <1>1, <2>6 DEF Mount, Sane, Heard, Ready, Loaded, Handle
  <2> QED
    BY <1>4, <2>1, <2>2, <2>3, <2>4, <2>5, <2>6
<1> QED
  BY <1>1, <1>2, <1>3, <1>4 DEF Sane

\* By itself a drive does not move its tray.
LEMMA TurnKeepsTray ==
  ASSUME NEW d \in Handle, NEW e, SpinUp(d, e) \/ PlayOn(d, e) \/ StatusDecays(d, e)
  PROVE  e.tray = d.tray
<1>1. CASE SpinUp(d, e)
  <2>1. PICK m \in {"nohdr", "noentry", "ok"} : e = SpunUp(d, m)
    BY <1>1 DEF SpinUp
  <2> QED
    BY <2>1 DEF SpunUp, Handle
<1>2. CASE PlayOn(d, e)
  BY <1>2 DEF PlayOn, Handle
<1>3. CASE StatusDecays(d, e)
  BY <1>3 DEF StatusDecays, Handle
<1> QED
  BY <1>1, <1>2, <1>3

\* A drive nobody has played from.
LEMMA IdleSilent ==
  ASSUME NEW h \in IdleHardware
  PROVE  h.audio \in {"none", "invalid"}
<1>1. CASE h \in StillHardware
  BY <1>1 DEF StillHardware
<1>2. CASE h \notin StillHardware
  <2>1. PICK g \in StillHardware, m \in {"nohdr", "noentry", "ok"} : h = SpunUp(g, m)
    BY <1>2 DEF IdleHardware
  <2> QED
    BY <2>1 DEF StillHardware, SpunUp
<1> QED
  BY <1>1, <1>2

\* A drive wm_cd_init has opened is sane, and silent.
LEMMA OpenedSane ==
  ASSUME NEW d, Opened(d)
  PROVE  Sane(d) /\ d.audio # "play"
<1>1. PICK h \in IdleHardware : d = WmCdStatus(NewHandle(h))
  BY DEF Opened, WmCdInit
<1>2. NewHandle(h).audio \notin {"play", "paused", "completed"}
  BY <1>1, IdleSilent DEF NewHandle
<1>3. Sane(NewHandle(h))
  BY <1>1, <1>2, NewHandleSound DEF Sane, Heard
<1> QED
  BY <1>1, <1>2, <1>3, StatusSane

(***************************************************************************)
(* A second status, and the track under the head.                          *)
(***************************************************************************)

\* A wm_cd_status after another finds the modes the first has found, and has
\* the table of contents it left.
LEMMA StatusAgain ==
  ASSUME NEW d, Sound(d)
  PROVE  WmCdStatus(WmCdStatus(d)) = WmCdStatus(d)
<1> DEFINE w == WithToc(d)
           s == WmCdStatus(d)
<1>1. d \in Handle /\ w \in Handle /\ s \in Handle
  BY WithTocType, StatusSound DEF Sound
<1>2. /\ s.tray = d.tray /\ s.disc = d.disc /\ s.media = d.media /\ s.audio = d.audio
      /\ s.oldmode = StatusMode(d) /\ s.cur_cdmode = ShownMode(SwitchMode(d), w.cur_cdmode)
  BY <1>1, StatusKeeps
<1>3. /\ s.ntracks = w.ntracks /\ s.trk = w.trk /\ s.curtrack = CurTrack(d)
  BY <1>1 DEF WmCdStatus, Handle
<1>4. s.head = d.head
  BY <1>1, StatusKeeps
<1> HIDE DEF s
<1>5. DriveStatus(s) = DriveStatus(d) /\ SubchannelOk(s) = SubchannelOk(d)
  BY <1>2 DEF DriveStatus, SubchannelOk, Ready, Loaded
<1>6. TocHeaderFails(s) = TocHeaderFails(d) /\ TocEntryFails(s) = TocEntryFails(d)
  BY <1>2 DEF TocHeaderFails, TocEntryFails, Ready, Loaded
<1> DEFINE failed == DeviceChanged(d) /\ TocEntryFails(d)
<1>7. StatusMode(d) = IF failed THEN "NO_DISC" ELSE GenMode(d)
  BY DEF StatusMode
<1>8. SubchannelMode(s) = SubchannelMode(d)
  <2>1. CASE ~SubchannelOk(d) \/ d.audio # "paused"
    BY <1>2, <1>5, <2>1 DEF SubchannelMode
  <2>2. CASE SubchannelOk(d) /\ d.audio = "paused"
    <3>1. SubchannelMode(d) = IF d.oldmode \in {"PLAYING", "PAUSED"} THEN "PAUSED" ELSE "STOPPED"
      BY <2>2 DEF SubchannelMode
    <3>2. SubchannelMode(s) = IF StatusMode(d) \in {"PLAYING", "PAUSED"} THEN "PAUSED" ELSE "STOPPED"
      BY <1>2, <1>5, <2>2 DEF SubchannelMode
    <3>3. GenMode(d) = SubchannelMode(d)
      BY <3>1 DEF GenMode
    <3>4. DeviceChanged(d) => d.oldmode \notin {"PLAYING", "PAUSED"}
      BY DEF DeviceChanged, NoDiscMode
    <3> QED
      BY <1>7, <3>1, <3>2, <3>3, <3>4
  <2> QED
    BY <2>1, <2>2
<1>9. GenMode(s) = GenMode(d)
  BY <1>5, <1>8 DEF GenMode
<1>10. DeviceChanged(s) <=> failed
  BY <1>1, <1>2, <1>7, <1>9, GenModeType DEF DeviceChanged, NoDiscMode, DiscReady
<1>11. StatusMode(s) = StatusMode(d)
  BY <1>6, <1>7, <1>9, <1>10 DEF StatusMode
<1>12. (Parked(s) <=> Parked(d)) /\ SwitchMode(s) = SwitchMode(d)
  BY <1>3, <1>4, <1>11 DEF Parked, SwitchMode
<1>13. WithToc(s) = s
  <2>1. CASE ~failed
    BY <1>10, <2>1 DEF WithToc
  <2>2. CASE failed
    <3> DEFINE e == [d EXCEPT !.ntracks = 0]
               f == [s EXCEPT !.ntracks = 0]
    <3>1. w = ReadToc(e) /\ WithToc(s) = ReadToc(f)
      BY <1>10, <2>2 DEF WithToc
    <3>2. /\ e.disc = d.disc /\ e.tray = d.tray /\ e.media = d.media /\ e.ntracks = 0
          /\ e \in Handle
          /\ f.disc = d.disc /\ f.tray = d.tray /\ f.media = d.media /\ f \in Handle
      BY <1>1, <1>2 DEF Handle
    <3>3. /\ TocHeaderFails(e) = TocHeaderFails(d) /\ TocHeaderFails(f) = TocHeaderFails(d)
          /\ TocEntryFails(e) = TocEntryFails(d) /\ TocEntryFails(f) = TocEntryFails(d)
      BY <3>2 DEF TocHeaderFails, TocEntryFails, Ready, Loaded
    <3>4. CASE TocHeaderFails(d)
      <4>1. s.ntracks = 0 /\ WithToc(s) = f
        BY <1>3, <3>1, <3>2, <3>3, <3>4 DEF ReadToc
      <4> QED
        BY <1>1, <4>1 DEF Handle
    <3>5. CASE ~TocHeaderFails(d)
      <4> HIDE DEF e, f
      <4>1. /\ w = [e EXCEPT !.ntracks = LastTrack(d.disc), !.cur_cdmode = "UNKNOWN", !.trk = NoDisc]
            /\ WithToc(s) =
                 [f EXCEPT !.ntracks = LastTrack(d.disc), !.cur_cdmode = "UNKNOWN", !.trk = NoDisc]
        BY <2>2, <3>1, <3>2, <3>3, <3>5 DEF ReadToc
      <4>2. w.ntracks = LastTrack(d.disc) /\ w.cur_cdmode = "UNKNOWN" /\ w.trk = NoDisc
        BY <3>2, <4>1 DEF Handle
      <4>3. SwitchMode(d) = "NO_DISC"
        BY <1>7, <2>2 DEF SwitchMode, Parked
      <4>4. s.ntracks = LastTrack(d.disc) /\ s.cur_cdmode = "UNKNOWN" /\ s.trk = NoDisc
        BY <1>2, <1>3, <4>2, <4>3 DEF ShownMode
      <4>5. [f EXCEPT !.ntracks = s.ntracks, !.cur_cdmode = s.cur_cdmode, !.trk = s.trk] = s
        BY <1>1 DEF Handle, f
      <4> QED
        BY <4>1, <4>4, <4>5
    <3> QED
      BY <3>4, <3>5
  <2> QED
    BY <2>1, <2>2
<1>14. ShownMode(SwitchMode(s), s.cur_cdmode) = s.cur_cdmode
  BY <1>2, <1>12 DEF ShownMode
<1>15. CurTrack(s) = s.curtrack
  <2>1. CurTrack(s) =
          CASE Parked(d) -> 0
            [] SwitchMode(d) \in {"PLAYING", "PAUSED"} -> TrackAt(w.trk, d.head)
            [] SwitchMode(d) = "NO_DISC" /\ SubchannelMode(d) \in {"PLAYING", "PAUSED"}
                 -> TrackAt(d.disc, d.head)
            [] OTHER -> s.curtrack
    BY <1>2, <1>3, <1>4, <1>8, <1>12, <1>13 DEF CurTrack
  <2>2. CurTrack(d) =
          CASE Parked(d) -> 0
            [] SwitchMode(d) \in {"PLAYING", "PAUSED"} -> TrackAt(w.trk, d.head)
            [] SwitchMode(d) = "NO_DISC" /\ SubchannelMode(d) \in {"PLAYING", "PAUSED"}
                 -> TrackAt(d.disc, d.head)
            [] OTHER -> d.curtrack
    BY DEF CurTrack
  <2>3. Parked(d) => SwitchMode(d) = "STOPPED"
    BY DEF SwitchMode
  <2> HIDE DEF w
  <2> QED
    BY <1>3, <2>1, <2>2, <2>3
<1>16. WmCdStatus(s) = [s EXCEPT !.oldmode = s.oldmode, !.cur_cdmode = s.cur_cdmode,
                                 !.curtrack = s.curtrack]
  BY <1>2, <1>11, <1>13, <1>14, <1>15 DEF WmCdStatus
<1>17. WmCdStatus(s) = s
  BY <1>1, <1>16 DEF Handle
<1> QED
  BY <1>17 DEF s

\* wm_cd_play ends with a status, and another finds nothing new.
LEMMA PlaySettled ==
  ASSUME NEW d, Sound(d), NEW start, NEW pos, NEW end
  PROVE  LET e == WmCdPlay(d, start, pos, end) IN WmCdStatus(e) = e
<1> DEFINE s == WmCdStatus(d)
           t == WmCdStatus(s)
           p == PlayMsf(s, StartFrame(s.trk, start, pos, end), EndFrame(s.trk, end))
<1>1. Sound(s) /\ Sound(t) /\ WmCdStatus(s) = s /\ WmCdStatus(t) = t
  BY StatusSound, StatusAgain
<1>2. WmCdStatus(WmCdStatus(p)) = WmCdStatus(p)
  <2> DEFINE from == StartFrame(s.trk, start, pos, end)
             upto == EndFrame(s.trk, end)
  <2> HIDE DEF s, from, upto
  <2>1. Moved(s, PlayMsf(s, from, upto))
    BY <1>1, IoctlMoves DEF Sound
  <2>2. Sound(PlayMsf(s, from, upto))
    BY <1>1, <2>1, MovedSound
  <2> QED
    BY <2>2, StatusAgain DEF from, upto
<1>3. WmCdStatus(WmCdStop(s)) = WmCdStop(s)
  <2> HIDE DEF s
  <2>1. Moved(t, StopAudio(t))
    BY <1>1, IoctlMoves DEF Sound
  <2>2. Sound(StopAudio(t))
    BY <1>1, <2>1, MovedSound
  <2>3. WmCdStatus(WmCdStatus(StopAudio(t))) = WmCdStatus(StopAudio(t))
    BY <2>2, StatusAgain
  <2> QED
    BY <1>1, <2>3 DEF WmCdStop
<1> HIDE DEF t
<1> QED
  BY <1>1, <1>2, <1>3 DEF WmCdPlay

\* wm_cd_status of a drive that plays reads the track under the head.
LEMMA StatusTrackPlayed ==
  ASSUME NEW d, Sane(d), Fresh(d), d.audio = "play"
  PROVE  WmCdStatus(d).curtrack = TrackAt(d.disc, d.head)
<1> DEFINE s == WmCdStatus(d)
<1>1. d \in Handle /\ Current(s) /\ s.disc = d.disc /\ s.oldmode = StatusMode(d)
  BY StatusCurrent, StatusKeeps DEF Sane, Sound
<1>2. s.curtrack = CurTrack(d) /\ s.trk = WithToc(d).trk
  BY <1>1, WithTocType DEF WmCdStatus, Handle
<1>3. StatusMode(d) = "PLAYING" /\ SwitchMode(d) = "PLAYING" /\ ~Parked(d)
  BY HeardMode DEF SwitchMode, Parked
<1> HIDE DEF s
<1>4. s.trk = d.disc
  BY <1>1, <1>3 DEF Current, DiscReady
<1>5. CurTrack(d) = TrackAt(WithToc(d).trk, d.head)
  BY <1>3 DEF CurTrack
<1> QED
  BY <1>2, <1>4, <1>5 DEF s

\* Every track of a disc has a start, and the lead-out.
LEMMA StartsNat ==
  ASSUME NEW c \in Discs
  PROVE  LastTrack(c) \in Nat \ {0} /\ \A v \in 1 .. (LastTrack(c) + 1) : TrackStart[c][v] \in Nat
<1>1. LastTrack(c) \in Nat \ {0} /\ TrackStart[c] \in Seq(Nat)
  BY DiscAssumption
<1>2. LastTrack(c) + 1 = Len(TrackStart[c])
  BY <1>1 DEF LastTrack
<1> QED
  BY <1>1, <1>2

\* The tracks of a disc start one after the other.
LEMMA StartsRise ==
  ASSUME NEW c \in Discs, NEW t \in 1 .. LastTrack(c), NEW u \in (t + 1) .. (LastTrack(c) + 1)
  PROVE  TrackStart[c][t + 1] <= TrackStart[c][u]
<1> DEFINE n == LastTrack(c)
           T == TrackStart[c]
           Bad == {v \in (t + 1) .. (n + 1) : ~(T[t + 1] <= T[v])}
<1>1. n \in Nat \ {0} /\ \A v \in 1 .. n : T[v] < T[v + 1]
  BY DiscAssumption
<1>2. \A v \in 1 .. (n + 1) : T[v] \in Nat
  BY StartsNat
<1>3. ASSUME Bad # {} PROVE FALSE
  <2>1. PICK v \in Bad : \A x \in Bad : v <= x
    <3>1. Bad \subseteq Nat
      BY <1>1
    <3> HIDE DEF Bad
    <3> QED
      BY <1>3, <3>1, LeastNumber
  <2>2. v \in (t + 1) .. (n + 1) /\ ~(T[t + 1] <= T[v])
    BY <2>1
  <2>3. v # t + 1
    BY <1>1, <1>2, <2>2
  <2>4. v - 1 \in (t + 1) .. (n + 1) /\ v - 1 \in 1 .. n
    BY <1>1, <2>2, <2>3
  <2>5. T[t + 1] <= T[v - 1]
    <3>1. v - 1 \notin Bad
      BY <2>1, <2>4
    <3> QED
      BY <2>4, <3>1
  <2>6. T[v - 1] < T[v - 1 + 1] /\ v - 1 + 1 = v
    BY <1>1, <2>2, <2>4
  <2>7. T[t + 1] \in Nat /\ T[v - 1] \in Nat /\ T[v] \in Nat
    BY <1>1, <1>2, <2>2, <2>4
  <2> HIDE DEF T
  <2> QED
    BY <2>2, <2>5, <2>6, <2>7
<1> QED
  BY <1>3

\* The search loop finds the track a frame lies in.
LEMMA TrackAtIs ==
  ASSUME NEW c \in Discs, NEW t \in 1 .. LastTrack(c), NEW f \in Nat,
         TrackStart[c][t] <= f, f < TrackStart[c][t + 1]
  PROVE  TrackAt(c, f) = t
<1> DEFINE n == LastTrack(c)
           T == TrackStart[c]
           In(x) == (x = 1 \/ T[x] <= f) /\ \A u \in (x + 1) .. n : f < T[u]
<1>1. n \in Nat \ {0} /\ \A v \in 1 .. (n + 1) : T[v] \in Nat
  BY StartsNat
<1>2. \A u \in (t + 1) .. (n + 1) : T[t + 1] <= T[u]
  BY StartsRise
<1>3. \A u \in (t + 1) .. n : f < T[u]
  <2>1. SUFFICES ASSUME NEW u \in (t + 1) .. n PROVE f < T[u]
    OBVIOUS
  <2>2. T[t + 1] <= T[u] /\ T[u] \in Nat /\ T[t + 1] \in Nat
    BY <1>1, <1>2, <2>1
  <2> HIDE DEF T
  <2> QED
    BY <2>2 DEF T
<1>4. In(t)
  BY <1>3
<1>5. ASSUME NEW x \in 1 .. n, In(x) PROVE x = t
  <2>1. x <= t
    <3>1. SUFFICES ASSUME x > t PROVE FALSE
      BY <1>1
    <3>2. x # 1 /\ x \in (t + 1) .. n
      BY <1>1, <3>1
    <3>3. f < T[x] /\ T[x] <= f /\ T[x] \in Nat
      BY <1>1, <1>3, <1>5, <3>2
    <3> HIDE DEF T
    <3> QED
      BY <3>3
  <2>2. x >= t
    <3>1. SUFFICES ASSUME x < t PROVE FALSE
      BY <1>1
    <3>2. t \in (x + 1) .. n
      BY <1>1, <3>1
    <3>3. f < T[t] /\ T[t] <= f /\ T[t] \in Nat
      BY <1>1, <1>5, <3>2
    <3> HIDE DEF T
    <3> QED
      BY <3>3
  <2> QED
    BY <1>1, <2>1, <2>2
<1>6. TrackAt(c, f) = CHOOSE x \in 1 .. n : In(x)
  BY DEF TrackAt
<1> HIDE DEF In
<1> QED
  BY <1>4, <1>5, <1>6

\* The search loop ends on a track that begins before the frame, or on the first,
\* with the next beginning after it; and there is no other such track.
InTrack(c, frame, t) ==
  /\ t = 1 \/ TrackStart[c][t] <= frame
  /\ \A u \in (t + 1) .. LastTrack(c) : frame < TrackStart[c][u]

LEMMA TrackAtFound ==
  ASSUME NEW c \in Discs, NEW f \in Nat
  PROVE  /\ TrackAt(c, f) \in 1 .. LastTrack(c) /\ InTrack(c, f, TrackAt(c, f))
         /\ \A t \in 1 .. LastTrack(c) : InTrack(c, f, t) => TrackAt(c, f) = t
<1> DEFINE n == LastTrack(c)
           T == TrackStart[c]
<1>1. n \in Nat \ {0} /\ \A v \in 1 .. (n + 1) : T[v] \in Nat
  BY StartsNat
<1>2. ASSUME NEW x \in 1 .. n, NEW y \in 1 .. n, InTrack(c, f, x), InTrack(c, f, y), x < y
      PROVE  FALSE
  <2>1. y \in (x + 1) .. n /\ y # 1 /\ y \in 1 .. (n + 1)
    BY <1>1, <1>2
  <2>2. f < T[y] /\ T[y] <= f /\ T[y] \in Nat
    BY <1>1, <1>2, <2>1 DEF InTrack
  <2> HIDE DEF T
  <2> QED
    BY <2>2
<1>3. TrackAt(c, f) \in 1 .. n /\ InTrack(c, f, TrackAt(c, f))
  <2>1. \E t \in 1 .. n : InTrack(c, f, t)
    BY TrackAtSome DEF InTrack
  <2>2. TrackAt(c, f) = CHOOSE t \in 1 .. n : InTrack(c, f, t)
    BY DEF TrackAt, InTrack
  <2> QED
    BY <2>1, <2>2
<1>4. ASSUME NEW t \in 1 .. n, InTrack(c, f, t) PROVE TrackAt(c, f) = t
  <2>1. ~(TrackAt(c, f) < t) /\ ~(t < TrackAt(c, f))
    BY <1>2, <1>3, <1>4
  <2> QED
    BY <1>1, <1>3, <2>1
<1> QED
  BY <1>3, <1>4

\* A second on, the head is in the same track or in the next, if no track is
\* shorter than that.
LEMMA TrackAtNextSecond ==
  ASSUME NEW c \in Discs, NEW f \in Nat,
         \A t \in 1 .. LastTrack(c) : TrackStart[c][t + 1] - TrackStart[c][t] >= 76
  PROVE  TrackAt(c, f + 75) \in {TrackAt(c, f), TrackAt(c, f) + 1}
<1> DEFINE n == LastTrack(c)
           T == TrackStart[c]
           t == TrackAt(c, f)
<1>1. n \in Nat \ {0} /\ \A v \in 1 .. (n + 1) : T[v] \in Nat
  BY StartsNat
<1>2. t \in 1 .. n /\ InTrack(c, f, t)
  BY TrackAtFound
<1>3. f + 75 \in Nat
  OBVIOUS
<1> HIDE DEF t
<1>4. CASE t = n \/ f + 75 < T[t + 1]
  <2>1. ASSUME NEW u \in (t + 1) .. n PROVE f + 75 < T[u]
    <3>1. f + 75 < T[t + 1] /\ T[t + 1] <= T[u]
      BY <1>1, <1>2, <1>4, <2>1, StartsRise
    <3>2. T[t + 1] \in Nat /\ T[u] \in Nat
      BY <1>1, <1>2, <2>1
    <3> HIDE DEF T
    <3> QED
      BY <3>1, <3>2
  <2>2. t = 1 \/ T[t] <= f + 75
    <3>1. T[t] \in Nat
      BY <1>1, <1>2
    <3>2. t = 1 \/ T[t] <= f
      BY <1>2 DEF InTrack
    <3> HIDE DEF T
    <3> QED
      BY <3>1, <3>2
  <2>3. InTrack(c, f + 75, t)
    BY <2>1, <2>2 DEF InTrack
  <2> QED
    BY <1>2, <1>3, <2>3, TrackAtFound DEF t
<1>5. CASE t # n /\ ~(f + 75 < T[t + 1])
  <2>1. t + 1 \in 1 .. n /\ t + 1 \in (t + 1) .. n
    BY <1>1, <1>2, <1>5
  <2>2. T[t + 1] <= f + 75 /\ f < T[t + 1] /\ T[t + 1] \in Nat
    BY <1>1, <1>2, <1>5, <2>1 DEF InTrack
  <2>3. ASSUME NEW u \in (t + 2) .. n PROVE f + 75 < T[u]
    <3>1. T[t + 2] <= T[u] /\ T[t + 2] \in Nat /\ T[u] \in Nat
      <4>1. u \in ((t + 1) + 1) .. (n + 1) /\ (t + 1) + 1 = t + 2 /\ t + 2 \in 1 .. (n + 1)
        BY <1>1, <1>2, <2>1
      <4> QED
        BY <1>1, <2>1, <4>1, StartsRise
    <3>2. T[t + 2] - T[t + 1] >= 76
      <4>1. (t + 1) + 1 = t + 2
        BY <1>2
      <4> QED
        BY <2>1, <4>1
    <3> HIDE DEF T
    <3> QED
      BY <2>2, <3>1, <3>2
  <2>4. InTrack(c, f + 75, t + 1)
    <3>1. (t + 1) + 1 = t + 2
      BY <1>2
    <3> QED
      BY <2>2, <2>3, <3>1 DEF InTrack
  <2> QED
    BY <1>3, <2>1, <2>4, TrackAtFound DEF t
<1> QED
  BY <1>4, <1>5 DEF t

\* wm_cd_play of a track of an audio disc, up to the next or to the end of the
\* disc, asks for frames that begin in the track, if it lasts a second and two
\* frames or more and the position is in it: the start is moved back behind no
\* start of a track.
LEMMA PlayFrames ==
  ASSUME NEW c \in Discs, DataTracks[c] = {}, NEW t \in 1 .. LastTrack(c),
         NEW pos \in Nat, NEW end \in {0, t + 1},
         TrackStart[c][t + 1] - TrackStart[c][t] >= 76,
         TrackStart[c][t] + 75 * pos < TrackStart[c][t + 1]
  PROVE  LET from == StartFrame(c, t, pos, end)  upto == EndFrame(c, end) IN
         /\ from \in Nat /\ upto \in Nat /\ from < upto /\ upto <= LeadOut(c)
         /\ TrackStart[c][t] <= from /\ from < TrackStart[c][t + 1]
         /\ pos = 0 => from = TrackStart[c][t]
         /\ StartTrack(c, t) = t /\ StartTrack(c, t) <= EndTrack(c, end)
<1> DEFINE n == LastTrack(c)
           T == TrackStart[c]
           L == LeadOut(c)
<1>1. n \in Nat \ {0} /\ \A v \in 1 .. (n + 1) : T[v] \in Nat
  BY StartsNat
<1>2. RealEnd(c) = n /\ RealStart(c) = 1
  <2>1. AudioTracks(c) = 1 .. n
    BY DEF AudioTracks
  <2>2. RealEnd(c) \in 1 .. n /\ \A u \in 1 .. n : u <= RealEnd(c)
    <3>1. n \in 1 .. n /\ \A u \in 1 .. n : u <= n
      BY <1>1
    <3> HIDE DEF n
    <3> QED
      BY <2>1, <3>1 DEF RealEnd
  <2>3. RealStart(c) \in 1 .. n /\ \A u \in 1 .. n : RealStart(c) <= u
    <3>1. 1 \in 1 .. n /\ \A u \in 1 .. n : 1 <= u
      BY <1>1
    <3> HIDE DEF n
    <3> QED
      BY <2>1, <3>1 DEF RealStart
  <2> QED
    BY <1>1, <2>2, <2>3
<1>3. StartTrack(c, t) = t
  BY <1>1, <1>2 DEF StartTrack
<1>4. EndTrack(c, end) = n \/ (EndTrack(c, end) = t + 1 /\ t + 1 < n)
  BY <1>1, <1>2 DEF EndTrack
<1>5. t <= EndTrack(c, end)
  BY <1>1, <1>4
<1>6. L = T[n + 1] /\ T[t + 1] <= L /\ L \in Nat /\ T[t] \in Nat /\ T[t + 1] \in Nat
  <2>1. T[t + 1] <= T[n + 1]
    BY <1>1, StartsRise
  <2> QED
    BY <1>1, <2>1 DEF LeadOut
<1> DEFINE upto == EndFrame(c, end)
<1>7. upto \in Int /\ T[t] <= upto - 1 /\ upto <= L
  <2>1. CASE EndTrack(c, end) = n
    <3>1. upto = (L \div 75) * 75 - 1
      BY <2>1 DEF EndFrame
    <3> HIDE DEF L, T, upto
    <3>2. /\ (L \div 75) * 75 \in Int /\ L - 74 <= (L \div 75) * 75 /\ (L \div 75) * 75 <= L
      BY <1>6
    <3>3. T[t + 1] - T[t] >= 76
      BY DEF T
    <3> QED
      BY <1>6, <3>1, <3>2, <3>3
  <2>2. CASE EndTrack(c, end) = t + 1 /\ t + 1 < n
    <3>1. upto = T[t + 1] - 1 - 1
      BY <1>1, <2>2 DEF EndFrame
    <3>2. T[t + 1] - T[t] >= 76
      OBVIOUS
    <3> HIDE DEF L, T, upto
    <3> QED
      BY <1>6, <3>1, <3>2
  <2> QED
    BY <1>4, <2>1, <2>2
<1>8. StartFrame(c, t, pos, end) =
        IF T[t] + pos * 75 >= upto THEN upto - 1 ELSE T[t] + pos * 75
  BY <1>3 DEF StartFrame
<1>9. T[t] + 75 * pos < T[t + 1]
  OBVIOUS
<1>10. pos * 75 \in Nat /\ pos * 75 = 75 * pos
  OBVIOUS
<1> HIDE DEF T, L, upto
<1>11. /\ upto \in Nat /\ upto <= L
       /\ LET from == IF T[t] + pos * 75 >= upto THEN upto - 1 ELSE T[t] + pos * 75 IN
          /\ from \in Nat /\ from < upto /\ T[t] <= from /\ from < T[t + 1]
          /\ pos = 0 => from = T[t]
  BY <1>6, <1>7, <1>9, <1>10
<1> QED
  BY <1>3, <1>5, <1>8, <1>11 DEF T, L, upto

\* The head is in a track, and at its start if that is the position.
HeadIn(d, t, pos) ==
  /\ TrackAt(d.disc, d.head) = t
  /\ pos = 0 => d.head = TrackStart[d.disc][t]

\* A wm_cd_play that leaves the drive playing plays the track it was asked for.
LEMMA PlayStarts ==
  ASSUME NEW d, Sane(d), Fresh(d), NEW t \in Nat, NEW pos \in Nat, NEW end \in {0, t + 1},
         NEW e, e = WmCdPlay(d, t, pos, end), e.audio = "play",
         t \in AudioTracks(e.disc), DataTracks[e.disc] = {},
         e.disc \in Discs =>
           \A u \in 1 .. LastTrack(e.disc) :
             /\ TrackStart[e.disc][u + 1] - TrackStart[e.disc][u] >= 76
             /\ TrackStart[e.disc][u] + 75 * pos < TrackStart[e.disc][u + 1]
  PROVE  HeadIn(e, t, pos)
<1> DEFINE s == WmCdStatus(d)
           from == StartFrame(s.trk, t, pos, end)
           upto == EndFrame(s.trk, end)
           p == PlayMsf(s, from, upto)
<1>1. /\ d \in Handle /\ s \in Handle /\ Sane(s) /\ Sound(s) /\ Current(s) /\ s.audio = d.audio
      /\ s.oldmode = StatusMode(d)
      /\ s.cur_cdmode = ShownMode(SwitchMode(d), WithToc(d).cur_cdmode)
  BY StatusSane, StatusCurrent, StatusKeeps DEF Sane, Sound
<1>2. ~(NoDiscMode(s.cur_cdmode) \/ s.ntracks < 1)
  <2>1. CASE NoDiscMode(s.cur_cdmode) \/ s.ntracks < 1
    <3>1. e = s /\ d.audio = "play"
      BY <1>1, <2>1 DEF WmCdPlay
    <3>2. StatusMode(d) = "PLAYING"
      BY <3>1, HeardMode
    <3>3. s.cur_cdmode = "PLAYING" /\ s.oldmode = "PLAYING"
      BY <1>1, <3>2 DEF SwitchMode, Parked, ShownMode
    <3> HIDE DEF s
    <3>4. HoldsToc(s)
      BY <1>1, <3>3 DEF Sound, Known, DiscReady
    <3>5. s.ntracks >= 1
      BY <3>4, DiscAssumption DEF HoldsToc
    <3> QED
      BY <1>1, <2>1, <3>3, <3>5 DEF NoDiscMode, Handle
  <2> QED
    BY <2>1
<1>3. ~(\/ StartTrack(s.trk, t) > EndTrack(s.trk, end)
        \/ StartTrack(s.trk, t) \in DataTracks[s.trk])
  <2>1. SUFFICES ASSUME \/ StartTrack(s.trk, t) > EndTrack(s.trk, end)
                        \/ StartTrack(s.trk, t) \in DataTracks[s.trk]
                 PROVE  FALSE
    OBVIOUS
  <2>2. e = WmCdStop(s)
    BY <1>2, <2>1 DEF WmCdPlay
  <2> HIDE DEF s
  <2> QED
    BY <1>1, <2>2, StopSilences
<1>4. e = WmCdStatus(p)
  BY <1>2, <1>3 DEF WmCdPlay
<1>5. p \in Handle
  <2> HIDE DEF s, from, upto
  <2> QED
    BY <1>1, IoctlMoves DEF Moved
<1>6. e.audio = p.audio /\ e.disc = p.disc /\ e.head = p.head
  <2> HIDE DEF p
  <2> QED
    BY <1>4, <1>5, StatusKeeps
<1>7. p.disc = s.disc /\ Ready(s)
  <2> HIDE DEF s, from, upto
  <2>1. p.disc = s.disc
    BY <1>1, IoctlKeepsDisc
  <2>2. Ready(s)
    <3>1. SUFFICES ASSUME ~Ready(s) PROVE FALSE
      OBVIOUS
    <3>2. s.audio = "play"
      BY <1>6, <3>1 DEF PlayMsf
    <3> QED
      BY <1>1, <3>1, <3>2 DEF Sane, Heard
  <2> QED
    BY <2>1, <2>2
<1>8. DiscReady(s.oldmode)
  BY <1>1, <1>2, <1>7, ShownReady
<1> HIDE DEF s
<1>9. s.trk = s.disc /\ HoldsToc(s) /\ s.trk \in Discs
  BY <1>1, <1>8 DEF Current, Sound, Known, HoldsToc
<1> DEFINE c == s.trk
<1>10. /\ c \in Discs /\ e.disc = c /\ DataTracks[c] = {} /\ t \in 1 .. LastTrack(c)
  BY <1>6, <1>7, <1>9 DEF AudioTracks
<1>11. /\ from \in Nat /\ upto \in Nat /\ from < upto /\ upto <= LeadOut(c)
       /\ TrackStart[c][t] <= from /\ from < TrackStart[c][t + 1]
       /\ pos = 0 => from = TrackStart[c][t]
  <2> HIDE DEF c
  <2>1. /\ TrackStart[c][t + 1] - TrackStart[c][t] >= 76
        /\ TrackStart[c][t] + 75 * pos < TrackStart[c][t + 1]
    BY <1>10
  <2> QED
    BY <1>10, <2>1, PlayFrames DEF c
<1>12. p.head = from
  <2> HIDE DEF from, upto
  <2>1. p = [s EXCEPT !.audio = "play", !.head = from, !.stopAt = upto]
    BY <1>7, <1>9, <1>11 DEF PlayMsf
  <2> QED
    BY <1>1, <2>1 DEF Handle
<1> HIDE DEF from, upto, p, c
<1>13. TrackAt(c, from) = t
  BY <1>10, <1>11, TrackAtIs
<1>14. pos = 0 => from = TrackStart[c][t]
  BY <1>11
<1> QED
  BY <1>6, <1>10, <1>12, <1>13, <1>14 DEF HeadIn
=============================================================================

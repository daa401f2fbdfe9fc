------------------------------ MODULE WmCdrom ------------------------------
(***************************************************************************)
(* libworkman's CD interface (src/wmlib/cdrom.c) over its Linux platform   *)
(* functions (src/wmlib/plat_linux.c), for analog playback.  Every wm_cd_* *)
(* call runs to completion on the caller's thread, so a call is an         *)
(* operator from the drive before it to the drive after it.  The drive     *)
(* record of module CdDrive has these fields of struct wm_drive as well:   *)
(*   oldmode     the mode the last wm_cd_status read from the platform     *)
(*   cur_cdmode  the mode wm_cd_status returns                             *)
(*   ntracks     number of tracks in the table of contents                 *)
(*   trk         the disc whose tracks the array trk holds, NoDisc when it *)
(*               is NULL or only partly filled                             *)
(*   curtrack    current track                                             *)
(***************************************************************************)
EXTENDS CdDrive

\* WM_CDM_*; "INITIAL" is the 0 that memset leaves in cur_cdmode.
Mode == {"INITIAL", "TRACK_DONE", "PLAYING", "PAUSED", "STOPPED", "EJECTED",
         "NO_DISC", "UNKNOWN"}

\* WM_CDS_NO_DISC and WM_CDS_DISC_READY
NoDiscMode(mode) == mode \in {"UNKNOWN", "EJECTED", "NO_DISC"}
DiscReady(mode)  == mode \in {"TRACK_DONE", "PLAYING", "PAUSED", "STOPPED"}

\* struct wm_drive and its drive.
Handle ==
  [tray : {"open", "closed"}, disc : Discs \cup {NoDisc},
   media : {"spinup", "nohdr", "noentry", "ok"},
   audio : {"play", "paused", "completed", "none", "invalid"},
   head : Nat, stopAt : Nat, held : BOOLEAN,
   oldmode : Mode, cur_cdmode : Mode, ntracks : Nat,
   trk : Discs \cup {NoDisc}, curtrack : Nat]

\* The array trk is that of a disc, with ntracks entries.
HoldsToc(d) == d.trk \in Discs /\ d.ntracks = LastTrack(d.trk)

(***************************************************************************)
(* wm_cd_status                                                            *)
(***************************************************************************)

\* Mutant: a pause is one only right after playing.
MutantSubchannelMode(d) ==
  IF ~SubchannelOk(d) THEN "UNKNOWN"
  ELSE CASE d.audio = "play"      -> "PLAYING"
         [] d.audio = "paused"    -> IF d.oldmode = "PLAYING" THEN "PAUSED" ELSE "STOPPED"
         [] d.audio = "none"      -> "STOPPED"
         [] d.audio = "completed" -> "TRACK_DONE"

\* gen_get_drive_status: what CDROMSUBCHNL says ...
SubchannelMode(d) ==
  IF ~SubchannelOk(d) THEN "UNKNOWN"
  ELSE CASE d.audio = "play"      -> "PLAYING"
         [] d.audio = "paused"    -> IF d.oldmode \in {"PLAYING", "PAUSED"}
                                     THEN "PAUSED" ELSE "STOPPED"
         [] d.audio = "none"      -> "STOPPED"
         [] d.audio = "completed" -> "TRACK_DONE"

\* ... and, when that is nothing, what CDROM_DRIVE_STATUS says.
GenMode(d) ==
  IF SubchannelMode(d) # "UNKNOWN" THEN SubchannelMode(d)
  ELSE CASE DriveStatus(d) = "no_disc"   -> "NO_DISC"
         [] DriveStatus(d) = "tray_open" -> "EJECTED"
         [] DriveStatus(d) = "audio"     -> "STOPPED"
         [] OTHER                        -> "UNKNOWN"

\* The track of disc c a frame belongs to: the search loop of wm_cd_status.
TrackAt(c, frame) ==
  CHOOSE t \in 1 .. LastTrack(c) :
    /\ t = 1 \/ TrackStart[c][t] <= frame
    /\ \A u \in (t + 1) .. LastTrack(c) : frame < TrackStart[c][u]

\* Mutant: only an unknown drive gets a disc, not an empty or an open one.
MutantDeviceChanged(d) == d.oldmode = "UNKNOWN" /\ DiscReady(GenMode(d))

\* The platform's mode says that a disc has come.
DeviceChanged(d) == NoDiscMode(d.oldmode) /\ DiscReady(GenMode(d))

\* Mutant: the mode of before is kept.
MutantReadToc(d) ==
  IF TocHeaderFails(d) THEN d
  ELSE [d EXCEPT !.ntracks = LastTrack(d.disc),
                 !.trk = IF TocEntryFails(d) THEN NoDisc ELSE d.disc]

ReadToc(d) ==
  IF TocHeaderFails(d) THEN d
  ELSE [d EXCEPT !.ntracks = LastTrack(d.disc), !.cur_cdmode = "UNKNOWN",
                 !.trk = IF TocEntryFails(d) THEN NoDisc ELSE d.disc]

\* Mutant: the result of read_toc, -1, becomes the mode.
MutantStatusMode(d) ==
  IF DeviceChanged(d) /\ TocEntryFails(d) THEN "-1" ELSE GenMode(d)

\* The table of contents is read again if a disc has come, and a disc it
\* cannot be read from is no disc.
WithToc(d) == IF DeviceChanged(d) THEN ReadToc([d EXCEPT !.ntracks = 0]) ELSE d
StatusMode(d) ==
  IF DeviceChanged(d) /\ TocEntryFails(d) THEN "NO_DISC" ELSE GenMode(d)

\* A drive paused on frame 0 is one that has been stopped.
Parked(d) == StatusMode(d) = "PAUSED" /\ d.head = 0
SwitchMode(d) == IF Parked(d) THEN "STOPPED" ELSE StatusMode(d)

\* cur_cdmode after the switch: nothing is assigned for WM_CDM_NO_DISC.
ShownMode(mode, old) ==
  CASE mode = "UNKNOWN" -> "NO_DISC" [] mode = "NO_DISC" -> old [] OTHER -> mode

CurTrack(d) ==
  CASE Parked(d) -> 0
    [] SwitchMode(d) \in {"PLAYING", "PAUSED"} -> TrackAt(WithToc(d).trk, d.head)
    [] SwitchMode(d) = "NO_DISC" /\ SubchannelMode(d) \in {"PLAYING", "PAUSED"}
         -> TrackAt(d.disc, d.head)
    [] OTHER -> d.curtrack

WmCdStatus(d) ==
  [WithToc(d) EXCEPT !.oldmode = StatusMode(d),
                     !.cur_cdmode = ShownMode(SwitchMode(d), @),
                     !.curtrack = CurTrack(d)]

\* The entries of trk that wm_cd_status looks up, after a mode with a disc: those
\* the search passes and that of the current track, which a stopped drive looks
\* up for its start only if it is one of the tracks.  (Its length, and after
\* WM_CDM_UNKNOWN both, are looked up for whatever curtrack and trk are left
\* from before: see the README.)
StatusReads(d) ==
  LET s == WmCdStatus(d) IN
  CASE SwitchMode(d) \in {"PLAYING", "PAUSED"} -> (2 .. s.ntracks) \cup {s.curtrack}
    [] SwitchMode(d) = "STOPPED"              -> {s.curtrack} \cap 1 .. s.ntracks
    [] OTHER                                  -> {}

\* wm_cd_init of an analog drive: a zeroed handle, and its first status.
NewHandle(hw) ==
  [tray |-> hw.tray, disc |-> hw.disc, media |-> hw.media, audio |-> hw.audio,
   head |-> hw.head, stopAt |-> hw.stopAt, held |-> hw.held,
   oldmode |-> "UNKNOWN", cur_cdmode |-> "INITIAL", ntracks |-> 0,
   trk |-> NoDisc, curtrack |-> 0]

\* The drive of a wm_cd_init that succeeded: its wm_cd_status did not return
\* WM_CDM_UNKNOWN.
WmCdInit(hw) == WmCdStatus(NewHandle(hw))
Opened(d) == (\E h \in IdleHardware : d = WmCdInit(h)) /\ d.cur_cdmode # "UNKNOWN"

WmCdGetCurTrack(d)      == IF NoDiscMode(d.cur_cdmode) THEN 0 ELSE d.curtrack
WmCdGetCountOfTracks(d) == IF NoDiscMode(d.cur_cdmode) THEN 0 ELSE d.ntracks

(***************************************************************************)
(* wm_cd_play, wm_cd_pause, wm_cd_stop, wm_cd_eject, wm_cd_closetray       *)
(***************************************************************************)

WmCdStop(d) ==
  LET s == WmCdStatus(d) IN
  IF NoDiscMode(s.cur_cdmode) \/ s.cur_cdmode = "STOPPED" THEN s
  ELSE WmCdStatus(StopAudio(s))

\* The tracks between which wm_cd_play stays.
RealEnd(c)   == CHOOSE t \in AudioTracks(c) : \A u \in AudioTracks(c) : u <= t
RealStart(c) == CHOOSE t \in AudioTracks(c) : \A u \in AudioTracks(c) : t <= u

\* Mutant: the number of a track is taken for its index.
MutantStartTrack(c, start) ==
  IF start <= RealStart(c) THEN RealStart(c)
  ELSE IF start > RealEnd(c) THEN RealEnd(c) ELSE start - 1

\* end = 0 is WM_ENDTRACK.
EndTrack(c, end) == IF end = 0 \/ end > RealEnd(c) THEN RealEnd(c) ELSE end
StartTrack(c, start) ==
  IF start < RealStart(c) THEN RealStart(c)
  ELSE IF start > RealEnd(c) THEN RealEnd(c) ELSE start

EndFrame(c, end) ==
  (IF EndTrack(c, end) = LastTrack(c) THEN (LeadOut(c) \div 75) * 75
   ELSE TrackStart[c][EndTrack(c, end)] - 1) - 1
StartFrame(c, start, pos, end) ==
  LET frame == TrackStart[c][StartTrack(c, start)] + pos * 75
  IN  IF frame >= EndFrame(c, end) THEN EndFrame(c, end) - 1 ELSE frame

\* The entries of trk that wm_cd_play may look up once it has the status s.
PlayReads(s) == IF NoDiscMode(s.cur_cdmode) THEN {} ELSE 1 .. s.ntracks

WmCdPlay(d, start, pos, end) ==
  LET s == WmCdStatus(d) IN
  IF NoDiscMode(s.cur_cdmode) \/ s.ntracks < 1 THEN s
  ELSE IF \/ StartTrack(s.trk, start) > EndTrack(s.trk, end)
          \/ StartTrack(s.trk, start) \in DataTracks[s.trk]
  THEN WmCdStop(s)
  ELSE WmCdStatus(PlayMsf(s, StartFrame(s.trk, start, pos, end), EndFrame(s.trk, end)))

WmCdPause(d) ==
  LET s == WmCdStatus(d) IN
  CASE s.cur_cdmode = "PLAYING" -> PauseAudio(s)
    [] s.cur_cdmode = "PAUSED"  -> ResumeAudio(s)
    [] OTHER                    -> s

\* A mounted disc is not ejected.
WmCdEject(d) == IF d.held THEN d ELSE WmCdStatus(EjectTray(d))

WmCdCloseTray(d) ==
  LET s == WmCdStatus(d) IN
  IF s.cur_cdmode \in {"UNKNOWN", "NO_DISC"} THEN s ELSE WmCdStatus(CloseTray(s))
=============================================================================

------------------------------ MODULE CdDrive ------------------------------
(***************************************************************************)
(* The CD-ROM drive, its tray and the disc, as plat_linux.c sees them      *)
(* through open(2) and ioctl(2).  None of this is code of the repository:  *)
(* each operator gives the effect of one ioctl the code issues, or one     *)
(* thing a person or the hardware does on its own.                         *)
(*                                                                         *)
(* A drive is a record whose fields are the hardware's                     *)
(*   tray   "open" | "closed"                                              *)
(*   disc   the disc on the tray, or NoDisc                                *)
(*   media  "spinup"  the drive is not ready: CDROMSUBCHNL fails           *)
(*          "nohdr"   CDROMREADTOCHDR fails                                *)
(*          "noentry" the header is read, a CDROMREADTOCENTRY fails        *)
(*          "ok"      the whole table of contents can be read              *)
(*   audio  what CDROMSUBCHNL reports: "play", "paused", "completed",      *)
(*          "none" (CDROM_AUDIO_NO_STATUS) or "invalid" (any other, and a  *)
(*          CDROMSUBCHNL that fails)                                       *)
(*   head, stopAt   frame under the head, frame at which playing ends      *)
(*   held   the disc is mounted or locked: it cannot be ejected            *)
(* and the software's, which module WmCdrom adds (struct wm_drive).        *)
(***************************************************************************)
EXTENDS Integers, Sequences

CONSTANTS
  Discs,        \* the discs a person may put on the tray
  NoDisc,       \* the empty tray
  TrackStart,   \* disc -> start frame of every track, then of the lead-out
  DataTracks,   \* disc -> its data tracks
  SlotLoading,  \* the drive has no tray sensor: an open tray is "no disc"
  MotorTray,    \* CDROMCLOSETRAY can close the tray
  ParksPaused   \* CDROMSTOP leaves the drive "paused" on frame 0

LastTrack(c)  == Len(TrackStart[c]) - 1
AudioTracks(c) == (1 .. LastTrack(c)) \ DataTracks[c]
LeadOut(c) == TrackStart[c][LastTrack(c) + 1]

ASSUME DiscAssumption ==
  /\ NoDisc \notin Discs
  /\ TrackStart \in [Discs -> Seq(Nat)]
  /\ \A c \in Discs : /\ LastTrack(c) \in Nat \ {0}
                      /\ DataTracks[c] \subseteq 1 .. LastTrack(c)
                      /\ \A t \in 1 .. LastTrack(c) :
                           TrackStart[c][t] < TrackStart[c][t + 1]
  /\ {SlotLoading, MotorTray, ParksPaused} \subseteq BOOLEAN

Loaded(d) == d.tray = "closed" /\ d.disc # NoDisc
Ready(d)  == Loaded(d) /\ d.media # "spinup"

(***************************************************************************)
(* ioctls.                                                                 *)
(***************************************************************************)

\* CDROMSUBCHNL succeeds, with an audio status the code tells apart.
SubchannelOk(d) == Ready(d) /\ d.audio # "invalid"

\* CDROM_DRIVE_STATUS, and CDROM_DISC_STATUS once the disc is ready.
DriveStatus(d) ==
  CASE d.tray = "open"                 -> IF SlotLoading THEN "no_disc" ELSE "tray_open"
    [] d.tray = "closed" /\ ~Loaded(d) -> "no_disc"
    [] Loaded(d) /\ ~Ready(d)          -> "not_ready"
    [] Ready(d) /\ d.media # "ok"      -> "no_info"
    [] Ready(d) /\ d.media = "ok"      -> IF AudioTracks(d.disc) = {} THEN "data" ELSE "audio"

TocHeaderFails(d) == ~Ready(d) \/ d.media = "nohdr"
TocEntryFails(d)  == ~Ready(d) \/ d.media # "ok"

\* CDROMPLAYMSF: refused when the disc has no such frames.
PlayMsf(d, start, end) ==
  IF Ready(d) /\ {start, end} \subseteq Nat /\ start < end /\ end <= LeadOut(d.disc)
  THEN [d EXCEPT !.audio = "play", !.head = start, !.stopAt = end]
  ELSE d

PauseAudio(d)  == IF d.audio = "play" THEN [d EXCEPT !.audio = "paused"] ELSE d
ResumeAudio(d) == IF d.audio = "paused" THEN [d EXCEPT !.audio = "play"] ELSE d

StopAudio(d) ==
  IF d.audio \notin {"play", "paused", "completed"} THEN d
  ELSE IF ParksPaused THEN [d EXCEPT !.audio = "paused", !.head = 0]
  ELSE [d EXCEPT !.audio = "none"]

\* Opening or closing the tray ends whatever was going on.
MoveTray(d, pos) ==
  [d EXCEPT !.tray = pos, !.media = "spinup", !.audio = "none",
            !.head = 0, !.stopAt = 0, !.held = FALSE]

\* CDROMEJECT and CDROMCLOSETRAY
EjectTray(d) == IF d.tray = "open" THEN d ELSE MoveTray(d, "open")
CloseTray(d) ==
  IF d.tray = "closed" \/ ~MotorTray THEN d ELSE MoveTray(d, "closed")

(***************************************************************************)
(* What happens to a drive by hand or by itself: d may become e.           *)
(***************************************************************************)

OpenByHand(d, e)  == d.tray = "closed" /\ ~d.held /\ e = MoveTray(d, "open")
CloseByHand(d, e) == d.tray = "open" /\ e = MoveTray(d, "closed")
SwapDisc(d, e) ==
  /\ d.tray = "open"
  /\ \E c \in (Discs \cup {NoDisc}) \ {d.disc} : e = [d EXCEPT !.disc = c]

\* The disc reaches its speed.  Its table of contents can be read (m = "ok")
\* or not, and CDROMSUBCHNL answers "no status", never on a pure data disc.
SpinsUp(d) == Loaded(d) /\ ~Ready(d)
SpunUp(d, m) ==
  [d EXCEPT !.media = m,
            !.audio = IF AudioTracks(d.disc) = {} THEN "invalid" ELSE "none"]
SpinUp(d, e) ==
  SpinsUp(d) /\ \E m \in {"nohdr", "noentry", "ok"} : e = SpunUp(d, m)

\* A drive nobody has played from, before or after its disc has spun up.
StillHardware ==
  [tray : {"open", "closed"}, disc : Discs \cup {NoDisc}, media : {"spinup"},
   audio : {"none"}, head : {0}, stopAt : {0}, held : {FALSE}]
IdleHardware ==
  StillHardware \cup {SpunUp(h, m) : h \in {g \in StillHardware : SpinsUp(g)},
                                   m \in {"nohdr", "noentry", "ok"}}

\* A table of contents that could not be read can be read after all.
TocRecovers(d, e) == Ready(d) /\ d.media # "ok" /\ e = [d EXCEPT !.media = "ok"]

\* One second of sound.
PlayOn(d, e) ==
  /\ d.audio = "play"
  /\ e = IF d.head + 75 < d.stopAt THEN [d EXCEPT !.head = @ + 75]
                                   ELSE [d EXCEPT !.audio = "completed"]

\* The sound ends on an error.  "completed" is reported for a while only.
\* A long pause ends by itself.
AudioFails(d, e)    == d.audio = "play" /\ e = [d EXCEPT !.audio = "invalid"]
StatusDecays(d, e)  == d.audio = "completed" /\ e = [d EXCEPT !.audio = "none"]
PauseTimesOut(d, e) ==
  d.audio = "paused" /\ d.head # 0 /\ e = [d EXCEPT !.audio = "none"]

\* The desktop mounts the data track of a disc, or unmounts it.
Mount(d, e) ==
  /\ Ready(d) /\ d.media = "ok" /\ DataTracks[d.disc] # {}
  /\ e = [d EXCEPT !.held = ~@]
=============================================================================

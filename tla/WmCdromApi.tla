----------------------------- MODULE WmCdromApi -----------------------------
(***************************************************************************)
(* One drive handle of libworkman, a client that makes the wm_cd_* calls   *)
(* in any order, and the hardware.                                         *)
(***************************************************************************)
EXTENDS WmCdrom

CONSTANTS
  Positions    \* seconds a client may ask wm_cd_play to start at

ASSUME ApiAssumption == Positions \subseteq Nat

VARIABLES
  drive,       \* the drive and its handle
  seen,        \* a call has looked at the drive since it last changed
  missed,      \* history: the drive has changed twice between two calls
  asked        \* history: the track the last call started, or 0

vars == <<drive, seen, missed, asked>>

Init == Opened(drive) /\ seen = TRUE /\ missed = FALSE /\ asked = 0

(***************************************************************************)
(* The client's calls.                                                     *)
(***************************************************************************)

Status    == drive' = WmCdStatus(drive) /\ seen' = TRUE /\ asked' = 0
Pause     == drive' = WmCdPause(drive) /\ seen' = TRUE /\ asked' = 0
Stop      == drive' = WmCdStop(drive) /\ seen' = TRUE /\ asked' = 0
Closetray == drive' = WmCdCloseTray(drive) /\ seen' = TRUE /\ asked' = 0

\* An eject that is refused does not look at the drive.
Eject ==
  /\ drive' = WmCdEject(drive)
  /\ seen' = (seen \/ ~drive.held) /\ asked' = 0

\* A client asks for a track up to the next one, or up to the end of the disc.
Play(t, pos, end) ==
  /\ end \in {0, t + 1}
  /\ drive' = WmCdPlay(drive, t, pos, end)
  /\ seen' = TRUE
  /\ asked' = IF drive'.audio = "play" THEN t ELSE 0

Tracks == UNION {1 .. LastTrack(c) : c \in Discs}

Call ==
  /\ \/ \E t \in Tracks, pos \in Positions, end \in {0} \cup {u + 1 : u \in Tracks} :
          Play(t, pos, end)
     \/ Status \/ Pause \/ Stop \/ Eject \/ Closetray
  /\ UNCHANGED missed

(***************************************************************************)
(* The hardware.                                                           *)
(***************************************************************************)

Hardware ==
  /\ \/ OpenByHand(drive, drive') \/ CloseByHand(drive, drive')
     \/ SwapDisc(drive, drive') \/ SpinUp(drive, drive')
     \/ TocRecovers(drive, drive') \/ Mount(drive, drive')
     \/ PlayOn(drive, drive') \/ AudioFails(drive, drive')
     \/ StatusDecays(drive, drive') \/ PauseTimesOut(drive, drive')
  /\ seen' = FALSE /\ missed' = (missed \/ ~seen) /\ asked' = 0

Next == Call \/ Hardware

Spec == Init /\ [][Next]_vars

(***************************************************************************)
(* Properties.                                                             *)
(***************************************************************************)

\* The type of the variables.
TypeOK ==
  drive \in Handle /\ seen \in BOOLEAN /\ missed \in BOOLEAN /\ asked \in Nat

\* If the next wm_cd_status finds the drive playing, paused or stopped, the
\* entries it looks up are there, and so are those of a wm_cd_play after it: trk
\* is then a whole table of contents with ntracks entries, and the track that
\* plays is one of them -- although read_toc may fail half way, the mode of
\* before the failure may still be shown, and discs change unseen.  Nothing is
\* said of the length at cdrom.c:416 of a stopped drive, nor of what is looked up
\* after WM_CDM_UNKNOWN: the code looks these up for a curtrack of the disc
\* before, and in a table that may be filled half way.
TocComplete ==
  LET s == WmCdStatus(drive) IN
  /\ StatusReads(drive) \subseteq 1 .. s.ntracks
  /\ SwitchMode(drive) \in {"PLAYING", "PAUSED", "STOPPED"} => HoldsToc(s)
  /\ PlayReads(s) # {} => HoldsToc(s)

\* A wm_cd_status that follows another finds nothing to change as long as the
\* drive stays as it is, although each depends on the mode the one before
\* left.  So the calls that ask for the status once more (wm_cd_get_cdtext
\* from timerExpired) do no harm.
StatusStable == WmCdStatus(WmCdStatus(drive)) = WmCdStatus(drive)

\* Once a call has looked at a drive with a disc ready, the table of contents
\* is that of the disc in it and not of one before, provided every change of
\* the drive is looked at.
TocOfThisDisc ==
  ~missed /\ seen /\ DiscReady(drive.oldmode) => drive.trk = drive.disc

\* A wm_cd_play that leaves the drive playing plays the track it was asked
\* for, from a position inside that track on (kcompactdisc.h, of playTrack:
\* "Play specified track"), provided every change of the drive is looked at
\* and the disc in it has no data track.
PlaysAskedTrack ==
  asked # 0 /\ ~missed /\ asked \in AudioTracks(drive.disc) /\ DataTracks[drive.disc] = {}
    => TrackAt(drive.disc, drive.head) = asked
=============================================================================

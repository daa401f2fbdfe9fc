------------------------------- MODULE Device -------------------------------
(***************************************************************************)
(* The open device under wm_cd_*, on the platforms whose gen_* functions   *)
(* differ in it (src/wmlib/plat_*.c): when a call opens it, closes it,     *)
(* goes on without it, and what that makes of the status.  A call is an    *)
(* operator from the handle before it to the handle after it; the handle h *)
(* is a record of                                                          *)
(*   os           the platform file that is compiled                       *)
(*   tray, disc   as in module CdDrive                                     *)
(*   ready        the disc has been recognised                             *)
(*   motor        ... and turns; a unit that was stopped does not           *)
(*   audio        "play" | "paused" | "completed" | "none" | "error"       *)
(*   held         the disc is mounted                                      *)
(*   node         open(2) of the device file can succeed                   *)
(*   fd           the handle's descriptor is open                          *)
(*   daux         on IRIX, the device as CDopen has returned it            *)
(*   fresh        ... and has been since the tray was last moved           *)
(*   oldmode, cur_cdmode   as in module WmCdrom                            *)
(*   toc          the disc the table of contents was read from, or NoDisc  *)
(* Positions, and tables of contents that cannot be read, are WmCdrom's.   *)
(***************************************************************************)
EXTENDS Integers

CONSTANTS
  Systems,    \* platforms the library is built for
  Discs,      \* discs a person may put on the tray
  NoDisc      \* the empty tray

ASSUME DeviceAssumption ==
  /\ Systems \subseteq {"linux", "freebsd", "openbsd", "osf1", "ultrix", "aix", "irix"}
  /\ NoDisc \notin Discs

Mode == {"INITIAL", "TRACK_DONE", "PLAYING", "PAUSED", "STOPPED", "EJECTED",
         "NO_DISC", "UNKNOWN"}
NoDiscMode(mode) == mode \in {"UNKNOWN", "EJECTED", "NO_DISC"}
DiscReady(mode)  == mode \in {"TRACK_DONE", "PLAYING", "PAUSED", "STOPPED"}

(***************************************************************************)
(* The kernel and the drive.                                               *)
(***************************************************************************)

Ready(h) == h.tray = "closed" /\ h.disc # NoDisc /\ h.ready

\* Linux (O_NONBLOCK) and IRIX open a drive without a disc as well.
Openable(h) == h.node /\ (h.os \in {"linux", "irix"} \/ Ready(h))

\* The subchannel can be read.  The BSDs do not notice reloaded media until
\* the device is opened anew.
Answers(h) ==
  /\ IF h.os = "irix" THEN h.daux ELSE h.fd
  /\ Ready(h) /\ (h.os \in {"freebsd", "openbsd"} => h.fresh)

MoveTray(h, pos) ==
  [h EXCEPT !.tray = pos, !.ready = FALSE, !.motor = FALSE, !.audio = "none",
            !.held = FALSE, !.fresh = FALSE]

(***************************************************************************)
(* gen_open and gen_close                                                  *)
(***************************************************************************)

\* IRIX keeps the device CDopen returned, or none, and fd = 1 to say so.  What
\* gen_close closes is fd.
OpenDevice(h) ==
  CASE h.fd                   -> h
    [] ~h.fd /\ Openable(h)   -> [h EXCEPT !.fd = TRUE, !.fresh = TRUE, !.daux = h.os = "irix"]
    [] ~h.fd /\ ~Openable(h)  -> [h EXCEPT !.daux = FALSE]
CloseDevice(h) == [h EXCEPT !.fd = FALSE]

\* gen_open leaves an open device alone.  What it returns when open(2) fails:
\* 1 is "no CD in the drive", the rest is an error.  No platform returns the
\* -1 that its gen_get_drive_status looks for.
\* The code says "No CD in drive" of an open that was interrupted (EINTR); the
\* model takes it at its word where the device node is there.
LinuxOpen(h) == IF OpenDevice(h).fd THEN 0 ELSE -6
FreebsdOpen(h) == IF OpenDevice(h).fd THEN 0 ELSE 1
OpenbsdOpen(h) ==
  CASE OpenDevice(h).fd -> 0 [] ~OpenDevice(h).fd /\ h.node -> 1 [] OTHER -> -6
Osf1Open(h) ==
  CASE OpenDevice(h).fd -> 0 [] ~OpenDevice(h).fd /\ h.node -> 1 [] OTHER -> -6
UltrixOpen(h) ==
  CASE OpenDevice(h).fd -> 0 [] ~OpenDevice(h).fd /\ h.node -> 1 [] OTHER -> -6
AixOpen(h) == IF OpenDevice(h).fd THEN 0 ELSE -6
\* Says whether there is a disc as well.
IrixOpen(h) ==
  CASE ~OpenDevice(h).fd -> -6
    [] OpenDevice(h).fd /\ (~Ready(h) \/ h.audio = "error") -> 1
    [] OTHER -> 0

GenOpen(h) ==
  CASE h.os = "linux"   -> LinuxOpen(h)
    [] h.os = "freebsd" -> FreebsdOpen(h)
    [] h.os = "openbsd" -> OpenbsdOpen(h)
    [] h.os = "osf1"    -> Osf1Open(h)
    [] h.os = "ultrix"  -> UltrixOpen(h)
    [] h.os = "aix"     -> AixOpen(h)
    [] h.os = "irix"    -> IrixOpen(h)

(***************************************************************************)
(* gen_get_drive_status: the handle after it, and the mode; -1 if it fails.*)
(***************************************************************************)

Reply(h, mode) == [drive |-> h, mode |-> mode]

\* A drive that says "paused" is so only if it played before.
PauseMode(h) == IF h.oldmode \in {"PLAYING", "PAUSED"} THEN "PAUSED" ELSE "STOPPED"

\* The test for an open device has its sense reversed: nothing opens one.
LinuxStatus(h) ==
  IF Answers(h) /\ h.audio # "error"
  THEN Reply(h, CASE h.audio = "play"      -> "PLAYING"
                  [] h.audio = "paused"    -> PauseMode(h)
                  [] h.audio = "completed" -> "TRACK_DONE"
                  [] h.audio = "none"      -> "STOPPED")
  ELSE Reply(h, CASE ~h.fd                                      -> "UNKNOWN"
                  [] h.fd /\ h.tray = "open"                    -> "EJECTED"
                  [] h.fd /\ h.tray = "closed" /\ h.disc = NoDisc -> "NO_DISC"
                  [] h.fd /\ Ready(h)                           -> "STOPPED"
                  [] OTHER                                      -> "UNKNOWN")

\* Mutant: the device is left open when it does not answer.
MutantFreebsdStatus(h) ==
  LET g == OpenDevice(h) IN
  IF ~Answers(g) THEN Reply(g, "EJECTED")
  ELSE Reply(g, CASE g.audio = "play"      -> "PLAYING"
                  [] g.audio = "paused"    -> PauseMode(g)
                  [] g.audio = "completed" -> "TRACK_DONE"
                  [] g.audio = "none"      -> "STOPPED"
                  [] g.audio = "error"     -> "EJECTED")

FreebsdStatus(h) ==
  LET g == OpenDevice(h) IN
  IF ~Answers(g) THEN Reply(CloseDevice(g), "EJECTED")
  ELSE Reply(g, CASE g.audio = "play"      -> "PLAYING"
                  [] g.audio = "paused"    -> PauseMode(g)
                  [] g.audio = "completed" -> "TRACK_DONE"
                  [] g.audio = "none"      -> "STOPPED"
                  [] g.audio = "error"     -> "EJECTED")

OpenbsdStatus(h) ==
  LET g == OpenDevice(h) IN
  IF ~Answers(g) THEN Reply(CloseDevice(g), "EJECTED")
  ELSE Reply(g, CASE g.audio = "play"      -> "PLAYING"
                  [] g.audio = "paused"    -> PauseMode(g)
                  [] g.audio = "completed" -> "TRACK_DONE"
                  [] g.audio = "none"      -> "STOPPED"
                  [] g.audio = "error"     -> "EJECTED")

\* Mutant: no default for a drive that does not answer.
MutantUltrixStatus(h) ==
  LET g == OpenDevice(h) IN
  Reply(g, CASE ~Answers(g)                         -> h.oldmode
             [] Answers(g) /\ g.audio = "play"      -> "PLAYING"
             [] Answers(g) /\ g.audio = "paused"    -> PauseMode(g)
             [] Answers(g) /\ g.audio = "completed" -> "TRACK_DONE"
             [] Answers(g) /\ g.audio = "none"      -> "STOPPED"
             [] Answers(g) /\ g.audio = "error"     -> "EJECTED")

\* Keeps a device that does not answer.
UltrixStatus(h) ==
  LET g == OpenDevice(h) IN
  Reply(g, CASE ~Answers(g)                         -> "EJECTED"
             [] Answers(g) /\ g.audio = "play"      -> "PLAYING"
             [] Answers(g) /\ g.audio = "paused"    -> PauseMode(g)
             [] Answers(g) /\ g.audio = "completed" -> "TRACK_DONE"
             [] Answers(g) /\ g.audio = "none"      -> "STOPPED"
             [] Answers(g) /\ g.audio = "error"     -> "EJECTED")

\* The same; it aborts the process on an error, see PlayEnds.
Osf1Status(h) ==
  LET g == OpenDevice(h) IN
  Reply(g, CASE ~Answers(g)                         -> "EJECTED"
             [] Answers(g) /\ g.audio = "play"      -> "PLAYING"
             [] Answers(g) /\ g.audio = "paused"    -> PauseMode(g)
             [] Answers(g) /\ g.audio = "completed" -> "TRACK_DONE"
             [] Answers(g) /\ g.audio = "none"      -> "STOPPED")

\* Fails, instead of saying so, when the drive does not answer.
AixStatus(h) ==
  LET g == OpenDevice(h) IN
  Reply(g, CASE ~Answers(g)                      -> "-1"
             [] Answers(g) /\ g.audio = "play"   -> "PLAYING"
             [] Answers(g) /\ g.audio = "paused" -> "PAUSED"
             [] OTHER                            -> "STOPPED")

\* Never opens the device.
IrixStatus(h) ==
  Reply(h, CASE ~h.daux                                   -> "-1"
             [] h.daux /\ (~Ready(h) \/ h.audio = "error") -> "UNKNOWN"
             [] Answers(h) /\ h.audio = "play"             -> "PLAYING"
             [] Answers(h) /\ h.audio = "paused"           -> "PAUSED"
             [] Answers(h) /\ h.audio \in {"none", "completed"} -> "STOPPED")

GenStatus(h) ==
  CASE h.os = "linux"   -> LinuxStatus(h)
    [] h.os = "freebsd" -> FreebsdStatus(h)
    [] h.os = "openbsd" -> OpenbsdStatus(h)
    [] h.os = "osf1"    -> Osf1Status(h)
    [] h.os = "ultrix"  -> UltrixStatus(h)
    [] h.os = "aix"     -> AixStatus(h)
    [] h.os = "irix"    -> IrixStatus(h)

(***************************************************************************)
(* wm_cd_status.                                                           *)
(***************************************************************************)

WmCdStatus(h) ==
  LET g == GenStatus(h).drive  mode == GenStatus(h).mode IN
  IF mode = "-1" THEN g
  ELSE [g EXCEPT !.oldmode = mode,
                 !.cur_cdmode = CASE mode = "UNKNOWN" -> "NO_DISC"
                                  [] mode = "NO_DISC" -> @
                                  [] OTHER            -> mode,
                 !.toc = IF NoDiscMode(h.oldmode) /\ DiscReady(mode) THEN g.disc ELSE @]

(***************************************************************************)
(* gen_play, gen_pause, gen_resume and gen_stop.                           *)
(***************************************************************************)

\* The handle after an ioctl or a gen_ function, and whether it failed.
Result(h, failed) == [drive |-> h, failed |-> failed]

\* The ioctls fail on a device that does not answer.  A unit that has been
\* stopped plays nothing until it is started.
StartUnit(h) == IF Answers(h) THEN Result([h EXCEPT !.motor = TRUE], FALSE) ELSE Result(h, TRUE)
PlayMsf(h) ==
  IF Answers(h) /\ h.motor THEN Result([h EXCEPT !.audio = "play"], FALSE) ELSE Result(h, TRUE)
StopUnit(h) ==
  IF Answers(h) THEN Result([h EXCEPT !.motor = FALSE, !.audio = "none"], FALSE) ELSE Result(h, TRUE)
Sound(h, from, to) ==
  IF Answers(h) /\ h.audio = from THEN Result([h EXCEPT !.audio = to], FALSE) ELSE Result(h, TRUE)

\* Mutant: what has failed is not tried again.
MutantLinuxPlay(h) == PlayMsf(h)

\* Starts the unit only if it does not play, and then plays once more.
LinuxPlay(h) ==
  CASE ~PlayMsf(h).failed                            -> PlayMsf(h)
    [] PlayMsf(h).failed /\ StartUnit(h).failed      -> Result(h, TRUE)
    [] PlayMsf(h).failed /\ ~StartUnit(h).failed     -> PlayMsf(StartUnit(h).drive)

StartAndPlay(h) == IF StartUnit(h).failed THEN Result(h, TRUE) ELSE PlayMsf(StartUnit(h).drive)

FreebsdPlay(h) == StartAndPlay(h)
OpenbsdPlay(h) == StartAndPlay(h)
Osf1Play(h)    == StartAndPlay(h)
UltrixPlay(h)  == StartAndPlay(h)
AixPlay(h)     == PlayMsf(h)
IrixPlay(h)    == PlayMsf(h)

GenPlay(h) ==
  CASE h.os = "linux"   -> LinuxPlay(h)
    [] h.os = "freebsd" -> FreebsdPlay(h)
    [] h.os = "openbsd" -> OpenbsdPlay(h)
    [] h.os = "osf1"    -> Osf1Play(h)
    [] h.os = "ultrix"  -> UltrixPlay(h)
    [] h.os = "aix"     -> AixPlay(h)
    [] h.os = "irix"    -> IrixPlay(h)

GenPause(h)  == Sound(h, "play", "paused")
GenResume(h) == Sound(h, "paused", "play")

\* AIX and IRIX stop the sound, the others the unit.
AixStop(h)  == IF Answers(h) THEN Result([h EXCEPT !.audio = "none"], FALSE) ELSE Result(h, TRUE)
IrixStop(h) == AixStop(h)
GenStop(h) ==
  CASE h.os = "aix"  -> AixStop(h)
    [] h.os = "irix" -> IrixStop(h)
    [] OTHER         -> StopUnit(h)

(***************************************************************************)
(* wm_cd_play, wm_cd_pause, wm_cd_stop.  None of them takes notice of a    *)
(* failure, other than by the status that it asks for.                     *)
(***************************************************************************)

WmCdPlay(h) ==
  LET s == WmCdStatus(h) IN
  IF NoDiscMode(s.cur_cdmode) THEN s ELSE WmCdStatus(GenPlay(s).drive)
WmCdPause(h) ==
  LET s == WmCdStatus(h) IN
  CASE s.cur_cdmode = "PLAYING" -> GenPause(s).drive
    [] s.cur_cdmode = "PAUSED"  -> GenResume(s).drive
    [] OTHER                    -> s
WmCdStop(h) ==
  LET s == WmCdStatus(h) IN
  IF NoDiscMode(s.cur_cdmode) \/ s.cur_cdmode = "STOPPED" THEN s
  ELSE WmCdStatus(GenStop(s).drive)

(***************************************************************************)
(* wm_cd_eject and wm_cd_closetray                                         *)
(***************************************************************************)

Ejected(h) == IF h.tray = "open" THEN h ELSE MoveTray(h, "open")

\* gen_eject.
LinuxEject(h) == IF ~h.fd \/ h.held THEN Result(h, TRUE) ELSE Result(Ejected(h), FALSE)

\* The device is closed whether or not the drive has obeyed.
FreebsdEject(h) ==
  CASE ~h.fd           -> Result(h, TRUE)
    [] h.fd /\ h.held  -> Result(CloseDevice(h), TRUE)
    [] h.fd /\ ~h.held -> Result(CloseDevice(Ejected(h)), FALSE)
OpenbsdEject(h) ==
  IF ~h.fd \/ h.held THEN Result(h, TRUE) ELSE Result(CloseDevice(Ejected(h)), FALSE)

Osf1Eject(h)   == IF ~h.fd \/ h.held THEN Result(h, TRUE) ELSE Result(Ejected(h), FALSE)
UltrixEject(h) == IF ~h.fd \/ h.held THEN Result(h, TRUE) ELSE Result(Ejected(h), FALSE)
AixEject(h)    == IF ~h.fd \/ h.held THEN Result(h, TRUE) ELSE Result(Ejected(h), FALSE)
\* Does not say whether the drive has obeyed.
IrixEject(h)   == Result(IF ~h.daux \/ h.held THEN h ELSE Ejected(h), FALSE)

GenEject(h) ==
  CASE h.os = "linux"   -> LinuxEject(h)
    [] h.os = "freebsd" -> FreebsdEject(h)
    [] h.os = "openbsd" -> OpenbsdEject(h)
    [] h.os = "osf1"    -> Osf1Eject(h)
    [] h.os = "ultrix"  -> UltrixEject(h)
    [] h.os = "aix"     -> AixEject(h)
    [] h.os = "irix"    -> IrixEject(h)

\* Mutant: the status is not asked again.
MutantWmCdEject(h) == GenEject(h).drive

WmCdEject(h) ==
  IF GenEject(h).failed THEN GenEject(h).drive ELSE WmCdStatus(GenEject(h).drive)

\* gen_closetray: CDROMCLOSETRAY on Linux, closing and opening the device on
\* FreeBSD, an error on the others.  moved says whether the drive obeys.
LinuxClosetray(h, moved) ==
  IF h.fd /\ moved THEN Result(IF h.tray = "open" THEN MoveTray(h, "closed") ELSE h, FALSE)
  ELSE Result(h, TRUE)
FreebsdClosetray(h) == Result(OpenDevice(CloseDevice(h)), GenOpen(CloseDevice(h)) # 0)

GenClosetray(h, moved) ==
  CASE h.os = "linux"   -> LinuxClosetray(h, moved)
    [] h.os = "freebsd" -> FreebsdClosetray(h)
    [] OTHER            -> Result(h, TRUE)

\* When that fails the device is closed and opened.  If it cannot be opened,
\* the status is not asked again.
WmCdClosetray(h, moved) ==
  LET s == WmCdStatus(h)  c == GenClosetray(s, moved)
      Reopened == OpenDevice(CloseDevice(c.drive)) IN
  CASE s.cur_cdmode \in {"UNKNOWN", "NO_DISC"} -> s
    [] s.cur_cdmode \notin {"UNKNOWN", "NO_DISC"} /\ ~c.failed -> WmCdStatus(c.drive)
    [] OTHER -> IF GenOpen(CloseDevice(c.drive)) = 0 THEN WmCdStatus(Reopened) ELSE Reopened

\* wm_cd_init of a device that can be opened, or that has no CD in it.
NewHandle(os, disc) ==
  [os |-> os, tray |-> "closed", disc |-> disc, ready |-> disc # NoDisc,
   motor |-> disc # NoDisc, audio |-> "none", held |-> FALSE, node |-> TRUE, fd |-> FALSE, daux |-> FALSE,
   fresh |-> FALSE, oldmode |-> "UNKNOWN", cur_cdmode |-> "INITIAL", toc |-> NoDisc]
WmCdInit(h) == WmCdStatus(OpenDevice(h))
Initable(h) == GenOpen(h) >= 0 /\ WmCdStatus(OpenDevice(h)).cur_cdmode # "UNKNOWN"

(***************************************************************************)
(* One handle, its client and the drive.                                   *)
(***************************************************************************)

VARIABLES
  drive,      \* the handle
  seen        \* a call has asked for the status since the drive last changed

vars == <<drive, seen>>

Init ==
  /\ \E os \in Systems, disc \in Discs \cup {NoDisc} :
       Initable(NewHandle(os, disc)) /\ drive = WmCdInit(NewHandle(os, disc))
  /\ seen = TRUE

Poll  == drive' = WmCdStatus(drive) /\ seen' = TRUE
Play  == drive' = WmCdPlay(drive) /\ seen' = TRUE
Pause == drive' = WmCdPause(drive) /\ seen' = TRUE
Stop  == drive' = WmCdStop(drive) /\ seen' = TRUE
Eject ==
  /\ drive' = WmCdEject(drive)
  /\ seen' = (seen \/ ~GenEject(drive).failed)
Closetray ==
  /\ \E moved \in BOOLEAN : drive' = WmCdClosetray(drive, moved)
  /\ seen' = TRUE

Call == Poll \/ Play \/ Pause \/ Stop \/ Eject \/ Closetray

\* A person opens or closes the tray, or puts another disc on it.
Tray ==
  \/ drive.tray = "closed" /\ ~drive.held /\ drive' = MoveTray(drive, "open")
  \/ drive.tray = "open" /\ drive' = MoveTray(drive, "closed")
  \/ /\ drive.tray = "open"
     /\ \E disc \in (Discs \cup {NoDisc}) \ {drive.disc} : drive' = [drive EXCEPT !.disc = disc]

SpinUp ==
  /\ drive.tray = "closed" /\ drive.disc # NoDisc /\ ~drive.ready
  /\ drive' = [drive EXCEPT !.ready = TRUE, !.motor = TRUE]

\* The sound ends, or breaks off on an error.
PlayEnds ==
  /\ drive.audio = "play"
  /\ \E audio \in {"completed", "error"} :
       /\ drive.os = "osf1" => audio # "error"
       /\ drive' = [drive EXCEPT !.audio = audio]

\* The desktop mounts the disc or unmounts it.
Mount == Ready(drive) /\ drive' = [drive EXCEPT !.held = ~@]

\* The device file goes (a drive unplugged, or opened exclusively by another
\* program; descriptors that are open stay) and comes back.
Node == drive' = [drive EXCEPT !.node = ~@]

\* The drive changes at most once between two looks at it, see the README.
Hardware ==
  /\ seen /\ (Tray \/ SpinUp \/ PlayEnds \/ Mount \/ Node)
  /\ seen' = FALSE

Next == Call \/ Hardware

Spec == Init /\ [][Next]_vars

\* The timer polls.
FairSpec == Spec /\ WF_vars(Poll)

(***************************************************************************)
(* Properties.                                                             *)
(***************************************************************************)

\* The table of contents is that of the disc in the drive once the drive has
\* been looked at, although the device may have been closed in between by a
\* refused eject (FreeBSD) or kept open over a change of discs (OSF/1).
\* Not on AIX, whose status of an open tray fails and leaves no trace, nor on
\* IRIX, whose status fails for good when the device was not there to reopen.
TocOfThisDisc ==
  seen /\ drive.os \notin {"aix", "irix"} /\ DiscReady(drive.oldmode) => drive.toc = drive.disc

\* A drive that has been looked at while it held no disc shows none, however
\* its device was left by the calls before, on the platforms that take a
\* device that does not answer for an ejected disc.
NoDiscShown ==
  seen /\ drive.os \in {"freebsd", "openbsd", "osf1", "ultrix"}
    => (drive.tray = "open" \/ drive.disc = NoDisc => NoDiscMode(drive.cur_cdmode))

\* A call that looks at the drive reaches it; Linux and IRIX do not open it.
Reached(h) == Answers(IF h.os \in {"linux", "irix"} THEN h ELSE OpenDevice(h)) /\ h.audio # "error"

\* A drive that can be reached does what it is told, although none of the
\* calls takes notice of an ioctl that fails: an order to play is heard and
\* shown even after one to stop, which stops the motor of most drives; a
\* second pause goes on with what the first has interrupted, whatever the
\* calls between them made of the mode.
OrdersObeyed ==
  [][Reached(drive) =>
       /\ Play  => drive'.audio = "play" /\ drive'.cur_cdmode = "PLAYING"
       /\ Stop  => drive'.audio # "play" /\ drive'.cur_cdmode # "PLAYING"
       /\ Pause /\ drive.audio = "play" => drive'.audio = "paused"
       /\ Pause /\ drive.audio = "paused" /\ drive.cur_cdmode \in {"PLAYING", "PAUSED"}
            => drive'.audio = "play"]_vars

\* The disc may be heard: it can be reached, and no error has stuck to it.
DiscLeftIn == Openable(drive) /\ Ready(drive) /\ drive.audio # "error"

\* A disc left in the drive is found, whatever happened to the device before:
\* closed by an ejection or since the node had gone, or open since before the
\* disc was changed.  gen_get_drive_status opens a device that is not open, and
\* closes one that does not answer (plat_freebsd.c:172-177 and 207-214).  Not
\* on Linux, whose test for an open device is to the same end but reversed, nor
\* on IRIX, which has none.
DiscFound ==
  <>[](DiscLeftIn /\ drive.os \notin {"linux", "irix"}) => []<>DiscReady(drive.cur_cdmode)
=============================================================================

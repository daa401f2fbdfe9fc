----------------------------- MODULE DeviceProofs -----------------------------
(***************************************************************************)
(* Theorems about the platforms, for all sets of platforms and of discs:   *)
(* about Device's Spec, about Toc's, what they read of a disc, and about   *)
(* Volume's, for all sets of volumes, balances and levels.                 *)
(***************************************************************************)
EXTENDS Device, Toc, Volume, WellFoundedInduction, TLAPS

(***************************************************************************)
(* The inductive invariant.                                                *)
(***************************************************************************)

System == {"linux", "freebsd", "openbsd", "osf1", "ultrix", "aix", "irix"}
Audio  == {"play", "paused", "completed", "none", "error"}

\* The platforms that take a device that does not answer for an ejected disc,
\* and those whose status of such a device fails.
Takes == {"freebsd", "openbsd", "osf1", "ultrix"}
Fails == {"aix", "irix"}

Handle ==
  [os : System, tray : {"open", "closed"}, disc : Discs \cup {NoDisc}, ready : BOOLEAN,
   motor : BOOLEAN, audio : Audio, held : BOOLEAN, node : BOOLEAN, fd : BOOLEAN,
   daux : BOOLEAN, fresh : BOOLEAN, oldmode : Mode \ {"INITIAL"}, cur_cdmode : Mode,
   toc : Discs \cup {NoDisc}]

\* The drive: only a disc that is ready sounds, and only orders of other
\* platforms than AIX and IRIX stop its motor.
Drive(h) ==
  /\ h.ready => h.tray = "closed" /\ h.disc # NoDisc
  /\ h.audio # "none" => h.ready
  /\ h.os = "osf1" => h.audio # "error"
  /\ h.os \in Fails /\ h.ready => h.motor

\* The modes: what is shown as playing or paused was so when it was last asked
\* for, or there was no disc, and nothing has been interrupted since.
Modes(h) ==
  /\ h.cur_cdmode \in {"PLAYING", "PAUSED"} => h.oldmode \in {h.cur_cdmode, "NO_DISC"}
  /\ h.oldmode = "NO_DISC" => h.os = "linux" /\ h.audio # "paused"

\* The table of contents is that of the disc in the drive, looked at or not.
TocKnown(h) == h.os \notin Fails /\ DiscReady(h.oldmode) => h.toc = h.disc

Fit(h) == h \in Handle /\ Drive(h) /\ Modes(h) /\ TocKnown(h)

\* What a look at the drive has shown.
Noticed(h) ==
  /\ h.os \notin Fails /\ h.tray = "open" => ~DiscReady(h.oldmode)
  /\ h.os \in Takes /\ (h.tray = "open" \/ h.disc = NoDisc) => NoDiscMode(h.cur_cdmode)

IInv == Fit(drive) /\ seen \in BOOLEAN /\ (seen => Noticed(drive))

(***************************************************************************)
(* Opening, closing and asking for the status.                             *)
(***************************************************************************)

\* g is h with its device opened or closed.
Opened(h, g) ==
  \E fd, daux, fresh \in BOOLEAN :
    g = [h EXCEPT !.fd = fd, !.daux = daux, !.fresh = fresh]

\* What is the same in a handle that was opened or closed.
LEMMA OpenedSame ==
  ASSUME NEW h \in Handle, NEW g, Opened(h, g)
  PROVE  /\ g \in Handle
         /\ g.os = h.os /\ g.tray = h.tray /\ g.disc = h.disc /\ g.ready = h.ready
         /\ g.motor = h.motor /\ g.audio = h.audio /\ g.held = h.held /\ g.node = h.node
         /\ g.oldmode = h.oldmode /\ g.cur_cdmode = h.cur_cdmode /\ g.toc = h.toc
         /\ Ready(g) <=> Ready(h)
<1>1. PICK fd, daux, fresh \in BOOLEAN :
        g = [h EXCEPT !.fd = fd, !.daux = daux, !.fresh = fresh]
  BY DEF Opened
<1> QED
  BY <1>1 DEF Handle, Ready

\* OpenDevice and CloseDevice open and close.
LEMMA OpenClose ==
  ASSUME NEW h \in Handle
  PROVE  /\ Opened(h, h) /\ Opened(h, OpenDevice(h)) /\ Opened(h, CloseDevice(h))
         /\ Opened(h, CloseDevice(OpenDevice(h))) /\ Opened(h, OpenDevice(CloseDevice(h)))
<1>1. /\ h = [h EXCEPT !.fd = h.fd, !.daux = h.daux, !.fresh = h.fresh]
      /\ h.fd \in BOOLEAN /\ h.daux \in BOOLEAN /\ h.fresh \in BOOLEAN
  BY DEF Handle
<1>2. ASSUME NEW g \in Handle PROVE Opened(g, g)
  <2>1. /\ g = [g EXCEPT !.fd = g.fd, !.daux = g.daux, !.fresh = g.fresh]
        /\ g.fd \in BOOLEAN /\ g.daux \in BOOLEAN /\ g.fresh \in BOOLEAN
    BY DEF Handle
  <2> QED
    BY <2>1 DEF Opened
<1>3. ASSUME NEW g \in Handle PROVE Opened(g, CloseDevice(g))
  <2>1. /\ CloseDevice(g) = [g EXCEPT !.fd = FALSE, !.daux = g.daux, !.fresh = g.fresh]
        /\ g.daux \in BOOLEAN /\ g.fresh \in BOOLEAN
    BY DEF Handle, CloseDevice
  <2> QED
    BY <2>1 DEF Opened
<1>4. ASSUME NEW g \in Handle PROVE Opened(g, OpenDevice(g))
  <2>1. /\ g.fd \in BOOLEAN /\ g.daux \in BOOLEAN /\ g.fresh \in BOOLEAN
    BY DEF Handle
  <2>2. \/ OpenDevice(g) = g
        \/ OpenDevice(g) = [g EXCEPT !.fd = TRUE, !.daux = (g.os = "irix"), !.fresh = TRUE]
        \/ OpenDevice(g) = [g EXCEPT !.fd = g.fd, !.daux = FALSE, !.fresh = g.fresh]
    BY <2>1 DEF Handle, OpenDevice
  <2> QED
    BY <2>1, <2>2, <1>2 DEF Opened
<1>5. ASSUME NEW g \in Handle, NEW k, Opened(h, g), Opened(g, k) PROVE Opened(h, k)
  <2>1. PICK fd, daux, fresh \in BOOLEAN :
          g = [h EXCEPT !.fd = fd, !.daux = daux, !.fresh = fresh]
    BY <1>5 DEF Opened
  <2>2. PICK fd2, daux2, fresh2 \in BOOLEAN :
          k = [g EXCEPT !.fd = fd2, !.daux = daux2, !.fresh = fresh2]
    BY <1>5 DEF Opened
  <2>3. k = [h EXCEPT !.fd = fd2, !.daux = daux2, !.fresh = fresh2]
    BY <2>1, <2>2 DEF Handle
  <2> QED
    BY <2>3 DEF Opened
<1>6. ASSUME NEW g, Opened(h, g) PROVE g \in Handle
  BY <1>6, OpenedSame
<1> QED
  BY <1>2, <1>3, <1>4, <1>5, <1>6

\* A handle whose device was opened or closed is as fit as before.
LEMMA OpenedFit ==
  ASSUME NEW h, NEW g, Opened(h, g), Fit(h)
  PROVE  Fit(g) /\ (Noticed(h) => Noticed(g))
BY OpenedSame DEF Fit, Drive, Modes, TocKnown, Noticed

\* What gen_get_drive_status finds out.
LEMMA StatusFinds ==
  ASSUME NEW h, Fit(h)
  PROVE  /\ Opened(h, GenStatus(h).drive)
         /\ GenStatus(h).mode \in (Mode \ {"INITIAL"}) \cup {"-1"}
         /\ h.os \notin Fails => GenStatus(h).mode # "-1"
         /\ DiscReady(GenStatus(h).mode) => Ready(h)
         /\ h.os \in Takes /\ ~Ready(h) => GenStatus(h).mode = "EJECTED"
         /\ GenStatus(h).mode = "NO_DISC" => h.os = "linux" /\ h.disc = NoDisc
         /\ Reached(h) =>
              /\ Answers(GenStatus(h).drive) /\ DiscReady(GenStatus(h).mode)
              /\ h.audio = "play" <=> GenStatus(h).mode = "PLAYING"
              /\ h.audio = "paused" /\ (h.os \in Fails \/ h.oldmode \in {"PLAYING", "PAUSED"})
                   => GenStatus(h).mode = "PAUSED"
<1> DEFINE g == OpenDevice(h)
<1>1. /\ h \in Handle /\ Opened(h, h) /\ Opened(h, g) /\ Opened(h, CloseDevice(g))
      /\ g \in Handle /\ g.os = h.os /\ g.audio = h.audio /\ g.oldmode = h.oldmode
      /\ Ready(g) <=> Ready(h)
  BY OpenClose, OpenedSame DEF Fit
<1>2. \A k : Answers(k) => Ready(k)
  BY DEF Answers
<1>3. h.audio \in Audio /\ h.os \in System /\ h.oldmode \in Mode \ {"INITIAL"}
  BY <1>1 DEF Handle
<1>4. \A k, m : Reply(k, m).drive = k /\ Reply(k, m).mode = m
  BY DEF Reply
<1>5. CASE h.os = "linux"
  BY <1>1, <1>2, <1>3, <1>4, <1>5
  DEF GenStatus, LinuxStatus, PauseMode, Reached, Mode, DiscReady, Takes, Fails, Audio, Ready
<1>6. CASE h.os \in {"freebsd", "openbsd"}
  <2>1. GenStatus(h) = IF h.os = "freebsd" THEN FreebsdStatus(h) ELSE OpenbsdStatus(h)
    BY <1>6 DEF GenStatus
  <2>2. GenStatus(h) =
          IF ~Answers(g) THEN Reply(CloseDevice(g), "EJECTED")
          ELSE Reply(g, CASE g.audio = "play"      -> "PLAYING"
                          [] g.audio = "paused"    -> PauseMode(g)
                          [] g.audio = "completed" -> "TRACK_DONE"
                          [] g.audio = "none"      -> "STOPPED"
                          [] g.audio = "error"     -> "EJECTED")
    BY <1>6, <2>1 DEF FreebsdStatus, OpenbsdStatus
  <2> HIDE DEF g
  <2> QED
    BY <1>1, <1>2, <1>3, <1>4, <1>6, <2>2
    DEF PauseMode, Reached, Mode, DiscReady, Takes, Fails, Audio, g
<1>7. CASE h.os \in {"osf1", "ultrix"}
  <2>1. g.os = "osf1" => g.audio # "error"
    BY <1>1 DEF Fit, Drive
  <2>2. GenStatus(h) = IF h.os = "osf1" THEN Osf1Status(h) ELSE UltrixStatus(h)
    BY <1>7 DEF GenStatus
  <2>3. GenStatus(h) =
          Reply(g, CASE ~Answers(g)                         -> "EJECTED"
                     [] Answers(g) /\ g.audio = "play"      -> "PLAYING"
                     [] Answers(g) /\ g.audio = "paused"    -> PauseMode(g)
                     [] Answers(g) /\ g.audio = "completed" -> "TRACK_DONE"
                     [] Answers(g) /\ g.audio = "none"      -> "STOPPED"
                     [] Answers(g) /\ g.audio = "error"     -> "EJECTED")
    BY <1>1, <1>3, <1>7, <2>1, <2>2 DEF UltrixStatus, Osf1Status, Audio
  <2> HIDE DEF g
  <2> QED
    BY <1>1, <1>2, <1>3, <1>4, <1>7, <2>3
    DEF PauseMode, Reached, Mode, DiscReady, Takes, Fails, Audio, g
<1>8. CASE h.os = "aix"
  <2>1. GenStatus(h) =
          Reply(g, CASE ~Answers(g)                      -> "-1"
                     [] Answers(g) /\ g.audio = "play"   -> "PLAYING"
                     [] Answers(g) /\ g.audio = "paused" -> "PAUSED"
                     [] OTHER                            -> "STOPPED")
    BY <1>8 DEF GenStatus, AixStatus
  <2> HIDE DEF g
  <2> QED
    BY <1>1, <1>2, <1>3, <1>4, <1>8, <2>1
    DEF Reached, Mode, DiscReady, Takes, Fails, Audio, g
<1>9. CASE h.os = "irix"
  BY <1>1, <1>2, <1>3, <1>4, <1>9
  DEF GenStatus, IrixStatus, Answers, Reached, Mode, DiscReady, Takes, Fails, Audio
<1> QED
  BY <1>3, <1>5, <1>6, <1>7, <1>8, <1>9 DEF System

\* wm_cd_status: the handle after it is fit, and what it shows has been noticed.
LEMMA StatusFit ==
  ASSUME NEW h, Fit(h)
  PROVE  LET s == WmCdStatus(h) IN
         /\ Fit(s) /\ Noticed(s)
         /\ s.os = h.os /\ s.tray = h.tray /\ s.disc = h.disc /\ s.audio = h.audio
         /\ s.motor = h.motor /\ s.ready = h.ready /\ s.held = h.held /\ s.node = h.node
         /\ s.oldmode = "NO_DISC" => s.disc = NoDisc
         /\ Reached(h) =>
              /\ Answers(s) /\ ~NoDiscMode(s.cur_cdmode)
              /\ h.audio = "play" <=> s.cur_cdmode = "PLAYING"
              /\ h.audio = "paused" /\ (h.os \in Fails \/ h.oldmode \in {"PLAYING", "PAUSED"})
                   => s.cur_cdmode = "PAUSED"
<1> DEFINE g == GenStatus(h).drive
           told == GenStatus(h).mode
           s == WmCdStatus(h)
<1>1. /\ Opened(h, g) /\ told \in (Mode \ {"INITIAL"}) \cup {"-1"}
      /\ h.os \notin Fails => told # "-1"
      /\ DiscReady(told) => Ready(h)
      /\ h.os \in Takes /\ ~Ready(h) => told = "EJECTED"
      /\ told = "NO_DISC" => h.os = "linux" /\ h.disc = NoDisc
      /\ Reached(h) => /\ Answers(g) /\ DiscReady(told)
                       /\ h.audio = "play" <=> told = "PLAYING"
                       /\ h.audio = "paused" /\ (h.os \in Fails \/ h.oldmode \in {"PLAYING", "PAUSED"})
                            => told = "PAUSED"
  BY StatusFinds
<1>2. /\ g \in Handle /\ Fit(g) /\ g.os = h.os /\ g.tray = h.tray /\ g.disc = h.disc
      /\ g.ready = h.ready /\ g.motor = h.motor /\ g.audio = h.audio /\ g.held = h.held
      /\ g.node = h.node /\ g.oldmode = h.oldmode /\ g.cur_cdmode = h.cur_cdmode /\ g.toc = h.toc
  BY <1>1, OpenedSame, OpenedFit DEF Fit
<1>3. s = IF told = "-1" THEN g
          ELSE [g EXCEPT !.oldmode = told,
                         !.cur_cdmode = CASE told = "UNKNOWN" -> "NO_DISC"
                                          [] told = "NO_DISC" -> g.cur_cdmode
                                          [] OTHER            -> told,
                         !.toc = IF NoDiscMode(h.oldmode) /\ DiscReady(told) THEN g.disc ELSE g.toc]
  BY DEF WmCdStatus
<1> HIDE DEF g, told, s
<1>4. CASE told = "-1"
  <2>1. s = g /\ h.os \in Fails /\ ~Reached(h)
    BY <1>1, <1>3, <1>4 DEF DiscReady
  <2>2. Noticed(s)
    BY <1>2, <2>1 DEF Noticed, Takes, Fails
  <2> QED
    BY <1>2, <2>1, <2>2 DEF s, Modes, Fit, Fails
<1>5. CASE told # "-1"
  <2>1. /\ s.os = h.os /\ s.tray = h.tray /\ s.disc = h.disc /\ s.audio = h.audio
        /\ s.motor = h.motor /\ s.ready = h.ready /\ s.held = h.held /\ s.node = h.node
        /\ s.fd = g.fd /\ s.daux = g.daux /\ s.fresh = g.fresh
        /\ s.oldmode = told
        /\ s.cur_cdmode = CASE told = "UNKNOWN" -> "NO_DISC"
                            [] told = "NO_DISC" -> g.cur_cdmode
                            [] OTHER            -> told
        /\ s.toc = IF NoDiscMode(h.oldmode) /\ DiscReady(told) THEN g.disc ELSE g.toc
    BY <1>2, <1>3, <1>5 DEF Handle
  <2>2. s \in Handle
    BY <1>1, <1>2, <1>3, <1>5 DEF Handle, Mode
  <2>3. Ready(s) <=> Ready(g)
    BY <1>2, <2>1 DEF Ready
  <2>4. Answers(g) => Answers(s)
    BY <1>2, <2>1, <2>3 DEF Answers
  <2>5. Drive(s) /\ Drive(h)
    BY <1>2, <2>1 DEF Drive, Fit
  <2>6. Modes(s)
    BY <1>1, <1>2, <2>1, <2>5 DEF Modes, Drive
  <2>7. TocKnown(s)
    BY <1>1, <1>2, <2>1 DEF TocKnown, Fit, Handle, Mode, DiscReady, NoDiscMode
  <2>8. Noticed(s)
    BY <1>1, <1>2, <2>1 DEF Noticed, Takes, Ready, NoDiscMode, Mode
  <2>9. Reached(h) => s.cur_cdmode = told
    BY <1>1, <2>1 DEF DiscReady
  <2> QED
    BY <1>1, <2>1, <2>2, <2>4, <2>5, <2>6, <2>7, <2>8, <2>9 DEF s, Fit, DiscReady, NoDiscMode
<1> QED
  BY <1>4, <1>5

(***************************************************************************)
(* The orders.                                                             *)
(***************************************************************************)

\* h with another sound and another motor.
Turned(h, audio, motor) == [h EXCEPT !.audio = audio, !.motor = motor]

\* A handle stays fit when its sound changes as an ioctl may change it.
LEMMA TurnedFit ==
  ASSUME NEW h, Fit(h), NEW audio \in Audio, NEW motor \in BOOLEAN,
         audio # "none" => h.ready, audio # "error" \/ h.audio = "error",
         h.os \in {"aix", "irix"} => motor = h.motor,
         audio = "paused" => h.audio = "paused" \/ h.oldmode # "NO_DISC"
  PROVE  LET t == Turned(h, audio, motor) IN
         /\ Fit(t) /\ t.audio = audio /\ t.motor = motor
         /\ Noticed(h) => Noticed(t)
         /\ Answers(t) <=> Answers(h)
         /\ t.os = h.os /\ t.tray = h.tray /\ t.disc = h.disc /\ t.held = h.held
         /\ t.fd = h.fd /\ t.cur_cdmode = h.cur_cdmode /\ t.node = h.node
<1> DEFINE t == Turned(h, audio, motor)
<1>1. /\ t \in Handle /\ t.audio = audio /\ t.motor = motor
      /\ t.os = h.os /\ t.tray = h.tray /\ t.disc = h.disc /\ t.ready = h.ready /\ t.held = h.held
      /\ t.fd = h.fd /\ t.daux = h.daux /\ t.fresh = h.fresh /\ t.oldmode = h.oldmode
      /\ t.cur_cdmode = h.cur_cdmode /\ t.toc = h.toc /\ t.node = h.node
  BY DEF Fit, Handle, Turned
<1> HIDE DEF t
<1>2. Fit(t)
  BY <1>1 DEF Fit, Drive, Modes, TocKnown, Fails
<1>3. (Noticed(h) => Noticed(t)) /\ (Answers(t) <=> Answers(h))
  BY <1>1 DEF Noticed, Answers, Ready
<1> QED
  BY <1>1, <1>2, <1>3 DEF t

\* What is left alone by gen_play, gen_pause, gen_resume and gen_stop.
Kept(h, g) ==
  /\ Fit(g) /\ (Noticed(h) => Noticed(g)) /\ (Answers(g) <=> Answers(h))
  /\ g.os = h.os /\ g.tray = h.tray /\ g.disc = h.disc /\ g.held = h.held
  /\ g.cur_cdmode = h.cur_cdmode

\* StartUnit, PlayMsf and the others.
LEMMA IoctlKeeps ==
  ASSUME NEW h, Fit(h)
  PROVE  /\ Kept(h, StartUnit(h).drive) /\ Kept(h, PlayMsf(h).drive)
         /\ h.os \notin Fails => Kept(h, StopUnit(h).drive)
         /\ Kept(h, AixStop(h).drive)
         /\ (h.oldmode = "NO_DISC" => h.disc = NoDisc) => Kept(h, Sound(h, "play", "paused").drive)
         /\ Kept(h, Sound(h, "paused", "play").drive)
         /\ Answers(h) =>
              /\ StartUnit(h).drive.motor = TRUE /\ StartUnit(h).drive.audio = h.audio
              /\ ~StartUnit(h).failed
              /\ h.motor => PlayMsf(h).drive.audio = "play" /\ ~PlayMsf(h).failed
              /\ StopUnit(h).drive.audio = "none" /\ AixStop(h).drive.audio = "none"
              /\ h.audio = "play" => Sound(h, "play", "paused").drive.audio = "paused"
              /\ h.audio = "paused" => Sound(h, "paused", "play").drive.audio = "play"
<1>1. /\ h \in Handle /\ h.audio \in Audio /\ h.motor \in BOOLEAN
      /\ (h.audio # "none" => h.ready) /\ (h.os \in Fails /\ h.ready => h.motor)
      /\ Answers(h) => h.ready
  BY DEF Fit, Handle, Drive, Answers, Ready
<1>12. /\ [h EXCEPT !.motor = TRUE] = Turned(h, h.audio, TRUE)
       /\ [h EXCEPT !.motor = FALSE, !.audio = "none"] = Turned(h, "none", FALSE)
       /\ [h EXCEPT !.audio = "none"] = Turned(h, "none", h.motor)
       /\ [h EXCEPT !.audio = "play"] = Turned(h, "play", h.motor)
       /\ [h EXCEPT !.audio = "paused"] = Turned(h, "paused", h.motor)
  BY <1>1 DEF Handle, Turned
<1>2. ASSUME NEW audio \in Audio, NEW motor \in BOOLEAN,
             audio # "none" => h.ready, audio # "error" \/ h.audio = "error",
             h.os \in {"aix", "irix"} => motor = h.motor,
             audio = "paused" => h.audio = "paused" \/ h.oldmode # "NO_DISC"
      PROVE  /\ Kept(h, Turned(h, audio, motor))
             /\ Turned(h, audio, motor).audio = audio /\ Turned(h, audio, motor).motor = motor
  BY <1>2, TurnedFit DEF Kept
<1>3. Kept(h, h)
  BY DEF Kept
<1>4. \A g : /\ Result(g, FALSE).drive = g /\ ~Result(g, FALSE).failed
             /\ Result(g, TRUE).drive = g /\ Result(g, TRUE).failed
  BY DEF Result
<1>5. /\ "play" \in Audio /\ "none" \in Audio /\ "paused" \in Audio
      /\ TRUE \in BOOLEAN /\ FALSE \in BOOLEAN
  BY DEF Audio
<1>6. /\ Kept(h, StartUnit(h).drive)
      /\ Answers(h) => /\ StartUnit(h).drive.motor = TRUE /\ StartUnit(h).drive.audio = h.audio
                       /\ ~StartUnit(h).failed
  <2>1. Answers(h) => Kept(h, Turned(h, h.audio, TRUE)) /\ Turned(h, h.audio, TRUE).motor = TRUE
                      /\ Turned(h, h.audio, TRUE).audio = h.audio
    BY <1>1, <1>2, <1>5 DEF Fails
  <2> QED
    BY <1>3, <1>4, <1>12, <2>1 DEF StartUnit
<1>7. /\ Kept(h, PlayMsf(h).drive)
      /\ Answers(h) /\ h.motor => PlayMsf(h).drive.audio = "play" /\ ~PlayMsf(h).failed
  <2>1. CASE Answers(h) /\ h.motor
    <3>1. Kept(h, Turned(h, "play", h.motor)) /\ Turned(h, "play", h.motor).audio = "play"
      BY <1>1, <1>2, <1>5, <2>1
    <3>2. PlayMsf(h) = Result(Turned(h, "play", h.motor), FALSE)
      BY <1>12, <2>1 DEF PlayMsf
    <3> QED
      BY <1>4, <3>1, <3>2
  <2>2. CASE ~(Answers(h) /\ h.motor)
    <3>1. PlayMsf(h) = Result(h, TRUE)
      BY <2>2 DEF PlayMsf
    <3> QED
      BY <1>3, <1>4, <2>2, <3>1
  <2> QED
    BY <2>1, <2>2
<1>8. /\ h.os \notin Fails => Kept(h, StopUnit(h).drive)
      /\ Answers(h) => StopUnit(h).drive.audio = "none"
  <2>1. CASE Answers(h)
    <3>1. h.os \notin Fails => Kept(h, Turned(h, "none", FALSE))
      BY <1>1, <1>2, <1>5 DEF Fails
    <3>2. Turned(h, "none", FALSE).audio = "none"
      BY <1>1 DEF Turned, Handle
    <3>3. StopUnit(h) = Result(Turned(h, "none", FALSE), FALSE)
      BY <1>12, <2>1 DEF StopUnit
    <3> QED
      BY <1>4, <3>1, <3>2, <3>3
  <2>2. CASE ~Answers(h)
    <3>1. StopUnit(h) = Result(h, TRUE)
      BY <2>2 DEF StopUnit
    <3> QED
      BY <1>3, <1>4, <2>2, <3>1
  <2> QED
    BY <2>1, <2>2
<1>9. Kept(h, AixStop(h).drive) /\ (Answers(h) => AixStop(h).drive.audio = "none")
  <2>1. CASE Answers(h)
    <3>1. Kept(h, Turned(h, "none", h.motor)) /\ Turned(h, "none", h.motor).audio = "none"
      BY <1>1, <1>2, <1>5
    <3>2. AixStop(h) = Result(Turned(h, "none", h.motor), FALSE)
      BY <1>12, <2>1 DEF AixStop
    <3> QED
      BY <1>4, <3>1, <3>2
  <2>2. CASE ~Answers(h)
    <3>1. AixStop(h) = Result(h, TRUE)
      BY <2>2 DEF AixStop
    <3> QED
      BY <1>3, <1>4, <2>2, <3>1
  <2> QED
    BY <2>1, <2>2
<1>10. /\ (h.oldmode = "NO_DISC" => h.disc = NoDisc) => Kept(h, Sound(h, "play", "paused").drive)
       /\ Answers(h) /\ h.audio = "play" => Sound(h, "play", "paused").drive.audio = "paused"
  <2>1. CASE Answers(h) /\ h.audio = "play"
    <3>1. (h.oldmode = "NO_DISC" => h.disc = NoDisc) => Kept(h, Turned(h, "paused", h.motor))
      <4>1. h.disc # NoDisc
        BY <2>1 DEF Answers, Ready
      <4> QED
        BY <1>1, <1>2, <1>5, <2>1, <4>1
    <3>2. Turned(h, "paused", h.motor).audio = "paused"
      BY <1>1 DEF Turned, Handle
    <3>3. Sound(h, "play", "paused") = Result(Turned(h, "paused", h.motor), FALSE)
      BY <1>12, <2>1 DEF Sound
    <3> QED
      BY <1>4, <3>1, <3>2, <3>3
  <2>2. CASE ~(Answers(h) /\ h.audio = "play")
    <3>1. Sound(h, "play", "paused") = Result(h, TRUE)
      BY <2>2 DEF Sound
    <3> QED
      BY <1>3, <1>4, <2>2, <3>1
  <2> QED
    BY <2>1, <2>2
<1>11. /\ Kept(h, Sound(h, "paused", "play").drive)
       /\ Answers(h) /\ h.audio = "paused" => Sound(h, "paused", "play").drive.audio = "play"
  <2>1. CASE Answers(h) /\ h.audio = "paused"
    <3>1. Kept(h, Turned(h, "play", h.motor)) /\ Turned(h, "play", h.motor).audio = "play"
      BY <1>1, <1>2, <1>5, <2>1
    <3>2. Sound(h, "paused", "play") = Result(Turned(h, "play", h.motor), FALSE)
      BY <1>12, <2>1 DEF Sound
    <3> QED
      BY <1>4, <3>1, <3>2
  <2>2. CASE ~(Answers(h) /\ h.audio = "paused")
    <3>1. Sound(h, "paused", "play") = Result(h, TRUE)
      BY <2>2 DEF Sound
    <3> QED
      BY <1>3, <1>4, <2>2, <3>1
  <2> QED
    BY <2>1, <2>2
<1> QED
  BY <1>6, <1>7, <1>8, <1>9, <1>10, <1>11

\* gen_play on every platform.
LEMMA GenPlayKeeps ==
  ASSUME NEW h, Fit(h)
  PROVE  Kept(h, GenPlay(h).drive) /\ (Answers(h) => GenPlay(h).drive.audio = "play")
<1> DEFINE u == StartUnit(h).drive
<1>1. /\ Kept(h, u) /\ Fit(u) /\ Kept(h, PlayMsf(h).drive) /\ Kept(h, h)
      /\ Answers(h) => Answers(u) /\ u.motor = TRUE /\ ~StartUnit(h).failed
  BY IoctlKeeps DEF Kept
<1>2. /\ Kept(u, PlayMsf(u).drive)
      /\ Answers(h) => PlayMsf(u).drive.audio = "play"
  BY <1>1, IoctlKeeps
<1>3. Kept(h, PlayMsf(u).drive)
  BY <1>1, <1>2 DEF Kept
<1>4. Answers(h) /\ h.os \in Fails => h.motor
  BY DEF Fit, Drive, Answers, Ready
<1>5. Answers(h) /\ ~PlayMsf(h).failed => PlayMsf(h).drive.audio = "play"
  <2>1. CASE h.motor
    BY <2>1, IoctlKeeps
  <2>2. CASE ~h.motor
    BY <2>2 DEF PlayMsf, Result
  <2> QED
    BY <2>1, <2>2
<1>6. Answers(h) /\ h.motor => PlayMsf(h).drive.audio = "play"
  BY IoctlKeeps
<1>7. h.os \in System
  BY DEF Fit, Handle
<1>8. CASE h.os = "linux"
  BY <1>1, <1>2, <1>3, <1>5, <1>8 DEF GenPlay, LinuxPlay, Result
<1>9. CASE h.os \in Takes
  BY <1>1, <1>2, <1>3, <1>9
  DEF GenPlay, FreebsdPlay, OpenbsdPlay, Osf1Play, UltrixPlay, StartAndPlay, Result, Takes
<1>10. CASE h.os \in Fails
  BY <1>1, <1>4, <1>6, <1>10 DEF GenPlay, AixPlay, IrixPlay, Fails
<1> QED
  BY <1>7, <1>8, <1>9, <1>10 DEF System, Takes, Fails

\* gen_stop on every platform.
LEMMA GenStopKeeps ==
  ASSUME NEW h, Fit(h)
  PROVE  Kept(h, GenStop(h).drive) /\ (Answers(h) => GenStop(h).drive.audio = "none")
BY IoctlKeeps DEF GenStop, IrixStop, Fails

\* A device that answers is open.
LEMMA AnswersReached ==
  ASSUME NEW h, Answers(h), h.audio # "error"
  PROVE  Reached(h)
<1>1. h.os \notin {"linux", "irix"} => OpenDevice(h) = h
  BY DEF Answers, OpenDevice
<1>2. CASE h.os \in {"linux", "irix"}
  BY <1>2 DEF Reached
<1>3. CASE h.os \notin {"linux", "irix"}
  BY <1>1, <1>3 DEF Reached
<1> QED
  BY <1>2, <1>3

(***************************************************************************)
(* The calls: what each leaves, and what it makes of a drive that it       *)
(* reaches.                                                                *)
(***************************************************************************)

LEMMA PlayFit ==
  ASSUME NEW h, Fit(h)
  PROVE  /\ Fit(WmCdPlay(h)) /\ Noticed(WmCdPlay(h))
         /\ Reached(h) => WmCdPlay(h).audio = "play" /\ WmCdPlay(h).cur_cdmode = "PLAYING"
<1> DEFINE s == WmCdStatus(h)
           k == GenPlay(s).drive
<1>1. Fit(s) /\ Noticed(s) /\ (Reached(h) => Answers(s) /\ ~NoDiscMode(s.cur_cdmode))
  BY StatusFit
<1>2. WmCdPlay(h) = IF NoDiscMode(s.cur_cdmode) THEN s ELSE WmCdStatus(k)
  BY DEF WmCdPlay
<1> HIDE DEF s
<1>3. Kept(s, k) /\ (Answers(s) => k.audio = "play")
  BY <1>1, GenPlayKeeps
<1> HIDE DEF k
<1>4. Fit(k) /\ (Answers(s) => Answers(k))
  BY <1>3 DEF Kept
<1>5. Fit(WmCdStatus(k)) /\ Noticed(WmCdStatus(k))
  BY <1>4, StatusFit
<1>6. ASSUME Reached(h)
      PROVE  WmCdStatus(k).audio = "play" /\ WmCdStatus(k).cur_cdmode = "PLAYING"
  <2>1. Reached(k) /\ k.audio = "play"
    BY <1>1, <1>3, <1>4, <1>6, AnswersReached
  <2> QED
    BY <1>4, <2>1, StatusFit
<1>7. CASE NoDiscMode(s.cur_cdmode)
  BY <1>1, <1>2, <1>7
<1>8. CASE ~NoDiscMode(s.cur_cdmode)
  BY <1>2, <1>5, <1>6, <1>8
<1> QED
  BY <1>7, <1>8

LEMMA StopFit ==
  ASSUME NEW h, Fit(h)
  PROVE  /\ Fit(WmCdStop(h)) /\ Noticed(WmCdStop(h))
         /\ Reached(h) => WmCdStop(h).audio # "play" /\ WmCdStop(h).cur_cdmode # "PLAYING"
<1> DEFINE s == WmCdStatus(h)
           k == GenStop(s).drive
<1>1. /\ Fit(s) /\ Noticed(s) /\ s.audio = h.audio
      /\ Reached(h) => /\ Answers(s) /\ ~NoDiscMode(s.cur_cdmode)
                       /\ h.audio = "play" <=> s.cur_cdmode = "PLAYING"
  BY StatusFit
<1>2. WmCdStop(h) =
        IF NoDiscMode(s.cur_cdmode) \/ s.cur_cdmode = "STOPPED" THEN s ELSE WmCdStatus(k)
  BY DEF WmCdStop
<1> HIDE DEF s
<1>3. Kept(s, k) /\ (Answers(s) => k.audio = "none")
  BY <1>1, GenStopKeeps
<1> HIDE DEF k
<1>4. Fit(k) /\ (Answers(s) => Answers(k))
  BY <1>3 DEF Kept
<1>5. Fit(WmCdStatus(k)) /\ Noticed(WmCdStatus(k))
  BY <1>4, StatusFit
<1>6. ASSUME Reached(h)
      PROVE  WmCdStatus(k).audio # "play" /\ WmCdStatus(k).cur_cdmode # "PLAYING"
  <2>1. Reached(k) /\ k.audio = "none"
    BY <1>1, <1>3, <1>4, <1>6, AnswersReached
  <2> QED
    BY <1>4, <2>1, StatusFit
<1>7. CASE NoDiscMode(s.cur_cdmode) \/ s.cur_cdmode = "STOPPED"
  BY <1>1, <1>2, <1>7
<1>8. CASE ~(NoDiscMode(s.cur_cdmode) \/ s.cur_cdmode = "STOPPED")
  BY <1>2, <1>5, <1>6, <1>8
<1> QED
  BY <1>7, <1>8

LEMMA PauseFit ==
  ASSUME NEW h, Fit(h)
  PROVE  /\ Fit(WmCdPause(h)) /\ Noticed(WmCdPause(h))
         /\ Reached(h) =>
              /\ h.audio = "play" => WmCdPause(h).audio = "paused"
              /\ h.audio = "paused" /\ h.cur_cdmode \in {"PLAYING", "PAUSED"}
                   => WmCdPause(h).audio = "play"
<1> DEFINE s == WmCdStatus(h)
<1>1. /\ Fit(s) /\ Noticed(s) /\ s.audio = h.audio
      /\ s.oldmode = "NO_DISC" => s.disc = NoDisc
      /\ Reached(h) =>
           /\ Answers(s)
           /\ h.audio = "play" <=> s.cur_cdmode = "PLAYING"
           /\ h.audio = "paused" /\ h.oldmode \in {"PLAYING", "PAUSED"} => s.cur_cdmode = "PAUSED"
  BY StatusFit
<1>2. h.audio = "paused" /\ h.cur_cdmode \in {"PLAYING", "PAUSED"}
        => h.oldmode \in {"PLAYING", "PAUSED"}
  BY DEF Fit, Modes
<1>3. WmCdPause(h) = CASE s.cur_cdmode = "PLAYING" -> GenPause(s).drive
                       [] s.cur_cdmode = "PAUSED"  -> GenResume(s).drive
                       [] OTHER                    -> s
  BY DEF WmCdPause
<1> HIDE DEF s
<1>4. /\ Kept(s, GenPause(s).drive) /\ Kept(s, GenResume(s).drive)
      /\ Answers(s) => /\ s.audio = "play" => GenPause(s).drive.audio = "paused"
                       /\ s.audio = "paused" => GenResume(s).drive.audio = "play"
  BY <1>1, IoctlKeeps DEF GenPause, GenResume
<1>5. /\ Fit(GenPause(s).drive) /\ Noticed(GenPause(s).drive)
      /\ Fit(GenResume(s).drive) /\ Noticed(GenResume(s).drive)
  BY <1>1, <1>4 DEF Kept
<1>6. CASE s.cur_cdmode = "PLAYING"
  BY <1>1, <1>2, <1>3, <1>4, <1>5, <1>6
<1>7. CASE s.cur_cdmode = "PAUSED"
  BY <1>1, <1>2, <1>3, <1>4, <1>5, <1>7
<1>8. CASE s.cur_cdmode \notin {"PLAYING", "PAUSED"}
  BY <1>1, <1>2, <1>3, <1>8
<1> QED
  BY <1>6, <1>7, <1>8

\* The tray, moved by anyone.
LEMMA MovedFit ==
  ASSUME NEW h, Fit(h), NEW pos \in {"open", "closed"}
  PROVE  Fit(MoveTray(h, pos))
<1> DEFINE m == MoveTray(h, pos)
<1>1. /\ m \in Handle /\ m.tray = pos /\ m.ready = FALSE /\ m.audio = "none"
      /\ m.os = h.os /\ m.disc = h.disc /\ m.oldmode = h.oldmode
      /\ m.cur_cdmode = h.cur_cdmode /\ m.toc = h.toc
  BY DEF Fit, Handle, Audio, MoveTray
<1> HIDE DEF m
<1>2. Fit(m)
  BY <1>1 DEF Fit, Drive, Modes, TocKnown
<1> QED
  BY <1>2 DEF m

\* gen_eject opens the tray, or leaves all but the descriptor alone.
LEMMA GenEjectFit ==
  ASSUME NEW h, Fit(h)
  PROVE  /\ Fit(GenEject(h).drive)
         /\ GenEject(h).failed /\ Noticed(h) => Noticed(GenEject(h).drive)
<1>1. h \in Handle /\ h.os \in System /\ h.tray \in {"open", "closed"}
  BY DEF Fit, Handle
<1>2. Fit(Ejected(h)) /\ Fit(CloseDevice(Ejected(h)))
  <2>1. Fit(Ejected(h))
    BY MovedFit DEF Ejected
  <2>2. Opened(Ejected(h), CloseDevice(Ejected(h)))
    BY <2>1, OpenClose DEF Fit
  <2> QED
    BY <2>1, <2>2, OpenedFit
<1>3. Fit(CloseDevice(h)) /\ (Noticed(h) => Noticed(CloseDevice(h)))
  BY <1>1, OpenClose, OpenedFit
<1>4. \A g, failed : Result(g, failed).drive = g /\ ~Result(g, FALSE).failed
  BY DEF Result
<1>5. \/ GenEject(h) = Result(h, TRUE) \/ GenEject(h) = Result(CloseDevice(h), TRUE)
      \/ GenEject(h) = Result(Ejected(h), FALSE) \/ GenEject(h) = Result(h, FALSE)
      \/ GenEject(h) = Result(CloseDevice(Ejected(h)), FALSE)
  BY <1>1 DEF System, GenEject, LinuxEject, FreebsdEject, OpenbsdEject, Osf1Eject, UltrixEject,
              AixEject, IrixEject
<1>6. CASE GenEject(h) = Result(h, TRUE) \/ GenEject(h) = Result(h, FALSE)
  <2>1. GenEject(h).drive = h
    BY <1>4, <1>6
  <2> QED
    BY <2>1
<1>7. CASE GenEject(h) = Result(CloseDevice(h), TRUE)
  <2>1. GenEject(h).drive = CloseDevice(h)
    BY <1>4, <1>7
  <2> QED
    BY <1>3, <2>1
<1>8. CASE \/ GenEject(h) = Result(Ejected(h), FALSE)
           \/ GenEject(h) = Result(CloseDevice(Ejected(h)), FALSE)
  BY <1>2, <1>4, <1>8
<1> QED
  BY <1>5, <1>6, <1>7, <1>8

LEMMA EjectFit ==
  ASSUME NEW h, Fit(h)
  PROVE  /\ Fit(WmCdEject(h))
         /\ Noticed(h) \/ ~GenEject(h).failed => Noticed(WmCdEject(h))
<1>1. CASE GenEject(h).failed
  BY <1>1, GenEjectFit DEF WmCdEject
<1>2. CASE ~GenEject(h).failed
  BY <1>2, GenEjectFit, StatusFit DEF WmCdEject
<1> QED
  BY <1>1, <1>2

LEMMA ClosetrayFit ==
  ASSUME NEW h, Fit(h), NEW moved \in BOOLEAN
  PROVE  Fit(WmCdClosetray(h, moved)) /\ Noticed(WmCdClosetray(h, moved))
<1> DEFINE s == WmCdStatus(h)
           c == GenClosetray(s, moved)
           r == OpenDevice(CloseDevice(c.drive))
<1>1. Fit(s) /\ Noticed(s)
  BY StatusFit
<1>2. /\ s.cur_cdmode \in {"UNKNOWN", "NO_DISC"} => WmCdClosetray(h, moved) = s
      /\ s.cur_cdmode \notin {"UNKNOWN", "NO_DISC"} /\ ~c.failed
           => WmCdClosetray(h, moved) = WmCdStatus(c.drive)
      /\ s.cur_cdmode \notin {"UNKNOWN", "NO_DISC"} /\ c.failed
           => WmCdClosetray(h, moved) =
                IF GenOpen(CloseDevice(c.drive)) = 0 THEN WmCdStatus(r) ELSE r
  BY DEF WmCdClosetray
<1> HIDE DEF s
<1>3. s \in Handle /\ Fit(MoveTray(s, "closed")) /\ Opened(s, s)
  BY <1>1, MovedFit, OpenClose DEF Fit
<1>4. Opened(s, OpenDevice(CloseDevice(s)))
  BY <1>3, OpenClose
<1>5. Fit(OpenDevice(CloseDevice(s)))
  BY <1>1, <1>4, OpenedFit
<1>6. \A g, failed : Result(g, failed).drive = g /\ ~Result(g, FALSE).failed
  BY DEF Result
<1>7. \/ c = Result(s, FALSE) \/ c = Result(s, TRUE) \/ c = Result(MoveTray(s, "closed"), FALSE)
      \/ \E failed : c = Result(OpenDevice(CloseDevice(s)), failed)
  BY DEF GenClosetray, LinuxClosetray, FreebsdClosetray
<1> HIDE DEF c
<1>8. Fit(c.drive) /\ (c.failed => Opened(s, c.drive))
  <2>1. CASE c = Result(s, FALSE) \/ c = Result(s, TRUE)
    <3>1. c.drive = s
      BY <1>6, <2>1
    <3> QED
      BY <1>1, <1>3, <3>1
  <2>2. CASE c = Result(MoveTray(s, "closed"), FALSE)
    BY <1>3, <1>6, <2>2
  <2>3. CASE \E failed : c = Result(OpenDevice(CloseDevice(s)), failed)
    <3>1. c.drive = OpenDevice(CloseDevice(s))
      BY <1>6, <2>3
    <3> QED
      BY <1>4, <1>5, <3>1
  <2> QED
    BY <1>7, <2>1, <2>2, <2>3
<1>9. Fit(WmCdStatus(c.drive)) /\ Noticed(WmCdStatus(c.drive))
  BY <1>8, StatusFit
<1>10. Noticed(c.drive) \/ ~c.failed
  BY <1>1, <1>8, OpenedFit
<1>11. Opened(c.drive, r)
  BY <1>8, OpenClose DEF Fit
<1>12. Fit(r) /\ (c.failed => Noticed(r))
  BY <1>8, <1>10, <1>11, OpenedFit
<1> HIDE DEF r
<1>13. Fit(WmCdStatus(r)) /\ Noticed(WmCdStatus(r))
  BY <1>12, StatusFit
<1> QED
  BY <1>1, <1>2, <1>9, <1>12, <1>13

(***************************************************************************)
(* The specification.                                                      *)
(***************************************************************************)

\* wm_cd_init leaves a fit handle that has been looked at.
LEMMA InitHolds == Init => IInv
<1> SUFFICES ASSUME Init PROVE IInv
  OBVIOUS
<1>1. PICK system \in Systems, d \in Discs \cup {NoDisc} : drive = WmCdInit(NewHandle(system, d))
  BY DEF Init
<1> DEFINE n == NewHandle(system, d)
<1>2. n \in Handle
  BY <1>1, DeviceAssumption DEF NewHandle, Handle, System, Audio, Mode
<1>3. Fit(n)
  BY <1>2 DEF NewHandle, Fit, Drive, Modes, TocKnown, DiscReady, Fails
<1> HIDE DEF n
<1>4. Opened(n, OpenDevice(n))
  BY <1>2, OpenClose
<1>5. Fit(OpenDevice(n))
  BY <1>3, <1>4, OpenedFit
<1>6. Fit(drive) /\ Noticed(drive)
  BY <1>1, <1>5, StatusFit DEF WmCdInit, n
<1> QED
  BY <1>6 DEF IInv, Init

\* What the drive does by itself, or a person with it.
LEMMA HardwareKeeps == IInv /\ Hardware => IInv'
<1> SUFFICES ASSUME IInv, Hardware PROVE IInv'
  OBVIOUS
<1>1. Fit(drive) /\ Noticed(drive) /\ drive \in Handle /\ Drive(drive) /\ seen' = FALSE
  BY DEF IInv, Hardware, Fit
<1>2. ASSUME Tray PROVE Fit(drive')
  <2>1. CASE drive' = MoveTray(drive, "open") \/ drive' = MoveTray(drive, "closed")
    BY <1>1, <2>1, MovedFit
  <2>2. CASE drive.tray = "open"
             /\ \E d \in (Discs \cup {NoDisc}) \ {drive.disc} : drive' = [drive EXCEPT !.disc = d]
    <3>1. PICK d \in Discs \cup {NoDisc} : drive' = [drive EXCEPT !.disc = d]
      BY <2>2
    <3>2. /\ drive' \in Handle /\ drive'.os = drive.os /\ drive'.ready = drive.ready
          /\ drive'.tray = drive.tray /\ drive'.audio = drive.audio /\ drive'.motor = drive.motor
          /\ drive'.oldmode = drive.oldmode /\ drive'.cur_cdmode = drive.cur_cdmode
      BY <1>1, <3>1 DEF Handle
    <3>3. ~drive.ready /\ (drive.os \notin Fails => ~DiscReady(drive.oldmode))
      BY <1>1, <2>2 DEF Drive, Noticed
    <3> QED
      BY <1>1, <3>2, <3>3 DEF Fit, Drive, Modes, TocKnown
  <2> QED
    BY <1>2, <2>1, <2>2 DEF Tray
<1>3. ASSUME SpinUp PROVE Fit(drive')
  <2>1. /\ drive' \in Handle /\ drive'.os = drive.os /\ drive'.ready = TRUE /\ drive'.motor = TRUE
        /\ drive'.tray = drive.tray /\ drive'.audio = drive.audio /\ drive'.disc = drive.disc
        /\ drive'.oldmode = drive.oldmode /\ drive'.cur_cdmode = drive.cur_cdmode
        /\ drive'.toc = drive.toc
    BY <1>1, <1>3 DEF Handle, SpinUp
  <2> QED
    BY <1>1, <1>3, <2>1 DEF SpinUp, Fit, Drive, Modes, TocKnown
<1>4. ASSUME PlayEnds PROVE Fit(drive')
  <2>1. PICK audio \in {"completed", "error"} :
          /\ drive.os = "osf1" => audio # "error"
          /\ drive' = [drive EXCEPT !.audio = audio]
    BY <1>4 DEF PlayEnds
  <2>2. /\ drive' \in Handle /\ drive'.os = drive.os /\ drive'.ready = drive.ready
        /\ drive'.tray = drive.tray /\ drive'.audio = audio /\ drive'.disc = drive.disc
        /\ drive'.oldmode = drive.oldmode /\ drive'.cur_cdmode = drive.cur_cdmode
        /\ drive'.toc = drive.toc /\ drive'.motor = drive.motor
    BY <1>1, <2>1 DEF Handle, Audio
  <2> QED
    BY <1>1, <1>4, <2>1, <2>2 DEF PlayEnds, Fit, Drive, Modes, TocKnown
<1>5. ASSUME Mount \/ Node PROVE Fit(drive')
  <2>1. /\ drive' \in Handle /\ drive'.os = drive.os /\ drive'.ready = drive.ready
        /\ drive'.tray = drive.tray /\ drive'.audio = drive.audio /\ drive'.disc = drive.disc
        /\ drive'.oldmode = drive.oldmode /\ drive'.cur_cdmode = drive.cur_cdmode
        /\ drive'.toc = drive.toc /\ drive'.motor = drive.motor
    BY <1>1, <1>5 DEF Handle, Mount, Node
  <2> QED
    BY <1>1, <2>1 DEF Fit, Drive, Modes, TocKnown
<1>6. Fit(drive')
  BY <1>2, <1>3, <1>4, <1>5 DEF Hardware
<1> QED
  BY <1>1, <1>6 DEF IInv

\* A step of the specification.
LEMMA StepHolds == IInv /\ [Next]_vars => IInv'
<1> SUFFICES ASSUME IInv, [Next]_vars PROVE IInv'
  OBVIOUS
<1>1. Fit(drive) /\ seen \in BOOLEAN /\ (seen => Noticed(drive))
  BY DEF IInv
<1>2. CASE Poll
  BY <1>1, <1>2, StatusFit DEF Poll, IInv
<1>3. CASE Play
  BY <1>1, <1>3, PlayFit DEF Play, IInv
<1>4. CASE Pause
  BY <1>1, <1>4, PauseFit DEF Pause, IInv
<1>5. CASE Stop
  BY <1>1, <1>5, StopFit DEF Stop, IInv
<1>6. CASE Eject
  <2>1. Fit(drive') /\ (Noticed(drive) \/ ~GenEject(drive).failed => Noticed(drive'))
    BY <1>1, <1>6, EjectFit DEF Eject
  <2> QED
    BY <1>1, <1>6, <2>1 DEF Eject, IInv
<1>7. CASE Closetray
  BY <1>1, <1>7, ClosetrayFit DEF Closetray, IInv
<1>8. CASE Hardware
  BY <1>8, HardwareKeeps
<1>9. CASE UNCHANGED vars
  BY <1>9 DEF vars, IInv
<1> QED
  BY <1>2, <1>3, <1>4, <1>5, <1>6, <1>7, <1>8, <1>9 DEF Next, Call

\* The handle is what its calls and the drive make of it: the modes say what
\* the drive does or did, and the table of contents is of the disc in it.
THEOREM DeviceInvariant == Spec => []IInv
<1>1. Init => IInv
  BY InitHolds
<1>2. IInv /\ [Next]_vars => IInv'
  BY StepHolds
<1> QED
  BY <1>1, <1>2, PTL DEF Spec

\* Whatever closed the device or left it open (a refused eject on FreeBSD, a
\* change of discs on OSF/1), a drive that has been looked at has the table of
\* contents of its own disc (cd_status of wm_cd_status in cdrom.c).
THEOREM DeviceTocOfThisDisc == Spec => []TocOfThisDisc
<1>1. IInv => TocOfThisDisc
  BY DEF IInv, Fit, TocKnown, TocOfThisDisc, Fails
<1> QED
  BY <1>1, DeviceInvariant, PTL

\* A drive that was looked at while it held no disc shows none, on the
\* platforms that take one that does not answer for an ejected disc.
THEOREM DeviceNoDiscShown == Spec => []NoDiscShown
<1>1. IInv => NoDiscShown
  BY DEF IInv, Noticed, NoDiscShown, Takes
<1> QED
  BY <1>1, DeviceInvariant, PTL

\* A drive that a call reaches does what it is told by wm_cd_play, wm_cd_stop
\* and wm_cd_pause, none of which looks at what its ioctl returns.
THEOREM DeviceOrdersObeyed == Spec => OrdersObeyed
<1> DEFINE Obeyed == Reached(drive) =>
       /\ Play  => drive'.audio = "play" /\ drive'.cur_cdmode = "PLAYING"
       /\ Stop  => drive'.audio # "play" /\ drive'.cur_cdmode # "PLAYING"
       /\ Pause /\ drive.audio = "play" => drive'.audio = "paused"
       /\ Pause /\ drive.audio = "paused" /\ drive.cur_cdmode \in {"PLAYING", "PAUSED"}
            => drive'.audio = "play"
<1>1. IInv => Obeyed
  <2> SUFFICES ASSUME Fit(drive) PROVE Obeyed
    BY DEF IInv
  <2>1. Reached(drive) /\ Play => drive'.audio = "play" /\ drive'.cur_cdmode = "PLAYING"
    BY PlayFit DEF Play
  <2>2. Reached(drive) /\ Stop => drive'.audio # "play" /\ drive'.cur_cdmode # "PLAYING"
    BY StopFit DEF Stop
  <2>3. Reached(drive) /\ Pause =>
          /\ drive.audio = "play" => drive'.audio = "paused"
          /\ drive.audio = "paused" /\ drive.cur_cdmode \in {"PLAYING", "PAUSED"}
               => drive'.audio = "play"
    BY PauseFit DEF Pause
  <2> QED
    BY <2>1, <2>2, <2>3
<1>2. IInv /\ [Next]_vars => [Obeyed]_vars
  BY <1>1
<1> QED
  BY <1>2, DeviceInvariant, PTL DEF Spec, OrdersObeyed

-----------------------------------------------------------------------------

(***************************************************************************)
(* What the platforms read of a disc: Toc's TocSpec.                       *)
(***************************************************************************)

\* The least-number principle, for a set.
LEMMA LeastNumber ==
  ASSUME NEW S, S \subseteq Nat, S # {}
  PROVE  \E x \in S : \A y \in S : x <= y
<1>1. PICK x \in S : \A y \in S : <<y, x>> \notin OpToRel(<, Nat)
  BY WFMin, NatLessThanWellFounded, Zenon
<1>2. \A y \in S : ~(y < x)
  BY <1>1, Zenon DEF OpToRel
<1> QED
  BY <1>2

LEMMA GreatestNumber ==
  ASSUME NEW n \in Nat, NEW S, S \subseteq 1 .. n, S # {}
  PROVE  \E x \in S : \A y \in S : y <= x
<1> DEFINE T == {n - x : x \in S}
<1>1. T \subseteq Nat /\ T # {}
  <2>1. \A x \in S : n - x \in Nat
    OBVIOUS
  <2> QED  BY <2>1
<1>2. PICK z \in T : \A y \in T : z <= y
  <2> HIDE DEF T
  <2> QED  BY <1>1, LeastNumber
<1>3. PICK x \in S : z = n - x
  BY <1>2
<1>4. ASSUME NEW y \in S PROVE y <= x
  <2>1. n - y \in T
    OBVIOUS
  <2>2. n - x <= n - y
    BY <1>2, <1>3, <2>1
  <2> QED  BY <2>2
<1> QED  BY <1>4

\* A frame's minutes, seconds and frames are that frame.
LEMMA FramesOfMsf == ASSUME NEW n \in Nat PROVE Frames(Msf(n)) = n
BY DEF Frames, Msf

LEMMA OnlyIs == ASSUME NEW entries, entries # {} PROVE Only(entries) \in entries
BY DEF Only

\* A disc: its tracks and its lead-out.
LEMMA DiscIs ==
  ASSUME NEW d \in TocDiscs
  PROVE  /\ NumTracks(d) \in Nat \ {0} /\ d.first \in Nat \ {0}
         /\ Len(d.start) = NumTracks(d) + 1
         /\ d.start \in [1 .. NumTracks(d) + 1 -> Nat]
         /\ d.data \subseteq 1 .. NumTracks(d)
<1>1. d.start \in Seq(Nat) /\ Len(d.start) > 1 /\ d.first \in Nat \ {0}
      /\ d.data \subseteq 1 .. Len(d.start) - 1
  BY TocAssumption
<1>2. Len(d.start) \in Nat /\ d.start \in [1 .. Len(d.start) -> Nat]
  BY <1>1
<1> DEFINE n == NumTracks(d)
<1>3. n = Len(d.start) - 1
  BY DEF NumTracks
<1> HIDE DEF n
<1>4. n \in Nat \ {0} /\ Len(d.start) = n + 1
  <2> DEFINE m == Len(d.start)
  <2>1. m \in Nat /\ m > 1 /\ n = m - 1
    BY <1>1, <1>2, <1>3
  <2> HIDE DEF m
  <2>2. n \in Nat \ {0} /\ m = n + 1
    BY <2>1
  <2> QED  BY <2>2 DEF m
<1>5. n + 1 = Len(d.start) /\ n = Len(d.start) - 1
  BY <1>1, <1>2, <1>3
<1>6. d.start \in [1 .. n + 1 -> Nat] /\ d.data \subseteq 1 .. n
  BY <1>1, <1>2, <1>5
<1> QED  BY <1>1, <1>4, <1>6 DEF n

\* Its frames go up, also from one track to a later one.
LEMMA StartsUp ==
  ASSUME NEW d \in TocDiscs,
         NEW i \in 1 .. NumTracks(d) + 1, NEW j \in 1 .. NumTracks(d) + 1, i < j
  PROVE  d.start[i] < d.start[j]
<1> DEFINE n == NumTracks(d)
           f == d.start
           S == {k \in 1 .. n + 1 : i < k /\ f[k] <= f[i]}
<1>1. n \in Nat \ {0} /\ Len(f) = n + 1 /\ \A k \in 1 .. n + 1 : f[k] \in Nat
  BY DiscIs
<1>2. \A k \in 1 .. n : f[k] < f[k + 1]
  BY <1>1, TocAssumption DEF Increasing
<1>3. i \in 1 .. n + 1 /\ j \in 1 .. n + 1
  OBVIOUS
<1> HIDE DEF n, f
<1>4. SUFFICES ASSUME S # {} PROVE FALSE
  <2>1. j \notin S
    BY <1>4
  <2>2. f[i] < f[j]
    BY <1>1, <1>3, <2>1
  <2> QED  BY <2>2 DEF f
<1>5. PICK k \in S : \A l \in S : k <= l
  <2>1. S \subseteq Nat
    BY <1>1
  <2> HIDE DEF S
  <2> QED  BY <1>4, <2>1, LeastNumber
<1>6. k \in 1 .. n + 1 /\ i < k /\ f[k] <= f[i]
  BY <1>5
<1> DEFINE b == k - 1
<1>7. b \in 1 .. n + 1 /\ b \in 1 .. n /\ b + 1 = k /\ i <= b
  BY <1>1, <1>3, <1>6
<1>8. b \notin S
  BY <1>1, <1>5, <1>6
<1>9. f[b] < f[k]
  BY <1>2, <1>7
<1> HIDE DEF b
<1>10. b = i \/ f[i] < f[b]
  BY <1>1, <1>3, <1>7, <1>8
<1> QED  BY <1>1, <1>3, <1>6, <1>7, <1>9, <1>10

\* The entry of a track that a platform can read, or the lead-out, is a frame
\* of the disc, or 0 where an array has been read past its end.
LEMMA EntriesNat ==
  ASSUME NEW system \in Platforms, NEW d \in TocDiscs, NEW t \in Nat \ {0},
         NEW e \in Trackinfo(system, d, t) \cup Cdlen(system, d)
  PROVE  e.start = 0 \/ \E i \in 1 .. NumTracks(d) + 1 : e.start = d.start[i]
<1> DEFINE n == NumTracks(d)
<1>1. /\ n \in Nat \ {0} /\ Len(d.start) = n + 1 /\ \A k \in 1 .. n + 1 : d.start[k] \in Nat
      /\ DOMAIN d.start = 1 .. n + 1
  BY DiscIs
<1>2. ASSUME NEW i \in 1 .. n + 1
      PROVE  /\ Entry(d, i).start = d.start[i]
             /\ [Entry(d, i) EXCEPT !.data = 0].start = d.start[i]
  BY <1>1, <1>2, FramesOfMsf DEF Entry
<1>3. ASSUME NEW x \in AskTrackinfo(d, t)
      PROVE  \E i \in 1 .. n + 1 : x.start = d.start[i] /\ [x EXCEPT !.data = 0].start = d.start[i]
  <2>1. PICK i \in 1 .. n : x = Entry(d, i)
    BY DEF AskTrackinfo
  <2> HIDE DEF n
  <2> QED  BY <1>1, <1>2, <2>1
<1>4. ASSUME NEW u \in Nat, NEW x \in Osf1Trackinfo(d, u)
      PROVE  x.start = 0 \/ \E i \in 1 .. n + 1 : x.start = d.start[i]
  <2>1. CASE u \in DOMAIN d.start
    <3>1. x = Entry(d, u)
      BY <2>1 DEF Osf1Trackinfo
    <3> HIDE DEF n
    <3> QED  BY <1>1, <1>2, <2>1, <3>1
  <2>2. CASE u \notin DOMAIN d.start
    BY <2>2 DEF Osf1Trackinfo, NoEntry
  <2> QED  BY <2>1, <2>2
<1>5. ASSUME NEW x \in LeadOut(d) PROVE \E i \in 1 .. n + 1 : x.start = d.start[i]
  <2>1. x = Entry(d, n + 1)
    BY <1>1 DEF LeadOut
  <2>2. n + 1 \in 1 .. n + 1
    BY <1>1
  <2> HIDE DEF n
  <2> QED  BY <1>2, <2>1, <2>2
<1>6. LastTrackCount(d) + 1 \in Nat
  BY <1>1, DiscIs DEF LastTrackCount
<1>7. system \in {"linux", "freebsd", "openbsd", "osf1", "ultrix", "aix", "irix"}
  BY TocAssumption
<1>8. Cdlen(system, d) \in {LeadOut(d), Osf1Trackinfo(d, LastTrackCount(d) + 1)}
  BY <1>7 DEF Cdlen, Osf1Cdlen, UltrixCdlen, UltrixTrackinfo
<1>9. Trackinfo(system, d, t) \in
        {AskTrackinfo(d, t), {[x EXCEPT !.data = 0] : x \in AskTrackinfo(d, t)},
         Osf1Trackinfo(d, t)}
  BY <1>7 DEF Trackinfo, LinuxTrackinfo, FreebsdTrackinfo, OpenbsdTrackinfo,
              AixTrackinfo, IrixTrackinfo, UltrixTrackinfo
<1> HIDE DEF n
<1>10. CASE e \in Cdlen(system, d)
  BY <1>4, <1>5, <1>6, <1>8, <1>10 DEF n
<1>11. CASE e \in Trackinfo(system, d, t)
  <2>1. CASE e \in AskTrackinfo(d, t)
    BY <1>3, <2>1 DEF n
  <2>2. CASE e \in {[x EXCEPT !.data = 0] : x \in AskTrackinfo(d, t)}
    BY <1>3, <2>2 DEF n
  <2>3. CASE e \in Osf1Trackinfo(d, t)
    BY <1>4, <2>3 DEF n
  <2> QED  BY <1>9, <1>11, <2>1, <2>2, <2>3
<1> QED  BY <1>10, <1>11

\* On a disc whose first track is number 1, all platforms find a track's own
\* entry, and the lead-out as the entry after the last.
LEMMA EntriesRight ==
  ASSUME NEW system \in Platforms, NEW d \in TocDiscs, d.first = 1
  PROVE  LET n == NumTracks(d) IN
         /\ TrackCount(system, d) = n
         /\ \A t \in 1 .. n : \E e :
              /\ Trackinfo(system, d, t) = {e} /\ e.start = d.start[t]
              /\ e.data = IF t \in d.data /\ system \notin {"aix", "irix"} THEN 1 ELSE 0
         /\ \E e : Cdlen(system, d) = {e} /\ e.start = d.start[n + 1]
<1> DEFINE n == NumTracks(d)
<1>1. /\ n \in Nat \ {0} /\ Len(d.start) = n + 1 /\ \A k \in 1 .. n + 1 : d.start[k] \in Nat
      /\ DOMAIN d.start = 1 .. n + 1
  BY DiscIs
<1>2. system \in {"linux", "freebsd", "openbsd", "osf1", "ultrix", "aix", "irix"}
  BY TocAssumption
<1>3. LastTrackCount(d) = n
  BY <1>1 DEF LastTrackCount
<1> HIDE DEF n
<1>4. TrackCount(system, d) = n
  <2>1. TrackCount(system, d) \in {LastTrackCount(d), LastTrackCount(d) - d.first + 1}
    BY <1>2 DEF TrackCount, FreebsdTrackcount, OpenbsdTrackcount,
                Osf1Trackcount, UltrixTrackcount, AixTrackcount, IrixTrackcount
  <2> QED  BY <1>1, <1>3, <2>1
<1>5. ASSUME NEW i \in 1 .. n + 1
      PROVE  LET e == Entry(d, i) IN
             /\ e.start = d.start[i] /\ e.data = IF i \in d.data THEN 1 ELSE 0
             /\ [e EXCEPT !.data = 0].start = d.start[i] /\ [e EXCEPT !.data = 0].data = 0
  BY <1>1, <1>5, FramesOfMsf DEF Entry
<1>6. ASSUME NEW t \in 1 .. n
      PROVE  \E e : /\ Trackinfo(system, d, t) = {e} /\ e.start = d.start[t]
                    /\ e.data = IF t \in d.data /\ system \notin {"aix", "irix"} THEN 1 ELSE 0
  <2>1. AskTrackinfo(d, t) = {Entry(d, t)}
    BY <1>1 DEF AskTrackinfo, n
  <2>2. t \in 1 .. n + 1
    BY <1>1
  <2>3. Osf1Trackinfo(d, t) = {Entry(d, t)}
    BY <1>1, <2>2 DEF Osf1Trackinfo
  <2>4. CASE system \in {"aix", "irix"}
    <3>1. Trackinfo(system, d, t) = {[Entry(d, t) EXCEPT !.data = 0]}
      BY <2>1, <2>4 DEF Trackinfo, AixTrackinfo, IrixTrackinfo
    <3> DEFINE e == [Entry(d, t) EXCEPT !.data = 0]
    <3>2. e.start = d.start[t] /\ e.data = 0
      BY <1>5, <2>2
    <3> HIDE DEF e
    <3>3. Trackinfo(system, d, t) = {e}
      BY <3>1 DEF e
    <3> QED  BY <2>4, <3>2, <3>3
  <2>5. CASE system \notin {"aix", "irix"}
    <3>1. Trackinfo(system, d, t) = {Entry(d, t)}
      BY <1>2, <2>1, <2>3, <2>5 DEF Trackinfo, LinuxTrackinfo, FreebsdTrackinfo,
                                   OpenbsdTrackinfo, UltrixTrackinfo
    <3> QED  BY <1>5, <2>2, <2>5, <3>1
  <2> QED  BY <2>4, <2>5
<1>7. \E e : Cdlen(system, d) = {e} /\ e.start = d.start[n + 1]
  <2>1. n + 1 \in 1 .. n + 1
    BY <1>1
  <2>2. LeadOut(d) = {Entry(d, n + 1)}
    BY <1>1 DEF LeadOut
  <2>3. Osf1Trackinfo(d, n + 1) = {Entry(d, n + 1)}
    BY <1>1, <2>1 DEF Osf1Trackinfo
  <2>4. Cdlen(system, d) = {Entry(d, n + 1)}
    BY <1>2, <1>3, <2>2, <2>3 DEF Cdlen, Osf1Cdlen, UltrixCdlen, UltrixTrackinfo
  <2> QED  BY <1>5, <2>1, <2>4
<1> QED  BY <1>4, <1>6, <1>7 DEF n

\* Only such a disc can be read where a track is asked for by its number.
LEMMA FirstIsOne ==
  ASSUME NEW system \in Platforms, NEW d \in TocDiscs,
         TocReadable(system, d), system \notin {"osf1", "ultrix"}
  PROVE  d.first = 1
<1> DEFINE n == NumTracks(d)
<1>1. n \in Nat \ {0} /\ d.first \in Nat \ {0}
  BY DiscIs
<1>2. system \in {"linux", "freebsd", "openbsd", "aix", "irix"}
  BY TocAssumption
<1>3. TrackCount(system, d) \in {LastTrackCount(d), LastTrackCount(d) - d.first + 1}
  BY <1>2 DEF TrackCount, FreebsdTrackcount, OpenbsdTrackcount,
              AixTrackcount, IrixTrackcount
<1>4. 1 \in 1 .. TrackCount(system, d)
  BY <1>1, <1>3 DEF LastTrackCount
<1>5. Trackinfo(system, d, 1) # {}
  BY <1>4 DEF TocReadable
<1>6. AskTrackinfo(d, 1) # {}
  BY <1>2, <1>5 DEF Trackinfo, LinuxTrackinfo, FreebsdTrackinfo, OpenbsdTrackinfo,
                    AixTrackinfo, IrixTrackinfo
<1>7. 1 - d.first + 1 \in 1 .. n
  BY <1>6 DEF AskTrackinfo
<1> HIDE DEF n
<1> QED  BY <1>1, <1>7

\* read_toc, whatever the platform: there is a track, and all starts are
\* frames of the disc, or 0.
LEMMA TableNat ==
  ASSUME NEW system \in Platforms, NEW d \in TocDiscs, TocReadable(system, d)
  PROVE  LET r == ReadToc(system, d) IN
         /\ r.ntracks \in Nat \ {0}
         /\ \A t \in 1 .. r.ntracks + 1 :
              r.trk[t].start = 0 \/ \E i \in 1 .. NumTracks(d) + 1 : r.trk[t].start = d.start[i]
<1> DEFINE n == TrackCount(system, d)
           Got(i) == Only(IF i <= n THEN Trackinfo(system, d, i) ELSE Cdlen(system, d))
           r == ReadToc(system, d)
<1>1. system \in {"linux", "freebsd", "openbsd", "osf1", "ultrix", "aix", "irix"}
  BY TocAssumption
<1>2. n \in Nat \ {0}
  <2>1. NumTracks(d) \in Nat \ {0} /\ d.first \in Nat \ {0}
    BY DiscIs
  <2>2. n \in {LastTrackCount(d), LastTrackCount(d) - d.first + 1}
    BY <1>1 DEF TrackCount, FreebsdTrackcount, OpenbsdTrackcount,
                Osf1Trackcount, UltrixTrackcount, AixTrackcount, IrixTrackcount
  <2> HIDE DEF n
  <2> QED  BY <2>1, <2>2 DEF LastTrackCount
<1>3. r.ntracks = n /\ \A t \in 1 .. n + 1 : r.trk[t].start = Got(t).start
  BY DEF ReadToc
<1>4. Cdlen(system, d) # {}
  BY <1>1 DEF Cdlen, LeadOut, Osf1Cdlen, UltrixCdlen, UltrixTrackinfo,
              Osf1Trackinfo
<1>5. ASSUME NEW t \in 1 .. n + 1
      PROVE  Got(t) \in Trackinfo(system, d, t) \cup Cdlen(system, d)
  <2>1. CASE t <= n
    <3>1. t \in 1 .. n
      BY <1>2, <2>1
    <3>2. Trackinfo(system, d, t) # {}
      BY <3>1 DEF TocReadable
    <3> QED  BY <2>1, <3>2, OnlyIs
  <2>2. CASE ~(t <= n)
    BY <1>4, <2>2, OnlyIs
  <2> QED  BY <2>1, <2>2
<1> HIDE DEF n, r, Got
<1>6. ASSUME NEW t \in 1 .. n + 1
      PROVE  r.trk[t].start = 0 \/ \E i \in 1 .. NumTracks(d) + 1 : r.trk[t].start = d.start[i]
  <2>1. t \in Nat \ {0}
    BY <1>2
  <2> QED  BY <1>3, <1>5, <1>6, <2>1, EntriesNat
<1> QED  BY <1>2, <1>3, <1>6 DEF r

\* What read_toc makes of a disc whose first track is number 1.
LEMMA TableRight ==
  ASSUME NEW system \in Platforms, NEW d \in TocDiscs, d.first = 1
  PROVE  LET r == ReadToc(system, d)
             n == NumTracks(d)
         IN  /\ r.ntracks = n /\ n \in Nat \ {0}
             /\ \A t \in 1 .. n + 1 : r.trk[t].start = d.start[t]
             /\ \A t \in 1 .. n :
                  /\ r.trk[t].data = IF t \in d.data /\ system \notin {"aix", "irix"} THEN 1 ELSE 0
                  /\ r.trk[t].data = 0 =>
                       r.trk[t].length = FramesToSec(d.start[t + 1]) - FramesToSec(d.start[t])
<1> DEFINE n == NumTracks(d)
           e == [i \in 1 .. n + 1 |->
                   Only(IF i <= n THEN Trackinfo(system, d, i) ELSE Cdlen(system, d))]
           end == FramesToSec(e[n + 1].start)
           r == ReadToc(system, d)
<1>1. TrackCount(system, d) = n /\ n \in Nat \ {0}
  BY EntriesRight, DiscIs
<1>2. r = [ntracks |-> n,
           trk |-> [i \in 1 .. n + 1 |->
                      [start |-> e[i].start, data |-> e[i].data,
                       length |-> IF i <= n THEN TrackLength(e, i) ELSE end]],
           length |-> end]
  BY <1>1 DEF ReadToc
<1>3. ASSUME NEW t \in 1 .. n
      PROVE  /\ e[t].start = d.start[t]
             /\ e[t].data = IF t \in d.data /\ system \notin {"aix", "irix"} THEN 1 ELSE 0
  <2>1. PICK x : /\ Trackinfo(system, d, t) = {x} /\ x.start = d.start[t]
                 /\ x.data = IF t \in d.data /\ system \notin {"aix", "irix"} THEN 1 ELSE 0
    BY EntriesRight
  <2>2. t <= n /\ t \in 1 .. n + 1
    BY <1>1
  <2>3. e[t] = x
    BY <2>1, <2>2, OnlyIs
  <2> QED  BY <2>1, <2>3
<1>4. e[n + 1].start = d.start[n + 1]
  <2>1. PICK x : Cdlen(system, d) = {x} /\ x.start = d.start[n + 1]
    BY EntriesRight
  <2>2. ~(n + 1 <= n) /\ n + 1 \in 1 .. n + 1
    BY <1>1
  <2>3. e[n + 1] = x
    BY <2>1, <2>2, OnlyIs
  <2> QED  BY <2>1, <2>3
<1> HIDE DEF r, e, end, n
<1>5. ASSUME NEW t \in 1 .. n + 1 PROVE e[t].start = d.start[t]
  <2>1. t \in 1 .. n \/ t = n + 1
    BY <1>1
  <2> QED  BY <1>3, <1>4, <2>1
<1>6. r.ntracks = n /\ \A t \in 1 .. n + 1 : r.trk[t].start = e[t].start
  BY <1>2
<1>7. ASSUME NEW t \in 1 .. n
      PROVE  r.trk[t].data = e[t].data /\ r.trk[t].length = TrackLength(e, t)
  <2>1. t <= n /\ t \in 1 .. n + 1
    BY <1>1
  <2> QED  BY <1>2, <2>1
<1>8. ASSUME NEW t \in 1 .. n, e[t].data = 0
      PROVE  TrackLength(e, t) = FramesToSec(d.start[t + 1]) - FramesToSec(d.start[t])
  <2>1. t \in 1 .. n + 1 /\ t + 1 \in 1 .. n + 1
    BY <1>1
  <2> QED  BY <1>5, <1>8, <2>1 DEF TrackLength
<1> QED  BY <1>1, <1>3, <1>5, <1>6, <1>7, <1>8 DEF r, n

(***************************************************************************)
(* The inductive invariant: the table of contents stays that of the disc,  *)
(* and a position that is hidden is as far from the one asked for as the   *)
(* filter has it.                                                          *)
(***************************************************************************)
TableInv ==
  /\ os \in Platforms /\ disc \in TocDiscs
  /\ ready = TocReadable(os, disc)
  /\ ready => thiscd = ReadToc(os, disc)
  /\ mode \in {"stopped", "playing", "paused"}
  /\ mode # "stopped" => ready

SeekInv ==
  /\ head \in Heads \cup {0}
  /\ m_trackPosition \in Nat /\ m_trackExpectedPosition \in Nat /\ m_seek \in Nat
  /\ m_seek # 0 /\ m_trackPosition < m_trackExpectedPosition =>
       m_seek = m_trackExpectedPosition - m_trackPosition

\* The search of wm_cd_status ends on the last track that has begun.
LEMMA CurtrackIs ==
  ASSUME TableInv, ready, NEW frame
  PROVE  LET t == Curtrack(frame) IN
         /\ t \in 1 .. thiscd.ntracks
         /\ t = 1 \/ thiscd.trk[t].start <= frame
         /\ \A u \in 2 .. thiscd.ntracks : thiscd.trk[u].start <= frame => u <= t
<1> DEFINE n == thiscd.ntracks
           begun == {t \in 2 .. n : thiscd.trk[t].start <= frame}
           last == Curtrack(frame)
<1>1. n \in Nat \ {0}
  BY TableNat DEF TableInv
<1>2. begun \cup {1} \subseteq 1 .. n /\ begun \cup {1} # {}
  BY <1>1
<1>3. \E t \in begun \cup {1} : \A u \in begun : u <= t
  <2> HIDE DEF begun, n
  <2>1. PICK t \in begun \cup {1} : \A u \in begun \cup {1} : u <= t
    BY <1>1, <1>2, GreatestNumber
  <2> QED  BY <2>1
<1>4. last = CHOOSE t \in begun \cup {1} : \A u \in begun : u <= t
  BY DEF Curtrack
<1> HIDE DEF begun, last
<1>5. last \in begun \cup {1} /\ \A u \in begun : u <= last
  BY <1>3, <1>4
<1> HIDE DEF n
<1>6. last \in 1 .. n
  BY <1>2, <1>5
<1> QED  BY <1>5, <1>6 DEF begun, n, last

\* A position in a track is a number of seconds.
LEMMA PositionNat ==
  ASSUME TableInv, ready, NEW frame \in Nat
  PROVE  CurPosRel(frame) \in Nat
<1> DEFINE t == Curtrack(frame)
           s == thiscd.trk[t].start
<1>1. t \in 1 .. thiscd.ntracks
  BY CurtrackIs
<1>2. s \in Nat
  <2>1. thiscd = ReadToc(os, disc) /\ TocReadable(os, disc)
    BY DEF TableInv
  <2>2. thiscd.ntracks \in Nat \ {0} /\ \A u \in 1 .. thiscd.ntracks + 1 :
          thiscd.trk[u].start = 0
            \/ \E i \in 1 .. NumTracks(disc) + 1 : thiscd.trk[u].start = disc.start[i]
    BY <2>1, TableNat DEF TableInv
  <2>3. \A i \in 1 .. NumTracks(disc) + 1 : disc.start[i] \in Nat
    BY DiscIs DEF TableInv
  <2>4. t \in 1 .. thiscd.ntracks + 1
    BY <1>1, <2>2
  <2> HIDE DEF t
  <2> QED  BY <2>2, <2>3, <2>4
<1>3. CurPosRel(frame) = FramesToSec(AbsValue(frame - s))
  BY DEF CurPosRel
<1> HIDE DEF s
<1> QED  BY <1>2, <1>3 DEF FramesToSec, AbsValue

LEMMA TableInit == ASSUME TocInit PROVE TableInv /\ SeekInv
BY DEF TocInit, TableInv, SeekInv

LEMMA TableStep ==
  ASSUME TableInv, [TocNext]_tocVars PROVE TableInv'
BY DEF TocNext, PlayTrack, PlayPosition, Seeks, PauseSlot, PollPlaying,
       PollStopped, Turn, tocVars, table, motion, shown, seek, TableInv

\* What a poll of a playing drive finds.
LEMMA PollSeek ==
  ASSUME TableInv, SeekInv, PollPlaying
  PROVE  /\ m_trackPosition' \in Nat /\ m_trackExpectedPosition' = m_trackExpectedPosition
         /\ m_seek = 0 => m_seek' = 0
         /\ m_seek # 0 /\ m_trackPosition' <= m_trackExpectedPosition =>
              m_seek' = IF m_trackExpectedPosition - m_trackPosition' > m_seek THEN 0
                        ELSE m_trackExpectedPosition - m_trackPosition'
         /\ m_seek # 0 /\ m_trackPosition' > m_trackExpectedPosition =>
              m_seek' = IF Farthest > m_seek THEN 0 ELSE Farthest
<1>1. ready /\ head \in Nat
  <2>1. mode = "playing"
    BY DEF PollPlaying
  <2>2. ready
    BY <2>1 DEF TableInv
  <2>3. head \in Nat
    BY TocAssumption DEF SeekInv
  <2> QED  BY <2>2, <2>3
<1>2. m_trackPosition' = CurPosRel(head) /\ m_trackExpectedPosition' = m_trackExpectedPosition
  BY DEF PollPlaying
<1>3. m_trackPosition' \in Nat
  BY <1>1, <1>2, PositionNat
<1>4. m_seek' = IF m_seek = 0 THEN 0
               ELSE Filter(Distance(m_trackExpectedPosition, m_trackPosition'))
  BY DEF PollPlaying
<1>5. m_seek \in Nat /\ m_trackExpectedPosition \in Nat
  BY DEF SeekInv
<1> QED  BY <1>2, <1>3, <1>4, <1>5 DEF Filter, Distance

LEMMA SeekStep ==
  ASSUME TableInv, SeekInv, [TocNext]_tocVars PROVE SeekInv'
<1>1. ASSUME NEW position \in Nat, Seeks(position) PROVE SeekInv'
  <2>1. /\ m_trackExpectedPosition' = position
        /\ m_seek' = AbsValue(position - m_trackPosition)
        /\ head' \in Heads /\ m_trackPosition' = m_trackPosition
    BY <1>1 DEF Seeks, shown
  <2> QED  BY <2>1 DEF SeekInv, AbsValue
<1>2. CASE PlayTrack
  BY <1>1, <1>2 DEF PlayTrack
<1>3. CASE PlayPosition
  BY <1>1, <1>3, TocAssumption DEF PlayPosition
<1>4. CASE PauseSlot
  BY <1>4 DEF PauseSlot, shown, seek, SeekInv
<1>5. CASE PollPlaying
  <2>1. head' = head
    BY <1>5 DEF PollPlaying, motion
  <2>2. m_seek \in Nat /\ m_trackExpectedPosition \in Nat /\ head \in Heads \cup {0}
    BY DEF SeekInv
  <2>3. Farthest \in Nat
    BY DEF Farthest
  <2> QED  BY <1>5, <2>1, <2>2, <2>3, PollSeek DEF SeekInv
<1>6. CASE PollStopped
  BY <1>6 DEF PollStopped, motion, SeekInv
<1>7. CASE Turn
  BY <1>7 DEF Turn, shown, seek, SeekInv
<1>8. CASE UNCHANGED tocVars
  BY <1>8 DEF tocVars, shown, seek, motion, SeekInv
<1> QED
  BY <1>2, <1>3, <1>4, <1>5, <1>6, <1>7, <1>8 DEF TocNext

\* The platforms agree on each disc's table of contents that can be read:
\* each track has its own start and kind and the last entry is the lead-out,
\* as gen_get_trackinfo and gen_get_cdlen find them in four ways.
THEOREM TableOfContentsRight == TocSpec => []TocRight
<1>1. TableInv => TocRight
  <2> SUFFICES ASSUME TableInv, ready, os \in {"osf1", "ultrix"} => disc.first = 1
               PROVE  /\ Signature = disc.start
                      /\ os \notin {"aix", "irix"} =>
                           \A i \in 1 .. NumTracks(disc) :
                             ShownAudio(i) <=> i \notin disc.data
    BY DEF TocRight
  <2> DEFINE n == NumTracks(disc)
  <2>1. disc.first = 1
    BY FirstIsOne DEF TableInv
  <2>2. /\ thiscd.ntracks = n /\ n \in Nat \ {0}
        /\ \A t \in 1 .. n + 1 : thiscd.trk[t].start = disc.start[t]
        /\ \A t \in 1 .. n :
             thiscd.trk[t].data = IF t \in disc.data /\ os \notin {"aix", "irix"} THEN 1 ELSE 0
    BY <2>1, TableRight DEF TableInv
  <2>3. disc.start \in [1 .. n + 1 -> Nat]
    BY DiscIs DEF TableInv
  <2> HIDE DEF n
  <2>4. Signature = disc.start
    BY <2>2, <2>3 DEF Signature, GetTrackStart
  <2>5. ASSUME NEW i \in 1 .. n, os \notin {"aix", "irix"}
        PROVE  ShownAudio(i) <=> i \notin disc.data
    BY <2>2, <2>5 DEF ShownAudio, GetTrackData
  <2> QED  BY <2>4, <2>5 DEF n
<1>2. TocInit => TableInv
  BY TableInit
<1>3. TableInv /\ [TocNext]_tocVars => TableInv'
  BY TableStep
<1> QED  BY <1>1, <1>2, <1>3, PTL DEF TocSpec

\* Rounding down to seconds: a position in a track, and what is left of the
\* length of the track or of the position on the disc.
LEMMA SecondsAgree ==
  ASSUME NEW a \in Nat, NEW s \in Nat, NEW h \in Nat, NEW e \in Nat, a <= s, s <= h, h < e
  PROVE  LET Sec(x) == FramesToSec(x) IN
         /\ Sec(h - s) <= Sec(e) - Sec(s)
         /\ Sec(h) - Sec(a) - ((Sec(s) - Sec(a)) + Sec(h - s)) \in {0, 1}
BY DEF FramesToSec

\* The track a frame of an audio disc lies in, by its frames.
LEMMA FrameInTrack ==
  ASSUME TableInv, ready, disc.first = 1, NEW h \in Nat,
         h >= disc.start[1], h < disc.start[Len(disc.start)]
  PROVE  LET t == Curtrack(h) IN
         /\ t \in 1 .. thiscd.ntracks /\ t # 0
         /\ disc.start[t] \in Nat /\ disc.start[t + 1] \in Nat /\ disc.start[1] \in Nat
         /\ disc.start[1] <= disc.start[t] /\ disc.start[t] <= h /\ h < disc.start[t + 1]
         /\ Signature[1] = disc.start[1] /\ Signature[t] = disc.start[t]
         /\ thiscd.trk[t].start = disc.start[t]
         /\ thiscd.trk[t].data = 0 =>
              thiscd.trk[t].length = FramesToSec(disc.start[t + 1]) - FramesToSec(disc.start[t])
<1> DEFINE t == Curtrack(h)
           n == NumTracks(disc)
           f == disc.start
<1>1. /\ thiscd.ntracks = n /\ n \in Nat \ {0}
      /\ \A i \in 1 .. n + 1 : thiscd.trk[i].start = f[i]
      /\ \A i \in 1 .. n : thiscd.trk[i].data = 0 =>
           thiscd.trk[i].length = FramesToSec(f[i + 1]) - FramesToSec(f[i])
  BY TableRight DEF TableInv
<1>2. Len(f) = n + 1 /\ \A i \in 1 .. n + 1 : f[i] \in Nat
  BY DiscIs DEF TableInv
<1>3. /\ t \in 1 .. thiscd.ntracks
      /\ t = 1 \/ thiscd.trk[t].start <= h
      /\ \A u \in 2 .. thiscd.ntracks : thiscd.trk[u].start <= h => u <= t
  BY CurtrackIs
<1>4. ASSUME NEW i \in 1 .. n + 1, 1 < i PROVE f[1] < f[i]
  <2>1. 1 \in 1 .. n + 1 /\ disc \in TocDiscs
    BY <1>1 DEF TableInv
  <2> QED  BY <1>4, <2>1, StartsUp
<1>5. \A i \in 1 .. n + 1 : Signature[i] = f[i]
  BY <1>1 DEF Signature, GetTrackStart
<1>6. h >= f[1] /\ h < f[n + 1]
  BY <1>2
<1> HIDE DEF t, n, f
<1>7. t \in 1 .. n /\ t \in 1 .. n + 1 /\ t + 1 \in 1 .. n + 1 /\ 1 \in 1 .. n + 1 /\ t # 0
  BY <1>1, <1>3
<1>8. f[t] \in Nat /\ f[t + 1] \in Nat /\ f[1] \in Nat
  BY <1>2, <1>7
<1>9. f[t] <= h
  BY <1>1, <1>3, <1>6, <1>7
<1>10. f[1] <= f[t]
  BY <1>4, <1>7, <1>8
<1>11. h < f[t + 1]
  <2>1. CASE t = n
    BY <1>6, <2>1
  <2>2. CASE t # n
    <3>1. t + 1 \in 2 .. n /\ ~(t + 1 <= t)
      BY <1>1, <1>7, <2>2
    <3>2. ~(thiscd.trk[t + 1].start <= h)
      BY <1>1, <1>3, <3>1
    <3>3. thiscd.trk[t + 1].start = f[t + 1]
      BY <1>1, <1>7
    <3> QED  BY <1>8, <3>2, <3>3
  <2> QED  BY <2>1, <2>2
<1> QED
  BY <1>1, <1>3, <1>5, <1>7, <1>8, <1>9, <1>10, <1>11 DEF t, f

\* Wherever the drive is found, the position in a track is not beyond the
\* length of the track, which is computed from other rounded numbers, and that
\* on the disc is the same up to a second (timerExpired, wm_get_cur_pos_rel).
THEOREM TablePositionsAgree == TocSpec => PositionsAgree
<1> DEFINE Agrees ==
      PollPlaying /\ AudioOnly /\ head >= disc.start[1] /\ head < disc.start[Len(disc.start)] =>
       LET before == FramesToSec(Signature[m_track']) - FramesToSec(Signature[1])
       IN  /\ m_trackPosition' <= ShownLength(m_track')
           /\ m_discPosition' - (before + m_trackPosition') \in {0, 1}
<1>1. TableInv /\ SeekInv => Agrees
  <2> SUFFICES ASSUME TableInv, SeekInv, PollPlaying, AudioOnly,
                      head >= disc.start[1], head < disc.start[Len(disc.start)]
               PROVE  LET before == FramesToSec(Signature[m_track'])
                                      - FramesToSec(Signature[1])
                      IN  /\ m_trackPosition' <= ShownLength(m_track')
                          /\ m_discPosition' - (before + m_trackPosition') \in {0, 1}
    OBVIOUS
  <2> DEFINE t == Curtrack(head)
             a == disc.start[1]
             s == disc.start[t]
             e == disc.start[t + 1]
  <2>1. ready
    <3>1. mode = "playing"
      BY DEF PollPlaying
    <3> QED  BY <3>1 DEF TableInv
  <2>2. head \in Nat /\ disc.first = 1
    BY TocAssumption DEF SeekInv, AudioOnly
  <2>3. /\ t \in 1 .. thiscd.ntracks /\ t # 0
        /\ s \in Nat /\ e \in Nat /\ a \in Nat
        /\ a <= s /\ s <= head /\ head < e
        /\ Signature[1] = a /\ Signature[t] = s
        /\ thiscd.trk[t].start = s
        /\ thiscd.trk[t].data = 0 =>
             thiscd.trk[t].length = FramesToSec(e) - FramesToSec(s)
    BY <2>1, <2>2, FrameInTrack
  <2>4. /\ m_track' = t
        /\ m_trackPosition' = FramesToSec(AbsValue(head - thiscd.trk[t].start))
        /\ m_discPosition' = FramesToSec(head) - FramesToSec(Signature[1])
    BY DEF PollPlaying, CurPosRel, CurPosAbs
  <2>5. thiscd.trk[t].data = 0
    BY <2>3 DEF AudioOnly, ShownAudio, GetTrackData
  <2>6. ShownLength(t) = FramesToSec(e) - FramesToSec(s)
    BY <2>3, <2>5 DEF ShownLength, GetTrackLen
  <2> HIDE DEF t, a, s, e
  <2>7. AbsValue(head - s) = head - s
    BY <2>2, <2>3 DEF AbsValue
  <2>8. /\ FramesToSec(head - s) <= FramesToSec(e) - FramesToSec(s)
        /\ FramesToSec(head) - FramesToSec(a)
             - ((FramesToSec(s) - FramesToSec(a)) + FramesToSec(head - s)) \in {0, 1}
    BY <2>2, <2>3, SecondsAgree
  <2> QED  BY <2>3, <2>4, <2>6, <2>7, <2>8
<1>2. TocInit => TableInv /\ SeekInv
  BY TableInit
<1>3. TableInv /\ SeekInv /\ [TocNext]_tocVars => (TableInv /\ SeekInv)'
  BY TableStep, SeekStep
<1>4. TableInv /\ SeekInv /\ [TocNext]_tocVars => [Agrees]_tocVars
  BY <1>1
<1> QED  BY <1>2, <1>3, <1>4, PTL DEF TocSpec, PositionsAgree

\* Discs, and positions that are asked for, are shorter than what a position
\* past the expected one is taken for (2^32 seconds in the code).
InReach ==
  /\ \A p \in Positions : p < Farthest
  /\ \A h \in Heads : h < 75 * Farthest
  /\ \A d \in TocDiscs : \A i \in 1 .. Len(d.start) : d.start[i] < 75 * Farthest

NearInv == m_trackPosition < Farthest /\ m_seek < Farthest

LEMMA PositionNear ==
  ASSUME InReach, TableInv, SeekInv, ready
  PROVE  CurPosRel(head) < Farthest
<1> DEFINE t == Curtrack(head)
           s == thiscd.trk[t].start
<1>1. t \in 1 .. thiscd.ntracks
  BY CurtrackIs
<1>2. Farthest = 1073741824
  BY DEF Farthest
<1>3. s \in Nat /\ s < 75 * Farthest
  <2>1. thiscd = ReadToc(os, disc) /\ TocReadable(os, disc)
    BY DEF TableInv
  <2>2. thiscd.ntracks \in Nat \ {0} /\ \A u \in 1 .. thiscd.ntracks + 1 :
          thiscd.trk[u].start = 0
            \/ \E i \in 1 .. NumTracks(disc) + 1 : thiscd.trk[u].start = disc.start[i]
    BY <2>1, TableNat DEF TableInv
  <2>3. \A i \in 1 .. NumTracks(disc) + 1 :
          disc.start[i] \in Nat /\ disc.start[i] < 75 * Farthest
    BY DiscIs DEF TableInv, InReach
  <2>4. t \in 1 .. thiscd.ntracks + 1
    BY <1>1, <2>2
  <2> HIDE DEF t
  <2> QED  BY <1>2, <2>2, <2>3, <2>4
<1>4. head \in Nat /\ head < 75 * Farthest
  BY <1>2, TocAssumption DEF SeekInv, InReach
<1>5. CurPosRel(head) = FramesToSec(AbsValue(head - s))
  BY DEF CurPosRel
<1> HIDE DEF s
<1> QED  BY <1>2, <1>3, <1>4, <1>5 DEF FramesToSec, AbsValue

LEMMA NearStep ==
  ASSUME InReach, TableInv, SeekInv, NearInv, [TocNext]_tocVars
  PROVE  NearInv'
<1>1. Farthest = 1073741824 /\ Farthest' = Farthest
  BY DEF Farthest
<1>2. ASSUME NEW position \in Nat, position < Farthest, Seeks(position) PROVE NearInv'
  <2>1. m_seek' = AbsValue(position - m_trackPosition) /\ m_trackPosition' = m_trackPosition
    BY <1>2 DEF Seeks, shown
  <2> QED  BY <1>1, <1>2, <2>1 DEF SeekInv, NearInv, AbsValue
<1>3. CASE PlayTrack
  BY <1>1, <1>2, <1>3 DEF PlayTrack
<1>4. CASE PlayPosition
  BY <1>2, <1>4, TocAssumption DEF PlayPosition, InReach
<1>5. CASE PollPlaying
  <2>1. mode = "playing" /\ m_trackPosition' = CurPosRel(head)
    BY <1>5 DEF PollPlaying
  <2>2. m_trackPosition' < Farthest
    BY <2>1, PositionNear DEF TableInv
  <2>3. m_seek \in Nat /\ m_trackExpectedPosition \in Nat
    BY DEF SeekInv
  <2>4. m_seek' < Farthest
    BY <1>1, <1>5, <2>3, PollSeek DEF NearInv
  <2> QED  BY <1>1, <2>2, <2>4 DEF NearInv
<1>6. CASE PollStopped
  BY <1>1, <1>6 DEF PollStopped, NearInv
<1>7. CASE PauseSlot \/ Turn \/ UNCHANGED tocVars
  BY <1>1, <1>7 DEF PauseSlot, Turn, tocVars, shown, seek, NearInv
<1> QED
  BY <1>3, <1>4, <1>5, <1>6, <1>7 DEF TocNext

\* After a seek the position of before is hidden if the drive is still there,
\* and never a position at or past the one asked for, whatever else has been
\* asked for in between (the filter of timerExpired, and its unsigned
\* difference).
THEOREM SeekHidesOldPositions ==
  ASSUME InReach PROVE TocSpec => HidesOldPositions
<1> DEFINE Hides ==
      PollPlaying /\ m_seek # 0 =>
       /\ m_trackPosition' >= m_trackExpectedPosition => m_seek' = 0
       /\ m_trackPosition' = m_trackPosition /\ m_trackPosition < m_trackExpectedPosition
            => m_seek' # 0
           Inv == TableInv /\ SeekInv /\ NearInv
<1>1. Inv => Hides
  <2> SUFFICES ASSUME TableInv, SeekInv, NearInv, PollPlaying, m_seek # 0
               PROVE  /\ m_trackPosition' >= m_trackExpectedPosition => m_seek' = 0
                      /\ m_trackPosition' = m_trackPosition
                           /\ m_trackPosition < m_trackExpectedPosition => m_seek' # 0
    OBVIOUS
  <2>1. m_seek \in Nat /\ m_trackExpectedPosition \in Nat /\ Farthest \in Nat
    BY DEF SeekInv, Farthest
  <2> QED  BY <2>1, PollSeek DEF SeekInv, NearInv
<1>2. TocInit => Inv
  BY TableInit DEF TocInit, NearInv, Farthest
<1>3. Inv /\ [TocNext]_tocVars => Inv'
  BY TableStep, SeekStep, NearStep
<1>4. Inv /\ [TocNext]_tocVars => [Hides]_tocVars
  BY <1>1
<1> QED  BY <1>2, <1>3, <1>4, PTL DEF TocSpec, HidesOldPositions

(***************************************************************************)
(* The binary searches of the volume curves.  They end because what they   *)
(* are left with gets smaller; that is what their results are proved by.   *)
(***************************************************************************)
Size(i) == IF i[1] <= i[2] THEN i[2] - i[1] + 1 ELSE 0

\* A search that goes down from the intervals of L, up from those of H, and ends at
\* the others.
Halves(L, H, end, probe, i) ==
  IF i \in L THEN probe[LowerHalf(i)] ELSE IF i \in H THEN probe[UpperHalf(i)] ELSE end[i]
Halving(L, H, end, probe) == probe = [i \in Intervals |-> Halves(L, H, end, probe, i)]

Searches(L, H, end, f, k) ==
  /\ L \subseteq Intervals /\ H \subseteq Intervals /\ Halving(L, H, end, f)
  /\ \A i \in L : i[1] < Middle(i)
  /\ \A i \in H : Middle(i) < i[2]
  /\ \A i \in Intervals : end[i] \in Middle(i) .. Middle(i) + k

LEMMA MiddleBetween ==
  ASSUME NEW lo \in 0 .. 100, NEW hi \in 0 .. 100, NEW n, n = (lo + hi) \div 2
  PROVE  /\ n \in 0 .. 100 /\ (lo <= hi => n \in lo .. hi)
         /\ (lo < n => lo <= hi) /\ (n < hi => lo <= hi)
OBVIOUS

\* Both halves of an interval are smaller ones.
LEMMA HalvesSmaller ==
  ASSUME NEW i \in Intervals
  PROVE  /\ i[1] \in 0 .. 100 /\ i[2] \in 0 .. 100 /\ Middle(i) \in 0 .. 100
         /\ Size(i) \in 0 .. 101
         /\ i[1] <= i[2] => Middle(i) \in i[1] .. i[2]
         /\ i[1] < Middle(i) =>
              /\ LowerHalf(i) \in Intervals /\ LowerHalf(i)[1] = i[1]
              /\ LowerHalf(i)[2] = Middle(i) - 1 /\ i[1] <= i[2] /\ Size(LowerHalf(i)) < Size(i)
         /\ Middle(i) < i[2] =>
              /\ UpperHalf(i) \in Intervals /\ UpperHalf(i)[1] = Middle(i) + 1
              /\ UpperHalf(i)[2] = i[2] /\ i[1] <= i[2] /\ Size(UpperHalf(i)) < Size(i)
<1> DEFINE lo == i[1]
           hi == i[2]
           mid == Middle(i)
<1>1. lo \in 0 .. 100 /\ hi \in 0 .. 100 /\ mid = (lo + hi) \div 2
  BY DEF Intervals, Middle
<1>2. LowerHalf(i) = <<lo, mid - 1>> /\ UpperHalf(i) = <<mid + 1, hi>>
  BY DEF LowerHalf, UpperHalf
<1>3. Size(i) = IF lo <= hi THEN hi - lo + 1 ELSE 0
  BY DEF Size
<1> HIDE DEF lo, hi, mid
<1>4. /\ mid \in 0 .. 100 /\ (lo <= hi => mid \in lo .. hi)
      /\ (lo < mid => lo <= hi) /\ (mid < hi => lo <= hi)
  BY <1>1, MiddleBetween
<1>5. ASSUME lo < mid
      PROVE  /\ LowerHalf(i) \in Intervals /\ LowerHalf(i)[1] = lo
             /\ LowerHalf(i)[2] = mid - 1 /\ Size(LowerHalf(i)) < Size(i)
  <2>1. /\ LowerHalf(i) \in Intervals /\ LowerHalf(i)[1] = lo
        /\ LowerHalf(i)[2] = mid - 1
    BY <1>1, <1>2, <1>4, <1>5 DEF Intervals
  <2>2. Size(LowerHalf(i)) = (mid - 1) - lo + 1
    BY <1>1, <1>4, <1>5, <2>1 DEF Size
  <2>3. Size(LowerHalf(i)) < Size(i)
    BY <1>1, <1>3, <1>4, <1>5, <2>2
  <2> QED
    BY <2>1, <2>3
<1>6. ASSUME mid < hi
      PROVE  /\ UpperHalf(i) \in Intervals /\ UpperHalf(i)[1] = mid + 1
             /\ UpperHalf(i)[2] = hi /\ Size(UpperHalf(i)) < Size(i)
  <2>1. /\ UpperHalf(i) \in Intervals /\ UpperHalf(i)[1] = mid + 1
        /\ UpperHalf(i)[2] = hi
    BY <1>1, <1>2, <1>4, <1>6 DEF Intervals
  <2>2. Size(UpperHalf(i)) = hi - (mid + 1) + 1
    BY <1>1, <1>4, <1>6, <2>1 DEF Size
  <2>3. Size(UpperHalf(i)) < Size(i)
    BY <1>1, <1>3, <1>4, <1>6, <2>2
  <2> QED
    BY <2>1, <2>3
<1>7. Size(i) \in 0 .. 101
  BY <1>1, <1>3
<1> QED
  BY <1>1, <1>4, <1>5, <1>6, <1>7 DEF lo, hi, mid

\* What holds of an interval if it holds of its halves holds of every one.
LEMMA HalvingInduction ==
  ASSUME NEW T,
         \A i \in Intervals :
           /\ i[1] < Middle(i) => LowerHalf(i) \in T
           /\ Middle(i) < i[2] => UpperHalf(i) \in T
           => i \in T
  PROVE  Intervals \subseteq T
<1> DEFINE S == {n \in Nat : \E i \in Intervals : Size(i) = n /\ i \notin T}
<1>1. \A i \in Intervals : Size(i) \in Nat
  BY HalvesSmaller
<1>2. SUFFICES ASSUME S # {} PROVE FALSE
  BY <1>1
<1>3. PICK n \in S : \A m \in S : n <= m
  BY <1>2, LeastNumber
<1>4. PICK i \in Intervals : Size(i) = n /\ i \notin T
  BY <1>3
<1>5. ASSUME NEW j \in Intervals, Size(j) < n PROVE j \in T
  <2>1. Size(j) \in Nat /\ ~(n <= Size(j)) /\ n \in Nat
    BY <1>1, <1>3, <1>5
  <2>2. Size(j) \notin S
    BY <1>3, <2>1
  <2> QED
    BY <2>1, <2>2
<1> QED
  BY <1>4, <1>5, HalvesSmaller

\* There is a function that a search is: one that is right for the intervals up to
\* a size gives one that is right for those of the next.
LEMMA HalvingExists ==
  ASSUME NEW L \in SUBSET Intervals, NEW H \in SUBSET Intervals, NEW end,
         \A i \in L : i[1] < Middle(i), \A i \in H : Middle(i) < i[2]
  PROVE  \E probe : Halving(L, H, end, probe)
<1> DEFINE Right(probe, n) ==
             /\ probe = [i \in Intervals |-> probe[i]]
             /\ \A i \in Intervals : Size(i) < n => probe[i] = Halves(L, H, end, probe, i)
           S == {n \in Nat : ~(\E probe : Right(probe, n))}
<1>1. ASSUME NEW n \in Nat, NEW f, Right(f, n) PROVE \E g : Right(g, n + 1)
  <2> DEFINE g == [i \in Intervals |-> Halves(L, H, end, f, i)]
  <2>1. ASSUME NEW i \in Intervals, Size(i) < n + 1
        PROVE  g[i] = Halves(L, H, end, g, i)
    <3>1. ASSUME NEW j \in Intervals, Size(j) < Size(i) PROVE g[j] = f[j]
      <4>1. Size(j) < n
        BY <2>1, <3>1, HalvesSmaller
      <4> QED
        BY <1>1, <4>1
    <3>2. CASE i \in L
      <4>1. g[LowerHalf(i)] = f[LowerHalf(i)]
        BY <3>1, <3>2, HalvesSmaller
      <4> QED
        BY <3>2, <4>1 DEF Halves
    <3>3. CASE i \notin L /\ i \in H
      <4>1. g[UpperHalf(i)] = f[UpperHalf(i)]
        BY <3>1, <3>3, HalvesSmaller
      <4> QED
        BY <3>3, <4>1 DEF Halves
    <3>4. CASE i \notin L /\ i \notin H
      BY <3>4 DEF Halves
    <3> QED
      BY <3>2, <3>3, <3>4
  <2>2. g = [i \in Intervals |-> g[i]]
    OBVIOUS
  <2> QED
    BY <2>1, <2>2
<1>2. S = {}
  <2>1. SUFFICES ASSUME S # {} PROVE FALSE
    OBVIOUS
  <2>2. PICK n \in S : \A m \in S : n <= m
    BY <2>1, LeastNumber
  <2>3. n # 0
    <3> DEFINE f == [i \in Intervals |-> 0]
    <3>1. Right(f, 0)
      BY HalvesSmaller
    <3> QED
      BY <2>2, <3>1
  <2>4. n - 1 \in Nat /\ n - 1 \notin S
    BY <2>2, <2>3
  <2>5. PICK f : Right(f, n - 1)
    BY <2>4
  <2>6. \E g : Right(g, (n - 1) + 1)
    BY <1>1, <2>4, <2>5
  <2> QED
    BY <2>2, <2>6
<1>3. PICK f : Right(f, 102)
  BY <1>2
<1>4. f = [i \in Intervals |-> Halves(L, H, end, f, i)]
  BY <1>3, HalvesSmaller
<1> QED
  BY <1>4 DEF Halving

\* What a search comes to lies in the interval it starts from, or k after it.
LEMMA HalvingBetween ==
  ASSUME NEW L, NEW H, NEW end, NEW f, NEW k \in {0, 1}, Searches(L, H, end, f, k)
  PROVE  \A i \in Intervals : i[1] <= i[2] => f[i] \in i[1] .. i[2] + k
<1> DEFINE T == {i \in Intervals : i[1] <= i[2] => f[i] \in i[1] .. i[2] + k}
<1>1. SUFFICES ASSUME NEW i \in Intervals, i[1] <= i[2],
                      i[1] < Middle(i) => LowerHalf(i) \in T,
                      Middle(i) < i[2] => UpperHalf(i) \in T
               PROVE  f[i] \in i[1] .. i[2] + k
  <2>1. \A i \in Intervals :
          /\ i[1] < Middle(i) => LowerHalf(i) \in T
          /\ Middle(i) < i[2] => UpperHalf(i) \in T
          => i \in T
    BY <1>1
  <2>2. Intervals \subseteq T
    BY <2>1, HalvingInduction
  <2> QED
    BY <2>2
<1>2. f[i] = Halves(L, H, end, f, i)
  BY DEF Halving, Searches
<1>3. /\ i[1] \in Int /\ i[2] \in Int /\ Middle(i) \in i[1] .. i[2]
  BY <1>1, HalvesSmaller
<1> USE DEF Searches
<1>4. CASE i \in L
  <2>1. LowerHalf(i) \in T /\ LowerHalf(i)[1] = i[1] /\ LowerHalf(i)[2] = Middle(i) - 1
          /\ i[1] < Middle(i)
    BY <1>1, <1>4, HalvesSmaller
  <2>2. f[LowerHalf(i)] \in i[1] .. (Middle(i) - 1) + k
    BY <1>3, <2>1
  <2> QED
    BY <1>2, <1>3, <1>4, <2>2 DEF Halves
<1>5. CASE i \notin L /\ i \in H
  <2>1. UpperHalf(i) \in T /\ UpperHalf(i)[1] = Middle(i) + 1 /\ UpperHalf(i)[2] = i[2]
          /\ Middle(i) < i[2]
    BY <1>1, <1>5, HalvesSmaller
  <2>2. f[UpperHalf(i)] \in Middle(i) + 1 .. i[2] + k
    BY <1>3, <2>1
  <2> QED
    BY <1>2, <1>3, <1>5, <2>2 DEF Halves
<1>6. CASE i \notin L /\ i \notin H
  BY <1>2, <1>3, <1>6 DEF Halves
<1> QED
  BY <1>4, <1>5, <1>6

\* A search for more, which goes down from fewer intervals and up from more, comes
\* to no less, but for k.
LEMMA HalvingMonotone ==
  ASSUME NEW L, NEW H, NEW end, NEW f, NEW M, NEW G, NEW last, NEW g, NEW k \in {0, 1},
         Searches(L, H, end, f, k), Searches(M, G, last, g, k), M \subseteq L, H \subseteq G
  PROVE  \A i \in Intervals : i[1] <= i[2] => f[i] <= g[i] + k
<1> DEFINE T == {i \in Intervals : i[1] <= i[2] => f[i] <= g[i] + k}
<1>1. SUFFICES ASSUME NEW i \in Intervals, i[1] <= i[2],
                      i[1] < Middle(i) => LowerHalf(i) \in T,
                      Middle(i) < i[2] => UpperHalf(i) \in T
               PROVE  f[i] <= g[i] + k
  <2>1. \A i \in Intervals :
          /\ i[1] < Middle(i) => LowerHalf(i) \in T
          /\ Middle(i) < i[2] => UpperHalf(i) \in T
          => i \in T
    BY <1>1
  <2>2. Intervals \subseteq T
    BY <2>1, HalvingInduction
  <2> QED
    BY <2>2
<1>0. /\ L \subseteq Intervals /\ H \subseteq Intervals
      /\ M \subseteq Intervals /\ G \subseteq Intervals
      /\ Halving(L, H, end, f) /\ Halving(M, G, last, g)
      /\ (\A j \in L : j[1] < Middle(j)) /\ (\A j \in H : Middle(j) < j[2])
      /\ (\A j \in M : j[1] < Middle(j)) /\ (\A j \in G : Middle(j) < j[2])
      /\ end[i] \in Middle(i) .. Middle(i) + k /\ last[i] \in Middle(i) .. Middle(i) + k
  BY DEF Searches
<1>2. f[i] = Halves(L, H, end, f, i) /\ g[i] = Halves(M, G, last, g, i)
  BY <1>0 DEF Halving
<1>3. /\ i[1] \in Int /\ i[2] \in Int /\ Middle(i) \in i[1] .. i[2]
  BY <1>1, HalvesSmaller
<1>5. /\ \A j \in Intervals : j[1] <= j[2] => f[j] \in j[1] .. j[2] + k
      /\ \A j \in Intervals : j[1] <= j[2] => g[j] \in j[1] .. j[2] + k
  BY HalvingBetween
<1>6. ASSUME i[1] < Middle(i)
      PROVE  /\ f[LowerHalf(i)] <= g[LowerHalf(i)] + k
             /\ f[LowerHalf(i)] \in i[1] .. (Middle(i) - 1) + k
  <2>1. LowerHalf(i) \in Intervals /\ LowerHalf(i)[1] = i[1] /\ LowerHalf(i)[2] = Middle(i) - 1
    BY <1>6, HalvesSmaller
  <2>2. LowerHalf(i)[1] <= LowerHalf(i)[2]
    BY <1>3, <1>6, <2>1
  <2> QED
    BY <1>1, <1>5, <1>6, <2>1, <2>2
<1>7. ASSUME Middle(i) < i[2]
      PROVE  /\ f[UpperHalf(i)] <= g[UpperHalf(i)] + k
             /\ g[UpperHalf(i)] \in Middle(i) + 1 .. i[2] + k
  <2>1. UpperHalf(i) \in Intervals /\ UpperHalf(i)[1] = Middle(i) + 1 /\ UpperHalf(i)[2] = i[2]
    BY <1>7, HalvesSmaller
  <2>2. UpperHalf(i)[1] <= UpperHalf(i)[2]
    BY <1>3, <1>7, <2>1
  <2> QED
    BY <1>1, <1>5, <1>7, <2>1, <2>2
<1>8. CASE i \in M
  BY <1>2, <1>0, <1>6, <1>8 DEF Halves
<1>9. ASSUME i \notin M
      PROVE  (g[i] = g[UpperHalf(i)] /\ i \in G) \/ g[i] \in Middle(i) .. Middle(i) + k
  BY <1>0, <1>2, <1>9 DEF Halves
<1>10. ASSUME i \notin M PROVE g[i] \in Int /\ g[i] >= Middle(i)
  <2>1. CASE g[i] = g[UpperHalf(i)] /\ i \in G
    <3>1. g[i] \in Middle(i) + 1 .. i[2] + k
      BY <1>0, <1>7, <2>1
    <3> QED
      BY <1>3, <3>1
  <2>2. CASE g[i] \in Middle(i) .. Middle(i) + k
    BY <1>3, <2>2
  <2> QED
    BY <1>9, <1>10, <2>1, <2>2
<1>11. CASE i \in L /\ i \notin M
  <2>1. f[i] \in i[1] .. (Middle(i) - 1) + k
    BY <1>0, <1>2, <1>6, <1>11 DEF Halves
  <2> QED
    BY <1>3, <1>10, <1>11, <2>1
<1>12. CASE i \notin L /\ i \in H
  BY <1>0, <1>2, <1>7, <1>12 DEF Halves
<1>13. CASE i \notin L /\ i \notin H
  <2>1. f[i] \in Middle(i) .. Middle(i) + k
    BY <1>0, <1>2, <1>13 DEF Halves
  <2> QED
    BY <1>3, <1>10, <1>13, <2>1
<1> QED
  BY <1>8, <1>11, <1>12, <1>13

SearchLow(level, curve) == {i \in Intervals : level < curve[Middle(i)] /\ i[1] < Middle(i)}
ReachLow(level, curve)  == {i \in Intervals : level <= curve[Middle(i)] /\ i[1] < Middle(i)}
High(level, curve)      == {i \in Intervals : level > curve[Middle(i)] /\ Middle(i) < i[2]}
SearchEnd == [i \in Intervals |-> Middle(i)]
ReachEnd(level, curve) ==
  [i \in Intervals |-> IF level < curve[Middle(i)] THEN Middle(i) + 1 ELSE Middle(i)]

\* The two searches are searches of this kind.
LEMMA SearchHalves ==
  ASSUME NEW level \in Int, NEW curve \in [0 .. 100 -> Int]
  PROVE  \E f : /\ Searches(SearchLow(level, curve), High(level, curve), SearchEnd, f, 0)
                /\ Search(level, curve) = f[<<0, 100>>]
<1> DEFINE L == SearchLow(level, curve)
           H == High(level, curve)
           B(probe, i) ==
             CASE level < curve[Middle(i)] /\ i[1] < Middle(i) -> probe[LowerHalf(i)]
               [] level > curve[Middle(i)] /\ Middle(i) < i[2] -> probe[UpperHalf(i)]
               [] OTHER                                        -> Middle(i)
           Fits(probe) == probe = [i \in Intervals |-> B(probe, i)]
<1>1. ASSUME NEW probe, NEW i \in Intervals PROVE B(probe, i) = Halves(L, H, SearchEnd, probe, i)
  <2>1. curve[Middle(i)] \in Int
    BY HalvesSmaller
  <2> QED
    BY <2>1 DEF Halves, SearchLow, High, SearchEnd
<1>2. ASSUME NEW probe PROVE Fits(probe) <=> Halving(L, H, SearchEnd, probe)
  BY <1>1 DEF Halving
<1>3. \E probe : Halving(L, H, SearchEnd, probe)
  BY HalvingExists DEF SearchLow, High
<1>4. Search(level, curve) = (CHOOSE probe : Fits(probe))[<<0, 100>>]
  BY DEF Search
<1>5. Fits(CHOOSE probe : Fits(probe))
  <2> HIDE DEF Fits, L, H
  <2> QED
    BY <1>2, <1>3
<1>6. \A i \in Intervals : SearchEnd[i] \in Middle(i) .. Middle(i) + 0
  BY HalvesSmaller DEF SearchEnd
<1> HIDE DEF Fits
<1>7. ASSUME NEW f, Halving(L, H, SearchEnd, f) PROVE Searches(L, H, SearchEnd, f, 0)
  BY <1>6, <1>7 DEF Searches, SearchLow, High
<1> QED
  BY <1>2, <1>4, <1>5, <1>7

LEMMA ReachingHalves ==
  ASSUME NEW level \in Int, NEW curve \in [0 .. 100 -> Int]
  PROVE  \E f : /\ Searches(ReachLow(level, curve), High(level, curve),
                            ReachEnd(level, curve), f, 1)
                /\ Reaching(level, curve) = Smaller(f[<<0, 100>>], 100)
<1> DEFINE L == ReachLow(level, curve)
           H == High(level, curve)
           end == ReachEnd(level, curve)
           B(probe, i) ==
             CASE level <= curve[Middle(i)] /\ i[1] < Middle(i) -> probe[LowerHalf(i)]
               [] level > curve[Middle(i)] /\ Middle(i) < i[2]  -> probe[UpperHalf(i)]
               [] OTHER -> IF level < curve[Middle(i)] THEN Middle(i) + 1 ELSE Middle(i)
           Fits(probe) == probe = [i \in Intervals |-> B(probe, i)]
<1>1. ASSUME NEW probe, NEW i \in Intervals PROVE B(probe, i) = Halves(L, H, end, probe, i)
  <2>1. curve[Middle(i)] \in Int
    BY HalvesSmaller
  <2> QED
    BY <2>1 DEF Halves, ReachLow, High, ReachEnd
<1>2. ASSUME NEW probe PROVE Fits(probe) <=> Halving(L, H, end, probe)
  BY <1>1 DEF Halving
<1>3. \E probe : Halving(L, H, end, probe)
  BY HalvingExists DEF ReachLow, High
<1>4. Reaching(level, curve) = Smaller((CHOOSE probe : Fits(probe))[<<0, 100>>], 100)
  BY DEF Reaching
<1>5. Fits(CHOOSE probe : Fits(probe))
  <2> HIDE DEF Fits, L, H, end
  <2> QED
    BY <1>2, <1>3
<1>6. \A i \in Intervals : end[i] \in Middle(i) .. Middle(i) + 1
  BY HalvesSmaller DEF ReachEnd
<1> HIDE DEF Fits, end
<1>7. ASSUME NEW f, Halving(L, H, end, f) PROVE Searches(L, H, end, f, 1)
  BY <1>6, <1>7 DEF Searches, ReachLow, High
<1> QED
  BY <1>2, <1>4, <1>5, <1>7 DEF end

\* The whole slider.
LEMMA Slider == /\ <<0, 100>> \in Intervals /\ <<0, 100>>[1] = 0 /\ <<0, 100>>[2] = 100
BY DEF Intervals

\* For a higher level a search goes down from fewer intervals and up from more.
LEMMA HigherLevel ==
  ASSUME NEW a \in Int, NEW b \in Int, a <= b, NEW curve \in [0 .. 100 -> Int]
  PROVE  /\ SearchLow(b, curve) \subseteq SearchLow(a, curve)
         /\ ReachLow(b, curve) \subseteq ReachLow(a, curve)
         /\ High(a, curve) \subseteq High(b, curve)
<1>1. \A i \in Intervals : curve[Middle(i)] \in Int
  BY HalvesSmaller
<1> QED
  BY <1>1 DEF SearchLow, ReachLow, High

\* A search comes to a setting, and for more to one as high.
LEMMA SearchSettings ==
  ASSUME NEW a \in Int, NEW b \in Int, a <= b, NEW curve \in [0 .. 100 -> Int]
  PROVE  /\ Search(a, curve) \in 0 .. 100 /\ Search(b, curve) \in 0 .. 100
         /\ Search(a, curve) <= Search(b, curve)
<1>1. PICK f : /\ Searches(SearchLow(a, curve), High(a, curve), SearchEnd, f, 0)
               /\ Search(a, curve) = f[<<0, 100>>]
  BY SearchHalves
<1>2. PICK g : /\ Searches(SearchLow(b, curve), High(b, curve), SearchEnd, g, 0)
               /\ Search(b, curve) = g[<<0, 100>>]
  BY SearchHalves
<1>3. /\ \A i \in Intervals : i[1] <= i[2] => f[i] \in i[1] .. i[2] + 0
      /\ \A i \in Intervals : i[1] <= i[2] => g[i] \in i[1] .. i[2] + 0
  BY <1>1, <1>2, HalvingBetween
<1>4. \A i \in Intervals : i[1] <= i[2] => f[i] <= g[i] + 0
  <2>1. SearchLow(b, curve) \subseteq SearchLow(a, curve) /\ High(a, curve) \subseteq High(b, curve)
    BY HigherLevel
  <2> QED
    BY <1>1, <1>2, <2>1, HalvingMonotone
<1> QED
  BY <1>1, <1>2, <1>3, <1>4, Slider

\* So does the other one, but that more may come to one less.
LEMMA ReachingSettings ==
  ASSUME NEW a \in Int, NEW b \in Int, a <= b, NEW curve \in [0 .. 100 -> Int]
  PROVE  /\ Reaching(a, curve) \in 0 .. 100 /\ Reaching(b, curve) \in 0 .. 100
         /\ Reaching(a, curve) <= Reaching(b, curve) + 1
<1>1. PICK f : /\ Searches(ReachLow(a, curve), High(a, curve), ReachEnd(a, curve), f, 1)
               /\ Reaching(a, curve) = Smaller(f[<<0, 100>>], 100)
  BY ReachingHalves
<1>2. PICK g : /\ Searches(ReachLow(b, curve), High(b, curve), ReachEnd(b, curve), g, 1)
               /\ Reaching(b, curve) = Smaller(g[<<0, 100>>], 100)
  BY ReachingHalves
<1>3. /\ \A i \in Intervals : i[1] <= i[2] => f[i] \in i[1] .. i[2] + 1
      /\ \A i \in Intervals : i[1] <= i[2] => g[i] \in i[1] .. i[2] + 1
  BY <1>1, <1>2, HalvingBetween
<1>4. \A i \in Intervals : i[1] <= i[2] => f[i] <= g[i] + 1
  <2>1. ReachLow(b, curve) \subseteq ReachLow(a, curve) /\ High(a, curve) \subseteq High(b, curve)
    BY HigherLevel
  <2> QED
    BY <1>1, <1>2, <2>1, HalvingMonotone
<1>5. f[<<0, 100>>] \in 0 .. 101 /\ g[<<0, 100>>] \in 0 .. 101 /\ f[<<0, 100>>] <= g[<<0, 100>>] + 1
  BY <1>3, <1>4, Slider
<1> QED
  BY <1>1, <1>2, <1>5 DEF Smaller

NonFalling(curve) ==
  /\ curve \in [0 .. 100 -> Int]
  /\ \A x, y \in 0 .. 100 : x <= y => curve[x] <= curve[y]

\* On a curve that does not fall, the search for a level that is there finds it.
LEMMA SearchFinds ==
  ASSUME NEW curve, NonFalling(curve), NEW c \in 0 .. 100, NEW level, level = curve[c]
  PROVE  Search(level, curve) \in 0 .. 100 /\ curve[Search(level, curve)] = level
<1>1. level \in Int /\ curve \in [0 .. 100 -> Int]
  BY DEF NonFalling
<1>2. PICK f : /\ Searches(SearchLow(level, curve), High(level, curve), SearchEnd, f, 0)
               /\ Search(level, curve) = f[<<0, 100>>]
  BY <1>1, SearchHalves
<1> DEFINE T == {i \in Intervals : c \in i[1] .. i[2] => curve[f[i]] = level}
<1>3. ASSUME NEW i \in Intervals, c \in i[1] .. i[2],
             i[1] < Middle(i) => LowerHalf(i) \in T,
             Middle(i) < i[2] => UpperHalf(i) \in T
      PROVE  curve[f[i]] = level
  <2> DEFINE lo == i[1]
             hi == i[2]
             mid == Middle(i)
             here == curve[mid]
  <2>1. f[i] = Halves(SearchLow(level, curve), High(level, curve), SearchEnd, f, i)
    BY <1>2 DEF Halving, Searches
  <2>2. /\ lo \in 0 .. 100 /\ hi \in 0 .. 100 /\ mid \in 0 .. 100 /\ c \in lo .. hi
        /\ lo <= hi => mid \in lo .. hi
    BY <1>3, HalvesSmaller
  <2>3. lo <= c /\ c <= hi /\ lo <= mid /\ mid <= hi
    <3> HIDE DEF lo, hi, mid
    <3> QED
      BY <2>2
  <2>4. here \in Int /\ (c >= mid => level >= here) /\ (c <= mid => level <= here)
    BY <2>2 DEF NonFalling
  <2>5. /\ i \in SearchLow(level, curve) <=> level < here /\ lo < mid
        /\ i \in High(level, curve) <=> level > here /\ mid < hi
        /\ SearchEnd[i] = mid
    BY DEF SearchLow, High, SearchEnd
  <2>6. ASSUME lo < mid, c < mid PROVE curve[f[LowerHalf(i)]] = level
    <3>1. LowerHalf(i) \in T /\ LowerHalf(i)[1] = lo /\ LowerHalf(i)[2] = mid - 1
      BY <1>3, <2>6, HalvesSmaller
    <3>2. c \in lo .. mid - 1
      BY <2>2, <2>3, <2>6
    <3> QED
      BY <3>1, <3>2
  <2>7. ASSUME mid < hi, mid < c PROVE curve[f[UpperHalf(i)]] = level
    <3>1. UpperHalf(i) \in T /\ UpperHalf(i)[1] = mid + 1 /\ UpperHalf(i)[2] = hi
      BY <1>3, <2>7, HalvesSmaller
    <3>2. c \in mid + 1 .. hi
      BY <2>2, <2>3, <2>7
    <3> QED
      BY <3>1, <3>2
  <2>8. CASE level < here
    <3>1. c < mid /\ lo < mid
      BY <1>1, <2>2, <2>3, <2>4, <2>8
    <3> QED
      BY <2>1, <2>5, <2>6, <2>8, <3>1 DEF Halves
  <2>9. CASE level > here
    <3>1. mid < c /\ mid < hi /\ ~(level < here)
      BY <1>1, <2>2, <2>3, <2>4, <2>9
    <3> QED
      BY <2>1, <2>5, <2>7, <2>9, <3>1 DEF Halves
  <2>10. CASE level = here
    <3>1. f[i] = mid
      BY <1>1, <2>1, <2>4, <2>5, <2>10 DEF Halves
    <3> QED
      BY <2>10, <3>1
  <2> QED
    BY <1>1, <2>4, <2>8, <2>9, <2>10
<1>4. \A i \in Intervals :
        /\ i[1] < Middle(i) => LowerHalf(i) \in T
        /\ Middle(i) < i[2] => UpperHalf(i) \in T
        => i \in T
  BY <1>3
<1>5. <<0, 100>> \in T
  BY <1>4, HalvingInduction, Slider
<1>6. Search(level, curve) \in 0 .. 100
  <2>1. level <= level
    BY <1>1
  <2> QED
    BY <1>1, <2>1, SearchSettings
<1> QED
  BY <1>2, <1>5, <1>6, Slider

(***************************************************************************)
(* The scales.                                                             *)
(***************************************************************************)

Known == {"linux", "freebsd", "openbsd", "osf1", "ultrix", "aix", "irix", "toshiba", "sony",
          "scsi2", "digital"}

LEMMA KnownDrivers == Drivers \subseteq Known
<1>1. ASSUME NEW p \in CompiledPlatforms, NEW type PROVE FixupDriveStruct(p, type) \in Known
  <2> DEFINE fits == {i \in DOMAIN FixupList : /\ type.vendor \in {"", FixupList[i].vendor}
                                               /\ type.model \in {"", FixupList[i].model}}
  <2>1. /\ DOMAIN FixupList = 1 .. 6
        /\ \A i \in 1 .. 6 : FixupList[i].fixup \in {"toshiba", "sony"}
    <3>1. DOMAIN FixupList = 1 .. 6
      BY DEF FixupList
    <3>2. ASSUME NEW i \in 1 .. 6 PROVE FixupList[i].fixup \in {"toshiba", "sony"}
      <4>1. i \in {1, 2, 3, 4, 5, 6}
        OBVIOUS
      <4>2. /\ FixupList[1].fixup = "toshiba" /\ FixupList[2].fixup = "toshiba"
            /\ FixupList[3].fixup = "toshiba" /\ FixupList[4].fixup = "sony"
            /\ FixupList[5].fixup = "sony" /\ FixupList[6].fixup = "sony"
        BY DEF FixupList
      <4> QED
        BY <4>1, <4>2
    <3> QED
      BY <3>1, <3>2
  <2>2. FixupDriveStruct(p, type) =
          IF fits = {} THEN p ELSE FixupList[CHOOSE i \in fits : \A j \in fits : i <= j].fixup
    BY DEF FixupDriveStruct
  <2>3. fits \subseteq 1 .. 6
    BY <2>1
  <2> HIDE DEF fits
  <2>4. ASSUME fits # {} PROVE (CHOOSE i \in fits : \A j \in fits : i <= j) \in fits
    <3>1. fits \subseteq Nat
      BY <2>3
    <3>2. \E i \in fits : \A j \in fits : i <= j
      BY <2>4, <3>1, LeastNumber
    <3> QED
      BY <3>2
  <2> QED
    BY <2>1, <2>2, <2>3, <2>4 DEF CompiledPlatforms, Known
<1>2. ASSUME NEW d \in Drivers PROVE d \in Known
  BY <1>1, <1>2 DEF Drivers, Known
<1> QED
  BY <1>2

\* Division of C by the numbers that the scales divide by keeps the order.
LEMMA QuotMonotone ==
  ASSUME NEW a \in Int, NEW b \in Int, a <= b
  PROVE  /\ Quot(a, 2) \in Int /\ Quot(a, 2) <= Quot(b, 2)
         /\ Quot(a, 100) \in Int /\ Quot(a, 100) <= Quot(b, 100)
         /\ Quot(a, 255) \in Int /\ Quot(a, 255) <= Quot(b, 255)
         /\ Quot(a, 10000) \in Int /\ Quot(a, 10000) <= Quot(b, 10000)
<1>1. Quot(a, 2) \in Int /\ Quot(a, 2) <= Quot(b, 2)
  BY DEF Quot
<1>2. Quot(a, 100) \in Int /\ Quot(a, 100) <= Quot(b, 100)
  BY DEF Quot
<1>3. Quot(a, 255) \in Int /\ Quot(a, 255) <= Quot(b, 255)
  BY DEF Quot
<1>4. Quot(a, 10000) \in Int /\ Quot(a, 10000) <= Quot(b, 10000)
  BY DEF Quot
<1> QED
  BY <1>1, <1>2, <1>3, <1>4

\* The straight scales rise, and end at the highest level.
LEMMA LinearScale ==
  ASSUME NEW a \in Int, NEW b \in Int, a <= b
  PROVE  /\ Linear(a, 0, 255) \in Int /\ Linear(a, 0, 255) <= Linear(b, 0, 255)
         /\ a >= 0 => Linear(a, 0, 255) >= 0
         /\ Linear(a, 10, 255) \in Int /\ Linear(a, 10, 255) <= Linear(b, 10, 255)
         /\ a >= 0 => Linear(a, 10, 255) >= 10
         /\ Linear(100, 0, 255) = 255 /\ Linear(100, 10, 255) = 255
         /\ Linear(a, 128, 255) \in Int
<1>1. Linear(a, 0, 255) \in Int /\ Linear(a, 0, 255) <= Linear(b, 0, 255)
  BY DEF Linear, Quot
<1>2. a >= 0 => Linear(a, 0, 255) >= 0 /\ Linear(a, 10, 255) >= 10
  BY DEF Linear, Quot
<1>3. Linear(a, 10, 255) \in Int /\ Linear(a, 10, 255) <= Linear(b, 10, 255)
  BY DEF Linear, Quot
<1>4. Linear(100, 0, 255) = 255 /\ Linear(100, 10, 255) = 255
  BY DEF Linear, Quot
<1>5. Linear(a, 128, 255) \in Int
  BY DEF Linear, Quot
<1> QED
  BY <1>1, <1>2, <1>3, <1>4, <1>5

\* The square of what is left to the end of the slider falls on the way there.
LEMMA SquareLeft ==
  ASSUME NEW a \in Int, NEW b \in Int, a <= b, b <= 100
  PROVE  /\ (100 - a) * (100 - a) \in Int /\ (100 - b) * (100 - b) \in Int
         /\ (100 - b) * (100 - b) <= (100 - a) * (100 - a)
<1> DEFINE x == 100 - b
           y == b - a
<1>1. x \in Nat /\ y \in Nat /\ 100 - a = x + y /\ 100 - b = x
  OBVIOUS
<1> HIDE DEF x, y
<1>2. /\ (x + y) * (x + y) = x * x + 2 * (x * y) + y * y
      /\ x * x \in Nat /\ x * y \in Nat /\ y * y \in Nat
  BY <1>1
<1> QED
  BY <1>1, <1>2

LEMMA CubeRises ==
  ASSUME NEW a \in Int, NEW b \in Int, a <= b
  PROVE  a * a * a \in Int /\ a * a * a <= b * b * b
<1> DEFINE y == b - a
<1>1. y \in Nat /\ b = a + y
  OBVIOUS
<1> HIDE DEF y
<1>2. b * b * b - a * a * a = y * (a * a + a * b + b * b)
  BY <1>1
<1>3. a * a + a * b + b * b >= 0
  OBVIOUS
<1>4. \A m, n \in Int : m >= 0 /\ n >= 0 => m * n >= 0
  OBVIOUS
<1>5. y * (a * a + a * b + b * b) >= 0
  BY <1>1, <1>3, <1>4
<1> QED
  BY <1>2, <1>5

LEMMA CurvedScale ==
  ASSUME NEW a \in Int, NEW b \in Int, a <= b, b <= 100
  PROVE  /\ Osf1Scale(a) \in Int /\ Osf1Scale(a) <= Osf1Scale(b)
         /\ UltrixScale(a) \in Int /\ UltrixScale(a) <= UltrixScale(b)
         /\ SonyScale(a) \in Int /\ SonyScale(a) <= SonyScale(b)
         /\ ToshibaScale(a) \in Int /\ ToshibaScale(a) <= ToshibaScale(b)
<1> DEFINE x == (100 - a) * (100 - a)
           y == (100 - b) * (100 - b)
<1>1. x \in Int /\ y \in Int /\ y <= x
  BY SquareLeft
<1>2. /\ Osf1Scale(a) = Quot((10000 - x) * 127, 10000) + 128
      /\ Osf1Scale(b) = Quot((10000 - y) * 127, 10000) + 128
      /\ SonyScale(a) = Quot(Quot(10000 - x, 100) + 100, 2)
      /\ SonyScale(b) = Quot(Quot(10000 - y, 100) + 100, 2)
  BY DEF Osf1Scale, SonyScale
<1> HIDE DEF x, y
<1>3. Osf1Scale(a) \in Int /\ Osf1Scale(a) <= Osf1Scale(b)
  BY <1>1, <1>2 DEF Quot
<1>4. SonyScale(a) \in Int /\ SonyScale(a) <= SonyScale(b)
  BY <1>1, <1>2 DEF Quot
<1>5. ToshibaScale(a) \in Int /\ ToshibaScale(a) <= ToshibaScale(b)
  <2> DEFINE u == a * a * a
             v == b * b * b
  <2>1. u \in Int /\ v \in Int /\ u <= v
    BY CubeRises
  <2>2. ToshibaScale(a) = Quot(u, 10000) /\ ToshibaScale(b) = Quot(v, 10000)
    BY DEF ToshibaScale
  <2> HIDE DEF u, v
  <2> QED
    BY <2>1, <2>2, QuotMonotone
<1> QED
  BY <1>3, <1>4, <1>5 DEF UltrixScale

\* A channel is set to a level that fits a byte, whatever the driver.
LEMMA LevelFits ==
  ASSUME driver \in Known \ {"digital"}, NEW vol \in Int, vol <= 100
  PROVE  Level(vol) \in 0 .. 255
<1>1. /\ Linear(vol, 0, 255) \in Int /\ Linear(vol, 0, 255) <= 255
      /\ Linear(vol, 10, 255) \in Int /\ Linear(vol, 10, 255) <= 255
      /\ Linear(vol, 128, 255) \in Int
  BY LinearScale
<1>2. Linear(Larger(0, vol), 10, 255) \in 0 .. 255
  <2> DEFINE x == Larger(0, vol)
  <2>1. x \in Int /\ 0 <= x /\ x <= 100
    BY DEF Larger
  <2> HIDE DEF x
  <2>2. /\ Linear(x, 10, 255) \in Int /\ Linear(x, 10, 255) >= 10
        /\ Linear(x, 10, 255) <= Linear(100, 10, 255) /\ Linear(100, 10, 255) = 255
    BY <2>1, LinearScale
  <2> QED
    BY <2>2 DEF x
<1>3. \A n \in Int : Clamp(n, 0, 255) \in 0 .. 255
  BY DEF Clamp, Larger, Smaller
<1>4. \A n \in Int : n % 256 \in 0 .. 255
  OBVIOUS
<1>5. /\ Osf1Scale(vol) \in Int /\ UltrixScale(vol) \in Int /\ SonyScale(vol) \in Int
      /\ ToshibaScale(vol) \in Int
  BY CurvedScale
<1>6. /\ LinuxLevel(vol) \in 0 .. 255 /\ ToshibaLevel(vol) \in 0 .. 255
      /\ SonyLevel(vol) \in 0 .. 255 /\ Osf1Level(vol) \in 0 .. 255
      /\ UltrixLevel(vol) \in 0 .. 255
  BY <1>1, <1>3, <1>5
     DEF LinuxLevel, LinuxScale, ToshibaLevel, SonyLevel, Osf1Level, UltrixLevel
<1>7. /\ FreebsdLevel(vol) \in 0 .. 255 /\ IrixLevel(vol) \in 0 .. 255
  BY <1>1 DEF FreebsdLevel, FreebsdScale, IrixLevel, IrixScale, Larger
<1>8. OpenbsdLevel(vol) \in 0 .. 255
  BY <1>2 DEF OpenbsdLevel, OpenbsdScale
<1>9. AixLevel(vol) \in 0 .. 255 /\ Scsi2Level(vol) \in 0 .. 255
  BY <1>1, <1>4 DEF AixLevel, AixScale, Scsi2Level, Scsi2Scale
<1> QED
  BY <1>6, <1>7, <1>8, <1>9 DEF Level, Known

\* A higher setting is at least as loud.  One below 0 only turns up where the
\* other is at the end of the slider.
LEMMA LevelMonotone ==
  ASSUME driver \in Known \ {"aix", "digital"}, NEW a \in Int, NEW b \in Int, a <= b, b <= 100,
         a >= 0 \/ b = 100
  PROVE  Level(a) <= Level(b)
<1>1. /\ Linear(a, 0, 255) \in Int /\ Linear(a, 0, 255) <= Linear(b, 0, 255)
      /\ Linear(b, 0, 255) \in Int /\ Linear(b, 0, 255) <= 255
      /\ a >= 0 => Linear(a, 0, 255) >= 0
      /\ Linear(a, 10, 255) \in Int /\ Linear(a, 10, 255) <= Linear(b, 10, 255)
      /\ Linear(b, 10, 255) \in Int
      /\ Linear(100, 0, 255) = 255
  BY LinearScale
<1>2. Linear(Larger(0, a), 10, 255) <= Linear(Larger(0, b), 10, 255)
  <2> DEFINE x == Larger(0, a)
             y == Larger(0, b)
  <2>1. x \in Int /\ y \in Int /\ x <= y
    BY DEF Larger
  <2> HIDE DEF x, y
  <2>2. Linear(x, 10, 255) <= Linear(y, 10, 255)
    BY <2>1, LinearScale
  <2> QED
    BY <2>2 DEF x, y
<1>3. \A m, n \in Int : m <= n => Clamp(m, 0, 255) <= Clamp(n, 0, 255)
  BY DEF Clamp, Larger, Smaller
<1>4. /\ Osf1Scale(a) \in Int /\ Osf1Scale(a) <= Osf1Scale(b) /\ Osf1Scale(b) \in Int
      /\ UltrixScale(a) \in Int /\ UltrixScale(a) <= UltrixScale(b) /\ UltrixScale(b) \in Int
      /\ SonyScale(a) \in Int /\ SonyScale(a) <= SonyScale(b) /\ SonyScale(b) \in Int
      /\ ToshibaScale(a) \in Int /\ ToshibaScale(a) <= ToshibaScale(b) /\ ToshibaScale(b) \in Int
  BY CurvedScale
<1>5. /\ LinuxLevel(a) <= LinuxLevel(b) /\ ToshibaLevel(a) <= ToshibaLevel(b)
      /\ SonyLevel(a) <= SonyLevel(b) /\ Osf1Level(a) <= Osf1Level(b)
      /\ UltrixLevel(a) <= UltrixLevel(b)
  BY <1>1, <1>3, <1>4
     DEF LinuxLevel, LinuxScale, ToshibaLevel, SonyLevel, Osf1Level, UltrixLevel
<1>6. FreebsdLevel(a) <= FreebsdLevel(b) /\ IrixLevel(a) <= IrixLevel(b)
  BY <1>1 DEF FreebsdLevel, FreebsdScale, IrixLevel, IrixScale, Larger
<1>7. OpenbsdLevel(a) <= OpenbsdLevel(b)
  BY <1>2 DEF OpenbsdLevel, OpenbsdScale
<1>8. Scsi2Level(a) <= Scsi2Level(b)
  <2> DEFINE x == Linear(a, 0, 255)
             y == Linear(b, 0, 255)
  <2>1. Scsi2Level(a) = x % 256 /\ Scsi2Level(b) = y % 256
    BY DEF Scsi2Level, Scsi2Scale
  <2>2. x \in Int /\ y \in Int /\ x <= y /\ y <= 255 /\ (x >= 0 \/ y = 255)
    BY <1>1
  <2> HIDE DEF x, y
  <2> QED
    BY <2>1, <2>2
<1> QED
  BY <1>5, <1>6, <1>7, <1>8 DEF Level, Known

\* The curves that are searched do not fall.
LEMMA CurvesRise ==
  /\ NonFalling(FreebsdCurve) /\ NonFalling(OpenbsdCurve)
  /\ NonFalling(Osf1Curve) /\ NonFalling(UltrixCurve) /\ NonFalling(SonyCurve)
<1>1. ASSUME NEW a \in 0 .. 100, NEW b \in 0 .. 100, a <= b
      PROVE  /\ FreebsdScale(a) \in Int /\ FreebsdScale(a) <= FreebsdScale(b)
             /\ OpenbsdScale(a) \in Int /\ OpenbsdScale(a) <= OpenbsdScale(b)
  BY <1>1, LinearScale DEF FreebsdScale, OpenbsdScale
<1>2. ASSUME NEW a \in 0 .. 100, NEW b \in 0 .. 100, a <= b
      PROVE  /\ Osf1Scale(a) \in Int /\ Osf1Scale(a) <= Osf1Scale(b)
             /\ UltrixScale(a) \in Int /\ UltrixScale(a) <= UltrixScale(b)
             /\ SonyScale(a) \in Int /\ SonyScale(a) <= SonyScale(b)
  BY <1>2, CurvedScale
<1>3. NonFalling(FreebsdCurve)
  <2>1. \A x \in 0 .. 100 : FreebsdCurve[x] = FreebsdScale(x)
    BY DEF FreebsdCurve
  <2>2. FreebsdCurve \in [0 .. 100 -> Int]
    BY <1>1 DEF FreebsdCurve
  <2> QED
    BY <1>1, <2>1, <2>2 DEF NonFalling
<1>4. NonFalling(OpenbsdCurve)
  <2>1. \A x \in 0 .. 100 : OpenbsdCurve[x] = OpenbsdScale(x)
    BY DEF OpenbsdCurve
  <2>2. OpenbsdCurve \in [0 .. 100 -> Int]
    BY <1>1 DEF OpenbsdCurve
  <2> QED
    BY <1>1, <2>1, <2>2 DEF NonFalling
<1>5. NonFalling(Osf1Curve)
  <2>1. \A x \in 0 .. 100 : Osf1Curve[x] = Osf1Scale(x)
    BY DEF Osf1Curve
  <2>2. Osf1Curve \in [0 .. 100 -> Int]
    BY <1>2 DEF Osf1Curve
  <2> QED
    BY <1>2, <2>1, <2>2 DEF NonFalling
<1>6. NonFalling(UltrixCurve)
  <2>1. \A x \in 0 .. 100 : UltrixCurve[x] = UltrixScale(x)
    BY DEF UltrixCurve
  <2>2. UltrixCurve \in [0 .. 100 -> Int]
    BY <1>2 DEF UltrixCurve
  <2> QED
    BY <1>2, <2>1, <2>2 DEF NonFalling
<1>7. NonFalling(SonyCurve)
  <2>1. \A x \in 0 .. 100 : SonyCurve[x] = SonyScale(x)
    BY DEF SonyCurve
  <2>2. SonyCurve \in [0 .. 100 -> Int]
    BY <1>2 DEF SonyCurve
  <2> QED
    BY <1>2, <2>1, <2>2 DEF NonFalling
<1> QED
  BY <1>3, <1>4, <1>5, <1>6, <1>7

\* The way back leads to settings of the slider, and for a softer level to one at
\* most one higher.
LEMMA UnscaleSettings ==
  ASSUME driver \in Known \ {"aix", "digital"}, NEW a \in 0 .. 255, NEW b \in 0 .. 255, a <= b
  PROVE  /\ Unscale(a) \in 0 .. 100 /\ Unscale(b) \in 0 .. 100
         /\ Unscale(a) <= Unscale(b) + 1
<1>1. /\ LinuxUnscale(a) \in 0 .. 100 /\ LinuxUnscale(b) \in 0 .. 100
      /\ LinuxUnscale(a) <= LinuxUnscale(b)
  BY DEF LinuxUnscale, Quot
<1>2. ASSUME NEW curve, NonFalling(curve)
      PROVE  /\ Search(a, curve) \in 0 .. 100 /\ Search(b, curve) \in 0 .. 100
             /\ Search(a, curve) <= Search(b, curve)
  <2>1. a \in Int /\ b \in Int
    OBVIOUS
  <2>2. curve \in [0 .. 100 -> Int]
    BY <1>2 DEF NonFalling
  <2> QED
    BY <2>1, <2>2, SearchSettings
<1>3. /\ ToshibaUnscale(a) \in 0 .. 100 /\ ToshibaUnscale(b) \in 0 .. 100
      /\ ToshibaUnscale(a) <= ToshibaUnscale(b) + 1
  <2>1. SquareCurve \in [0 .. 100 -> Int] /\ a \in Int /\ b \in Int
    BY DEF SquareCurve
  <2>2. /\ Reaching(a, SquareCurve) \in 0 .. 100 /\ Reaching(b, SquareCurve) \in 0 .. 100
        /\ Reaching(a, SquareCurve) <= Reaching(b, SquareCurve) + 1
    BY <2>1, ReachingSettings
  <2> QED
    BY <2>2 DEF ToshibaUnscale
<1>4. /\ SonyUnscale(a) \in 0 .. 100 /\ SonyUnscale(b) \in 0 .. 100
      /\ SonyUnscale(a) <= SonyUnscale(b) + 1
  <2> DEFINE x == (a * 100 + 254) \div 255
             y == (b * 100 + 254) \div 255
  <2>1. x \in Int /\ y \in Int /\ x <= y
    OBVIOUS
  <2>2. SonyCurve \in [0 .. 100 -> Int]
    BY CurvesRise DEF NonFalling
  <2>3. SonyUnscale(a) = Reaching(x, SonyCurve) /\ SonyUnscale(b) = Reaching(y, SonyCurve)
    BY DEF SonyUnscale
  <2> HIDE DEF x, y
  <2>4. /\ Reaching(x, SonyCurve) \in 0 .. 100 /\ Reaching(y, SonyCurve) \in 0 .. 100
        /\ Reaching(x, SonyCurve) <= Reaching(y, SonyCurve) + 1
    BY <2>1, <2>2, ReachingSettings
  <2> QED
    BY <2>3, <2>4
<1>5. CASE driver \in {"linux", "irix", "scsi2"}
  <2>1. Unscale(a) = LinuxUnscale(a) /\ Unscale(b) = LinuxUnscale(b)
    BY <1>5 DEF Unscale, IrixUnscale, Scsi2Unscale
  <2> QED
    BY <1>1, <2>1
<1>6. CASE driver \in {"freebsd", "openbsd", "osf1", "ultrix"}
  <2>1. PICK curve : /\ NonFalling(curve)
                     /\ Unscale(a) = Search(a, curve) /\ Unscale(b) = Search(b, curve)
    BY <1>6, CurvesRise
       DEF Unscale, FreebsdUnscale, OpenbsdUnscale, Osf1Unscale, UltrixUnscale
  <2> QED
    BY <1>2, <2>1
<1>7. CASE driver \in {"toshiba", "sony"}
  BY <1>3, <1>4, <1>7 DEF Unscale
<1> QED
  BY <1>5, <1>6, <1>7 DEF Known

LEMMA UnscaleSetting ==
  ASSUME driver \in Known \ {"aix", "digital"}, NEW level \in 0 .. 255
  PROVE  Unscale(level) \in 0 .. 100
<1>1. level <= level
  OBVIOUS
<1> QED
  BY <1>1, UnscaleSettings

\* On AIX it leads to a number that is not below 0.
LEMMA UnscaleInt ==
  ASSUME driver \in Known \ {"digital"}, NEW level \in 0 .. 255
  PROVE  Unscale(level) \in Nat
<1>1. CASE driver = "aix"
  BY <1>1 DEF Unscale, AixUnscale, Larger, Quot
<1>2. CASE driver # "aix"
  <2>1. Unscale(level) \in 0 .. 100
    BY <1>2, UnscaleSetting
  <2> QED
    BY <2>1
<1> QED
  BY <1>1, <1>2

(***************************************************************************)
(* The theorems.                                                           *)
(***************************************************************************)

\* The type, and that nothing is read of digital playback.
VolumeInv == TypeOK /\ (driver = "digital" => ~readable)

\* The balance that is read of two levels.
Balance(l, r) == Clamp(Quot(Unscale(r) - Unscale(l), 2), -10, 10)

\* It lies on the side of the louder channel, or in the middle, and so does what
\* is shown of it.
LEMMA BalanceSide ==
  ASSUME driver \in Known \ {"aix", "digital"}, NEW l \in 0 .. 255, NEW r \in 0 .. 255
  PROVE  /\ Balance(l, r) \in -10 .. 10
         /\ l >= r => Balance(l, r) <= 0 /\ ToPercent(Balance(l, r), -10, 10) <= 50
         /\ l <= r => Balance(l, r) >= 0 /\ ToPercent(Balance(l, r), -10, 10) >= 50
<1> DEFINE m == Unscale(l)
           n == Unscale(r)
           b == Balance(l, r)
<1>1. m \in 0 .. 100 /\ n \in 0 .. 100 /\ (l >= r => n <= m + 1) /\ (l <= r => m <= n + 1)
  <2>1. CASE l <= r
    <3>1. m \in 0 .. 100 /\ n \in 0 .. 100 /\ m <= n + 1
      BY <2>1, UnscaleSettings
    <3>2. l >= r => m = n
      BY <2>1
    <3> HIDE DEF m, n
    <3> QED
      BY <2>1, <3>1, <3>2
  <2>2. CASE r <= l /\ ~(l <= r)
    <3>1. m \in 0 .. 100 /\ n \in 0 .. 100 /\ n <= m + 1
      BY <2>2, UnscaleSettings
    <3> HIDE DEF m, n
    <3> QED
      BY <2>2, <3>1
  <2> QED
    BY <2>1, <2>2
<1>2. b = Clamp(Quot(n - m, 2), -10, 10)
  BY DEF Balance
<1> HIDE DEF m, n, b
<1>3. b \in -10 .. 10 /\ (l >= r => b <= 0) /\ (l <= r => b >= 0)
  BY <1>1, <1>2 DEF Clamp, Larger, Smaller, Quot
<1>4. (b <= 0 => ToPercent(b, -10, 10) <= 50) /\ (b >= 0 => ToPercent(b, -10, 10) >= 50)
  BY <1>3 DEF ToPercent, Quot
<1> QED
  BY <1>3, <1>4 DEF b

\* What is read is a number; the balance is one that wm_cd_volume takes, on the
\* side of the louder channel or in the middle.
LEMMA BalanceRead ==
  ASSUME VolumeInv
  PROVE  /\ WmCdGetBalance \in -10 .. 10 /\ WmCdGetVolume \in Int
         /\ driver # "aix" /\ left >= right => WmCdGetBalance <= 0
         /\ driver # "aix" /\ left <= right => WmCdGetBalance >= 0
<1>1. CASE ~readable
  BY <1>1 DEF WmCdGetBalance, WmCdGetVolume
<1>2. CASE readable
  <2> DEFINE l == Unscale(left)
             r == Unscale(right)
  <2>1. l \in Nat /\ r \in Nat
    BY <1>2, KnownDrivers, UnscaleInt DEF VolumeInv, TypeOK
  <2>2. /\ driver # "aix" /\ left >= right => r <= l + 1
        /\ driver # "aix" /\ left <= right => l <= r + 1
    BY <1>2, KnownDrivers, UnscaleSettings DEF VolumeInv, TypeOK
  <2>3. WmCdGetBalance = Clamp(Quot(r - l, 2), -10, 10) /\ WmCdGetVolume = Larger(l, r)
    BY <1>2 DEF WmCdGetBalance, WmCdGetVolume
  <2> HIDE DEF l, r
  <2>4. WmCdGetBalance \in -10 .. 10 /\ WmCdGetVolume \in Int
    BY <2>1, <2>3 DEF Clamp, Larger, Smaller, Quot
  <2>5. /\ r <= l + 1 => WmCdGetBalance <= 0
        /\ l <= r + 1 => WmCdGetBalance >= 0
    BY <2>1, <2>3 DEF Clamp, Larger, Smaller, Quot
  <2> QED
    BY <2>2, <2>4, <2>5
<1> QED
  BY <1>1, <1>2

\* Both slots write the settings of both channels, or none.
LEMMA SlotsWrite ==
  ASSUME VolumeInv, NEW bal \in -10 .. 10, NEW vol \in Int, WmCdVolume(vol, bal)
  PROVE  \E l, r \in Int :
           /\ l <= 100 /\ r <= 100
           /\ bal = 0 => l = Clamp(vol, 0, 100) /\ r = l
           /\ vol >= 0 /\ bal <= 0 => r <= l /\ (r >= 0 \/ l = 100)
           /\ vol >= 0 /\ bal >= 0 => l <= r /\ (l >= 0 \/ r = 100)
           /\ \/ UNCHANGED <<left, right>> /\ (readable => driver = "digital")
              \/ left' = Level(l) /\ right' = Level(r) /\ driver # "digital"
<1> DEFINE centre == Clamp(vol, 0, 100)
           s == Shift(vol, bal)
           l == Smaller(centre - s, 100)
           r == Smaller(centre + s, 100)
<1>1. centre \in 0 .. 100 /\ (vol >= 0 => centre = Smaller(vol, 100))
  BY DEF Clamp, Larger, Smaller
<1>2. /\ s \in Int /\ (bal = 0 => s = 0)
      /\ vol >= 0 /\ bal <= 0 => s <= 0 /\ -s <= vol
      /\ vol >= 0 /\ bal >= 0 => s >= 0 /\ s <= vol
  <2> DEFINE q == Quot(vol, 10)
  <2>1. q \in Int /\ (vol >= 0 => q >= 0 /\ 10 * q <= vol)
    BY DEF Quot
  <2>2. s = bal * q
    BY DEF Shift, Clamp, Larger, Smaller
  <2> HIDE DEF s, q
  <2>3. bal * q \in Int /\ (bal = 0 => bal * q = 0)
    BY <2>1
  <2>4. ASSUME vol >= 0, bal <= 0 PROVE bal * q <= 0 /\ -(bal * q) <= 10 * q
    BY <2>1, <2>4
  <2>5. ASSUME vol >= 0, bal >= 0 PROVE bal * q >= 0 /\ bal * q <= 10 * q
    BY <2>1, <2>5
  <2> QED
    BY <2>1, <2>2, <2>3, <2>4, <2>5
<1>3. \/ UNCHANGED <<left, right>> /\ (readable => driver = "digital")
      \/ left' = Level(l) /\ right' = Level(r) /\ driver # "digital"
  BY DEF WmCdVolume, Sets, CddaSets
<1> HIDE DEF centre, s
<1>4. /\ l \in Int /\ r \in Int /\ l <= 100 /\ r <= 100
      /\ bal = 0 => l = centre /\ r = l
  BY <1>1, <1>2 DEF Smaller
<1>5. vol >= 0 /\ bal <= 0 => r <= l /\ (r >= 0 \/ l = 100)
  BY <1>1, <1>2 DEF Smaller
<1>6. vol >= 0 /\ bal >= 0 => l <= r /\ (l >= 0 \/ r = 100)
  BY <1>1, <1>2 DEF Smaller
<1> HIDE DEF l, r
<1> QED
  BY <1>3, <1>4, <1>5, <1>6 DEF centre

\* The volume and the balance that the slots set.
LEMMA SlotsArguments ==
  /\ \A volume \in Volumes : FromPercent(volume, 0, 100) = volume /\ volume \in Nat
  /\ \A balance \in Balances :
       /\ FromPercent(balance, -10, 10) \in -10 .. 10
       /\ balance <= 50 => FromPercent(balance, -10, 10) <= 0
       /\ balance >= 50 => FromPercent(balance, -10, 10) >= 0
<1>1. ASSUME NEW volume \in Volumes
      PROVE  FromPercent(volume, 0, 100) = volume /\ volume \in Nat
  BY VolumeAssumption DEF FromPercent, VolumeAssumption
<1>2. ASSUME NEW balance \in Balances
      PROVE  /\ FromPercent(balance, -10, 10) \in -10 .. 10
             /\ balance <= 50 => FromPercent(balance, -10, 10) <= 0
             /\ balance >= 50 => FromPercent(balance, -10, 10) >= 0
  <2>1. balance \in 0 .. 100 /\ FromPercent(balance, -10, 10) = (balance * 20) \div 100 - 10
    BY VolumeAssumption DEF FromPercent, VolumeAssumption
  <2> QED
    BY <2>1
<1> QED
  BY <1>1, <1>2

LEMMA VolumeInvariant == VolumeSpec => []VolumeInv
<1>1. VolumeInit => VolumeInv
  BY VolumeAssumption DEF VolumeInit, VolumeInv, TypeOK, VolumeAssumption
<1>2. VolumeInv /\ [VolumeNext]_volumeVars => VolumeInv'
  <2> SUFFICES ASSUME VolumeInv, [VolumeNext]_volumeVars PROVE VolumeInv'
    OBVIOUS
  <2>1. ASSUME NEW bal \in -10 .. 10, NEW vol \in Int, WmCdVolume(vol, bal)
        PROVE  left' \in 0 .. 255 /\ right' \in 0 .. 255
    <3>1. PICK l \in Int, r \in Int :
            /\ l <= 100 /\ r <= 100
            /\ \/ UNCHANGED <<left, right>>
               \/ left' = Level(l) /\ right' = Level(r) /\ driver # "digital"
      BY <2>1, SlotsWrite
    <3>2. CASE UNCHANGED <<left, right>>
      BY <3>2 DEF VolumeInv, TypeOK
    <3>3. CASE left' = Level(l) /\ right' = Level(r) /\ driver # "digital"
      <4>1. driver \in Known \ {"digital"}
        BY <3>3, KnownDrivers DEF VolumeInv, TypeOK
      <4> QED
        BY <3>1, <3>3, <4>1, LevelFits
    <3> QED
      BY <3>1, <3>2, <3>3
  <2>2. ASSUME NEW volume \in Volumes, SetVolume(volume) PROVE VolumeInv'
    <3>1. FromPercent(volume, 0, 100) \in Int
      BY SlotsArguments
    <3>2. left' \in 0 .. 255 /\ right' \in 0 .. 255
      BY <2>1, <2>2, <3>1, BalanceRead DEF SetVolume
    <3> QED
      BY <2>2, <3>2 DEF SetVolume, VolumeInv, TypeOK
  <2>3. ASSUME NEW balance \in Balances, SetBalance(balance) PROVE VolumeInv'
    <3>1. FromPercent(balance, -10, 10) \in -10 .. 10
      BY SlotsArguments
    <3>2. left' \in 0 .. 255 /\ right' \in 0 .. 255
      BY <2>1, <2>3, <3>1, BalanceRead DEF SetBalance
    <3> QED
      BY <2>3, <3>2 DEF SetBalance, VolumeInv, TypeOK
  <2>4. CASE UNCHANGED volumeVars
    BY <2>4 DEF volumeVars, VolumeInv, TypeOK
  <2> QED
    BY <2>2, <2>3, <2>4 DEF VolumeNext
<1> QED
  BY <1>1, <1>2, PTL DEF VolumeSpec

\* The type of the variables is an invariant: a channel is only set to what fits
\* the byte that the drive takes.
THEOREM VolumeTypeCorrect == VolumeSpec => []TypeOK
<1>1. VolumeInv => TypeOK
  BY DEF VolumeInv
<1> QED
  BY <1>1, VolumeInvariant, PTL

\* setVolume() writes the louder channel no softer than the other.
LEMMA SetVolumeSide ==
  ASSUME VolumeInv, driver # "aix", NEW volume \in Volumes, SetVolume(volume)
  PROVE  (left >= right => left' >= right') /\ (left <= right => left' <= right')
<1> DEFINE bal == WmCdGetBalance
<1>1. /\ bal \in -10 .. 10 /\ volume \in Nat /\ WmCdVolume(volume, bal)
      /\ left >= right => bal <= 0
      /\ left <= right => bal >= 0
  BY BalanceRead, SlotsArguments DEF SetVolume
<1> HIDE DEF bal
<1>2. PICK l \in Int, r \in Int :
        /\ l <= 100 /\ r <= 100
        /\ volume >= 0 /\ bal <= 0 => r <= l /\ (r >= 0 \/ l = 100)
        /\ volume >= 0 /\ bal >= 0 => l <= r /\ (l >= 0 \/ r = 100)
        /\ \/ UNCHANGED <<left, right>>
           \/ left' = Level(l) /\ right' = Level(r) /\ driver # "digital"
  BY <1>1, SlotsWrite
<1>3. CASE UNCHANGED <<left, right>>
  BY <1>3
<1>4. CASE left' = Level(l) /\ right' = Level(r) /\ driver # "digital"
  <2>1. driver \in Known \ {"aix", "digital"}
    BY <1>4, KnownDrivers DEF VolumeInv, TypeOK
  <2>2. /\ r <= l /\ (r >= 0 \/ l = 100) => Level(r) <= Level(l)
        /\ l <= r /\ (l >= 0 \/ r = 100) => Level(l) <= Level(r)
    BY <1>2, <2>1, LevelMonotone
  <2>3. Level(l) \in 0 .. 255 /\ Level(r) \in 0 .. 255
    BY <1>2, <2>1, LevelFits
  <2> QED
    BY <1>1, <1>2, <1>4, <2>2, <2>3
<1> QED
  BY <1>2, <1>3, <1>4

\* What setBalance() has set is shown on its side of the middle, or in it.
LEMMA SetBalanceSide ==
  ASSUME VolumeInv, driver # "aix", readable,
         NEW balance \in Balances, SetBalance(balance)
  PROVE  (balance <= 50 => BalanceShown' <= 50) /\ (balance >= 50 => BalanceShown' >= 50)
<1> DEFINE bal == FromPercent(balance, -10, 10)
           vol == WmCdGetVolume
<1>1. driver \in Known \ {"aix", "digital"} /\ left \in 0 .. 255 /\ right \in 0 .. 255
  BY KnownDrivers DEF VolumeInv, TypeOK
<1>2. vol \in 0 .. 100
  <2>1. vol = Larger(Unscale(left), Unscale(right))
    BY DEF WmCdGetVolume
  <2>2. Unscale(left) \in 0 .. 100 /\ Unscale(right) \in 0 .. 100
    BY <1>1, UnscaleSetting
  <2> QED
    BY <2>1, <2>2 DEF Larger
<1>3. /\ bal \in -10 .. 10
      /\ balance <= 50 => bal <= 0
      /\ balance >= 50 => bal >= 0
  BY SlotsArguments
<1>4. WmCdVolume(vol, bal) /\ UNCHANGED <<driver, readable>>
  BY DEF SetBalance
<1> HIDE DEF bal, vol
<1>5. PICK l \in Int, r \in Int :
        /\ l <= 100 /\ r <= 100
        /\ vol >= 0 /\ bal <= 0 => r <= l /\ (r >= 0 \/ l = 100)
        /\ vol >= 0 /\ bal >= 0 => l <= r /\ (l >= 0 \/ r = 100)
        /\ left' = Level(l) /\ right' = Level(r)
  BY <1>1, <1>2, <1>3, <1>4, SlotsWrite
<1>6. /\ r <= l /\ (r >= 0 \/ l = 100) => Level(r) <= Level(l)
      /\ l <= r /\ (l >= 0 \/ r = 100) => Level(l) <= Level(r)
  BY <1>1, <1>5, LevelMonotone
<1>7. left' \in 0 .. 255 /\ right' \in 0 .. 255
  <2>1. Level(l) \in 0 .. 255
    BY <1>1, <1>5, LevelFits
  <2>2. Level(r) \in 0 .. 255
    BY <1>1, <1>5, LevelFits
  <2> QED
    BY <1>5, <2>1, <2>2
<1>8. BalanceShown' = ToPercent(Balance(left', right'), -10, 10)
  BY <1>4 DEF BalanceShown, WmCdGetBalance, Balance, Unscale
<1>9. /\ left' >= right' => ToPercent(Balance(left', right'), -10, 10) <= 50
      /\ left' <= right' => ToPercent(Balance(left', right'), -10, 10) >= 50
  BY <1>1, <1>7, BalanceSide
<1> QED
  BY <1>2, <1>3, <1>5, <1>6, <1>7, <1>8, <1>9

\* Neither slot ever puts the louder side on the other one, however inexactly
\* the balance was read: for every volume, every balance and every level that a
\* drive may be found with.
THEOREM VolumeSideKept == VolumeSpec => SideKept
<1> DEFINE SideHeld ==
             driver # "aix" =>
               /\ \A volume \in Volumes : SetVolume(volume) =>
                    (left >= right => left' >= right') /\ (left <= right => left' <= right')
               /\ readable =>
                    \A balance \in Balances : SetBalance(balance) =>
                      /\ balance <= 50 => BalanceShown' <= 50
                      /\ balance >= 50 => BalanceShown' >= 50
<1>1. VolumeInv => SideHeld
  BY SetVolumeSide, SetBalanceSide
<1>2. VolumeInv /\ [VolumeNext]_volumeVars => [SideHeld]_volumeVars
  BY <1>1
<1>3. VolumeSpec => [][SideHeld]_volumeVars
  BY <1>2, VolumeInvariant, PTL DEF VolumeSpec
<1> QED
  BY <1>3 DEF SideKept

\* What was set on channels that are alike is read back.
LEMMA ReadBack ==
  ASSUME driver \in Known \ {"toshiba", "sony", "aix", "digital"}, NEW c \in 0 .. 100
  PROVE  LET back == Unscale(Level(c))
         IN  IF driver \in {"linux", "irix", "scsi2"} THEN back \in {c, c - 1}
             ELSE Level(back) = Level(c)
<1>1. CASE driver \in {"linux", "irix", "scsi2"}
  <2>1. Linear(c, 0, 255) = (c * 255) \div 100 /\ (c * 255) \div 100 \in 0 .. 255
    BY DEF Linear, Quot
  <2>2. Level(c) = (c * 255) \div 100
    BY <1>1, <2>1 DEF Level, LinuxLevel, LinuxScale, IrixLevel, IrixScale, Scsi2Level,
                      Scsi2Scale, Clamp, Larger, Smaller
  <2>3. \A n \in 0 .. 255 : Unscale(n) = (n * 100) \div 255
    BY <1>1 DEF Unscale, LinuxUnscale, IrixUnscale, Scsi2Unscale, Quot
  <2>4. Unscale(Level(c)) = (((c * 255) \div 100) * 100) \div 255
    BY <2>1, <2>2, <2>3
  <2> QED
    BY <1>1, <2>4
<1>2. CASE driver \in {"freebsd", "openbsd", "osf1", "ultrix"}
  <2>1. PICK curve : /\ NonFalling(curve)
                     /\ \A x \in 0 .. 100 : Level(x) = curve[x]
                     /\ \A n \in 0 .. 255 : Unscale(n) = Search(n, curve)
    <3>1. ASSUME NEW x \in 0 .. 100
          PROVE  /\ FreebsdLevel(x) = FreebsdScale(x) /\ OpenbsdLevel(x) = OpenbsdScale(x)
                 /\ Osf1Level(x) = Osf1Scale(x)
      <4>1. Linear(x, 10, 255) \in Int /\ Linear(x, 10, 255) >= 10 /\ Larger(0, x) = x
        <5>1. x \in Int /\ x <= x /\ x >= 0 /\ Larger(0, x) = x
          BY DEF Larger
        <5> QED
          BY <5>1, LinearScale
      <4>2. /\ Osf1Scale(0) <= Osf1Scale(x) /\ Osf1Scale(x) <= Osf1Scale(100)
            /\ Osf1Scale(x) \in Int
        BY CurvedScale
      <4>3. Osf1Scale(0) = 128 /\ Osf1Scale(100) = 255
        BY DEF Osf1Scale, Quot
      <4>4. FreebsdLevel(x) = FreebsdScale(x) /\ OpenbsdLevel(x) = OpenbsdScale(x)
        BY <4>1 DEF FreebsdLevel, FreebsdScale, OpenbsdLevel, OpenbsdScale, Larger
      <4> QED
        BY <4>2, <4>3, <4>4 DEF Osf1Level, Clamp, Larger, Smaller
    <3>2. CASE driver = "freebsd"
      BY <3>1, <3>2, CurvesRise DEF Level, Unscale, FreebsdUnscale, FreebsdCurve
    <3>3. CASE driver = "openbsd"
      BY <3>1, <3>3, CurvesRise DEF Level, Unscale, OpenbsdUnscale, OpenbsdCurve
    <3>4. CASE driver = "osf1"
      BY <3>1, <3>4, CurvesRise DEF Level, Unscale, Osf1Unscale, Osf1Curve
    <3>5. CASE driver = "ultrix"
      BY <3>1, <3>5, CurvesRise
         DEF Level, Unscale, UltrixUnscale, UltrixCurve, UltrixLevel, UltrixScale, Osf1Level
    <3> QED
      BY <1>2, <3>2, <3>3, <3>4, <3>5
  <2>2. Level(c) \in 0 .. 255
    BY LevelFits
  <2>3. /\ Search(Level(c), curve) \in 0 .. 100
        /\ curve[Search(Level(c), curve)] = Level(c)
    BY <2>1, SearchFinds
  <2> QED
    BY <1>2, <2>1, <2>2, <2>3
<1> QED
  BY <1>1, <1>2 DEF Known

\* A call that sets both channels to c.
LEMMA SetAlike ==
  ASSUME driver \in Known \ {"toshiba", "sony", "aix", "digital"}, readable, NEW c \in 0 .. 100,
         left' = Level(c), right' = Level(c), UNCHANGED <<driver, readable>>
  PROVE  ReadsBack(c)
<1> DEFINE back == Unscale(Level(c))
<1>1. VolumeShown' = ToPercent(Larger(Unscale(left'), Unscale(right')), 0, 100)
  BY DEF VolumeShown, WmCdGetVolume, Unscale
<1>2. back \in 0 .. 100
  <2>1. Level(c) \in 0 .. 255
    BY LevelFits
  <2> QED
    BY <2>1, UnscaleSetting
<1>3. /\ driver \in {"linux", "irix", "scsi2"} => back \in {c, c - 1}
      /\ driver \notin {"linux", "irix", "scsi2"} => Level(back) = Level(c)
  BY ReadBack
<1>4. VolumeShown' = ToPercent(Larger(back, back), 0, 100)
  BY <1>1
<1> HIDE DEF back
<1>5. VolumeShown' = back
  BY <1>2, <1>4 DEF ToPercent, Quot, Larger
<1> QED
  BY <1>3, <1>5 DEF ReadsBack

\* On a drive whose channels are alike, what is set is read back, for every volume
\* and every level that a drive may be found with.
THEOREM VolumeIsReadBack == VolumeSpec => VolumeReadBack
<1> DEFINE Back ==
             readable /\ driver \notin {"toshiba", "sony", "aix"} /\ left = right =>
               /\ \A volume \in Volumes : SetVolume(volume) => ReadsBack(Smaller(volume, 100))
               /\ SetBalance(50) => ReadsBack(VolumeShown)
<1>1. VolumeInv => Back
  <2> SUFFICES ASSUME VolumeInv, readable, driver \notin {"toshiba", "sony", "aix"}, left = right
               PROVE  /\ \A volume \in Volumes :
                           SetVolume(volume) => ReadsBack(Smaller(volume, 100))
                      /\ SetBalance(50) => ReadsBack(VolumeShown)
    OBVIOUS
  <2>1. /\ driver \in Known \ {"toshiba", "sony", "aix", "digital"}
        /\ left \in 0 .. 255 /\ right \in 0 .. 255
    BY KnownDrivers DEF VolumeInv, TypeOK
  <2>2. ASSUME NEW vol \in Nat, WmCdVolume(vol, 0), UNCHANGED <<driver, readable>>
        PROVE  ReadsBack(Smaller(vol, 100))
    <3>1. PICK l \in Int, r \in Int :
            /\ l = Clamp(vol, 0, 100) /\ r = l
            /\ left' = Level(l) /\ right' = Level(r)
      BY <2>1, <2>2, SlotsWrite
    <3>2. l = Smaller(vol, 100) /\ l \in 0 .. 100
      BY <3>1 DEF Clamp, Larger, Smaller
    <3> QED
      BY <2>1, <2>2, <3>1, <3>2, SetAlike
  <2>3. ASSUME NEW volume \in Volumes, SetVolume(volume)
        PROVE  ReadsBack(Smaller(volume, 100))
    <3>1. WmCdGetBalance = 0
      BY <2>1, BalanceRead
    <3> QED
      BY <2>2, <2>3, <3>1, SlotsArguments DEF SetVolume
  <2>4. ASSUME SetBalance(50) PROVE ReadsBack(VolumeShown)
    <3> DEFINE vol == WmCdGetVolume
    <3>1. vol \in 0 .. 100
      <4>1. Unscale(left) \in 0 .. 100 /\ Unscale(right) \in 0 .. 100
        BY <2>1, UnscaleSetting
      <4> QED
        BY <4>1 DEF WmCdGetVolume, Larger
    <3>2. FromPercent(50, -10, 10) = 0
      BY DEF FromPercent
    <3>3. WmCdVolume(vol, 0) /\ UNCHANGED <<driver, readable>>
      BY <2>4, <3>2 DEF SetBalance
    <3>4. VolumeShown = ToPercent(vol, 0, 100)
      BY DEF VolumeShown
    <3> HIDE DEF vol
    <3>5. VolumeShown = vol /\ Smaller(vol, 100) = vol
      BY <3>1, <3>4 DEF ToPercent, Quot, Smaller
    <3>6. ReadsBack(Smaller(vol, 100))
      BY <2>2, <3>1, <3>3
    <3> QED
      BY <3>5, <3>6
  <2> QED
    BY <2>3, <2>4
<1>2. VolumeInv /\ [VolumeNext]_volumeVars => [Back]_volumeVars
  BY <1>1
<1>3. VolumeSpec => [][Back]_volumeVars
  BY <1>2, VolumeInvariant, PTL DEF VolumeSpec
<1> QED
  BY <1>3 DEF VolumeReadBack
===============================================================================

--------------------------- MODULE WmCdromApiProofs ---------------------------
(***************************************************************************)
(* Theorems about WmCdromApi's Spec.                                       *)
(***************************************************************************)
EXTENDS WmCdromApi, WmCdromLemmas

\* The inductive invariant.
IInv ==
  Sound(drive) /\ seen \in BOOLEAN /\ missed \in BOOLEAN /\ asked \in Nat

\* The inductive invariant holds of a drive that has just been opened.
LEMMA ApiInit == Init => IInv
<1>1. ASSUME Init PROVE Sound(drive) /\ asked \in Nat
  BY <1>1, OpenedSound DEF Init
<1>2. ASSUME Init PROVE seen \in BOOLEAN /\ missed \in BOOLEAN
  BY <1>2 DEF Init
<1> QED
  BY <1>1, <1>2 DEF IInv

\* Every call and every change of the drive preserves the inductive invariant.
LEMMA ApiStep == IInv /\ [Next]_vars => IInv'
<1> SUFFICES ASSUME IInv, [Next]_vars PROVE IInv'
  OBVIOUS
<1>1. Sound(drive) /\ seen \in BOOLEAN /\ missed \in BOOLEAN /\ asked \in Nat
  BY DEF IInv
<1>2. missed' \in BOOLEAN
  BY <1>1 DEF Next, Call, Hardware, vars
<1>3. ASSUME NEW t \in Tracks, NEW pos \in Positions,
             NEW end \in {0} \cup {u + 1 : u \in Tracks}, Play(t, pos, end)
      PROVE  Sound(drive') /\ seen' \in BOOLEAN /\ asked' \in Nat
  <2>1. t \in Nat
    BY DiscAssumption DEF Tracks
  <2> QED
    BY <1>1, <1>3, <2>1, PlaySound DEF Play
<1>4. ASSUME Status \/ Pause \/ Stop \/ Eject \/ Closetray
      PROVE  Sound(drive') /\ seen' \in BOOLEAN /\ asked' \in Nat
  <2>1. drive.held \in BOOLEAN
    BY <1>1 DEF Sound, Handle
  <2>2. CASE Status
    BY <1>1, <2>1, <2>2, StatusSound DEF Status
  <2>3. CASE Pause
    BY <1>1, <2>1, <2>3, PauseSound DEF Pause
  <2>4. CASE Stop
    BY <1>1, <2>1, <2>4, StopSound DEF Stop
  <2>5. CASE Eject
    BY <1>1, <2>1, <2>5, TraySound DEF Eject
  <2>6. CASE Closetray
    BY <1>1, <2>1, <2>6, TraySound DEF Closetray
  <2> QED
    BY <1>4, <2>2, <2>3, <2>4, <2>5, <2>6, <2>1
<1>5. CASE Hardware
  <2>1. Moved(drive, drive')
    BY <1>1, <1>5, HardwareMoves DEF Hardware, Sound
  <2> QED
    BY <1>1, <1>2, <1>5, <2>1, MovedSound DEF Hardware, IInv
<1>6. CASE UNCHANGED vars
  BY <1>1, <1>6 DEF vars, IInv
<1>7. CASE Call
  BY <1>2, <1>3, <1>4, <1>7 DEF Call, IInv
<1> QED
  BY <1>5, <1>6, <1>7 DEF Next

\* The inductive invariant: what libworkman knows of the disc is always sound.
THEOREM ApiInvariant == Spec => []IInv
<1> QED
  BY ApiInit, ApiStep, PTL DEF Spec

\* The type of the variables is right.
THEOREM ApiTypeCorrect == Spec => []TypeOK
<1>1. IInv => TypeOK
  BY DEF IInv, Sound, TypeOK
<1> QED
  BY <1>1, ApiInvariant, PTL

\* What wm_cd_status and wm_cd_play look up after a mode with a disc is there: a
\* whole table of contents, and the track that plays is in it, for every set of
\* discs and every sequence of calls, failures and changes of the drive, seen or
\* not.  (What is looked up after WM_CDM_UNKNOWN, and the length of a stopped
\* drive's track, may not be there, and the theorem does not say so.)
THEOREM ApiTocComplete == Spec => []TocComplete
<1>1. ASSUME Sound(drive)
      PROVE  TocComplete
  <2> DEFINE s == WmCdStatus(drive)
             toc == WithToc(drive)
  <2>1. drive \in Handle /\ toc \in Handle
    BY <1>1, WithTocType DEF Sound
  <2>2. Sound(s) /\ s \in Handle
    BY <1>1, StatusSound DEF Sound
  <2>3. /\ s.oldmode = StatusMode(drive) /\ s.curtrack = CurTrack(drive)
        /\ s.trk = toc.trk /\ s.ntracks = toc.ntracks
    <3>1. /\ [toc EXCEPT !.oldmode = StatusMode(drive),
                          !.cur_cdmode = ShownMode(SwitchMode(drive), @),
                          !.curtrack = CurTrack(drive)].oldmode = StatusMode(drive)
          /\ [toc EXCEPT !.oldmode = StatusMode(drive),
                          !.cur_cdmode = ShownMode(SwitchMode(drive), @),
                          !.curtrack = CurTrack(drive)].curtrack = CurTrack(drive)
          /\ [toc EXCEPT !.oldmode = StatusMode(drive),
                          !.cur_cdmode = ShownMode(SwitchMode(drive), @),
                          !.curtrack = CurTrack(drive)].trk = toc.trk
          /\ [toc EXCEPT !.oldmode = StatusMode(drive),
                          !.cur_cdmode = ShownMode(SwitchMode(drive), @),
                          !.curtrack = CurTrack(drive)].ntracks = toc.ntracks
      BY <2>1 DEF Handle
    <3> QED
      BY <3>1 DEF WmCdStatus
  <2> HIDE DEF s, toc
  <2>4. ASSUME SwitchMode(drive) \in {"PLAYING", "PAUSED", "STOPPED"}
        PROVE  HoldsToc(s)
    <3>1. StatusMode(drive) \in {"PLAYING", "PAUSED", "STOPPED"}
      BY <2>4 DEF SwitchMode, Parked
    <3> QED
      BY <2>2, <2>3, <3>1 DEF Sound, Known, DiscReady
  <2>5. PlayReads(s) # {} => HoldsToc(s)
    <3>1. SUFFICES ASSUME PlayReads(s) # {} PROVE HoldsToc(s)
      OBVIOUS
    <3>2. ~NoDiscMode(s.cur_cdmode) /\ 1 .. s.ntracks # {}
      BY <3>1 DEF PlayReads
    <3>3. s.ntracks \in Nat
      BY <2>2 DEF Handle
    <3>4. s.ntracks >= 1
      BY <3>2, <3>3
    <3> QED
      BY <2>2, <3>2, <3>4 DEF Sound, Known
  <2>6. ASSUME SwitchMode(drive) \in {"PLAYING", "PAUSED"}
        PROVE  s.curtrack \in 1 .. s.ntracks
    <3>1. HoldsToc(s)
      BY <2>4, <2>6
    <3>2. toc.trk \in Discs /\ s.ntracks = LastTrack(toc.trk)
      BY <2>3, <3>1 DEF HoldsToc
    <3>3. TrackAt(toc.trk, drive.head) \in 1 .. LastTrack(toc.trk)
      BY <2>1, <3>2, TrackAtType DEF Handle
    <3>4. CurTrack(drive) = TrackAt(toc.trk, drive.head)
      BY <2>6 DEF CurTrack, SwitchMode, toc
    <3> QED
      BY <2>3, <3>2, <3>3, <3>4
  <2>7. StatusReads(drive) \subseteq 1 .. s.ntracks
    <3>1. s.ntracks \in Nat
      BY <2>2 DEF Handle
    <3>2. CASE SwitchMode(drive) \in {"PLAYING", "PAUSED"}
      <4>1. StatusReads(drive) = (2 .. s.ntracks) \cup {s.curtrack}
        BY <3>2 DEF StatusReads, s
      <4> QED
        BY <2>6, <3>1, <3>2, <4>1
    <3>3. CASE SwitchMode(drive) = "STOPPED"
      <4>1. StatusReads(drive) = {s.curtrack} \cap 1 .. s.ntracks
        BY <3>3 DEF StatusReads, s
      <4> QED
        BY <4>1
    <3>4. CASE SwitchMode(drive) \notin {"PLAYING", "PAUSED", "STOPPED"}
      <4>1. StatusReads(drive) = {}
        BY <3>4 DEF StatusReads
      <4> QED
        BY <4>1
    <3> QED
      BY <3>2, <3>3, <3>4
  <2> QED
    BY <2>4, <2>5, <2>7 DEF TocComplete, s
<1>2. IInv => TocComplete
  BY <1>1 DEF IInv
<1> QED
  BY <1>2, ApiInvariant, PTL

(***************************************************************************)
(* While every change of the drive is looked at, the table of contents is  *)
(* that of the disc in the drive: after a change it still is (Fresh), and  *)
(* after a look the disc is ready as well (Current), so that the next      *)
(* change cannot be another disc.                                          *)
(***************************************************************************)
FreshInv == IInv /\ (~missed => Fresh(drive) /\ (seen => Current(drive)))

\* A drive just opened has the table of contents of its disc.
LEMMA FreshInit == Init => FreshInv
<1>1. Init => IInv /\ Current(drive)
  BY ApiInit, OpenedCurrent DEF Init
<1> QED
  BY <1>1 DEF FreshInv, Fresh, Current

\* Every call, and every change of the drive a call looks at, keeps the table of
\* contents that of the disc in the drive.
LEMMA FreshStep == FreshInv /\ [Next]_vars => FreshInv'
<1> SUFFICES ASSUME FreshInv, [Next]_vars, ~missed'
             PROVE  Fresh(drive') /\ (seen' => Current(drive'))
  BY ApiStep DEF FreshInv, Fresh, Current, DiscReady, Ready, Loaded
<1>1. Sound(drive) /\ missed \in BOOLEAN
  BY DEF FreshInv, IInv
<1>2. \A d : Current(d) => Fresh(d)
  BY DEF Current, Fresh
<1>3. CASE Call
  <2>1. Fresh(drive) /\ (seen => Current(drive))
    BY <1>3 DEF Call, FreshInv
  <2>2. ASSUME NEW t, NEW pos, NEW end, Play(t, pos, end)
        PROVE  Current(drive')
    BY <1>1, <2>1, <2>2, PlayCurrent DEF Play
  <2>3. CASE Status
    BY <1>1, <1>2, <2>1, <2>3, StatusCurrent DEF Status
  <2>4. CASE Pause
    BY <1>1, <1>2, <2>1, <2>4, PauseCurrent DEF Pause
  <2>5. CASE Stop
    BY <1>1, <1>2, <2>1, <2>5, StopCurrent DEF Stop
  <2>6. CASE Eject /\ drive.held
    BY <2>1, <2>6 DEF Eject, WmCdEject
  <2>7. CASE Eject /\ ~drive.held
    BY <1>1, <1>2, <2>1, <2>7, TrayCurrent DEF Eject
  <2>8. CASE Closetray
    BY <1>1, <1>2, <2>1, <2>8, TrayCurrent DEF Closetray
  <2> QED
    BY <1>2, <1>3, <2>2, <2>3, <2>4, <2>5, <2>6, <2>7, <2>8 DEF Call
<1>4. CASE Hardware
  <2>1. Current(drive) /\ Fresh(drive)
    BY <1>1, <1>4 DEF Hardware, FreshInv
  <2> QED
    BY <1>1, <1>4, <2>1, HardwareFresh DEF Hardware
<1>5. CASE UNCHANGED vars
  BY <1>5 DEF vars, FreshInv, Fresh, Current, DiscReady, Ready, Loaded
<1> QED
  BY <1>3, <1>4, <1>5 DEF Next

\* The calls never use the table of contents of a disc that is no longer in
\* the drive, as long as the drive changes at most once between two calls.
THEOREM ApiTocOfThisDisc == Spec => []TocOfThisDisc
<1>1. FreshInv => TocOfThisDisc
  BY DEF FreshInv, Current, TocOfThisDisc
<1> QED
  BY <1>1, FreshInit, FreshStep, PTL DEF Spec

\* A second wm_cd_status, as timerExpired makes it by way of wm_cd_get_cdtext,
\* finds nothing to change: the tables and modes the first has left, a failed
\* read_toc among them, are what it finds again.
THEOREM ApiStatusStable == Spec => []StatusStable
<1>1. IInv => StatusStable
  BY StatusAgain DEF IInv, StatusStable
<1> QED
  BY <1>1, ApiInvariant, PTL

(***************************************************************************)
(* What a call to play has started.  The frames it asks for are in the     *)
(* track unless that is shorter than a second, or the position is behind   *)
(* its end: then wm_cd_play moves the start back, perhaps to the track     *)
(* before.  (A track of an audio CD lasts four seconds or more.)           *)
(***************************************************************************)
TracksLast ==
  \A c \in Discs : DataTracks[c] = {} =>
    \A t \in 1 .. LastTrack(c) :
      /\ TrackStart[c][t + 1] - TrackStart[c][t] >= 76
      /\ \A pos \in Positions : TrackStart[c][t] + 75 * pos < TrackStart[c][t + 1]

AskedInv == FreshInv /\ Heard(drive) /\ PlaysAskedTrack

\* A drive just opened was asked for nothing.
LEMMA AskedInit == Init => AskedInv
<1>1. Init => FreshInv /\ Sane(drive)
  BY FreshInit, OpenedSane DEF Init
<1>2. Init => PlaysAskedTrack
  BY DEF Init, PlaysAskedTrack
<1> QED
  BY <1>1, <1>2 DEF AskedInv, Sane

\* Only a call to play asks for a track, and it is the one that is heard.
LEMMA AskedStep ==
  ASSUME TracksLast, AskedInv, [Next]_vars
  PROVE  AskedInv'
<1>1. FreshInv' /\ Sane(drive) /\ (~missed => Fresh(drive))
  BY FreshStep DEF AskedInv, FreshInv, IInv, Sane
<1>2. ASSUME NEW t \in Tracks, NEW pos \in Positions,
             NEW end \in {0} \cup {u + 1 : u \in Tracks}, Play(t, pos, end),
             missed' = missed
      PROVE  Heard(drive') /\ PlaysAskedTrack'
  <2>1. drive' = WmCdPlay(drive, t, pos, end) /\ end \in {0, t + 1} /\ pos \in Nat /\ t \in Nat
    BY <1>2, ApiAssumption, DiscAssumption DEF Play, Tracks
  <2>2. Heard(drive')
    BY <1>1, <2>1, PlaySane DEF Sane
  <2>3. SUFFICES ASSUME asked' # 0, ~missed', asked' \in AudioTracks(drive'.disc),
                        DataTracks[drive'.disc] = {}
                 PROVE  TrackAt(drive'.disc, drive'.head) = asked'
    BY <2>2 DEF PlaysAskedTrack
  <2>4. drive'.audio = "play" /\ asked' = t
    BY <1>2, <2>3 DEF Play
  <2>5. drive'.disc \in Discs =>
          \A u \in 1 .. LastTrack(drive'.disc) :
            /\ TrackStart[drive'.disc][u + 1] - TrackStart[drive'.disc][u] >= 76
            /\ TrackStart[drive'.disc][u] + 75 * pos < TrackStart[drive'.disc][u + 1]
    BY <2>3 DEF TracksLast
  <2>6. Fresh(drive)
    BY <1>1, <1>2, <2>3
  <2>7. t \in AudioTracks(drive'.disc)
    BY <2>3, <2>4
  <2>8. HeadIn(drive', t, pos)
    BY <1>1, <2>1, <2>3, <2>4, <2>5, <2>6, <2>7, PlayStarts
  <2> QED
    BY <2>4, <2>8 DEF HeadIn
<1>3. ASSUME asked' = 0 PROVE PlaysAskedTrack'
  BY <1>3 DEF PlaysAskedTrack
<1>4. CASE Status
  BY <1>1, <1>3, <1>4, StatusSane DEF Status, AskedInv, Sane
<1>5. CASE Pause
  BY <1>1, <1>3, <1>5, PauseSane DEF Pause, AskedInv, Sane
<1>6. CASE Stop
  BY <1>1, <1>3, <1>6, StopSilences DEF Stop, AskedInv, Sane
<1>7. CASE Eject
  BY <1>1, <1>3, <1>7, EjectSane DEF Eject, AskedInv, Sane
<1>8. CASE Closetray
  BY <1>1, <1>3, <1>8, CloseTraySane DEF Closetray, AskedInv, Sane
<1>9. CASE Hardware
  BY <1>1, <1>3, <1>9, HardwareSane DEF Hardware, AskedInv, Sane
<1>10. CASE UNCHANGED vars
  BY <1>1, <1>10 DEF vars, AskedInv, PlaysAskedTrack, Heard, Ready, Loaded
<1> QED
  BY <1>1, <1>2, <1>4, <1>5, <1>6, <1>7, <1>8, <1>9, <1>10 DEF Next, Call, AskedInv

\* A client that looks at every change of the drive hears the track it has asked
\* wm_cd_play for, on every audio disc whose tracks last, whatever was shown,
\* played, failed or swapped before: among others the refusal of an ioctl
\* never leaves the track of an earlier call playing.
THEOREM ApiPlaysAskedTrack ==
  ASSUME TracksLast
  PROVE  Spec => []PlaysAskedTrack
<1>1. AskedInv /\ [Next]_vars => AskedInv'
  BY AskedStep
<1>2. AskedInv => PlaysAskedTrack
  BY DEF AskedInv
<1> QED
  BY <1>1, <1>2, AskedInit, PTL DEF Spec
=============================================================================

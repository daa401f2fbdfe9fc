--------------------------- MODULE InterfaceProofs ---------------------------
(***************************************************************************)
(* Whatever the handlers of the signals do, and however many devices an    *)
(* object is moved to: each implementation keeps one timer, what the       *)
(* handlers were told is what the getters give, the URL stays that of the  *)
(* device that was opened, and each device is a Player.                    *)
(***************************************************************************)
EXTENDS Interface, FiniteSetTheorems, TLAPS

(***************************************************************************)
(* Types.                                                                  *)
(***************************************************************************)
Modes    == {"NoDisc", "Stopped", "Playing", "Paused"}
Statuses == Modes \cup {"Ejected", "Error"}
Signals  == {"created", "moving", "status", "disc", "position", "track"}

DriveFields == [slot : BOOLEAN, tray : {"closed", "ejected", "opened"}, mode : Modes,
                at : Nat, seen : Statuses, ready : BOOLEAN, read : BOOLEAN, curtrack : Nat]

\* Only a disc that was found is played, so that the status of one that plays is
\* always seen, and stop() never misses it.
DriveSet ==
  {h \in DriveFields : h.mode \in {"Playing", "Paused"} => h.tray = "closed" /\ h.ready}
ImplSet  == [m_deviceName : Devices \cup {NoDevice}, m_status : Statuses,
             m_statusExpected : Statuses, m_track : Nat, m_tracks : Nat,
             m_playlist : Seq(Nat)]
Frames   == [dev : Devices, at : Signals, status : Statuses]

DrivesType == drives \in [Devices -> DriveSet]
ImplType   == impl \in [Devices -> ImplSet]
ToldType   == told \in [Devices -> [status : Statuses, tracks : Nat]]
CallType   == timer \in [Devices -> BOOLEAN] /\ stack \in Seq(Frames)
MovesType  ==
  {opened, plugged} \subseteq SUBSET Devices /\ current \in Devices \cup {NoDevice}

Types == DrivesType /\ ImplType /\ ToldType /\ CallType /\ MovesType

(***************************************************************************)
(* The stack.                                                              *)
(***************************************************************************)
CallsOf(s, d) == {k \in DOMAIN s : s[k].dev = d /\ s[k].at # "moving"}

\* The number of calls of device d on the stack s that will start its timer.
Due(s, d) == Cardinality(CallsOf(s, d))

One(b) == IF b THEN 1 ELSE 0

\* A call on top of others.
LEMMA Pushed ==
  ASSUME NEW S, NEW s \in Seq(S), NEW f \in S
  PROVE  /\ Append(s, f) \in Seq(S)
         /\ Len(s) \in Nat /\ DOMAIN s = 1 .. Len(s)
         /\ DOMAIN Append(s, f) = 1 .. Len(s) + 1
         /\ Append(s, f)[Len(s) + 1] = f
         /\ \A k \in 1 .. Len(s) : Append(s, f)[k] = s[k]
  OBVIOUS

\* The calls below the one on top.
LEMMA Popped ==
  ASSUME NEW S, NEW s \in Seq(S), s # << >>
  PROVE  /\ Front(s) \in Seq(S) /\ Last(s) \in S
         /\ Len(s) \in Nat \ {0} /\ DOMAIN s = 1 .. Len(s)
         /\ DOMAIN Front(s) = 1 .. Len(s) - 1
         /\ s[Len(s)] = Last(s)
         /\ \A k \in 1 .. Len(s) - 1 : Front(s)[k] = s[k]
  BY DEF Front, Last

LEMMA CallsFinite ==
  ASSUME NEW S, NEW s \in Seq(S), NEW d
  PROVE  IsFiniteSet(CallsOf(s, d)) /\ Due(s, d) \in Nat
<1>1. IsFiniteSet(1 .. Len(s))
  BY FS_Interval
<1>2. CallsOf(s, d) \in SUBSET (1 .. Len(s))
  BY DEF CallsOf
<1> QED
  BY <1>1, <1>2, FS_Subset, FS_CardinalityType DEF Due

LEMMA PushedDue ==
  ASSUME NEW S, NEW s \in Seq(S), NEW f \in S, NEW d
  PROVE  Due(Append(s, f), d) = Due(s, d) + One(f.dev = d /\ f.at # "moving")
<1> DEFINE t == Append(s, f)
           n == Len(s) + 1
<1>1. /\ DOMAIN s = 1 .. Len(s) /\ Len(s) \in Nat /\ DOMAIN t = 1 .. n /\ t[n] = f
      /\ \A k \in 1 .. Len(s) : t[k] = s[k]
  BY Pushed
<1> HIDE DEF t
<1>2. CallsOf(t, d)
        = IF f.dev = d /\ f.at # "moving" THEN CallsOf(s, d) \cup {n} ELSE CallsOf(s, d)
  BY <1>1 DEF CallsOf
<1>3. n \notin CallsOf(s, d)
  BY <1>1 DEF CallsOf
<1>4. IsFiniteSet(CallsOf(s, d)) /\ Due(s, d) \in Nat
  BY CallsFinite
<1>5. Cardinality(CallsOf(s, d) \cup {n}) = Due(s, d) + 1
  BY <1>3, <1>4, FS_AddElement DEF Due
<1> QED
  BY <1>2, <1>4, <1>5 DEF Due, One, t

LEMMA PoppedDue ==
  ASSUME NEW S, NEW s \in Seq(S), s # << >>, NEW d
  PROVE  Due(s, d) = Due(Front(s), d) + One(Last(s).dev = d /\ Last(s).at # "moving")
<1>1. Front(s) \in Seq(S) /\ Last(s) \in S
  BY Popped
<1>2. s = Append(Front(s), Last(s))
  BY DEF Front, Last
<1> QED
  BY <1>1, <1>2, PushedDue

\* A call on the stack is due.
LEMMA NotDue ==
  ASSUME NEW S, NEW s \in Seq(S), NEW k \in DOMAIN s, Due(s, s[k].dev) = 0
  PROVE  s[k].at = "moving"
<1>1. CallsOf(s, s[k].dev) = {}
  BY CallsFinite, FS_EmptySet DEF Due
<1> QED
  BY <1>1 DEF CallsOf

(***************************************************************************)
(* The invariant.                                                          *)
(***************************************************************************)
\* What the handlers of the call f were told is what f leaves to be shown: only
\* the status of a discStatusChanged is not assigned yet.
Announced(f) ==
  f.at # "moving" =>
    told[f.dev] = [status |-> IF f.at = "status" THEN f.status ELSE impl[f.dev].m_status,
                   tracks |-> impl[f.dev].m_tracks]

AllAnnounced(frames) == \A k \in DOMAIN frames : Announced(frames[k])

\* A device is opened under a name that is listed, or for want of another.
HasList == opened # {} => listed # {}

Agreed(d) == told[d] = [status |-> impl[d].m_status, tracks |-> impl[d].m_tracks]

IInv == Types /\ TimerKept /\ ToldRight /\ AllAnnounced(stack) /\ UrlOfOpened /\ HasList

\* The call of device d that runs above frames is the one that will start its
\* timer.
Runs(d, frames) ==
  /\ d \in opened /\ Due(frames, d) = 0
  /\ \A e \in Devices \ {d} : Due(frames, e) + One(timer[e]) = One(e \in opened)

LEMMA DueKept == TimerKept <=> \A d \in Devices : Due(stack, d) + One(timer[d]) = One(d \in opened)
  BY DEF TimerKept, Calls, CallsOf, Due, One

LEMMA DueKeptNext ==
  TimerKept' <=> \A d \in Devices : Due(stack', d) + One(timer'[d]) = One(d \in opened')
  BY DEF TimerKept, Calls, CallsOf, Due, One

\* A timer that expires runs alone for its device.
LEMMA ExpiredRuns ==
  ASSUME IInv, NEW d \in Devices, timer[d]
  PROVE  Runs(d, stack)
<1>1. \A e \in Devices : Due(stack, e) + One(timer[e]) = One(e \in opened)
  BY DueKept DEF IInv
<1>2. Due(stack, d) \in Nat
  BY CallsFinite DEF IInv, Types, CallType
<1> QED
  BY <1>1, <1>2 DEF Runs, One

\* So does a call whose handlers have returned.
LEMMA ReturnedRuns ==
  ASSUME IInv, stack # << >>, Last(stack).at # "moving"
  PROVE  /\ Runs(Top, Below) /\ Top \in Devices
         /\ Below \in Seq(Frames) /\ AllAnnounced(Below) /\ Announced(Last(stack))
<1>1. stack \in Seq(Frames)
  BY DEF IInv, Types, CallType
<1>2. /\ Below \in Seq(Frames) /\ Last(stack) \in Frames
      /\ Len(stack) \in DOMAIN stack /\ Last(stack) = stack[Len(stack)]
      /\ DOMAIN Below \subseteq DOMAIN stack
      /\ \A k \in DOMAIN Below : Below[k] = stack[k]
  BY <1>1, Popped DEF Below
<1>3. Top \in Devices
  BY <1>2 DEF Frames, Top
<1>4. \A e \in Devices : Due(stack, e) + One(timer[e]) = One(e \in opened)
  BY DueKept DEF IInv
<1>5. \A e \in Devices : Due(Below, e) \in Nat
  BY <1>2, CallsFinite
<1>6. \A e \in Devices : Due(stack, e) = Due(Below, e) + One(e = Top)
  BY <1>1, PoppedDue DEF Below, Top, One
<1>7. Runs(Top, Below)
  BY <1>3, <1>4, <1>5, <1>6 DEF Runs, One
<1>8. AllAnnounced(Below) /\ Announced(Last(stack))
  BY <1>2 DEF IInv, AllAnnounced
<1> QED
  BY <1>2, <1>3, <1>7, <1>8

(***************************************************************************)
(* How a poll goes on.                                                     *)
(***************************************************************************)
\* Device d is left as i, and the others and what is said of them as they were.
Leaves(d, i) ==
  /\ impl' = [impl EXCEPT ![d] = i]
  /\ told' \in [Devices -> [status : Statuses, tracks : Nat]]
  /\ \A e \in Devices \ {d} : told'[e] = told[e]

Says(d, status, tracks) == told'[d] = [status |-> status, tracks |-> tracks]

Kept == ImplType' /\ ToldType' /\ CallType' /\ TimerKept' /\ ToldRight' /\ AllAnnounced(stack)'

\* The calls below one that is done with are those of other devices.
LEMMA BelowAnnounced ==
  ASSUME Types, NEW d \in Devices, NEW frames \in Seq(Frames), Runs(d, frames),
         AllAnnounced(frames), NEW i \in ImplSet, Leaves(d, i)
  PROVE  AllAnnounced(frames)'
<1> SUFFICES ASSUME NEW k \in DOMAIN frames, frames[k].at # "moving"
             PROVE  Announced(frames[k])'
  BY DEF AllAnnounced, Announced
<1>1. frames[k] \in Frames
  OBVIOUS
<1>2. frames[k].dev \in Devices \ {d}
  BY <1>1, NotDue DEF Runs, Frames
<1>3. /\ told'[frames[k].dev] = told[frames[k].dev]
      /\ impl'[frames[k].dev] = impl[frames[k].dev]
  BY <1>2 DEF Leaves, Types, ImplType
<1> QED
  BY <1>3 DEF AllAnnounced, Announced

LEMMA EndsKeeps ==
  ASSUME Types, ToldRight, NEW d \in Devices, NEW frames \in Seq(Frames), Runs(d, frames),
         AllAnnounced(frames), NEW i \in ImplSet, Leaves(d, i),
         Says(d, i.m_status, i.m_tracks), Ends(d, i, frames), UNCHANGED opened
  PROVE  Kept
<1>1. ImplType' /\ ToldType' /\ CallType'
  BY DEF Types, ImplType, ToldType, CallType, Leaves, Ends
<1>2. \A e \in Devices : Due(stack', e) + One(timer'[e]) = One(e \in opened')
  BY DEF Runs, Ends, Types, CallType, One
<1>3. ToldRight'
  BY DEF ToldRight, Ends, Leaves, Says, Types, CallType, ImplType
<1>4. AllAnnounced(stack)'
  BY BelowAnnounced DEF Ends, AllAnnounced, Announced
<1> QED
  BY <1>1, <1>2, <1>3, <1>4, DueKeptNext DEF Kept

LEMMA EmitsKeeps ==
  ASSUME Types, ToldRight, NEW d \in Devices, NEW frames \in Seq(Frames), Runs(d, frames),
         AllAnnounced(frames), NEW i \in ImplSet, Leaves(d, i),
         NEW at \in Signals \ {"moving"}, NEW status \in Statuses,
         Says(d, IF at = "status" THEN status ELSE i.m_status, i.m_tracks),
         Emits(d, i, frames, at, status), UNCHANGED opened
  PROVE  Kept
<1> DEFINE f == [dev |-> d, at |-> at, status |-> status]
<1>1. f \in Frames
  BY DEF Frames
<1>2. /\ stack' = Append(frames, f) /\ stack' \in Seq(Frames)
      /\ DOMAIN frames = 1 .. Len(frames) /\ Len(frames) \in Nat
      /\ DOMAIN stack' = 1 .. Len(frames) + 1 /\ stack'[Len(frames) + 1] = f
      /\ \A k \in 1 .. Len(frames) : stack'[k] = frames[k]
  BY <1>1, Pushed DEF Emits
<1>3. ImplType' /\ ToldType' /\ CallType'
  BY <1>2 DEF Types, ImplType, ToldType, CallType, Leaves, Emits
<1>4. \A e \in Devices : Due(stack', e) = Due(frames, e) + One(e = d)
  BY <1>1, <1>2, PushedDue DEF One
<1>5. \A e \in Devices : Due(stack', e) + One(timer'[e]) = One(e \in opened')
  <2>1. ASSUME NEW e \in Devices \ {d}
        PROVE  Due(stack', e) + One(timer'[e]) = One(e \in opened')
    <3>1. timer'[e] = timer[e] /\ Due(frames, e) \in Nat
      BY CallsFinite DEF Emits, Types, CallType
    <3>2. Due(stack', e) = Due(frames, e)
      BY <1>4, <3>1 DEF One
    <3> QED
      BY <3>1, <3>2 DEF Runs
  <2>2. Due(stack', d) + One(timer'[d]) = One(d \in opened')
    BY <1>4 DEF Runs, Emits, Types, CallType, One
  <2> QED
    BY <2>1, <2>2
<1>6. ToldRight'
  BY DEF ToldRight, Emits, Leaves, Types, CallType, ImplType
<1>7. AllAnnounced(frames)'
  BY BelowAnnounced
<1>8. Announced(f)'
  BY DEF Announced, Says, Leaves, Types, ImplType
<1>9. AllAnnounced(stack)'
  BY <1>2, <1>7, <1>8 DEF AllAnnounced, Announced
<1> QED
  BY <1>3, <1>5, <1>6, <1>9, DueKeptNext DEF Kept

(***************************************************************************)
(* What libworkman returns is a drive.                                     *)
(***************************************************************************)
LEMMA LookType ==
  ASSUME NEW h \in DriveSet, NEW s \in Look(h)
  PROVE  /\ s \in DriveSet /\ s.mode = h.mode /\ s.tray = h.tray /\ s.seen \in Statuses
         /\ Ready(s) /\ s.read => s.ready
         /\ h.mode \in {"Playing", "Paused"} => s.seen = h.mode
<1>1. h \in DriveFields /\ h.seen \in Statuses /\ h.mode \in Modes /\ h.at \in Nat
      /\ h.curtrack \in Nat
  BY DEF DriveSet, DriveFields
<1>2. h.mode \in {"Playing", "Paused"} => h.tray = "closed" /\ h.ready
  BY DEF DriveSet
<1>3. CASE ~Ready(h)
  <2>1. s = [h EXCEPT !.seen = Absent(h), !.ready = FALSE]
    BY <1>3 DEF Look
  <2>2. Absent(h) \in Statuses
    <3>1. CASE h.tray = "closed"
      BY <3>1 DEF Absent, Statuses, Modes
    <3>2. CASE h.tray # "closed" /\ h.slot
      BY <1>1, <3>2, Zenon DEF Absent
    <3>3. CASE h.tray # "closed" /\ ~h.slot
      BY <3>3 DEF Absent, Statuses
    <3> QED
      BY <3>1, <3>2, <3>3
  <2>3. s \in DriveFields /\ s.mode = h.mode /\ s.tray = h.tray /\ s.seen \in Statuses
    BY <1>1, <2>1, <2>2 DEF DriveFields
  <2>4. h.mode \notin {"Playing", "Paused"} /\ ~Ready(s)
    BY <1>2, <1>3, <2>3 DEF Ready
  <2> QED
    BY <2>3, <2>4 DEF DriveSet
<1>4. CASE Ready(h)
  <2> DEFINE g == Seen(h)
             k == IF h.mode \in {"Playing", "Paused"} THEN h.at ELSE h.curtrack
  <2>1. g = [h EXCEPT !.seen = h.mode, !.ready = TRUE, !.curtrack = k]
    BY DEF Seen
  <2>2. g \in DriveFields /\ g.mode = h.mode /\ g.tray = h.tray /\ g.seen = h.mode /\ g.ready
    BY <1>1, <2>1 DEF DriveFields, Statuses
  <2> HIDE DEF g
  <2>3. CASE h.ready
    <3>1. s = g
      BY <1>4, <2>3 DEF Look, g
    <3> QED
      BY <1>1, <1>4, <2>2, <3>1 DEF DriveSet, Statuses, Ready
  <2>4. CASE ~h.ready
    <3>1. s \in {[g EXCEPT !.read = TRUE], [h EXCEPT !.read = FALSE],
                 [h EXCEPT !.read = FALSE, !.seen = "NoDisc"]}
      BY <1>4, <2>4 DEF Look, g
    <3>2. /\ s \in DriveFields /\ s.mode = h.mode /\ s.tray = h.tray
          /\ s.read => s.ready
      BY <1>1, <2>2, <3>1 DEF DriveFields, Statuses, Modes
    <3> QED
      BY <1>2, <2>4, <3>2 DEF DriveSet, DriveFields
  <2> QED
    BY <2>3, <2>4
<1> QED
  BY <1>3, <1>4

LEMMA SetType ==
  ASSUME NEW h \in DriveSet, NEW m \in Modes, NEW t \in Nat,
         m \in {"Playing", "Paused"} => h.tray = "closed" /\ h.ready
  PROVE  Set(h, m, t) \in DriveSet /\ Set(h, m, t).tray = h.tray /\ Set(h, m, t).mode = m
  BY DEF Set, DriveSet, DriveFields

LEMMA TrayType ==
  ASSUME NEW h \in DriveSet
  PROVE  /\ In(h) \in DriveSet /\ In(h).tray = "closed" /\ In(h).mode = h.mode
         /\ Out(h) \in DriveSet /\ Out(h).mode = "NoDisc"
         /\ Out(h).tray = (IF h.tray = "closed" THEN "ejected" ELSE h.tray)
<1>1. In(h) \in DriveSet /\ In(h).tray = "closed" /\ In(h).mode = h.mode
  BY DEF In, DriveSet, DriveFields
<1> DEFINE g == Set(h, "NoDisc", 0)
<1>2. g \in DriveSet /\ g.tray = h.tray /\ g.mode = "NoDisc"
  BY SetType DEF Modes
<1> HIDE DEF g
<1>3. Out(h) = [g EXCEPT !.tray = IF g.tray = "closed" THEN "ejected" ELSE g.tray]
  BY DEF Out, g
<1> QED
  BY <1>1, <1>2, <1>3 DEF DriveSet, DriveFields

\* What libworkman does to a drive.
Unmoved(g, h) == g.tray = h.tray /\ g.mode = h.mode

LEMMA PlayMoves ==
  ASSUME NEW h \in DriveSet, NEW t \in Nat, NEW g \in WmCdPlay(h, t)
  PROVE  g \in DriveSet /\ g.tray = h.tray /\ g.mode \in {"Playing", h.mode}
<1>1. PICK s \in Look(h) :
        g \in IF ~HasDisc(s.seen) \/ ~s.read THEN {s}
             ELSE Look(IF Ready(s) THEN Set(s, "Playing", t) ELSE s)
  BY DEF WmCdPlay
<1>2. s \in DriveSet /\ s.mode = h.mode /\ s.tray = h.tray /\ (Ready(s) /\ s.read => s.ready)
  BY LookType
<1>3. CASE g = s \/ g \in Look(s)
  BY <1>2, <1>3, LookType
<1>4. CASE s.read /\ Ready(s) /\ g \in Look(Set(s, "Playing", t))
  <2>1. /\ Set(s, "Playing", t) \in DriveSet /\ Set(s, "Playing", t).tray = s.tray
        /\ Set(s, "Playing", t).mode = "Playing"
    BY <1>2, <1>4, SetType DEF Ready, Modes
  <2> QED
    BY <1>2, <1>4, <2>1, LookType
<1> QED
  BY <1>1, <1>3, <1>4

LEMMA StopMoves ==
  ASSUME NEW h \in DriveSet, NEW g \in WmCdStop(h)
  PROVE  g \in DriveSet /\ g.tray = h.tray /\ g.mode # "Playing"
<1>1. PICK s \in Look(h) :
        g \in IF ~HasDisc(s.seen) \/ s.seen = "Stopped" THEN {s} ELSE Look(Halt(s))
  BY DEF WmCdStop
<1>2. /\ s \in DriveSet /\ s.mode = h.mode /\ s.tray = h.tray
      /\ h.mode \in {"Playing", "Paused"} => s.seen = h.mode
  BY LookType
<1>3. CASE g = s /\ (~HasDisc(s.seen) \/ s.seen = "Stopped")
  BY <1>2, <1>3 DEF HasDisc
<1>4. CASE g \in Look(Halt(s))
  <2>1. Halt(s) \in DriveSet /\ Halt(s).tray = s.tray /\ Halt(s).mode # "Playing"
    BY <1>2, SetType DEF Halt, Modes
  <2> QED
    BY <1>2, <1>4, <2>1, LookType
<1> QED
  BY <1>1, <1>3, <1>4

LEMMA PauseMoves ==
  ASSUME NEW h \in DriveSet, NEW g \in WmCdPause(h)
  PROVE  g \in DriveSet /\ g.tray = h.tray
<1>1. PICK s \in Look(h) :
        g = CASE s.seen = s.mode /\ s.mode = "Playing" -> [s EXCEPT !.mode = "Paused"]
              [] s.seen = s.mode /\ s.mode = "Paused"  -> [s EXCEPT !.mode = "Playing"]
              [] OTHER                                 -> s
  BY DEF WmCdPause
<1>2. s \in DriveSet /\ s.tray = h.tray
  BY LookType
<1>3. /\ s.mode = "Playing" => [s EXCEPT !.mode = "Paused"] \in DriveSet
      /\ s.mode = "Paused" => [s EXCEPT !.mode = "Playing"] \in DriveSet
      /\ \A m \in Modes : [s EXCEPT !.mode = m].tray = s.tray
  BY <1>2 DEF DriveSet, DriveFields, Modes
<1> QED
  BY <1>1, <1>2, <1>3 DEF Modes

LEMMA EjectMoves ==
  ASSUME NEW h \in DriveSet, NEW g \in WmCdEject(h)
  PROVE  /\ g \in DriveSet
         /\ \/ Unmoved(g, h)
            \/ /\ g.tray = (IF h.tray = "closed" THEN "ejected" ELSE h.tray)
               /\ g.mode = "NoDisc"
<1>1. CASE g = h
  BY <1>1 DEF Unmoved
<1>2. CASE g \in Look(Out(h))
  BY <1>2, TrayType, LookType
<1> QED
  BY <1>1, <1>2 DEF WmCdEject

LEMMA CloseMoves ==
  ASSUME NEW h \in DriveSet, NEW g \in WmCdCloseTray(h)
  PROVE  g \in DriveSet /\ g.tray \in {h.tray, "closed"} /\ g.mode = h.mode
<1>1. PICK s \in Look(h) : g \in IF s.seen = "NoDisc" THEN {s} ELSE Look(s) \cup Look(In(s))
  BY DEF WmCdCloseTray
<1>2. s \in DriveSet /\ s.mode = h.mode /\ s.tray = h.tray
  BY LookType
<1>3. CASE g = s \/ g \in Look(s)
  BY <1>2, <1>3, LookType
<1>4. CASE g \in Look(In(s))
  BY <1>2, <1>4, TrayType, LookType
<1> QED
  BY <1>1, <1>3, <1>4

LEMMA PlayTrackMoves ==
  ASSUME NEW h \in DriveSet, NEW n \in Nat, NEW t, NEW g \in PlayTrackPosition(h, n, t)
  PROVE  g \in DriveSet /\ g.tray = h.tray /\ g.mode \in {"Playing", h.mode}
<1>1. (IF t \in 1 .. n THEN t ELSE 1) \in Nat
  OBVIOUS
<1> QED
  BY <1>1, PlayMoves DEF PlayTrackPosition

\* The discs have tracks.
LEMMA CountType ==
  ASSUME NEW d \in Devices
  PROVE  CountOfTracks(d) \in Nat
  BY InterfaceAssumption DEF CountOfTracks, Devices

LEMMA TrackType ==
  ASSUME DrivesType, NEW d \in Devices
  PROVE  CurTrack(d) \in Nat
  BY DEF CurTrack, DrivesType, DriveSet, DriveFields

(***************************************************************************)
(* timerExpired from signal to signal.                                     *)
(***************************************************************************)
LEMMA ShowsKeeps ==
  ASSUME Types, ToldRight, NEW d \in Devices, NEW frames \in Seq(Frames), Runs(d, frames),
         AllAnnounced(frames), NEW i \in ImplSet,
         told' \in [Devices -> [status : Statuses, tracks : Nat]],
         \A e \in Devices \ {d} : told'[e] = told[e],
         Says(d, i.m_status, i.m_tracks), Shows(d, i, frames), UNCHANGED opened
  PROVE  Kept
<1> DEFINE j == [i EXCEPT !.m_track = 0]
<1>1. j \in ImplSet /\ j.m_status = i.m_status /\ j.m_tracks = i.m_tracks
      /\ i.m_status \in Statuses
  BY DEF ImplSet
<1> HIDE DEF j
<1>2. CASE i.m_status = "Playing"
  <2>1. Emits(d, i, frames, "position", i.m_status)
    BY <1>2 DEF Shows
  <2>2. Leaves(d, i)
    BY <2>1 DEF Leaves, Emits
  <2> QED
    BY <1>1, <2>1, <2>2, EmitsKeeps DEF Signals
<1>3. CASE i.m_status = "Stopped"
  <2>1. Ends(d, j, frames)
    BY <1>3 DEF Shows, j
  <2>2. Leaves(d, j)
    BY <2>1 DEF Leaves, Ends
  <2> QED
    BY <1>1, <2>1, <2>2, EndsKeeps
<1>4. CASE i.m_status \notin {"Playing", "Stopped"}
  <2>1. Ends(d, i, frames)
    BY <1>4 DEF Shows
  <2>2. Leaves(d, i)
    BY <2>1 DEF Leaves, Ends
  <2> QED
    BY <2>1, <2>2, EndsKeeps
<1> QED
  BY <1>2, <1>3, <1>4

LEMMA TimerKeeps ==
  ASSUME Types, ToldRight, NEW d \in Devices, NEW frames \in Seq(Frames), Runs(d, frames),
         AllAnnounced(frames), Agreed(d), TimerExpired(d, frames), UNCHANGED opened
  PROVE  Kept /\ DrivesType'
<1> DEFINE i == impl[d]
<1>1. i \in ImplSet /\ drives[d] \in DriveSet /\ i.m_status \in Statuses /\ i.m_tracks \in Nat
  BY DEF Types, ImplType, DrivesType, ImplSet
<1>2. PICK s \in Look(drives[d]) :
        \/ /\ s.seen = i.m_status
           /\ Shows(d, i, frames) /\ Drive(d, s) /\ told' = told
        \/ /\ \E h \in PlayTrackPosition(s, i.m_tracks, Following(i)) : Drive(d, h)
           /\ Ends(d, i, frames) /\ told' = told
        \/ /\ \E h \in {s} \cup WmCdEject(s) : Drive(d, h)
           /\ Emits(d, i, frames, "status", s.seen)
           /\ told' = [told EXCEPT ![d].status = s.seen]
  BY DEF TimerExpired
<1> s \in DriveSet /\ s.seen \in Statuses
  BY <1>1, LookType
<1>3. CASE Shows(d, i, frames) /\ Drive(d, s) /\ told' = told
  <2>1. Shows(d, i, frames) /\ Drive(d, s) /\ told' = told
    BY <1>3
  <2>2. Says(d, i.m_status, i.m_tracks)
    BY <2>1 DEF Says, Agreed
  <2>3. told' \in [Devices -> [status : Statuses, tracks : Nat]]
    BY <2>1 DEF Types, ToldType
  <2>4. Kept
    BY <1>1, <2>1, <2>2, <2>3, ShowsKeeps
  <2> QED
    BY <1>1, <2>1, <2>4 DEF Drive, Types, DrivesType
<1>4. CASE /\ \E h \in PlayTrackPosition(s, i.m_tracks, Following(i)) : Drive(d, h)
           /\ Ends(d, i, frames) /\ told' = told
  <2>1. Says(d, i.m_status, i.m_tracks) /\ Leaves(d, i)
    BY <1>4 DEF Says, Agreed, Leaves, Ends, Types, ToldType
  <2>2. Kept
    BY <1>1, <1>4, <2>1, EndsKeeps
  <2>3. \E h \in DriveSet : Drive(d, h)
    BY <1>1, <1>4, PlayTrackMoves
  <2> QED
    BY <2>2, <2>3 DEF Drive, Types, DrivesType
<1>5. CASE /\ \E h \in {s} \cup WmCdEject(s) : Drive(d, h)
           /\ Emits(d, i, frames, "status", s.seen)
           /\ told' = [told EXCEPT ![d].status = s.seen]
  <2>1. \E h \in DriveSet : Drive(d, h)
    BY <1>5, EjectMoves
  <2>2. Says(d, s.seen, i.m_tracks) /\ Leaves(d, i)
    BY <1>1, <1>5 DEF Says, Agreed, Leaves, Emits, Types, ToldType
  <2>3. Kept
    BY <1>1, <1>5, <2>2, EmitsKeeps DEF Signals
  <2> QED
    BY <2>1, <2>3 DEF Drive, Types, DrivesType
<1> QED
  BY <1>2, <1>3, <1>4, <1>5

\* The name a device was opened under stays, and a poll does not change what is
\* expected of it.
NamesKept == \A e \in Devices : impl'[e].m_deviceName = impl[e].m_deviceName

ExpectedKept == \A e \in Devices : impl'[e].m_statusExpected = impl[e].m_statusExpected

LEMMA ShowsNames ==
  ASSUME ImplType, NEW d \in Devices, NEW frames, NEW i \in ImplSet,
         i.m_deviceName = impl[d].m_deviceName,
         i.m_statusExpected = impl[d].m_statusExpected, Shows(d, i, frames)
  PROVE  NamesKept /\ ExpectedKept
<1> DEFINE j == [i EXCEPT !.m_track = 0]
<1>1. j.m_deviceName = i.m_deviceName /\ j.m_statusExpected = i.m_statusExpected
  BY DEF ImplSet
<1> HIDE DEF j
<1>2. impl' = [impl EXCEPT ![d] = i] \/ impl' = [impl EXCEPT ![d] = j]
  BY DEF Shows, Ends, Emits, j
<1> QED
  BY <1>1, <1>2 DEF NamesKept, ExpectedKept, ImplType

LEMMA TimerNames ==
  ASSUME ImplType, NEW d \in Devices, NEW frames, TimerExpired(d, frames)
  PROVE  NamesKept /\ ExpectedKept
<1>1. impl[d] \in ImplSet
  BY DEF ImplType
<1>2. CASE Shows(d, impl[d], frames)
  BY <1>1, <1>2, ShowsNames
<1>3. CASE impl' = [impl EXCEPT ![d] = impl[d]]
  BY <1>3 DEF NamesKept, ExpectedKept, ImplType
<1> QED
  BY <1>2, <1>3 DEF TimerExpired, Ends, Emits

\* While a device is open the list of devices does not change any more.
LEMMA UrlKept ==
  ASSUME IInv, NamesKept, listed' \in {listed, List}, opened' \subseteq opened
  PROVE  UrlOfOpened' /\ HasList'
<1>1. CASE opened = {}
  BY <1>1 DEF UrlOfOpened, HasList
<1>2. CASE opened # {}
  <2>1. listed # {} /\ List = listed /\ listed' = listed /\ List' = listed
    BY <1>2 DEF IInv, HasList, List
  <2>2. \A name : Resolve(name) = IF name \in listed THEN name ELSE Min(listed)
    BY <2>1 DEF Resolve
  <2>3. \A d \in opened : (IF impl[d].m_deviceName \in listed THEN impl[d].m_deviceName
                           ELSE Min(listed)) = d
    BY <2>2 DEF IInv, UrlOfOpened
  <2>4. opened \subseteq Devices
    BY DEF IInv, Types, MovesType
  <2>5. UrlOfOpened'
    BY <2>1, <2>3, <2>4 DEF UrlOfOpened, Resolve, NamesKept
  <2> QED
    BY <2>1, <2>5 DEF HasList
<1> QED
  BY <1>1, <1>2

(***************************************************************************)
(* Every step keeps the invariant.                                         *)
(***************************************************************************)
LEMMA Together ==
  ASSUME IInv, Kept, DrivesType', NamesKept, UNCHANGED <<listed, plugged, opened>>,
         current' \in Devices \cup {NoDevice}
  PROVE  IInv'
<1>1. UrlOfOpened' /\ HasList'
  BY UrlKept
<1>2. MovesType'
  BY DEF IInv, Types, MovesType
<1> QED
  BY <1>1, <1>2 DEF IInv, Types, Kept, AllAnnounced, Announced

LEMMA PollKeeps == IInv /\ Poll => IInv'
<1> SUFFICES ASSUME IInv, NEW d \in Devices, timer[d], TimerExpired(d, stack),
                    UNCHANGED <<world, moves>>
             PROVE  IInv'
  BY DEF Poll
<1> USE DEF world, moves
<1>1. Runs(d, stack) /\ Agreed(d) /\ stack \in Seq(Frames)
  BY ExpiredRuns DEF IInv, ToldRight, Agreed, Types, CallType
<1>2. Kept /\ DrivesType'
  BY <1>1, TimerKeeps DEF IInv
<1>3. NamesKept
  BY TimerNames DEF IInv, Types
<1>4. current' \in Devices \cup {NoDevice}
  BY DEF IInv, Types, MovesType
<1> QED
  BY <1>2, <1>3, <1>4, Together

\* A handler returns to a poll.
Returns(at) == IInv /\ Waits(at) /\ UNCHANGED <<world, moves>>

LEMMA ReturnsTo ==
  ASSUME NEW at \in Signals \ {"moving"}, Returns(at)
  PROVE  /\ Runs(Top, Below) /\ Top \in Devices /\ Below \in Seq(Frames)
         /\ AllAnnounced(Below) /\ Announced(Last(stack)) /\ Last(stack) \in Frames
         /\ Last(stack).at = at /\ Last(stack).dev = Top /\ Mine \in ImplSet
         /\ current' \in Devices \cup {NoDevice}
<1>1. stack # << >> /\ Last(stack).at = at /\ stack \in Seq(Frames)
  BY DEF Returns, Waits, IInv, Types, CallType
<1>2. /\ Runs(Top, Below) /\ Top \in Devices /\ Below \in Seq(Frames)
      /\ AllAnnounced(Below) /\ Announced(Last(stack))
  BY <1>1, ReturnedRuns DEF Returns
<1>3. Last(stack) \in Frames
  BY <1>1, Popped
<1>4. Mine \in ImplSet
  BY <1>2 DEF Returns, IInv, Types, ImplType, Mine
<1> QED
  BY <1>1, <1>2, <1>3, <1>4 DEF Returns, IInv, Types, MovesType, moves, Top

LEMMA AfterTrackKeeps == IInv /\ AfterTrack => IInv'
<1> SUFFICES ASSUME IInv, AfterTrack PROVE IInv'
  OBVIOUS
<1>1. Returns("track") /\ Ends(Top, Mine, Below) /\ told' = told /\ drives' = drives
  BY DEF Returns, AfterTrack
<1>2. /\ Runs(Top, Below) /\ Top \in Devices /\ Below \in Seq(Frames)
      /\ AllAnnounced(Below) /\ Announced(Last(stack)) /\ Last(stack).at = "track"
      /\ Last(stack).dev = Top /\ Mine \in ImplSet /\ current' \in Devices \cup {NoDevice}
  BY <1>1, ReturnsTo DEF Signals
<1>3. Leaves(Top, Mine) /\ Says(Top, Mine.m_status, Mine.m_tracks)
  BY <1>1, <1>2 DEF Leaves, Says, Ends, Announced, Mine, IInv, Types, ToldType
<1>4. Kept
  BY <1>1, <1>2, <1>3, EndsKeeps DEF IInv, Returns, moves
<1>5. NamesKept
  BY <1>1, <1>2 DEF NamesKept, Ends, Mine, IInv, Types, ImplType
<1> QED
  BY <1>1, <1>2, <1>4, <1>5, Together DEF IInv, Types, DrivesType, Returns, world, moves

LEMMA AfterPositionKeeps == IInv /\ AfterPosition => IInv'
<1> SUFFICES ASSUME IInv, AfterPosition PROVE IInv'
  OBVIOUS
<1> DEFINE i == [Mine EXCEPT !.m_track = CurTrack(Top)]
<1>1. Returns("position") /\ told' = told /\ drives' = drives /\ UNCHANGED opened
  BY DEF Returns, AfterPosition, moves
<1>2. /\ Runs(Top, Below) /\ Top \in Devices /\ Below \in Seq(Frames)
      /\ AllAnnounced(Below) /\ Announced(Last(stack)) /\ Last(stack).at = "position"
      /\ Last(stack).dev = Top /\ Mine \in ImplSet /\ current' \in Devices \cup {NoDevice}
  BY <1>1, ReturnsTo DEF Signals
<1>3. /\ i \in ImplSet /\ i.m_status = Mine.m_status /\ i.m_tracks = Mine.m_tracks
      /\ i.m_deviceName = Mine.m_deviceName /\ Mine.m_status \in Statuses
  BY <1>2, TrackType DEF ImplSet, IInv, Types
<1>4. Says(Top, Mine.m_status, Mine.m_tracks)
  BY <1>1, <1>2 DEF Says, Announced, Mine
<1>5. told' \in [Devices -> [status : Statuses, tracks : Nat]]
  BY <1>1 DEF IInv, Types, ToldType
<1>6. CASE Ends(Top, Mine, Below)
  <2>1. Leaves(Top, Mine)
    BY <1>1, <1>5, <1>6 DEF Leaves, Ends
  <2>2. Kept
    BY <1>1, <1>2, <1>4, <1>6, <2>1, EndsKeeps DEF IInv
  <2>3. NamesKept
    BY <1>2, <1>6 DEF NamesKept, Ends, Mine, IInv, Types, ImplType
  <2> QED
    BY <1>1, <1>2, <2>2, <2>3, Together DEF IInv, Types, DrivesType, Returns, world, moves
<1>7. CASE Emits(Top, i, Below, "track", Mine.m_status)
  <2>1. Leaves(Top, i)
    BY <1>1, <1>5, <1>7 DEF Leaves, Emits
  <2>2. Says(Top, i.m_status, i.m_tracks)
    BY <1>3, <1>4
  <2> HIDE DEF i
  <2>3. Kept
    BY <1>1, <1>2, <1>3, <1>7, <2>1, <2>2, EmitsKeeps DEF IInv, Signals
  <2>4. NamesKept
    BY <1>2, <1>3, <1>7 DEF NamesKept, Emits, Mine, IInv, Types, ImplType
  <2> QED
    BY <1>1, <1>2, <2>3, <2>4, Together DEF IInv, Types, DrivesType, Returns, world, moves
<1> QED
  BY <1>6, <1>7 DEF AfterPosition

LEMMA AfterDiscKeeps == IInv /\ AfterDisc => IInv'
<1> SUFFICES ASSUME IInv, AfterDisc PROVE IInv'
  OBVIOUS
<1>1. Returns("disc") /\ told' = told /\ UNCHANGED opened /\ Shows(Top, Mine, Below)
  BY DEF Returns, AfterDisc, moves
<1>2. /\ Runs(Top, Below) /\ Top \in Devices /\ Below \in Seq(Frames)
      /\ AllAnnounced(Below) /\ Announced(Last(stack)) /\ Last(stack).at = "disc"
      /\ Last(stack).dev = Top /\ Mine \in ImplSet /\ current' \in Devices \cup {NoDevice}
  BY <1>1, ReturnsTo DEF Signals
<1>3. Says(Top, Mine.m_status, Mine.m_tracks)
  BY <1>1, <1>2 DEF Says, Announced, Mine
<1>4. told' \in [Devices -> [status : Statuses, tracks : Nat]]
  BY <1>1 DEF IInv, Types, ToldType
<1>5. Kept
  BY <1>1, <1>2, <1>3, <1>4, ShowsKeeps DEF IInv
<1>6. NamesKept
  BY <1>1, <1>2, ShowsNames DEF Mine, IInv, Types
<1>7. PICK s \in DriveSet : Drive(Top, s)
  BY <1>2, LookType DEF AfterDisc, IInv, Types, DrivesType
<1>8. DrivesType'
  BY <1>2, <1>7 DEF Drive, IInv, Types, DrivesType
<1> QED
  BY <1>1, <1>2, <1>5, <1>6, <1>8, Together DEF Returns, world, moves

LEMMA AfterStatusKeeps == IInv /\ AfterStatus => IInv'
<1> SUFFICES ASSUME IInv, AfterStatus PROVE IInv'
  OBVIOUS
<1> DEFINE w == WithStatus
           n == CountOfTracks(Top)
           gone == [w EXCEPT !.m_track = 0, !.m_tracks = 0]
           new == [w EXCEPT !.m_tracks = n, !.m_playlist = [t \in 1 .. n |-> t]]
<1>1. Returns("status") /\ UNCHANGED opened /\ DrivesType'
  BY DEF Returns, AfterStatus, moves, IInv, Types, DrivesType
<1>2. /\ Runs(Top, Below) /\ Top \in Devices /\ Below \in Seq(Frames)
      /\ AllAnnounced(Below) /\ Announced(Last(stack)) /\ Last(stack).at = "status"
      /\ Last(stack) \in Frames
      /\ Last(stack).dev = Top /\ Mine \in ImplSet /\ current' \in Devices \cup {NoDevice}
  BY <1>1, ReturnsTo DEF Signals
<1>3. /\ told[Top] = [status |-> w.m_status, tracks |-> Mine.m_tracks]
      /\ w \in ImplSet /\ w.m_tracks = Mine.m_tracks /\ w.m_deviceName = Mine.m_deviceName
      /\ w.m_statusExpected = Mine.m_statusExpected
      /\ w.m_status \in Statuses
  BY <1>2 DEF Announced, Mine, WithStatus, Frames, ImplSet
<1>4. n \in Nat /\ [t \in 1 .. n |-> t] \in Seq(Nat)
  BY <1>2, CountType
<1>5. /\ gone \in ImplSet /\ gone.m_status = w.m_status /\ gone.m_tracks = 0
      /\ gone.m_deviceName = Mine.m_deviceName
      /\ new \in ImplSet /\ new.m_status = w.m_status /\ new.m_tracks = n
      /\ new.m_deviceName = Mine.m_deviceName
  BY <1>3, <1>4 DEF ImplSet
<1> HIDE DEF gone, new, w, n
<1>6. ASSUME NEW i \in ImplSet, i.m_status = w.m_status, i.m_deviceName = Mine.m_deviceName,
             Emits(Top, i, Below, "disc", w.m_status),
             told' = [told EXCEPT ![Top].tracks = i.m_tracks]
      PROVE  IInv'
  <2>1. i.m_tracks \in Nat
    BY DEF ImplSet
  <2>2. Says(Top, i.m_status, i.m_tracks) /\ Leaves(Top, i)
    BY <1>2, <1>3, <1>6, <2>1 DEF Says, Leaves, Emits, IInv, Types, ToldType
  <2>3. Kept
    BY <1>1, <1>2, <1>3, <1>6, <2>2, EmitsKeeps DEF IInv, Signals
  <2>4. NamesKept
    BY <1>2, <1>6 DEF NamesKept, Emits, Mine, IInv, Types, ImplType
  <2> QED
    BY <1>1, <1>2, <2>3, <2>4, Together DEF Returns, world, moves
<1>7. CASE Emits(Top, gone, Below, "disc", w.m_status) /\ told' = [told EXCEPT ![Top].tracks = 0]
  <2>1. told' = [told EXCEPT ![Top].tracks = gone.m_tracks]
    BY <1>5, <1>7
  <2> QED
    BY <1>5, <1>6, <1>7, <2>1
<1>8. CASE Emits(Top, new, Below, "disc", w.m_status) /\ told' = [told EXCEPT ![Top].tracks = n]
  <2>1. told' = [told EXCEPT ![Top].tracks = new.m_tracks]
    BY <1>5, <1>8
  <2> QED
    BY <1>5, <1>6, <1>8, <2>1
<1>9. CASE Shows(Top, w, Below) /\ told' = told
  <2>1. Says(Top, w.m_status, w.m_tracks)
    BY <1>3, <1>9 DEF Says
  <2>2. told' \in [Devices -> [status : Statuses, tracks : Nat]]
    BY <1>9 DEF IInv, Types, ToldType
  <2>3. Kept
    BY <1>1, <1>2, <1>3, <1>9, <2>1, <2>2, ShowsKeeps DEF IInv
  <2>4. NamesKept
    BY <1>2, <1>3, <1>9, ShowsNames DEF Mine, IInv, Types
  <2> QED
    BY <1>1, <1>2, <2>3, <2>4, Together DEF Returns, world, moves
<1> QED
  BY <1>7, <1>8, <1>9 DEF AfterStatus, gone, new, w, n

LEMMA AfterCreatedKeeps == IInv /\ AfterCreated => IInv'
<1> SUFFICES ASSUME IInv, AfterCreated PROVE IInv'
  OBVIOUS
<1> DEFINE f == [Last(stack) EXCEPT !.at = "moving"]
           frames == Append(Below, f)
<1>1. /\ stack # << >> /\ Last(stack).at = "created" /\ stack \in Seq(Frames)
      /\ UNCHANGED <<listed, plugged, opened>>
  BY DEF AfterCreated, Waits, IInv, Types, CallType, world
<1>2. /\ Runs(Top, Below) /\ Top \in Devices /\ Below \in Seq(Frames)
      /\ AllAnnounced(Below) /\ Announced(Last(stack))
  BY <1>1, ReturnedRuns
<1>3. Last(stack) \in Frames /\ Last(stack).dev = Top
  BY <1>1, Popped DEF Top
<1>4. f \in Frames /\ f.at = "moving" /\ f.dev = Top
  BY <1>3 DEF Frames, Signals
<1> HIDE DEF f
<1>5. /\ frames \in Seq(Frames)
      /\ DOMAIN Below = 1 .. Len(Below) /\ Len(Below) \in Nat
      /\ DOMAIN frames = 1 .. Len(Below) + 1 /\ frames[Len(Below) + 1] = f
      /\ \A k \in 1 .. Len(Below) : frames[k] = Below[k]
  BY <1>2, <1>4, Pushed
<1>6. \A e \in Devices : Due(frames, e) = Due(Below, e)
  <2>1. \A e \in Devices : Due(Below, e) \in Nat
    BY <1>2, CallsFinite
  <2>2. \A e \in Devices : Due(frames, e) = Due(Below, e) + One(f.dev = e /\ f.at # "moving")
    BY <1>2, <1>4, PushedDue
  <2> QED
    BY <1>4, <2>1, <2>2 DEF One
<1>7. Runs(Top, frames)
  BY <1>2, <1>6 DEF Runs
<1>8. AllAnnounced(frames)
  BY <1>2, <1>4, <1>5 DEF AllAnnounced, Announced
<1>9. Agreed(Top)
  BY <1>1, <1>2, <1>3 DEF Announced, Agreed
<1> HIDE DEF frames
<1>10. CASE TimerExpired(Top, frames) /\ current' = current
  <2>1. Kept /\ DrivesType'
    BY <1>1, <1>2, <1>5, <1>7, <1>8, <1>9, <1>10, TimerKeeps DEF IInv
  <2>2. NamesKept
    BY <1>2, <1>10, TimerNames DEF IInv, Types
  <2> QED
    BY <1>1, <1>10, <2>1, <2>2, Together DEF IInv, Types, MovesType
<1>11. CASE Ends(Top, Mine, Below) /\ current' = Top /\ UNCHANGED <<drives, told>>
  <2>1. Mine \in ImplSet /\ Says(Top, Mine.m_status, Mine.m_tracks) /\ Leaves(Top, Mine)
    BY <1>2, <1>9, <1>11 DEF Says, Agreed, Leaves, Ends, Mine, IInv, Types, ImplType, ToldType
  <2>2. Kept
    BY <1>1, <1>2, <1>11, <2>1, EndsKeeps DEF IInv
  <2>3. NamesKept
    BY <1>2, <1>11 DEF NamesKept, Ends, Mine, IInv, Types, ImplType
  <2> QED
    BY <1>1, <1>2, <1>11, <2>2, <2>3, Together DEF IInv, Types, DrivesType
<1> QED
  BY <1>10, <1>11 DEF AfterCreated, frames, f

LEMMA MovedKeeps == IInv /\ Moved => IInv'
<1> SUFFICES ASSUME IInv, Moved PROVE IInv'
  OBVIOUS
<1>1. /\ stack # << >> /\ Last(stack).at = "moving" /\ stack \in Seq(Frames)
      /\ UNCHANGED <<drives, impl, timer, told, listed, opened, plugged>>
      /\ current' = Top /\ stack' = Below
  BY DEF Moved, Waits, IInv, Types, CallType, world
<1>2. /\ Below \in Seq(Frames) /\ Last(stack) \in Frames
      /\ DOMAIN Below \subseteq DOMAIN stack
      /\ \A k \in DOMAIN Below : Below[k] = stack[k]
  BY <1>1, Popped DEF Below
<1>3. Top \in Devices
  BY <1>2 DEF Frames, Top
<1>4. \A e \in Devices : Due(Below, e) = Due(stack, e)
  <2>1. \A e \in Devices : Due(Below, e) \in Nat
    BY <1>2, CallsFinite
  <2>2. \A e \in Devices : Due(stack, e) = Due(Below, e)
                             + One(Last(stack).dev = e /\ Last(stack).at # "moving")
    BY <1>1, PoppedDue DEF Below
  <2> QED
    BY <1>1, <2>1, <2>2 DEF One
<1>5. TimerKept'
  BY <1>1, <1>4, DueKept, DueKeptNext DEF IInv
<1>6. AllAnnounced(stack)'
  BY <1>1, <1>2 DEF IInv, AllAnnounced, Announced
<1>7. Kept
  BY <1>1, <1>2, <1>5, <1>6 DEF Kept, IInv, Types, ImplType, ToldType, CallType, ToldRight
<1>8. NamesKept /\ DrivesType'
  BY <1>1 DEF NamesKept, IInv, Types, DrivesType
<1> QED
  BY <1>1, <1>3, <1>7, <1>8, Together

LEMMA NewType ==
  ASSUME NEW d, NEW h \in NewDrives(d)
  PROVE  h \in DriveSet /\ h.mode # "Playing" /\ h.tray \in {"closed", "opened"}
<1>1. PICK tray \in {"closed", "opened"}, mode \in {"NoDisc", "Stopped"} : h = Idle(d, tray, mode)
  BY DEF NewDrives
<1> DEFINE slot == d \in SlotLoading
<1>2. slot \in BOOLEAN
  OBVIOUS
<1>3. h = [slot |-> slot, tray |-> tray, mode |-> mode, at |-> 0, seen |-> "Error",
           ready |-> FALSE, read |-> FALSE, curtrack |-> 0]
  BY <1>1 DEF Idle
<1> HIDE DEF slot
<1> QED
  BY <1>2, <1>3 DEF DriveSet, DriveFields, Statuses, Modes

LEMMA SetDeviceKeeps == IInv /\ SetDevice => IInv'
<1> SUFFICES ASSUME IInv, SetDevice PROVE IInv'
  OBVIOUS
<1>1. PICK name \in Devices, d \in plugged \ opened :
        /\ d = Resolve(name)
        /\ \E h \in NewDrives(d) : \E s \in Look(h) : Drive(d, s)
        /\ impl' = [impl EXCEPT ![d] = NewImpl(name)]
        /\ opened' = opened \cup {d}
        /\ stack' = Append(stack, [dev |-> d, at |-> "created", status |-> "NoDisc"])
        /\ told' = [told EXCEPT ![d] = [status |-> "NoDisc", tracks |-> 0]]
  BY DEF SetDevice
<1> DEFINE f == [dev |-> d, at |-> "created", status |-> "NoDisc"]
<1>2. listed' = List /\ UNCHANGED <<plugged, current, timer>>
  BY DEF SetDevice
<1>3. d \in Devices /\ d \notin opened /\ opened' = opened \cup {d} /\ stack' = Append(stack, f)
  BY <1>1 DEF IInv, Types, MovesType
<1>4. timer[d] = FALSE /\ Due(stack, d) = 0
  BY <1>3, DueKept, CallsFinite DEF IInv, One, Types, CallType
<1>5. f \in Frames /\ NewImpl(name) \in ImplSet
  BY <1>3 DEF Frames, Signals, Statuses, Modes, NewImpl, ImplSet
<1>6. /\ stack' \in Seq(Frames) /\ DOMAIN stack = 1 .. Len(stack) /\ Len(stack) \in Nat
      /\ DOMAIN stack' = 1 .. Len(stack) + 1 /\ stack'[Len(stack) + 1] = f
      /\ \A k \in 1 .. Len(stack) : stack'[k] = stack[k]
  BY <1>3, <1>5, Pushed DEF IInv, Types, CallType
<1>7. impl' = [impl EXCEPT ![d] = NewImpl(name)]
      /\ told' = [told EXCEPT ![d] = [status |-> "NoDisc", tracks |-> 0]]
  BY <1>1
<1>8. DrivesType'
  <2>1. PICK h \in NewDrives(d) : \E s \in Look(h) : Drive(d, s)
    BY <1>1
  <2>2. PICK s \in DriveSet : Drive(d, s)
    BY <2>1, NewType, LookType
  <2> QED
    BY <1>3, <2>2 DEF Drive, IInv, Types, DrivesType
<1>9. Types'
  <2>1. ToldType'
    BY <1>7 DEF IInv, Types, ToldType, Statuses, Modes
  <2>2. ImplType'
    BY <1>5, <1>7 DEF IInv, Types, ImplType
  <2>3. CallType' /\ MovesType'
    BY <1>2, <1>3, <1>6 DEF IInv, Types, CallType, MovesType
  <2> QED
    BY <1>8, <2>1, <2>2, <2>3 DEF Types
<1>10. TimerKept'
  <2>1. \A e \in Devices : Due(stack', e) = Due(stack, e) + One(e = d)
    BY <1>3, <1>5, PushedDue DEF One, IInv, Types, CallType
  <2>2. ASSUME NEW e \in Devices \ {d}
        PROVE  Due(stack', e) + One(timer'[e]) = One(e \in opened')
    <3>1. Due(stack, e) \in Nat
      BY CallsFinite DEF IInv, Types, CallType
    <3>2. Due(stack', e) = Due(stack, e)
      BY <2>1, <3>1 DEF One
    <3> QED
      BY <1>2, <1>3, <3>2, DueKept DEF IInv
  <2>3. Due(stack', d) + One(timer'[d]) = One(d \in opened')
    BY <1>2, <1>3, <1>4, <2>1 DEF One
  <2> QED
    BY <2>2, <2>3, DueKeptNext
<1>11. ToldRight'
  BY <1>2, <1>3, <1>4, <1>7 DEF IInv, ToldRight, Types, ImplType, ToldType
<1>12. AllAnnounced(stack)'
  <2>1. Announced(f)'
    BY <1>3, <1>7 DEF Announced, NewImpl, IInv, Types, ImplType, ToldType
  <2>2. ASSUME NEW k \in DOMAIN stack, NEW g, g = stack[k] PROVE Announced(g)'
    <3>1. g \in Frames /\ (g.at # "moving" => g.dev # d)
      BY <1>4, <2>2, NotDue DEF IInv, Types, CallType
    <3>2. Announced(g)
      BY <2>2 DEF IInv, AllAnnounced
    <3> QED
      BY <1>7, <3>1, <3>2 DEF Announced, Frames, IInv, Types, ImplType, ToldType
  <2> QED
    BY <1>6, <2>1, <2>2 DEF AllAnnounced, Announced
<1>13. /\ List # {} /\ listed' = List /\ List' = List
  <2>1. List # {}
    BY <1>1, <1>3, InterfaceAssumption DEF Resolve, NoDevice, Devices
  <2> QED
    BY <1>2, <2>1 DEF List
<1>14. HasList'
  BY <1>13 DEF HasList
<1>15. UrlOfOpened'
  <2>1. \A x : Resolve(x)' = Resolve(x)
    BY <1>13 DEF Resolve
  <2>2. \A e \in opened : impl'[e].m_deviceName = impl[e].m_deviceName
    BY <1>3, <1>7 DEF IInv, Types, ImplType, MovesType
  <2>3. Resolve(impl'[d].m_deviceName) = d
    BY <1>1, <1>3, <1>7 DEF NewImpl, IInv, Types, ImplType
  <2>4. \A e \in opened : Resolve(impl[e].m_deviceName) = e
    BY DEF IInv, UrlOfOpened
  <2> QED
    BY <1>3, <2>1, <2>2, <2>3, <2>4 DEF UrlOfOpened
<1> QED
  BY <1>9, <1>10, <1>11, <1>12, <1>14, <1>15 DEF IInv

\* What does not touch the calls, their timers and what was signalled.
LEMMA Aside ==
  ASSUME IInv, UNCHANGED <<timer, stack, told>>, opened' = opened, DrivesType', ImplType',
         \A d \in Devices : /\ impl'[d].m_status = impl[d].m_status
                            /\ impl'[d].m_tracks = impl[d].m_tracks
                            /\ impl'[d].m_deviceName = impl[d].m_deviceName,
         listed' \in {listed, List}, plugged' \subseteq Devices, current' = current
  PROVE  IInv'
<1>1. Types'
  BY DEF IInv, Types, ToldType, CallType, MovesType
<1>2. TimerKept'
  BY DueKept, DueKeptNext DEF IInv
<1>3. ToldRight'
  BY DEF IInv, ToldRight
<1>4. AllAnnounced(stack)'
  <2>1. \A k \in DOMAIN stack : stack[k].dev \in Devices
    <3>1. stack \in Seq(Frames)
      BY DEF IInv, Types, CallType
    <3>2. \A k \in DOMAIN stack : stack[k] \in Frames
      BY <3>1
    <3> QED
      BY <3>2 DEF Frames
  <2> QED
    BY <2>1 DEF IInv, AllAnnounced, Announced
<1>5. UrlOfOpened' /\ HasList'
  BY UrlKept DEF NamesKept
<1> QED
  BY <1>1, <1>2, <1>3, <1>4, <1>5 DEF IInv

LEMMA OrderKeeps ==
  ASSUME IInv, current # NoDevice, NEW o, NEW outcomes \in SUBSET DriveSet,
         NEW e \in Statuses, Order(o, outcomes, e)
  PROVE  IInv'
<1>1. current \in Devices /\ impl \in [Devices -> ImplSet] /\ drives \in [Devices -> DriveSet]
      /\ plugged \subseteq Devices
  BY DEF IInv, Types, MovesType, ImplType, DrivesType
<1>2. /\ \E h \in DriveSet : drives' = [drives EXCEPT ![current] = h]
      /\ impl' = [impl EXCEPT ![current].m_statusExpected = e]
      /\ UNCHANGED <<world, moves, timer, stack, told>>
  BY DEF Order, Drive
<1>3. DrivesType'
  BY <1>1, <1>2 DEF DrivesType
<1>4. ImplType'
  BY <1>1, <1>2 DEF ImplType, ImplSet
<1>5. \A d \in Devices : /\ impl'[d].m_status = impl[d].m_status
                         /\ impl'[d].m_tracks = impl[d].m_tracks
                         /\ impl'[d].m_deviceName = impl[d].m_deviceName
  BY <1>1, <1>2 DEF ImplSet
<1> QED
  BY <1>1, <1>2, <1>3, <1>4, <1>5, Aside DEF world, moves

LEMMA SlotKeeps == IInv /\ Slot => IInv'
<1> SUFFICES ASSUME IInv, Slot PROVE IInv'
  OBVIOUS
<1>1. current # NoDevice
  BY DEF Slot, PlayTrackSlot, PlayEntry, Pause, Stop, Eject
<1>2. /\ drive \in DriveSet /\ me \in ImplSet
      /\ me.m_tracks \in Nat /\ me.m_statusExpected \in Statuses
  BY <1>1 DEF IInv, Types, MovesType, ImplType, DrivesType, drive, me, ImplSet
<1>3. {"Playing", "Paused", "Stopped", "Ejected"} \subseteq Statuses
  BY DEF Statuses, Modes
<1>4. {WmCdStop(drive), WmCdEject(drive), WmCdCloseTray(drive), WmCdPause(drive)}
        \subseteq SUBSET DriveSet
  BY <1>2, StopMoves, EjectMoves, CloseMoves, PauseMoves
<1>5. ASSUME NEW t, PlayTrack(t) PROVE IInv'
  <2>1. PlayTrackPosition(drive, me.m_tracks, t) \in SUBSET DriveSet
    BY <1>2, PlayTrackMoves
  <2> QED
    BY <1>1, <1>3, <1>5, <2>1, OrderKeeps DEF PlayTrack
<1>6. CASE PlayTrackSlot \/ PlayEntry
  BY <1>5, <1>6 DEF PlayTrackSlot, PlayEntry
<1>7. CASE Pause
  BY <1>1, <1>3, <1>4, <1>7, OrderKeeps DEF Pause
<1>8. CASE Stop
  BY <1>1, <1>3, <1>4, <1>8, OrderKeeps DEF Stop
<1>9. CASE Eject
  BY <1>1, <1>2, <1>3, <1>4, <1>9, OrderKeeps DEF Eject
<1> QED
  BY <1>6, <1>7, <1>8, <1>9 DEF Slot

LEMMA DestroyKeeps == IInv /\ Destroy => IInv'
<1> SUFFICES ASSUME IInv, Destroy PROVE IInv'
  OBVIOUS
<1>1. /\ opened = {current} /\ opened' = {} /\ stack = << >>
      /\ \E h \in WmCdStop(drive) : drives' = [drives EXCEPT ![current] = h]
      /\ timer' = [timer EXCEPT ![current] = FALSE]
      /\ UNCHANGED <<plugged, listed, impl, current, stack, told>>
  BY DEF Destroy, Drive, world
<1>2. current \in Devices
  BY <1>1 DEF IInv, Types, MovesType
<1>3. DrivesType'
  BY <1>1, <1>2, StopMoves DEF IInv, Types, DrivesType, drive
<1>4. Types'
  BY <1>1, <1>2, <1>3 DEF IInv, Types, ImplType, ToldType, CallType, MovesType
<1>5. \A e \in Devices : Due(stack, e) = 0
  BY <1>1, FS_EmptySet DEF Due, CallsOf
<1>6. TimerKept'
  BY <1>1, <1>2, <1>5, DueKept, DueKeptNext DEF One, IInv, Types, CallType
<1>7. ToldRight'
  BY <1>1, <1>2 DEF IInv, ToldRight, Types, CallType
<1>8. AllAnnounced(stack)'
  BY <1>1 DEF AllAnnounced
<1>9. UrlOfOpened' /\ HasList'
  BY <1>1 DEF UrlOfOpened, HasList
<1> QED
  BY <1>4, <1>6, <1>7, <1>8, <1>9 DEF IInv

LEMMA HardwareKeeps == IInv /\ Hardware => IInv'
<1> SUFFICES ASSUME IInv, Hardware PROVE IInv'
  OBVIOUS
<1>1. /\ drives \in [Devices -> DriveSet] /\ opened \subseteq Devices /\ plugged \subseteq Devices
      /\ UNCHANGED <<plugged, listed, impl, moves, timer, stack, told>>
  BY DEF IInv, Types, MovesType, DrivesType, Hardware
<1>2. PICK d \in opened :
        \/ Drive(d, Set(drives[d], "Stopped", 0))
        \/ Drive(d, [Set(drives[d], "NoDisc", 0) EXCEPT !.tray = "opened"])
        \/ Drive(d, In(drives[d]))
  BY DEF Hardware
<1>3. d \in Devices /\ drives[d] \in DriveSet
  BY <1>1
<1>4. /\ Set(drives[d], "Stopped", 0) \in DriveSet
      /\ [Set(drives[d], "NoDisc", 0) EXCEPT !.tray = "opened"] \in DriveSet
      /\ In(drives[d]) \in DriveSet
  BY <1>3, TrayType DEF Set, DriveSet, DriveFields, Modes
<1>5. DrivesType'
  BY <1>1, <1>2, <1>3, <1>4 DEF Drive, DrivesType
<1> QED
  BY <1>1, <1>5, Aside DEF moves, IInv, Types, ImplType

LEMMA RestKeeps == IInv /\ (SetDeviceFails \/ Ask \/ Hotplug) => IInv'
<1> SUFFICES ASSUME IInv, SetDeviceFails \/ Ask \/ Hotplug PROVE IInv'
  OBVIOUS
<1>1. /\ UNCHANGED <<drives, impl, moves, timer, stack, told>>
      /\ listed' \in {listed, List} /\ plugged' \subseteq Devices
  BY DEF SetDeviceFails, Ask, Hotplug, IInv, Types, MovesType
<1> QED
  BY <1>1, Aside DEF moves, IInv, Types, DrivesType, ImplType

LEMMA InitInv == Init => IInv
<1> SUFFICES ASSUME Init PROVE IInv
  OBVIOUS
<1>1. \A d \in Devices : Idle(d, "closed", "NoDisc") \in DriveSet
  BY DEF Idle, DriveSet, DriveFields, Modes, Statuses
<1>2. NewImpl(NoDevice) \in ImplSet
  BY DEF NewImpl, ImplSet, Statuses, Modes
<1>3. Types
  BY <1>1, <1>2 DEF Init, Types, DrivesType, ImplType, ToldType, CallType, MovesType,
                    Statuses, Modes
<1>4. \A e \in Devices : Due(stack, e) = 0
  BY FS_EmptySet DEF Due, CallsOf, Init
<1>5. TimerKept
  BY <1>4, DueKept DEF Init, One
<1>6. ToldRight /\ UrlOfOpened /\ HasList /\ AllAnnounced(stack)
  BY DEF Init, ToldRight, UrlOfOpened, HasList, AllAnnounced
<1> QED
  BY <1>3, <1>5, <1>6 DEF IInv

LEMMA NextInv == IInv /\ [Next]_vars => IInv'
<1> SUFFICES ASSUME IInv, [Next]_vars PROVE IInv'
  OBVIOUS
<1>1. CASE Poll \/ AfterStatus \/ AfterDisc \/ AfterPosition \/ AfterTrack
  BY <1>1, PollKeeps, AfterStatusKeeps, AfterDiscKeeps, AfterPositionKeeps, AfterTrackKeeps
<1>2. CASE SetDevice \/ AfterCreated \/ Moved
  BY <1>2, SetDeviceKeeps, AfterCreatedKeeps, MovedKeeps
<1>3. CASE Slot \/ Destroy \/ Hardware
  BY <1>3, SlotKeeps, DestroyKeeps, HardwareKeeps
<1>4. CASE SetDeviceFails \/ Ask \/ Hotplug
  BY <1>4, RestKeeps
<1>5. CASE UNCHANGED vars
  <2>1. UNCHANGED <<drives, impl, moves, timer, stack, told, plugged, listed>>
    BY <1>5 DEF vars, world
  <2> QED
    BY <2>1, Aside DEF moves, IInv, Types, DrivesType, ImplType, MovesType
<1> QED
  BY <1>1, <1>2, <1>3, <1>4, <1>5 DEF Next

\* Whatever the handlers do, and however often the object is moved, no
\* implementation ever runs two polls at a time, and none loses its timer
\* (wmlib_interface.cpp:295-297 starts it on every way out of a poll).
THEOREM InterfaceTimerKept == Spec => []TimerKept
<1>1. IInv => TimerKept
  BY DEF IInv
<1> QED
  BY <1>1, InitInv, NextInv, PTL DEF Spec

\* Between two polls discStatus() and tracks() are what the handlers were told
\* last, although discStatusChanged is emitted before the status is assigned
\* (kcompactdisc_p.cpp:214, wmlib_interface.cpp:213).
THEOREM InterfaceToldRight == Spec => []ToldRight
<1>1. IInv => ToldRight
  BY DEF IInv
<1> QED
  BY <1>1, InitInv, NextInv, PTL DEF Spec

\* deviceUrl() is that of the device setDevice has opened, for any number of
\* devices plugged in and out, since the list of devices is kept
\* (kcompactdisc.cpp:93).
THEOREM InterfaceUrlOfOpened == Spec => []UrlOfOpened
<1>1. IInv => UrlOfOpened
  BY DEF IInv
<1> QED
  BY <1>1, InitInv, NextInv, PTL DEF Spec

PlayerOf(d) == INSTANCE Player WITH
  order <- orders[d], playing <- drives[d].mode = "Playing", tray <- drives[d].tray

(***************************************************************************)
(* The invariant: what an implementation expects goes with the last order  *)
(* it was given, and only implementations that are there are given orders. *)
(***************************************************************************)
OrderSet == {"none", "play", "pause", "stop", "eject", "close"}

Expects(d) ==
  /\ orders[d] \in {"stop", "close"} => impl[d].m_statusExpected = "Stopped"
  /\ impl[d].m_statusExpected = "Ejected" => orders[d] = "eject"

OrdersType == orders \in [Devices -> OrderSet] /\ alive \in BOOLEAN
NewNone    == \A d \in Devices : alive /\ d \notin opened => orders[d] = "none"
Expected   == \A d \in opened : Expects(d)
InUse      == alive /\ current # NoDevice => current \in opened
CallsOpen(frames) == \A k \in DOMAIN frames : frames[k].dev \in opened

OrdersInv ==
  IInv /\ OrdersType /\ NewNone /\ Expected /\ InUse /\ CallsOpen(stack)

(***************************************************************************)
(* What a step of the implementation is to a Player.                       *)
(***************************************************************************)
Serves(d) == [PlayerOf(d)!Next]_(PlayerOf(d)!vars)

\* Nothing is heard or ordered of the other devices, nor when a drive is asked.
LEMMA Unheard ==
  ASSUME NEW d, orders'[d] = orders[d], drives'[d].mode = drives[d].mode,
         drives'[d].tray = drives[d].tray
  PROVE  Serves(d)
  BY DEF Serves, PlayerOf!vars

LEMMA Silenced ==
  ASSUME NEW d, orders'[d] = orders[d], drives'[d].mode # "Playing",
         drives'[d].tray = drives[d].tray
  PROVE  Serves(d)
  BY DEF Serves, PlayerOf!Next, PlayerOf!Silence

\* No disc is out of a drive that was given no order.
NotEjected == \A d \in Devices : orders[d] = "none" => drives[d].tray # "ejected"

LEMMA NotEjectedKept ==
  NotEjected /\ (\A d \in Devices : Serves(d)) => NotEjected'
  BY DEF NotEjected, Serves, PlayerOf!vars, PlayerOf!Next, PlayerOf!Order, PlayerOf!Play,
     PlayerOf!Pause, PlayerOf!Stop, PlayerOf!Eject, PlayerOf!Close, PlayerOf!GoesOn,
     PlayerOf!Ejects, PlayerOf!Silence, PlayerOf!Opened, PlayerOf!Closed

\* What a step changes of one drive is nothing to the others.
LEMMA OthersUnheard ==
  ASSUME DrivesType, OrdersType, NEW d \in Devices, NEW h, Drive(d, h), NEW o,
         orders' = [orders EXCEPT ![d] = o]
  PROVE  /\ \A e \in Devices \ {d} : Serves(e)
         /\ drives'[d] = h /\ orders'[d] = o
<1>1. drives'[d] = h /\ orders'[d] = o
  BY DEF DrivesType, OrdersType, Drive
<1>2. ASSUME NEW e \in Devices \ {d} PROVE Serves(e)
  <2>1. drives'[e] = drives[e] /\ orders'[e] = orders[e]
    BY DEF DrivesType, OrdersType, Drive
  <2> QED
    BY <2>1, Unheard
<1> QED
  BY <1>1, <1>2

\* The timer goes on or ejects only as the last order allows.
LEMMA TimerServes ==
  ASSUME OrdersInv, NEW d \in opened, NEW frames, TimerExpired(d, frames), orders' = orders
  PROVE  \A e \in Devices : Serves(e)
<1> DEFINE i == impl[d]
<1>1. /\ DrivesType /\ OrdersType /\ d \in Devices /\ Expects(d) /\ drives[d] \in DriveSet
      /\ orders' = [orders EXCEPT ![d] = orders[d]] /\ i.m_tracks \in Nat
  BY DEF OrdersInv, IInv, Types, MovesType, OrdersType, Expected, DrivesType, ImplType, ImplSet
<1>2. PICK s, h :
        /\ s \in Look(drives[d]) /\ Drive(d, h)
        /\ \/ h = s
           \/ /\ i.m_statusExpected \notin {"Ejected", "Stopped"}
              /\ h \in PlayTrackPosition(s, i.m_tracks, Following(i))
           \/ i.m_statusExpected = "Ejected" /\ h \in WmCdEject(s)
  BY DEF TimerExpired, Advances
<1>3. s \in DriveSet /\ s.mode = drives[d].mode /\ s.tray = drives[d].tray
  BY <1>1, <1>2, LookType
<1>4. (\A e \in Devices \ {d} : Serves(e)) /\ drives'[d] = h /\ orders'[d] = orders[d]
  BY <1>1, <1>2, OthersUnheard
<1>5. CASE Unmoved(h, s)
  BY <1>3, <1>4, <1>5, Unheard DEF Unmoved
<1>6. CASE /\ i.m_statusExpected \notin {"Ejected", "Stopped"}
           /\ h \in PlayTrackPosition(s, i.m_tracks, Following(i))
  <2>1. orders[d] \notin {"stop", "close"}
    BY <1>1, <1>6 DEF Expects
  <2>2. h.tray = drives[d].tray /\ h.mode \in {"Playing", drives[d].mode}
    BY <1>1, <1>3, <1>6, PlayTrackMoves
  <2>3. Serves(d)
    <3>1. CASE h.mode = "Playing"
      BY <1>4, <2>1, <2>2, <3>1 DEF Serves, PlayerOf!Next, PlayerOf!GoesOn
    <3>2. CASE h.mode = drives[d].mode
      BY <1>4, <2>2, <3>2, Unheard
    <3> QED
      BY <2>2, <3>1, <3>2
  <2> QED
    BY <1>4, <2>3
<1>7. CASE i.m_statusExpected = "Ejected" /\ h \in WmCdEject(s) /\ ~Unmoved(h, s)
  <2>1. orders[d] = "eject"
    BY <1>1, <1>7 DEF Expects
  <2>2. h.tray = (IF s.tray = "closed" THEN "ejected" ELSE s.tray) /\ h.mode # "Playing"
    BY <1>3, <1>7, EjectMoves
  <2>3. Serves(d)
    <3>1. CASE h.tray = "ejected"
      BY <1>4, <2>1, <2>2, <3>1 DEF Serves, PlayerOf!Next, PlayerOf!Ejects
    <3>2. CASE h.tray = s.tray
      BY <1>3, <1>4, <2>2, <3>2, Silenced
    <3> QED
      BY <2>2, <3>1, <3>2
  <2> QED
    BY <1>4, <2>3
<1> QED
  BY <1>2, <1>5, <1>6, <1>7 DEF Unmoved

(***************************************************************************)
(* Polls and signals.                                                      *)
(***************************************************************************)
\* A poll leaves the calls below it, and one more of its device or none.
LEMMA OnTop ==
  ASSUME NEW d \in opened, d \in Devices, NEW frames \in Seq(Frames), CallsOpen(frames),
         NEW at \in Signals, NEW status \in Statuses,
         stack' \in {frames, Append(frames, [dev |-> d, at |-> at, status |-> status])},
         opened' = opened
  PROVE  CallsOpen(stack)'
<1> DEFINE f == [dev |-> d, at |-> at, status |-> status]
<1>1. f \in Frames /\ f.dev = d
  BY DEF Frames
<1> HIDE DEF f
<1>2. /\ Append(frames, f) \in Seq(Frames) /\ Len(frames) \in Nat
      /\ DOMAIN frames = 1 .. Len(frames) /\ DOMAIN Append(frames, f) = 1 .. Len(frames) + 1
      /\ Append(frames, f)[Len(frames) + 1] = f
      /\ \A k \in 1 .. Len(frames) : Append(frames, f)[k] = frames[k]
  BY <1>1, Pushed
<1>3. CASE stack' = frames
  BY <1>3 DEF CallsOpen
<1>4. CASE stack' = Append(frames, f)
  <2> SUFFICES ASSUME NEW k \in DOMAIN stack' PROVE stack'[k].dev \in opened
    BY DEF CallsOpen
  <2>1. CASE k \in 1 .. Len(frames)
    BY <1>2, <1>4, <2>1 DEF CallsOpen
  <2>2. CASE k = Len(frames) + 1
    <3>1. stack'[k] = f
      BY <1>2, <1>4, <2>2
    <3> QED
      BY <1>1, <3>1
  <2>3. k \in 1 .. Len(frames) \/ k = Len(frames) + 1
    <3>1. Len(frames) \in Nat /\ k \in 1 .. Len(frames) + 1
      BY <1>2, <1>4
    <3> HIDE DEF CallsOpen
    <3> QED
      BY <3>1
  <2> QED
    BY <2>1, <2>2, <2>3
<1> QED
  BY <1>3, <1>4 DEF f

LEMMA ShowsOpen ==
  ASSUME NEW d \in opened, d \in Devices, NEW frames \in Seq(Frames), CallsOpen(frames),
         NEW i \in ImplSet, Shows(d, i, frames), opened' = opened
  PROVE  CallsOpen(stack)'
<1>1. i.m_status \in Statuses
  BY DEF ImplSet
<1>2. stack' \in {frames, Append(frames, [dev |-> d, at |-> "position", status |-> i.m_status])}
  BY DEF Shows, Ends, Emits
<1> QED
  BY <1>1, <1>2, OnTop DEF Signals

LEMMA TimerOpen ==
  ASSUME Types, NEW d \in opened, d \in Devices, NEW frames \in Seq(Frames),
         CallsOpen(frames), TimerExpired(d, frames), opened' = opened
  PROVE  CallsOpen(stack)'
<1>1. impl[d] \in ImplSet /\ drives[d] \in DriveSet
  BY DEF Types, ImplType, DrivesType
<1>2. \A s \in Look(drives[d]) : s.seen \in Statuses
  BY <1>1, LookType
<1>3. CASE Shows(d, impl[d], frames)
  BY <1>1, <1>3, ShowsOpen
<1>4. CASE \E s \in Look(drives[d]) :
             stack' \in {frames, Append(frames, [dev |-> d, at |-> "status", status |-> s.seen])}
  BY <1>2, <1>4, OnTop DEF Signals
<1> QED
  BY <1>3, <1>4 DEF TimerExpired, Ends, Emits

LEMMA CarryOn ==
  ASSUME OrdersInv, IInv', ExpectedKept, UNCHANGED <<orders, alive, opened>>, InUse',
         CallsOpen(stack)'
  PROVE  OrdersInv'
<1>1. opened \subseteq Devices
  BY DEF OrdersInv, IInv, Types, MovesType
<1> QED
  BY <1>1 DEF OrdersInv, OrdersType, NewNone, Expected, Expects, ExpectedKept

\* The calls below the one that returns, and its device, are of open devices.
LEMMA BelowOpen ==
  ASSUME OrdersInv, stack # << >>
  PROVE  Top \in opened /\ Top \in Devices /\ Below \in Seq(Frames) /\ CallsOpen(Below)
<1>1. stack \in Seq(Frames)
  BY DEF OrdersInv, IInv, Types, CallType
<1>2. /\ Below \in Seq(Frames) /\ Last(stack) \in Frames
      /\ Len(stack) \in DOMAIN stack /\ Last(stack) = stack[Len(stack)]
      /\ DOMAIN Below \subseteq DOMAIN stack
      /\ \A k \in DOMAIN Below : Below[k] = stack[k]
  BY <1>1, Popped DEF Below
<1> QED
  BY <1>2 DEF OrdersInv, CallsOpen, Frames, Top

LEMMA PollServes == OrdersInv /\ Poll => OrdersInv' /\ \A e \in Devices : Serves(e)
<1> SUFFICES ASSUME OrdersInv, NEW d \in Devices, timer[d], TimerExpired(d, stack),
                    UNCHANGED <<world, moves, orders>>, Poll
             PROVE  OrdersInv' /\ \A e \in Devices : Serves(e)
  BY DEF Poll
<1>1. d \in opened /\ stack \in Seq(Frames) /\ Types /\ CallsOpen(stack)
  BY ExpiredRuns DEF OrdersInv, Runs, IInv, Types, CallType
<1>2. IInv'
  BY PollKeeps DEF OrdersInv
<1>3. ExpectedKept
  BY TimerNames DEF OrdersInv, IInv, Types
<1>4. CallsOpen(stack)'
  BY <1>1, TimerOpen DEF moves
<1>5. OrdersInv'
  BY <1>2, <1>3, <1>4, CarryOn DEF moves, InUse, OrdersInv
<1> QED
  BY <1>1, <1>5, TimerServes

\* A handler returns, and nothing is done to a drive.
LEMMA DrivesStay ==
  ASSUME UNCHANGED <<drives, orders>>
  PROVE  \A e \in Devices : Serves(e)
  BY Unheard

LEMMA AfterTrackServes == OrdersInv /\ AfterTrack => OrdersInv' /\ \A e \in Devices : Serves(e)
<1> SUFFICES ASSUME OrdersInv, AfterTrack
             PROVE  OrdersInv' /\ \A e \in Devices : Serves(e)
  OBVIOUS
<1>1. IInv' /\ Ends(Top, Mine, Below) /\ UNCHANGED <<drives, moves, orders>> /\ stack # << >>
  BY AfterTrackKeeps DEF AfterTrack, Waits, OrdersInv
<1>2. Top \in opened /\ Top \in Devices /\ Below \in Seq(Frames) /\ CallsOpen(Below)
  BY <1>1, BelowOpen
<1>3. ExpectedKept
  BY <1>1, <1>2 DEF ExpectedKept, Ends, Mine, OrdersInv, IInv, Types, ImplType
<1>4. CallsOpen(stack)'
  BY <1>1, <1>2 DEF Ends, CallsOpen, moves
<1>5. OrdersInv'
  BY <1>1, <1>3, <1>4, CarryOn DEF moves, InUse, OrdersInv
<1> QED
  BY <1>1, <1>5, DrivesStay

LEMMA AfterPositionServes ==
  OrdersInv /\ AfterPosition => OrdersInv' /\ \A e \in Devices : Serves(e)
<1> SUFFICES ASSUME OrdersInv, AfterPosition
             PROVE  OrdersInv' /\ \A e \in Devices : Serves(e)
  OBVIOUS
<1> DEFINE i == [Mine EXCEPT !.m_track = CurTrack(Top)]
<1>1. IInv' /\ UNCHANGED <<drives, moves, orders>> /\ stack # << >>
  BY AfterPositionKeeps DEF AfterPosition, Waits, OrdersInv
<1>2. Top \in opened /\ Top \in Devices /\ Below \in Seq(Frames) /\ CallsOpen(Below)
  BY <1>1, BelowOpen
<1>3. /\ Mine \in ImplSet /\ Mine = impl[Top] /\ Mine.m_status \in Statuses
      /\ i.m_statusExpected = Mine.m_statusExpected
  BY <1>2 DEF Mine, OrdersInv, IInv, Types, ImplType, ImplSet
<1> HIDE DEF i
<1>4. /\ impl' \in {[impl EXCEPT ![Top] = Mine], [impl EXCEPT ![Top] = i]}
      /\ stack' \in {Below, Append(Below, [dev |-> Top, at |-> "track", status |-> Mine.m_status])}
  BY DEF AfterPosition, Ends, Emits, i
<1>5. ExpectedKept
  BY <1>2, <1>3, <1>4 DEF ExpectedKept, OrdersInv, IInv, Types, ImplType
<1>6. CallsOpen(stack)'
  BY <1>1, <1>2, <1>3, <1>4, OnTop DEF moves, Signals
<1>7. OrdersInv'
  BY <1>1, <1>5, <1>6, CarryOn DEF moves, InUse, OrdersInv
<1> QED
  BY <1>1, <1>7, DrivesStay

LEMMA AfterStatusServes ==
  OrdersInv /\ AfterStatus => OrdersInv' /\ \A e \in Devices : Serves(e)
<1> SUFFICES ASSUME OrdersInv, AfterStatus
             PROVE  OrdersInv' /\ \A e \in Devices : Serves(e)
  OBVIOUS
<1> DEFINE w == WithStatus
           gone == [w EXCEPT !.m_track = 0, !.m_tracks = 0]
           n == CountOfTracks(Top)
           new == [w EXCEPT !.m_tracks = n, !.m_playlist = [t \in 1 .. n |-> t]]
<1>1. IInv' /\ UNCHANGED <<drives, moves, orders>> /\ stack # << >> /\ stack \in Seq(Frames)
  BY AfterStatusKeeps DEF AfterStatus, Waits, OrdersInv, IInv, Types, CallType
<1>2. /\ Top \in opened /\ Top \in Devices /\ Below \in Seq(Frames) /\ CallsOpen(Below)
      /\ Last(stack) \in Frames
  BY <1>1, BelowOpen, Popped
<1>3. /\ Mine \in ImplSet /\ Mine = impl[Top] /\ w \in ImplSet
      /\ w.m_deviceName = impl[Top].m_deviceName
      /\ w.m_statusExpected = impl[Top].m_statusExpected /\ w.m_status \in Statuses
  BY <1>2 DEF Mine, WithStatus, Frames, OrdersInv, IInv, Types, ImplType, ImplSet
<1>4. /\ gone.m_statusExpected = w.m_statusExpected
      /\ new.m_statusExpected = w.m_statusExpected
  BY <1>3 DEF ImplSet
<1> HIDE DEF gone, new, n, w
<1>5. CASE \/ Emits(Top, gone, Below, "disc", w.m_status)
           \/ Emits(Top, new, Below, "disc", w.m_status)
  <2>1. ExpectedKept
    BY <1>2, <1>3, <1>4, <1>5 DEF Emits, ExpectedKept, OrdersInv, IInv, Types, ImplType
  <2>2. CallsOpen(stack)'
    BY <1>1, <1>2, <1>3, <1>5, OnTop DEF Emits, moves, Signals
  <2>3. OrdersInv'
    BY <1>1, <2>1, <2>2, CarryOn DEF moves, InUse, OrdersInv
  <2> QED
    BY <1>1, <2>3, DrivesStay
<1>6. CASE Shows(Top, w, Below)
  <2>1. ExpectedKept
    BY <1>2, <1>3, <1>6, ShowsNames DEF OrdersInv, IInv, Types
  <2>2. CallsOpen(stack)'
    BY <1>1, <1>2, <1>3, <1>6, ShowsOpen DEF moves
  <2>3. OrdersInv'
    BY <1>1, <2>1, <2>2, CarryOn DEF moves, InUse, OrdersInv
  <2> QED
    BY <1>1, <2>3, DrivesStay
<1> QED
  BY <1>5, <1>6 DEF AfterStatus, gone, new, n, w

LEMMA AfterDiscServes ==
  OrdersInv /\ AfterDisc => OrdersInv' /\ \A e \in Devices : Serves(e)
<1> SUFFICES ASSUME OrdersInv, AfterDisc
             PROVE  OrdersInv' /\ \A e \in Devices : Serves(e)
  OBVIOUS
<1>1. IInv' /\ UNCHANGED <<moves, orders>> /\ stack # << >> /\ Shows(Top, Mine, Below)
  BY AfterDiscKeeps DEF AfterDisc, Waits, OrdersInv
<1>2. Top \in opened /\ Top \in Devices /\ Below \in Seq(Frames) /\ CallsOpen(Below)
  BY <1>1, BelowOpen
<1>3. Mine \in ImplSet /\ Mine = impl[Top] /\ drives[Top] \in DriveSet
  BY <1>2 DEF Mine, OrdersInv, IInv, Types, ImplType, DrivesType
<1>4. ExpectedKept
  BY <1>1, <1>2, <1>3, ShowsNames DEF OrdersInv, IInv, Types
<1>5. CallsOpen(stack)'
  BY <1>1, <1>2, <1>3, ShowsOpen DEF moves
<1>6. OrdersInv'
  BY <1>1, <1>4, <1>5, CarryOn DEF moves, InUse, OrdersInv
<1>7. PICK h : Drive(Top, h) /\ h.mode = drives[Top].mode /\ h.tray = drives[Top].tray
  BY <1>3, LookType DEF AfterDisc
<1> PICK d \in Devices : d = Top
  BY <1>2
<1>8. \A e \in Devices : Serves(e)
  <2>1. orders' = [orders EXCEPT ![d] = orders[d]]
    BY <1>1 DEF OrdersInv, OrdersType
  <2>2. (\A e \in Devices \ {d} : Serves(e)) /\ drives'[d] = h
    BY <1>7, <2>1, OthersUnheard DEF OrdersInv, IInv, Types
  <2>3. Serves(d)
    BY <1>1, <1>7, <2>2, Unheard
  <2> QED
    BY <2>2, <2>3
<1> QED
  BY <1>6, <1>8

(***************************************************************************)
(* setDevice.                                                              *)
(***************************************************************************)
LEMMA MovedServes == OrdersInv /\ Moved => OrdersInv' /\ \A e \in Devices : Serves(e)
<1> SUFFICES ASSUME OrdersInv, Moved
             PROVE  OrdersInv' /\ \A e \in Devices : Serves(e)
  OBVIOUS
<1>1. /\ IInv' /\ UNCHANGED <<drives, impl, orders, alive, opened>> /\ stack # << >>
      /\ current' = Top /\ stack' = Below
  BY MovedKeeps DEF Moved, Waits, OrdersInv
<1>2. Top \in opened /\ CallsOpen(Below)
  BY <1>1, BelowOpen
<1>3. ExpectedKept /\ InUse' /\ CallsOpen(stack)'
  BY <1>1, <1>2 DEF ExpectedKept, InUse, CallsOpen
<1>4. OrdersInv'
  BY <1>1, <1>3, CarryOn
<1> QED
  BY <1>1, <1>4, DrivesStay

LEMMA AfterCreatedServes ==
  OrdersInv /\ AfterCreated => OrdersInv' /\ \A e \in Devices : Serves(e)
<1> SUFFICES ASSUME OrdersInv, AfterCreated
             PROVE  OrdersInv' /\ \A e \in Devices : Serves(e)
  OBVIOUS
<1> DEFINE f == [Last(stack) EXCEPT !.at = "moving"]
           frames == Append(Below, f)
<1>1. /\ IInv' /\ UNCHANGED <<orders, alive, opened>> /\ stack # << >>
      /\ stack \in Seq(Frames)
  BY AfterCreatedKeeps DEF AfterCreated, Waits, OrdersInv, IInv, Types, CallType
<1>2. /\ Top \in opened /\ Top \in Devices /\ Below \in Seq(Frames) /\ CallsOpen(Below)
      /\ Last(stack) \in Frames
  BY <1>1, BelowOpen, Popped
<1>3. CASE TimerExpired(Top, frames) /\ current' = current
  <2>1. f \in Frames /\ f.dev = Top
    BY <1>2 DEF Frames, Signals, Top
  <2> HIDE DEF f
  <2>2. frames \in Seq(Frames) /\ CallsOpen(frames)
    <3>1. /\ frames \in Seq(Frames) /\ Len(Below) \in Nat
          /\ DOMAIN Below = 1 .. Len(Below) /\ DOMAIN frames = 1 .. Len(Below) + 1
          /\ frames[Len(Below) + 1] = f
          /\ \A k \in 1 .. Len(Below) : frames[k] = Below[k]
      BY <1>2, <2>1, Pushed
    <3> HIDE DEF frames
    <3>2. \A k \in DOMAIN frames : k \in DOMAIN Below \/ k = Len(Below) + 1
      BY <3>1
    <3> QED
      BY <1>2, <2>1, <3>1, <3>2 DEF CallsOpen
  <2> HIDE DEF frames
  <2>3. ExpectedKept
    BY <1>2, <1>3, TimerNames DEF OrdersInv, IInv, Types
  <2>4. CallsOpen(stack)'
    BY <1>1, <1>2, <1>3, <2>2, TimerOpen DEF OrdersInv, IInv
  <2>5. OrdersInv'
    BY <1>1, <1>3, <2>3, <2>4, CarryOn DEF InUse, OrdersInv
  <2> QED
    BY <1>1, <1>2, <1>3, <2>5, TimerServes
<1>4. CASE Ends(Top, Mine, Below) /\ current' = Top /\ UNCHANGED drives
  <2>1. ExpectedKept /\ CallsOpen(stack)'
    BY <1>1, <1>2, <1>4 DEF ExpectedKept, Ends, Mine, OrdersInv, IInv, Types, ImplType, CallsOpen
  <2>2. OrdersInv'
    BY <1>1, <1>2, <1>4, <2>1, CarryOn DEF InUse
  <2> QED
    BY <1>1, <1>4, <2>2, DrivesStay
<1> QED
  BY <1>3, <1>4 DEF AfterCreated, frames, f

LEMMA SetDeviceServes ==
  OrdersInv /\ NotEjected /\ SetDevice => OrdersInv' /\ \A e \in Devices : Serves(e)
<1> SUFFICES ASSUME OrdersInv, NotEjected, SetDevice
             PROVE  OrdersInv' /\ \A e \in Devices : Serves(e)
  OBVIOUS
<1>1. PICK name, d, s :
        /\ name \in Devices /\ d \in plugged \ opened
        /\ (\E h \in NewDrives(d) : s \in Look(h))
        /\ Drive(d, s) /\ impl' = [impl EXCEPT ![d] = NewImpl(name)]
        /\ opened' = opened \cup {d}
        /\ stack' = Append(stack, [dev |-> d, at |-> "created", status |-> "NoDisc"])
  BY DEF SetDevice
<1>2. /\ UNCHANGED <<orders, alive, current>> /\ alive /\ IInv' /\ stack \in Seq(Frames)
      /\ d \in Devices /\ d \notin opened /\ opened \subseteq Devices
  BY <1>1, SetDeviceKeeps DEF SetDevice, OrdersInv, IInv, Types, CallType, MovesType
<1>3. orders[d] = "none" /\ orders' = [orders EXCEPT ![d] = "none"]
  BY <1>2 DEF OrdersInv, NewNone, OrdersType
<1>4. Expected'
  <2>1. impl'[d].m_statusExpected = "NoDisc"
    BY <1>1, <1>2 DEF NewImpl, OrdersInv, IInv, Types, ImplType
  <2>2. \A e \in opened : impl'[e] = impl[e]
    BY <1>1, <1>2 DEF OrdersInv, IInv, Types, ImplType
  <2> QED
    BY <1>1, <1>2, <1>3, <2>1, <2>2 DEF Expected, Expects, OrdersInv
<1>5. CallsOpen(stack)'
  <2> DEFINE f == [dev |-> d, at |-> "created", status |-> "NoDisc"]
  <2>1. f \in Frames /\ f.dev = d
    BY <1>2 DEF Frames, Signals, Statuses, Modes
  <2> HIDE DEF f
  <2>2. /\ Len(stack) \in Nat /\ DOMAIN stack = 1 .. Len(stack)
        /\ DOMAIN stack' = 1 .. Len(stack) + 1 /\ stack'[Len(stack) + 1] = f
        /\ \A k \in 1 .. Len(stack) : stack'[k] = stack[k]
    BY <1>1, <1>2, <2>1, Pushed DEF f
  <2>3. \A k \in DOMAIN stack' : k \in DOMAIN stack \/ k = Len(stack) + 1
    BY <2>2
  <2> QED
    BY <1>1, <2>1, <2>2, <2>3 DEF CallsOpen, OrdersInv
<1>6. OrdersInv'
  BY <1>1, <1>2, <1>4, <1>5 DEF OrdersInv, OrdersType, NewNone, InUse
<1>7. s.mode # "Playing" /\ s.tray \in {"closed", "opened"}
  <2>1. PICK h \in NewDrives(d) : s \in Look(h)
    BY <1>1
  <2>2. h \in DriveSet /\ h.mode # "Playing" /\ h.tray \in {"closed", "opened"}
    BY NewType
  <2> QED
    BY <2>1, <2>2, LookType
<1>8. /\ \A e \in Devices \ {d} : Serves(e)
      /\ drives'[d] = s /\ orders'[d] = orders[d]
  BY <1>1, <1>2, <1>3, OthersUnheard DEF OrdersInv, IInv, Types
<1>9. drives'[d].mode # "Playing" /\ drives'[d].tray \in {"closed", "opened"}
  BY <1>7, <1>8
<1>10. drives[d].tray \in {"closed", "opened"}
  BY <1>2, <1>3 DEF NotEjected, OrdersInv, IInv, Types, DrivesType, DriveSet, DriveFields
<1>11. Serves(d)
  <2>1. CASE drives'[d].tray = drives[d].tray
    BY <1>8, <1>9, <2>1, Silenced
  <2>2. CASE drives'[d].tray = "opened" /\ drives[d].tray = "closed"
    BY <1>8, <1>9, <2>2 DEF Serves, PlayerOf!Next, PlayerOf!Opened
  <2>3. CASE drives'[d].tray = "closed"
    BY <1>8, <1>9, <2>3 DEF Serves, PlayerOf!Next, PlayerOf!Closed, PlayerOf!NoStart
  <2> QED
    BY <1>9, <1>10, <2>1, <2>2, <2>3
<1> QED
  BY <1>6, <1>8, <1>11

(***************************************************************************)
(* The slots.                                                              *)
(***************************************************************************)
\* What an order may do to a drive h, that is g after it.
Allowed(o, g, h) ==
  CASE o = "play"  -> g.tray = h.tray
    [] o = "pause" -> g.tray = h.tray
    [] o = "stop"  -> g.tray = h.tray /\ g.mode # "Playing"
    [] o = "eject" -> g.tray \in {h.tray, "ejected"} /\ (g.mode = h.mode \/ g.mode # "Playing")
    [] o = "close" -> g.tray \in {h.tray, "closed"} /\ g.mode = h.mode
    [] OTHER       -> FALSE

LEMMA OrderServes ==
  ASSUME OrdersInv, current # NoDevice, NEW d \in opened, d = current, NEW o \in OrderSet,
         NEW outcomes, NEW x \in Statuses, Order(o, outcomes, x),
         o \in {"stop", "close"} => x = "Stopped", x = "Ejected" => o = "eject",
         \A g \in outcomes : g \in DriveSet /\ Allowed(o, g, drives[d])
  PROVE  OrdersInv' /\ \A e \in Devices : Serves(e)
<1>1. /\ orders' = [orders EXCEPT ![d] = o]
      /\ impl' = [impl EXCEPT ![d].m_statusExpected = x]
      /\ UNCHANGED <<opened, current, alive, stack>>
      /\ d \in Devices /\ opened \subseteq Devices
  BY DEF Order, moves, OrdersInv, IInv, Types, MovesType
<1> PICK h \in outcomes : Drive(d, h)
  BY DEF Order
<1>2. IInv'
  BY OrderKeeps DEF OrdersInv
<1>3. /\ impl'[d].m_statusExpected = x /\ orders'[d] = o
      /\ \A e \in Devices \ {d} : impl'[e] = impl[e] /\ orders'[e] = orders[e]
  BY <1>1 DEF OrdersInv, OrdersType, IInv, Types, ImplType, ImplSet
<1>4. Expected'
  BY <1>1, <1>3 DEF Expected, Expects, OrdersInv
<1>5. OrdersInv'
  BY <1>1, <1>2, <1>3, <1>4 DEF OrdersInv, OrdersType, NewNone, InUse, CallsOpen
<1>6. (\A e \in Devices \ {d} : Serves(e)) /\ drives'[d] = h /\ orders'[d] = o
  BY <1>1, OthersUnheard DEF OrdersInv, IInv, Types
<1>7. Serves(d)
  <2>1. CASE o = "play"
    BY <1>6, <2>1 DEF Serves, PlayerOf!Next, PlayerOf!Order, PlayerOf!Play, Allowed
  <2>2. CASE o = "pause"
    BY <1>6, <2>2 DEF Serves, PlayerOf!Next, PlayerOf!Order, PlayerOf!Pause, Allowed
  <2>3. CASE o = "stop"
    BY <1>6, <2>3 DEF Serves, PlayerOf!Next, PlayerOf!Order, PlayerOf!Stop, Allowed
  <2>4. CASE o = "eject"
    BY <1>6, <2>4 DEF Serves, PlayerOf!Next, PlayerOf!Order, PlayerOf!Eject, PlayerOf!NoStart, Allowed
  <2>5. CASE o = "close"
    BY <1>6, <2>5 DEF Serves, PlayerOf!Next, PlayerOf!Order, PlayerOf!Close, PlayerOf!NoStart, Allowed
  <2> QED
    BY <2>1, <2>2, <2>3, <2>4, <2>5 DEF Allowed
<1> QED
  BY <1>5, <1>6, <1>7

LEMMA SlotServes == OrdersInv /\ Slot => OrdersInv' /\ \A e \in Devices : Serves(e)
<1> SUFFICES ASSUME OrdersInv, Slot
             PROVE  OrdersInv' /\ \A e \in Devices : Serves(e)
  OBVIOUS
<1>1. current # NoDevice /\ alive
  BY DEF Slot, PlayTrackSlot, PlayEntry, PlayTrack, Pause, Stop, Eject, Order
<1>2. PICK d \in opened : d = current
  BY <1>1 DEF OrdersInv, InUse
<1>3. d \in Devices /\ drive \in DriveSet /\ drive = drives[d] /\ me \in ImplSet
  BY <1>2 DEF OrdersInv, IInv, Types, MovesType, DrivesType, ImplType, drive, me
<1>4. /\ me.m_tracks \in Nat /\ me.m_statusExpected \in Statuses
      /\ {"Playing", "Paused", "Stopped", "Ejected"} \subseteq Statuses
      /\ {"play", "pause", "stop", "eject", "close"} \subseteq OrderSet
  BY <1>3 DEF ImplSet, Statuses, Modes, OrderSet
<1>5. /\ \A g \in WmCdStop(drive) : g \in DriveSet /\ Allowed("stop", g, drives[d])
      /\ \A g \in WmCdPause(drive) : g \in DriveSet /\ Allowed("pause", g, drives[d])
      /\ \A g \in WmCdCloseTray(drive) : g \in DriveSet /\ Allowed("close", g, drives[d])
  BY <1>3, StopMoves, PauseMoves, CloseMoves DEF Allowed
<1>6. \A g \in WmCdEject(drive) \cup WmCdStop(drive) :
        g \in DriveSet /\ Allowed("eject", g, drives[d])
  <2>1. \A g \in WmCdEject(drive) : g \in DriveSet /\ Allowed("eject", g, drives[d])
    BY <1>3, EjectMoves DEF Allowed, Unmoved
  <2>2. \A g \in WmCdStop(drive) : g \in DriveSet /\ Allowed("eject", g, drives[d])
    BY <1>3, StopMoves DEF Allowed
  <2> QED
    BY <2>1, <2>2
<1>7. ASSUME NEW t, PlayTrack(t) PROVE OrdersInv' /\ \A e \in Devices : Serves(e)
  <2> DEFINE outcomes == PlayTrackPosition(drive, me.m_tracks, t)
  <2>1. \A g \in outcomes : g \in DriveSet /\ Allowed("play", g, drives[d])
    BY <1>3, <1>4, PlayTrackMoves DEF Allowed
  <2>2. Order("play", outcomes, "Playing")
    BY <1>7 DEF PlayTrack
  <2> HIDE DEF outcomes
  <2> QED
    BY <1>1, <1>2, <1>4, <2>1, <2>2, OrderServes
<1>8. CASE PlayTrackSlot \/ PlayEntry
  BY <1>7, <1>8 DEF PlayTrackSlot, PlayEntry
<1>9. CASE Pause
  <2>1. PICK x \in {"Playing", "Paused"} : Order("pause", WmCdPause(drive), x)
    BY <1>9 DEF Pause
  <2> QED
    BY <1>1, <1>2, <1>4, <1>5, <1>6, <2>1, OrderServes
<1>10. CASE Stop
  <2>1. Order("stop", WmCdStop(drive), "Stopped")
    BY <1>10 DEF Stop
  <2> QED
    BY <1>1, <1>2, <1>4, <1>5, <1>6, <2>1, OrderServes
<1>11. CASE Eject
  <2>1. CASE Order("close", WmCdCloseTray(drive), "Stopped")
    BY <1>1, <1>2, <1>4, <1>5, <1>6, <2>1, OrderServes
  <2>2. CASE Order("eject", WmCdEject(drive), me.m_statusExpected)
    BY <1>1, <1>2, <1>4, <1>5, <1>6, <2>2, OrderServes
  <2>3. CASE Order("eject", WmCdStop(drive), "Ejected")
    BY <1>1, <1>2, <1>4, <1>5, <1>6, <2>3, OrderServes
  <2> QED
    BY <1>11, <2>1, <2>2, <2>3 DEF Eject
<1> QED
  BY <1>8, <1>9, <1>10, <1>11 DEF Slot

(***************************************************************************)
(* The end of the object, and what happens outside.                        *)
(***************************************************************************)
LEMMA DestroyServes == OrdersInv /\ Destroy => OrdersInv' /\ \A e \in Devices : Serves(e)
<1> SUFFICES ASSUME OrdersInv, Destroy
             PROVE  OrdersInv' /\ \A e \in Devices : Serves(e)
  OBVIOUS
<1>1. PICK d \in Devices : d = current
  BY DEF Destroy, OrdersInv, IInv, Types, MovesType
<1>2. /\ \E h \in WmCdStop(drives[d]) : Drive(d, h)
      /\ orders' = [orders EXCEPT ![d] = "stop"]
      /\ opened' = {} /\ alive' = FALSE /\ stack = << >> /\ stack' = stack /\ IInv'
  BY <1>1, DestroyKeeps DEF Destroy, OrdersInv, drive
<1> PICK h \in WmCdStop(drives[d]) : Drive(d, h)
  BY <1>2
<1>3. OrdersInv'
  <2>1. DOMAIN stack' = {}
    BY <1>2
  <2>2. CallsOpen(stack)' /\ InUse' /\ Expected' /\ NewNone'
    BY <1>2, <2>1 DEF NewNone, Expected, InUse, CallsOpen
  <2>3. OrdersType'
    BY <1>1, <1>2 DEF OrdersInv, OrdersType, OrderSet
  <2> QED
    BY <1>2, <2>2, <2>3 DEF OrdersInv
<1>4. /\ \A e \in Devices \ {d} : Serves(e)
      /\ drives'[d] = h /\ orders'[d] = "stop"
  BY <1>1, <1>2, OthersUnheard DEF OrdersInv, IInv, Types
<1>5. drives'[d].tray = drives[d].tray /\ drives'[d].mode # "Playing"
  BY <1>4, StopMoves DEF OrdersInv, IInv, Types, DrivesType
<1>6. Serves(d)
  BY <1>4, <1>5 DEF Serves, PlayerOf!Next, PlayerOf!Order, PlayerOf!Stop
<1> QED
  BY <1>3, <1>4, <1>6

\* Nothing is ordered.
LEMMA NoOrder ==
  ASSUME OrdersInv, IInv', UNCHANGED <<orders, impl, moves, stack>>
  PROVE  OrdersInv'
  BY DEF moves, OrdersInv, OrdersType, NewNone, Expected, Expects, InUse, CallsOpen

LEMMA HardwareServes == OrdersInv /\ Hardware => OrdersInv' /\ \A e \in Devices : Serves(e)
<1> SUFFICES ASSUME OrdersInv, Hardware
             PROVE  OrdersInv' /\ \A e \in Devices : Serves(e)
  OBVIOUS
<1>1. OrdersInv'
  BY HardwareKeeps, NoOrder DEF Hardware, OrdersInv
<1>2. PICK d \in opened :
        LET h == drives[d] IN
        \/ h.mode = "Playing" /\ Drive(d, Set(h, "Stopped", 0))
        \/ h.tray = "closed" /\ Drive(d, [Set(h, "NoDisc", 0) EXCEPT !.tray = "opened"])
        \/ h.tray # "closed" /\ Drive(d, In(h))
        \/ h.tray = "closed" /\ h.mode = "NoDisc" /\ Drive(d, Set(h, "Stopped", 0))
  BY DEF Hardware
<1>3. PICK g : /\ Drive(d, g)
               /\ \/ g.mode # "Playing" /\ g.tray = drives[d].tray
                  \/ g.mode # "Playing" /\ g.tray = "opened" /\ drives[d].tray = "closed"
                  \/ g.mode = drives[d].mode /\ g.tray = "closed"
  <2>1. drives[d] \in DriveSet
    BY DEF OrdersInv, IInv, Types, MovesType, DrivesType
  <2> DEFINE h == drives[d]
             stopped == Set(h, "Stopped", 0)
             out == [Set(h, "NoDisc", 0) EXCEPT !.tray = "opened"]
  <2>2. /\ stopped.mode = "Stopped" /\ stopped.tray = h.tray
        /\ out.mode = "NoDisc" /\ out.tray = "opened"
        /\ In(h).mode = h.mode /\ In(h).tray = "closed"
    BY <2>1, TrayType DEF Set, DriveSet, DriveFields
  <2>3. \/ Drive(d, stopped)
        \/ h.tray = "closed" /\ Drive(d, out)
        \/ Drive(d, In(h))
    BY <1>2
  <2> HIDE DEF stopped, out
  <2> QED
    BY <2>2, <2>3
<1>4. d \in Devices /\ orders' = [orders EXCEPT ![d] = orders[d]]
  BY DEF Hardware, OrdersInv, OrdersType, IInv, Types, MovesType
<1>5. (\A e \in Devices \ {d} : Serves(e)) /\ drives'[d] = g /\ orders'[d] = orders[d]
  BY <1>3, <1>4, OthersUnheard DEF OrdersInv, IInv, Types
<1>6. Serves(d)
  <2>1. CASE g.mode # "Playing" /\ g.tray = drives[d].tray
    BY <1>5, <2>1, Silenced
  <2>2. CASE g.mode # "Playing" /\ g.tray = "opened" /\ drives[d].tray = "closed"
    BY <1>5, <2>2 DEF Serves, PlayerOf!Next, PlayerOf!Opened
  <2>3. CASE g.mode = drives[d].mode /\ g.tray = "closed"
    BY <1>5, <2>3 DEF Serves, PlayerOf!Next, PlayerOf!Closed, PlayerOf!NoStart
  <2> QED
    BY <1>3, <2>1, <2>2, <2>3
<1> QED
  BY <1>1, <1>5, <1>6

LEMMA RestServes ==
  OrdersInv /\ (SetDeviceFails \/ Ask \/ Hotplug \/ UNCHANGED vars)
    => OrdersInv' /\ \A e \in Devices : Serves(e)
<1> SUFFICES ASSUME OrdersInv, SetDeviceFails \/ Ask \/ Hotplug \/ UNCHANGED vars
             PROVE  OrdersInv' /\ \A e \in Devices : Serves(e)
  OBVIOUS
<1>1. UNCHANGED <<drives, orders, impl, moves, stack>>
  BY DEF SetDeviceFails, Ask, Hotplug, vars
<1>2. IInv'
  BY NextInv DEF OrdersInv, Next
<1> QED
  BY <1>1, <1>2, NoOrder, DrivesStay

(***************************************************************************)
(* All of it.                                                              *)
(***************************************************************************)
LEMMA InitOrders == Init => OrdersInv /\ NotEjected /\ \A d \in Devices : PlayerOf(d)!Init
<1> SUFFICES ASSUME Init PROVE OrdersInv /\ NotEjected /\ \A d \in Devices : PlayerOf(d)!Init
  OBVIOUS
<1>1. \A d \in Devices : /\ drives[d].tray = "closed" /\ drives[d].mode = "NoDisc"
                         /\ orders[d] = "none"
  BY DEF Init, Idle
<1>2. OrdersInv
  BY <1>1, InitInv DEF Init, OrdersInv, OrdersType, OrderSet, NewNone, Expected, InUse,
                       CallsOpen
<1> QED
  BY <1>1, <1>2 DEF NotEjected, PlayerOf!Init

LEMMA NextServes ==
  OrdersInv /\ NotEjected /\ [Next]_vars
    => OrdersInv' /\ NotEjected' /\ \A d \in Devices : Serves(d)
<1> SUFFICES ASSUME OrdersInv, NotEjected, [Next]_vars
             PROVE  OrdersInv' /\ \A d \in Devices : Serves(d)
  BY NotEjectedKept
<1>1. CASE Poll \/ AfterStatus \/ AfterDisc \/ AfterPosition \/ AfterTrack
  BY <1>1, PollServes, AfterStatusServes, AfterDiscServes, AfterPositionServes, AfterTrackServes
<1>2. CASE SetDevice \/ AfterCreated \/ Moved
  BY <1>2, SetDeviceServes, AfterCreatedServes, MovedServes
<1>3. CASE Slot \/ Destroy \/ Hardware
  BY <1>3, SlotServes, DestroyServes, HardwareServes
<1>4. CASE SetDeviceFails \/ Ask \/ Hotplug \/ UNCHANGED vars
  BY <1>4, RestServes
<1> QED
  BY <1>1, <1>2, <1>3, <1>4 DEF Next

\* Each device is served as Player says, for any number of devices and discs,
\* however often the object is moved and whatever the handlers of the signals
\* order: no implementation starts by itself what was stopped, and none opens a
\* tray that was not ordered open.
THEOREM InterfacePlayers == \A d \in Devices : Spec => PlayerOf(d)!Spec
<1> SUFFICES ASSUME NEW d \in Devices PROVE Spec => PlayerOf(d)!Spec
  OBVIOUS
<1>1. Init => PlayerOf(d)!Init
  BY InitOrders
<1>2. OrdersInv /\ NotEjected /\ [Next]_vars => [PlayerOf(d)!Next]_(PlayerOf(d)!vars)
  BY NextServes DEF Serves
<1>3. Spec => [](OrdersInv /\ NotEjected)
  BY InitOrders, NextServes, PTL DEF Spec
<1> QED
  BY <1>1, <1>2, <1>3, PTL DEF Spec, PlayerOf!Spec
=============================================================================

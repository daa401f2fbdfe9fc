------------------------------ MODULE Interface ------------------------------
(***************************************************************************)
(* The life cycle of the implementations behind a KCompactDisc: setDevice  *)
(* and moveInterface, the cached list of devices, the timer of each        *)
(* implementation that was ever opened, and the signals.  A signal is a    *)
(* call of the application's handlers: what is written after an emission   *)
(* is done only when they return, and meanwhile they may call any slot,    *)
(* and run an event loop of their own, in which other timers expire.  So   *)
(* the calls that wait for a handler are a stack.                          *)
(*                                                                         *)
(* Devices are numbered in the order of their names.  The drives are       *)
(* simpler than those of CdDrive: each has one disc, an audio disc, that   *)
(* does not fail while it plays.  The playlist switches stay off.          *)
(***************************************************************************)
EXTENDS Playlist, FiniteSetsExt, SequencesExt

CONSTANTS
  Tracks,      \* number of tracks of the disc in each device
  SlotLoading, \* the devices whose open tray looks like an empty drive
  InfoModes,   \* arguments of the constructor
  MaxOrders,   \* bounds, once a second device is opened, on the orders the
  MaxEvents    \* application has given, and on what has happened to the drives

Devices  == DOMAIN Tracks
NoDevice == 0

ASSUME InterfaceAssumption ==
  /\ Tracks \in Seq(Nat \ {0}) /\ SlotLoading \subseteq Devices
  /\ InfoModes \subseteq {"Synchronous", "Asynchronous"}
  /\ MaxOrders \in Nat /\ MaxEvents \in Nat

VARIABLES
  drives,      \* device -> drive: hardware and what libworkman last read
  plugged,     \* the devices there are
  listed,      \* cdromsNameToDeviceUrl: the devices as they were once
  m_infoMode,
  impl,        \* device -> the implementation that has opened it
  opened,      \* the devices with an implementation that is not deleted
  current,     \* d_ptr: the device of the implementation, or NoDevice: the dummy
  timer,       \* device -> the timer of its implementation will expire
  stack,       \* the calls that wait for a handler to return, the last on top
  told,        \* device -> the last status and number of tracks signalled
  orders,      \* history: device -> the last order it was given
  alive,       \* the object is not destroyed
  given,       \* number of orders so far, up to MaxOrders + 1
  events       \* number of changes of the drives so far, up to MaxEvents + 1

world == <<plugged, listed, m_infoMode, events>>
moves == <<opened, current, alive>>
vars  == <<drives, world, impl, moves, timer, stack, told, orders, given>>

\* Without a second device nothing is bounded.
Within(n, max) == Cardinality(opened) < 2 \/ n < max
Count(n, max)  == IF n <= max THEN n + 1 ELSE n

(***************************************************************************)
(* A drive: its tray, what its disc does ("NoDisc": it does not turn), and *)
(* of struct wm_drive                                                      *)
(*   seen     cur_cdmode, as discStatusTranslate gives it                  *)
(*   ready    oldmode is a mode of a disc                                  *)
(*   read     the table of contents was read, so that ntracks is not 0     *)
(*   curtrack current track                                                *)
(***************************************************************************)

\* Nothing has been asked of it: cur_cdmode is the 0 of a zeroed handle.
Idle(d, tray, mode) ==
  [slot |-> d \in SlotLoading, tray |-> tray, mode |-> mode, at |-> 0,
   seen |-> "Error", ready |-> FALSE, read |-> FALSE, curtrack |-> 0]

\* The disc spins up, is ready, or lies on the open tray.
NewDrives(d) ==
  {Idle(d, "closed", "NoDisc"), Idle(d, "closed", "Stopped"), Idle(d, "opened", "NoDisc")}

Ready(d) == d.tray = "closed" /\ d.mode # "NoDisc"
HasDisc(status) == status \notin {"NoDisc", "Ejected"}

\* wm_cd_status without a disc that is ready: for WM_CDM_NO_DISC, which an open
\* tray without a sensor gives, cur_cdmode stays.
Absent(d) ==
  CASE d.tray = "closed"             -> "NoDisc"
    [] d.tray # "closed" /\ d.slot   -> d.seen
    [] d.tray # "closed" /\ ~d.slot  -> "Ejected"

Seen(d) ==
  [d EXCEPT !.seen = d.mode, !.ready = TRUE,
            !.curtrack = IF d.mode \in {"Playing", "Paused"} THEN d.at ELSE @]

\* wm_cd_status.  A disc that has come is read, or its header, or one of its
\* entries, can not be read; then it is looked for again the next time.
Look(d) ==
  IF ~Ready(d) THEN {[d EXCEPT !.seen = Absent(d), !.ready = FALSE]}
  ELSE IF d.ready THEN {Seen(d)}
  ELSE {[Seen(d) EXCEPT !.read = TRUE], [d EXCEPT !.read = FALSE],
        [d EXCEPT !.read = FALSE, !.seen = "NoDisc"]}

Set(d, mode, at) == [d EXCEPT !.mode = mode, !.at = at]
Halt(d) == IF d.mode \in {"Playing", "Paused"} THEN Set(d, "Stopped", 0) ELSE d
Out(d)  == [Set(d, "NoDisc", 0) EXCEPT !.tray = IF @ = "closed" THEN "ejected" ELSE @]
In(d)   == [d EXCEPT !.tray = "closed"]

\* wm_cd_play and its like: the drives they may leave, after one wm_cd_status
\* and before another.
WmCdPlay(d, track) ==
  UNION {IF ~HasDisc(s.seen) \/ ~s.read THEN {s}
         ELSE Look(IF Ready(s) THEN Set(s, "Playing", track) ELSE s) : s \in Look(d)}
WmCdStop(d) ==
  UNION {IF ~HasDisc(s.seen) \/ s.seen = "Stopped" THEN {s} ELSE Look(Halt(s)) : s \in Look(d)}
WmCdPause(d) ==
  {CASE s.seen = s.mode /\ s.mode = "Playing" -> [s EXCEPT !.mode = "Paused"]
     [] s.seen = s.mode /\ s.mode = "Paused"  -> [s EXCEPT !.mode = "Playing"]
     [] OTHER                                 -> s : s \in Look(d)}

\* A disc that is mounted is not ejected, and not every tray has a motor.
WmCdEject(d) == {d} \cup Look(Out(d))
WmCdCloseTray(d) ==
  UNION {IF s.seen = "NoDisc" THEN {s} ELSE Look(s) \cup Look(In(s)) : s \in Look(d)}

\* wm_cd_getcurtrack and wm_cd_getcountoftracks: as last read.
CurTrack(d)      == IF HasDisc(drives[d].seen) THEN drives[d].curtrack ELSE 0
CountOfTracks(d) == IF HasDisc(drives[d].seen) /\ drives[d].read THEN Tracks[d] ELSE 0

\* playTrackPosition: TRACK_VALID
PlayTrackPosition(drive, m_tracks, track) ==
  WmCdPlay(drive, IF track \in 1 .. m_tracks THEN track ELSE 1)

(***************************************************************************)
(* timerExpired, from one emission to the next.                            *)
(***************************************************************************)

\* timerExpired of device d leaves its implementation as i and ends, or emits a
\* signal, at; frames are the calls below it.
Ends(d, i, frames) ==
  /\ impl' = [impl EXCEPT ![d] = i] /\ stack' = frames
  /\ timer' = [timer EXCEPT ![d] = TRUE]

\* Mutant: the timer runs already while the handlers do.
MutantEmits(d, i, frames, at, status) ==
  /\ impl' = [impl EXCEPT ![d] = i]
  /\ stack' = Append(frames, [dev |-> d, at |-> at, status |-> status])
  /\ timer' = [timer EXCEPT ![d] = TRUE]

Emits(d, i, frames, at, status) ==
  /\ impl' = [impl EXCEPT ![d] = i]
  /\ stack' = Append(frames, [dev |-> d, at |-> at, status |-> status])
  /\ timer' = [timer EXCEPT ![d] = FALSE]

\* The second switch: what is done for the status i has now.
Shows(d, i, frames) ==
  CASE i.m_status = "Playing" -> Emits(d, i, frames, "position", i.m_status)
    [] i.m_status = "Stopped" -> Ends(d, [i EXCEPT !.m_track = 0], frames)
    [] OTHER                  -> Ends(d, i, frames)

\* The switches are off, so that there is one entry.
Following(i) ==
  TrackOf(CHOOSE e \in NextEntries(i.m_playlist, i.m_track, i.m_tracks, FALSE, FALSE) : TRUE)
Preceding(i) ==
  TrackOf(CHOOSE e \in PrevEntries(i.m_playlist, i.m_track, i.m_tracks, FALSE, FALSE) : TRUE)

Advances(i, status) ==
  /\ status = "Stopped" /\ i.m_statusExpected \notin {"Ejected", "Stopped"}
  /\ Following(i) # 0

Drive(d, drive) == drives' = [drives EXCEPT ![d] = drive]

\* From the start to the signal of a new status; skipStatusChange emits it
\* before m_status is assigned.
TimerExpired(d, frames) ==
  LET i == impl[d] IN
  \E s \in Look(drives[d]) :
    \/ /\ s.seen = i.m_status
       /\ Shows(d, i, frames) /\ Drive(d, s) /\ UNCHANGED told
    \/ /\ s.seen # i.m_status /\ Advances(i, s.seen)
       /\ \E h \in PlayTrackPosition(s, i.m_tracks, Following(i)) : Drive(d, h)
       /\ Ends(d, i, frames) /\ UNCHANGED told
    \/ /\ s.seen # i.m_status /\ ~Advances(i, s.seen)
       /\ \E h \in IF s.seen = "Stopped" /\ i.m_statusExpected = "Ejected"
                   THEN WmCdEject(s) ELSE {s} : Drive(d, h)
       /\ Emits(d, i, frames, "status", s.seen)
       /\ told' = [told EXCEPT ![d].status = s.seen]

Poll ==
  /\ \E d \in Devices : timer[d] /\ TimerExpired(d, stack)
  /\ UNCHANGED <<world, moves, orders, given>>

(***************************************************************************)
(* The handlers of a signal have returned.                                 *)
(***************************************************************************)

Waits(at) == stack # << >> /\ Last(stack).at = at
Top   == Last(stack).dev
Below == Front(stack)
Mine  == impl[Top]

\* Mutant: the status is told but not kept.
MutantWithStatus == Mine

WithStatus == [Mine EXCEPT !.m_status = Last(stack).status]

\* discStatusChanged: clearDiscInfo, or a new disc, or neither.
AfterStatus ==
  /\ Waits("status")
  /\ \/ /\ ~HasDisc(WithStatus.m_status)
        /\ Emits(Top, [WithStatus EXCEPT !.m_track = 0, !.m_tracks = 0], Below, "disc", WithStatus.m_status)
        /\ told' = [told EXCEPT ![Top].tracks = 0]
     \/ LET n == CountOfTracks(Top) IN
        /\ HasDisc(WithStatus.m_status) /\ Mine.m_tracks = 0 /\ n > 0
        /\ Emits(Top, [WithStatus EXCEPT !.m_tracks = n, !.m_playlist = [t \in 1 .. n |-> t]],
                 Below, "disc", WithStatus.m_status)
        /\ told' = [told EXCEPT ![Top].tracks = n]
     \/ /\ HasDisc(WithStatus.m_status) /\ (Mine.m_tracks # 0 \/ CountOfTracks(Top) = 0)
        /\ Shows(Top, WithStatus, Below) /\ UNCHANGED told
  /\ UNCHANGED <<drives, world, moves, orders, given>>

\* discChanged.  For a new disc queryMetadata asks for the status once more.
AfterDisc ==
  /\ Waits("disc")
  /\ Shows(Top, Mine, Below)
  /\ \E s \in IF Mine.m_tracks # 0 THEN Look(drives[Top]) ELSE {drives[Top]} : Drive(Top, s)
  /\ UNCHANGED <<world, moves, told, orders, given>>

\* playoutPositionChanged
AfterPosition ==
  /\ Waits("position")
  /\ IF Mine.m_track = CurTrack(Top) THEN Ends(Top, Mine, Below)
     ELSE Emits(Top, [Mine EXCEPT !.m_track = CurTrack(Top)], Below, "track", Mine.m_status)
  /\ UNCHANGED <<drives, world, moves, told, orders, given>>

\* playoutTrackChanged
AfterTrack ==
  /\ Waits("track")
  /\ Ends(Top, Mine, Below)
  /\ UNCHANGED <<drives, world, moves, told, orders, given>>

(***************************************************************************)
(* setDevice                                                               *)
(***************************************************************************)

\* Mutant: the devices are listed anew each time.
MutantList == plugged

\* getListOfCdromDevicesNamesAndUrl
List == IF listed = {} THEN plugged ELSE listed

\* cdromDeviceUrl: a name that is not listed is that of the first device.  A
\* number stands for the name of its device and for the path of its URL, which
\* are looked for one after the other and give the same URL.
Resolve(name) ==
  IF name \in List THEN name ELSE IF List = {} THEN NoDevice ELSE Min(List)

NewImpl(name) ==
  [m_deviceName |-> name, m_status |-> "NoDisc", m_statusExpected |-> "NoDisc",
   m_track |-> 0, m_tracks |-> 0, m_playlist |-> << >>]

\* moveInterface with a device that can be opened, and whose first status is not
\* the WM_CDM_UNKNOWN of a disc with an unreadable entry: createInterface emits
\* discChanged(0) while d_ptr is still what it was.  d_ptr is always the object
\* moveInterface is called on, so that it deletes nothing.
SetDevice ==
  /\ alive
  /\ \E name \in Devices :
       LET d == Resolve(name) IN
       /\ d \in plugged \ opened
       /\ opened # {} => given <= MaxOrders /\ events <= MaxEvents
       /\ \E h \in NewDrives(d) :
            \E s \in Look(h) : (Ready(h) => s.seen # "NoDisc") /\ Drive(d, s)
       /\ impl' = [impl EXCEPT ![d] = NewImpl(name)]
       /\ opened' = opened \cup {d}
       /\ stack' = Append(stack, [dev |-> d, at |-> "created", status |-> "NoDisc"])
       /\ told' = [told EXCEPT ![d] = [status |-> "NoDisc", tracks |-> 0]]
  /\ listed' = List
  /\ UNCHANGED <<plugged, m_infoMode, current, timer, orders, given, alive, events>>

\* createInterface fails: the new implementation is deleted.
SetDeviceFails ==
  /\ alive /\ listed' = List
  /\ UNCHANGED <<drives, plugged, m_infoMode, events, impl, moves, timer, stack, told, orders, given>>

\* The handlers of discChanged(0) have returned: in the asynchronous mode the
\* first poll is made before d_ptr is assigned.
AfterCreated ==
  /\ Waits("created")
  /\ IF m_infoMode = "Asynchronous"
     THEN /\ TimerExpired(Top, Append(Below, [Last(stack) EXCEPT !.at = "moving"]))
          /\ UNCHANGED current
     ELSE /\ Ends(Top, Mine, Below) /\ current' = Top /\ UNCHANGED <<drives, told>>
  /\ UNCHANGED <<world, opened, orders, given, alive>>

Moved ==
  /\ Waits("moving")
  /\ current' = Top /\ stack' = Below
  /\ UNCHANGED <<drives, world, impl, opened, timer, told, orders, given, alive>>

(***************************************************************************)
(* The slots.  Those of the dummy implementation do nothing.               *)
(***************************************************************************)

Order(order, outcomes, expected) ==
  /\ alive /\ Within(given, MaxOrders) /\ given' = Count(given, MaxOrders)
  /\ \E h \in outcomes : Drive(current, h)
  /\ impl' = [impl EXCEPT ![current].m_statusExpected = expected]
  /\ orders' = [orders EXCEPT ![current] = order]
  /\ UNCHANGED <<world, moves, timer, stack, told>>

me    == impl[current]
drive == drives[current]

PlayTrack(t) == Order("play", PlayTrackPosition(drive, me.m_tracks, t), "Playing")

PlayTrackSlot == current # NoDevice /\ \E t \in 1 .. Tracks[current] : PlayTrack(t)

\* next(), prev(), and play() unless the disc is playing
PlayEntry ==
  current # NoDevice /\ \E t \in {Following(me), Preceding(me)} \ {0} : PlayTrack(t)

Pause ==
  current # NoDevice
  /\ Order("pause", WmCdPause(drive), IF me.m_status = "Paused" THEN "Playing" ELSE "Paused")

\* Mutant: what is expected stays as it was.
MutantStop ==
  current # NoDevice /\ Order("stop", WmCdStop(drive), me.m_statusExpected)

Stop == current # NoDevice /\ Order("stop", WmCdStop(drive), "Stopped")

Eject ==
  current # NoDevice
  /\ CASE me.m_status = "Ejected" -> Order("close", WmCdCloseTray(drive), "Stopped")
       [] me.m_status = "Stopped" -> Order("eject", WmCdEject(drive), me.m_statusExpected)
       [] OTHER                   -> Order("eject", WmCdStop(drive), "Ejected")

Slot == PlayTrackSlot \/ PlayEntry \/ Pause \/ Stop \/ Eject

\* The destructor, outside of any handler, if no other implementation is left.
Destroy ==
  /\ alive /\ stack = << >> /\ opened = {current}
  /\ \E h \in WmCdStop(drive) : Drive(current, h)
  /\ orders' = [orders EXCEPT ![current] = "stop"]
  /\ opened' = {} /\ alive' = FALSE /\ timer' = [timer EXCEPT ![current] = FALSE]
  /\ UNCHANGED <<world, impl, current, stack, told, given>>

(***************************************************************************)
(* What happens outside.                                                   *)
(***************************************************************************)

\* The application asks for the devices, or for the URL of its own.
Ask == listed' = List /\ UNCHANGED <<drives, plugged, m_infoMode, events, impl, moves, timer, stack, told, orders, given>>

\* A drive that is not in use is plugged in or out.
Hotplug ==
  /\ \E d \in Devices \ opened :
       plugged' = IF d \in plugged THEN plugged \ {d} ELSE plugged \cup {d}
  /\ UNCHANGED <<drives, listed, m_infoMode, events, impl, moves, timer, stack, told, orders, given>>

\* A track ends; the tray is opened and closed by hand; the disc spins up.  What
\* happens to a drive that is not opened does not matter.
Hardware ==
  /\ Within(events, MaxEvents) /\ events' = Count(events, MaxEvents)
  /\ \E d \in opened :
       LET h == drives[d] IN
       \/ h.mode = "Playing" /\ Drive(d, Set(h, "Stopped", 0))
       \/ h.tray = "closed" /\ Drive(d, [Set(h, "NoDisc", 0) EXCEPT !.tray = "opened"])
       \/ h.tray # "closed" /\ Drive(d, In(h))
       \/ h.tray = "closed" /\ h.mode = "NoDisc" /\ Drive(d, Set(h, "Stopped", 0))
  /\ UNCHANGED <<plugged, listed, m_infoMode, impl, moves, timer, stack, told, orders, given>>

Init ==
  /\ drives = [d \in Devices |-> Idle(d, "closed", "NoDisc")]
  /\ plugged \in SUBSET Devices /\ listed = plugged
  /\ m_infoMode \in InfoModes
  /\ impl = [d \in Devices |-> NewImpl(NoDevice)] /\ opened = {} /\ current = NoDevice
  /\ timer = [d \in Devices |-> FALSE] /\ stack = << >>
  /\ told = [d \in Devices |-> [status |-> "NoDisc", tracks |-> 0]]
  /\ orders = [d \in Devices |-> "none"] /\ alive = TRUE
  /\ given = 0 /\ events = 0

Next ==
  \/ Poll \/ AfterStatus \/ AfterDisc \/ AfterPosition \/ AfterTrack
  \/ SetDevice \/ SetDeviceFails \/ AfterCreated \/ Moved
  \/ Slot \/ Destroy \/ Ask \/ Hotplug \/ Hardware

Spec == Init /\ [][Next]_vars

(***************************************************************************)
(* Properties.                                                             *)
(***************************************************************************)

\* Each implementation that was opened and is not deleted has its timer running
\* or a poll, or its creation, under way, never both and never two; one that is
\* deleted has neither.  So no poll runs into itself, and none is the last.
Calls(d) == {k \in DOMAIN stack : stack[k].dev = d /\ stack[k].at # "moving"}
TimerKept ==
  \A d \in Devices :
    Cardinality(Calls(d)) + (IF timer[d] THEN 1 ELSE 0) = (IF d \in opened THEN 1 ELSE 0)

\* Between two polls the status and the number of tracks the handlers were told
\* last are those that discStatus() and tracks() give, whatever the handlers of
\* the signals did, although each is signalled before or after it is assigned.
ToldRight ==
  \A d \in Devices :
    timer[d] => told[d] = [status |-> impl[d].m_status, tracks |-> impl[d].m_tracks]

\* deviceUrl(), which resolves the name again, gives the device that was opened,
\* whatever was plugged in or out.
UrlOfOpened == \A d \in opened : Resolve(impl[d].m_deviceName) = d
=============================================================================

# libkcompactdisc: a TLA+ model, its checks and its proofs

libkcompactdisc plays audio CDs for KDE applications. This directory models the
part of it that decides what the drive does and what the application is shown:
playing, stopping, ejecting and following tracks, over libworkman or Phonon; moving
from device to device, and the signals; the handle of the drive on seven platforms; tables of contents, positions, titles and
volume; the threads of digital playback. All paths below are
relative to `src/src/` of the repository; `cdrom.c:381` is a line of
`src/src/wmlib/cdrom.c`.

## 1. The system

| Part | Source | State | Operations |
|---|---|---|---|
| Application interface | `kcompactdisc.cpp` | pointer to the implementation | slots: `playTrack`, `playPosition`, `play`, `next`, `prev`, `pause`, `stop`, `eject`, `loop`, `random`, `setVolume`, `setBalance`, `setDevice`, ... |
| Common implementation | `kcompactdisc_p.cpp` | `m_status`, `m_statusExpected`, `m_track`, `m_tracks`, `m_playlist`, the loop and random switches, titles, start frames | `make_playlist`, `getNextTrackInPlaylist`, `getPrevTrackInPlaylist`, `skipStatusChange`, `clearDiscInfo`, `moveInterface` |
| libworkman implementation | `wmlib_interface.cpp` | `m_handle` | `timerExpired` each second, `playTrackPosition`, ..., `cdtext` |
| Phonon implementation | `phonon_interface.cpp` | media object, controller, output | `tick`, `stateChanged` (signals of Phonon), `playTrackPosition`, ... |
| libworkman | `wmlib/cdrom.c` | `struct wm_drive`: `oldmode`, `cur_cdmode`, table of contents, current track and position | `wm_cd_init`, `wm_cd_status`, `wm_cd_play`, `wm_cd_pause`, `wm_cd_stop`, `wm_cd_eject`, `wm_cd_closetray`, volume |
| Platform functions | `wmlib/plat_*.c` | file descriptor | one ioctl each |
| Digital playback | `wmlib/cdda.c` | ring of buffers, `command`, `status` | reader thread, player thread, `cdda_play`, `cdda_stop`, ... |
| CD-Text, CDDB, SCSI, drives, audio backends | `wmlib/cdtext.c`, `cddb.c`, `scsi.c`, `drv_*.c`, `audio/` | mostly none | parsing, checksums, command blocks, output |

### How the parts interact

The application calls slots; slots call the implementation, which calls
`wm_cd_*`, which issue ioctls and return. Nothing tells the library that the
drive has changed: `timerExpired` polls it a second after the poll before and
compares the status with the one it has shown. So every slot runs between two
polls, on state the last poll left, while the drive, the person at its button
and the desktop that mounts the disc go their own way. Two things the object does
are started by an application but carried out by a later poll: the ejection of a
disc that was playing (`m_statusExpected == Ejected`), and going on to the next
track of the playlist when a disc has stopped and that was not expected
(`skipStatusChange`).

A poll tells the application what it finds by signals, which are calls of the
application's handlers on the same thread. `discStatusChanged` is emitted before
`m_status` is assigned (kcompactdisc_p.cpp:214), and the poll goes on when the
handlers have returned; they may have called any slot, and may have run an event
loop in which other timers expired. `setDevice` makes a new implementation, with a
timer of its own, and `createInterface` emits signals before the object uses it.

Below that, `wm_cd_status` compares the mode the platform reports with the mode
it reported at the call before (`oldmode`), reads the table of contents when a
disc has come, and keeps the mode it returns in `cur_cdmode`. Every `wm_cd_*`
call makes status calls of its own, so each slot may move this state machine as
well as the timer.

### What is hard

- A state machine whose transitions depend on the mode of the previous call,
  driven by two callers (slots and timer) at their own pace.
- ioctls that fail half way: a table of contents of which the header can be read
  and an entry cannot.
- A disc changed between two looks at the drive; a tray opened by hand; an eject
  refused because the disc is mounted; a drive that spins up for a while.
- Orders carried out later, with other orders or other discs in between.
- Track numbers at the ends of a disc, data tracks among audio tracks.
- The two threads of digital playback, which share ten buffers, `command` and
  `status`.
- Handlers that call slots in the middle of a poll; implementations that are left
  behind by `setDevice` and go on polling.
- Phonon's signals: each tells of a change that may be over when its slot runs.
- One variable with the CD-Text of whichever drive was read last.
- Seven platforms' ways to number tracks, to find the end of the disc, to keep a device open
  and to scale a volume; integer division and unsigned differences everywhere.

`PROJECT.json` lists each hazard at its line, with the properties that cover it
or the reason why none does yet.

### What makes each part correct

- libworkman: the array of tracks is complete and as long as `ntracks` where the
  current track of a disc that plays, pauses or has stopped is looked up, and where
  a play looks up its start and end; it is that of the disc in the drive; the track
  asked for is the track played; asking twice changes nothing.
- Playlist: it lists each track of the known disc once and is never indexed
  outside its bounds; tracks follow each other in its order.
- Player: after `stop()` nothing starts by itself; the tray opens by itself only
  after `eject()`; `eject()` opens it in the end; the end of a track leads to the
  next. The same over Phonon, once the signals under way are handled.
- Object: each implementation keeps one timer; between two polls the application
  has been told what the getters say; an order reaches the device it was meant
  for, and a device that was left behind is still stopped when it was stopped.
- Device: a disc left in the drive is found, whatever happened to the device
  file; a disc that has gone is not shown.
- Digital playback: no block is read and played at a time, `cdda_play` returns,
  both threads come to rest after a stop, and after `wm_cdda_destroy` none holds a
  block or goes round.
- Data: the platforms agree on a table of contents, lengths and positions fit
  together, volume and balance do not drift into each other, the titles shown
  are those of the disc whose tracks are shown.

## 2. Modules

| Module | Models | Kind |
|---|---|---|
| `CdDrive` | the drive, the tray, the disc: the effect of each ioctl, and what the hardware and people do | operators, external |
| `WmCdrom` | `wmlib/cdrom.c` over `wmlib/plat_linux.c` | operators from drive to drive |
| `WmCdromApi` | one handle, a client calling `wm_cd_*` in any order, the hardware | specification |
| `Playlist` | the playlist algorithms of `kcompactdisc_p.cpp` | operators |
| `KCompactDisc` | the slots, `skipStatusChange`, `timerExpired`, over `WmCdrom` and `Playlist` | specification |
| `PlayerOrders` | `KCompactDisc` with a history of the application's orders, and fairness | specification |
| `Player` | what an application may rely on: orders, sound, tray, and what the player does by itself | abstract specification |
| `Interface` | `setDevice`, `moveInterface`, `createInterface`, the list of devices, the timers, `timerExpired` from signal to signal, slots called from handlers, the destructor, for any number of devices | specification |
| `Phonon` | `phonon_interface.cpp` over `Playlist` and a backend that answers in its own time | specification |
| `Device` | opening, status, eject and tray of `plat_linux.c`, `plat_freebsd.c`, `plat_openbsd.c`, `plat_osf1.c`, `plat_ultrix.c`, `plat_aix.c`, `plat_irix.c` under `cdrom.c`, and playing, pausing and stopping over them | specification |
| `Cdda` | the reader and player threads of `cdda.c` and the commands of `plat_linux.c` | specification |
| `Toc` | tables of contents of the seven platforms, what the application is told of them, `read_toc`, `cddb.c`, positions and the filter after a seek | specification |
| `Cdtext` | `cdtext.c`, `wm_scsi_get_cdtext`, `cdtext()` and what calls it, for several drives | specification |
| `Volume` | the volume slots and getters over `cdrom.c`, the curves of seven platforms, of the SCSI-2 commands and of Toshiba and Sony drives, the inquiry and the fixups that choose among them | specification |
| `MC...` | discs and constants for TLC | instances |
| `WmCdromLemmas`, `WmCdromApiProofs`, `KCompactDiscProofs` (also `PlayerOrders`), `DeviceProofs` (also `Toc`), `CddaProofs`, `CdtextProofs`, `InterfaceProofs`, `PhononProofs` | theorems and their proofs | proofs |

**The player over libworkman.** The drive is a record. `CdDrive` has its hardware
fields (`tray`, `disc`, `media`, `audio`, `head`, `stopAt`, `held`), `WmCdrom`
those of `struct wm_drive` (`oldmode`, `cur_cdmode`, `ntracks`, `trk`,
`curtrack`). `trk` is the disc whose tracks the array holds, or `NoDisc` when it
is unset or only partly filled. `cur_frame` is the head's: the code reads it in
exactly those modes in which it is used. A `wm_cd_*` call runs to completion on
the caller's thread, so each is one operator `WmCd...` from the drive before to
the drive after, made of the same status calls as the code.

`KCompactDisc` has one action per slot, and splits `timerExpired` along its
control flow: `PollSame` (the status is the one shown), `PollAdvance`
(`skipStatusChange` returns true) and `PollChange` (the status shown changes).
Slots and the timer run on one thread, so each is atomic. `make_playlist` is the
set of all lists it can build: in random mode every permutation.

`PlayerOrders` adds `order`, the last order of the application, `ejected`, which
tells a tray the library has opened from one opened by hand, and `tick`, which
tells a poll from any other step and whether a slot was called since the last
one; none is read by the actions of `KCompactDisc`.

**The abstract player.** `Player` has three variables: the last order, whether
there is sound, and the tray. An order is carried out at once, later or not at all;
by itself a player goes on only while the last order is not stop or close
(`GoesOn`), and ejects only while it is eject (`Ejects`). `PlayerOrders`, `Phonon`
and `Interface` implement it, each by an `INSTANCE` that reads the three off its
own state; the property is called `ServesOrders` in each. In `PlayerOrders` the
order "opened" (an `eject()` that has opened the tray) is an eject as well.

**Moving and signals.** `Interface` has one record per implementation, under its
device (`impl`), the set of those that are not deleted (`opened`) and `current`,
the one that is `d_ptr`. A poll is cut at each signal: `stack` holds the polls that
wait for handlers to return, with the signal they have emitted, and
`AfterStatus`, `AfterDisc`, `AfterPosition`, `AfterTrack` go on where
`timerExpired` does. Slots and further polls may come while the stack is not
empty: that is a handler that calls slots, or runs an event loop. The timer of an
implementation runs only between its polls, since it is a single shot that the
poll starts at its end. `AfterCreated` and `Moved` are the two halves of
`createInterface` and `moveInterface` in the asynchronous mode. `told` and `orders`
are history. Each drive has one disc, an audio disc: its tray is opened and closed, by
hand or by the library (which may be refused to open it, as for a disc that is mounted,
and closes it only if it has a motor), it spins up, its tracks end, and its table of
contents may fail to be read at the header or at an entry. The tray of a device of
`SlotLoading` has no sensor, so that the mode shown stays when it is opened, as in
`WmCdrom`. Discs that are exchanged, data tracks and playing that fails are in
`KCompactDisc`, with one implementation and no handlers.

**Phonon.** The backend is external: an order makes it change its state when it
likes, and each change emits a signal; signals are handled in order, with slots
called in between. Titles are counted and the current title is read when a
signal is handled, from the media object as it is by then. `Backlog` bounds the
signals under way. `hurried` is history: a slot was called while a signal was
under way. An index outside its list ends the process, as Qt's assertion does.

**Device.** A handle is a record: the descriptor (`fd`), what the kernel has noticed
of the disc since the device was opened (`fresh`), what the drive does, and
`oldmode`, `cur_cdmode` and the disc whose table was read. `motor` tells whether the
unit is started: every `gen_stop` but those of AIX and IRIX stops it, and nothing
plays until `gen_play` has started it again. `daux` is IRIX's pointer to the open
device, of which `fd` is only a flag. A call is an operator from handle to handle; a platform is one operator for each `gen_` function.
`Node` takes the device file away and brings it back; `seen` is as in
`WmCdromApi`.

**Cdda.** Each read or write of a shared variable, each acquisition and release of a
lock is a step. `position` counts blocks. Locks are taken hand over hand: a
thread locks the next block before it releases the one it has. Waking up without
a signal is left out. The threads are modelled as they run once
`gen_cdda_open` has succeeded: on Linux it returns -1 for a device that is open
(plat_linux.c:652), so that `wm_cd_init` of a digital drive always fails at this
commit, and `plat_sun.c` does not compile. `wm_cdda_destroy` is two steps: it
gives the command to stop and stops the sound (`DestroyBegin`), and takes the blocks away
(`DestroyEnd`) after a sleep that ends whenever it likes. From then on a thread
that goes round finds no next block.

**Toc.** Discs are what is burnt: a first track number, start frames, data tracks.
`ReadToc` is what each platform makes of it, and everything after that is
computed from the table as the code does. Where a play ends is `WmCdrom`'s
matter: here the drive goes anywhere. A difference that wraps around 2^32 is
`Farthest`, larger than any position.

**Cdtext.** `Packs` cuts a disc's text into packs as they lie on the disc;
`Parse` folds `TakePack` over them as the loop of `get_glob_cdtext` does.
`wm_cdtext_info` is one variable for all handles. A call is the set of all that it
may leave of a handle and that variable, as each thing it reads may fail: a drive that
is emptied keeps its mode (`WM_CDM_NO_DISC`) or shows that it is empty, a disc that
comes is not ready, or has no header, or an entry that cannot be read, and its text
cannot be read, or only the number of its tracks (`NoCount`: the text is valid, with one
entry). `known` is the disc whose tracks `wm_cd_getcountoftracks` counts, `listed` the
one whose tracks the object lists, and `behind` remembers that another disc was found
while the object went on listing that one. `OtherSlot` is any slot that looks at the
drive. The marks and characters are model values; a pack has four of them instead of
twelve.

**Volume.** Only the drive keeps levels: `setVolume` reads the balance back from
it and `setBalance` the volume, each through two integer conversions and the
drive's curve (a line, an inverse square or a cube; the way back is a division
or a binary search). All numbers are the code's. Which functions a drive gets is
computed from the platform and the inquiry as `wm_scsi_get_drive_type` and
`fixup_drive_struct` do; `driver = "digital"` is digital playback, whose sound
systems can neither set nor read levels.

### Abstractions

- Positions in `WmCdrom` are frames of the disc. A drive that plays moves on by a
  second (75 frames) per step; tracks last one or two seconds in the runs.
  Tracks of a CD last at least four seconds, so that a poll each second sees
  every track; the fairness below says no more than that.
- Wording, signals without state and messages are left out.
- `WmCdrom`, `KCompactDisc` and their theorems are about analog playback on
  Linux (`cdin`), with a device that stays open; `Device` has the rest.
- `Interface` opens each device once (see the deviations), has the playlist
  switches off, and lets the object be destroyed only outside of handlers and
  with no implementation left behind.
- `Device` leaves failures of `read_toc` to `WmCdrom`. Where the open of OSF/1 and
  Ultrix fails with EINTR, which the code takes for an empty drive, the drive is empty.
- `Volume` has unbounded integers: `setVolume` does not limit its argument, and the
  cube at drv_toshiba.c:83 overflows an `int` for volumes in the thousands.
- In `Cdda` the reader counts a block up in one step (`current_position`, plat_linux.c:731),
  which a seek on another thread may split. The use of blocks after
  `wm_cdda_destroy` has freed them is not a step.
- `SetDeviceFails` changes nothing but the list of devices: the properties of `Interface` say
  nothing of the handle that is lost (see the deviations).
- `Cdtext`: what lies behind the arrays of one entry, where the packs of a disc whose
  number of tracks could not be read are written (cdtext.c:240-241), is not modelled, and
  neither is `cdtext()` on such a text while no tracks are listed, which writes the
  first entry of an empty list. The titles are asked for whenever a disc is listed
  (`setAutoMetadataLookup(true)`). What `skipStatusChange` does to the drive is left
  to `KCompactDisc`. No `gen_get_drive_status` fails.
- A drive that is opened has not been played from before by another program.
- A pure data disc reports no audio status. (Were it to report one,
  `wm_cd_play` would look for the first audio track beyond the end of the array.)
- `Cdtext`: up to 42 packs. For more, `wm_scsi_get_cdtext` computes a length that
  is too short (255 for 256), which cuts into the last packs, those with the
  sizes; for fewer it takes one pack too many, which has type 0 and is not valid.
  The CRC is not checked by the code, nor here.

## 3. Runs

Every run is listed in `PROJECT.json` with what it shows. Those that pass:

| Run | Bounds | Shows |
|---|---|---|
| `WmCdromApi_calls` | five kinds of disc, a drive without a tray sensor that stops by pausing on frame 0; any number of changes between two calls, tables that fail to be read at the header and at an entry | `TocComplete`, `StatusStable`, and while each change is looked at `TocOfThisDisc`, `PlaysAskedTrack` |
| `KCompactDisc_disc` | a disc of two audio tracks and one with a data track, both switches | `PlaylistMatchesDisc`, `PlayingDiscKnown`, `EntriesInList` |
| `PlayerOrders_orders` | a disc of three tracks of two seconds, in order, looped or not; fairness | `ServesOrders`, `TracksFollowInOrder`, `EjectOpensTray`, `AdvancesAtEnd` |
| `Phonon_slots` | discs of one and two titles, up to five signals under way; fairness | `SettlesOnDisc`, `ServesOrders`, `TitleInList`, `TitleNotInterrupted`, `EjectOpensTray` |
| `Device_reopen` | seven platforms, two discs; fairness | `TocOfThisDisc`, `NoDiscShown`, `DiscFound`, `OrdersObeyed` |
| `Cdda_seek` | a ring of two blocks, two requests of one block, pauses, reads that fail; fairness | `BlockExclusive`, `PlayReturns`, `StopSettles`, `DestroyEnds` |
| `Interface_signals` | two devices with discs of two tracks and of one, the first without a tray sensor, both information modes; with two devices open, one order and one change of the drives altogether | `TimerKept`, `ToldRight`, `UrlOfOpened`, `ServesOrders` |
| `Toc_discs` | seven platforms, twelve discs with starts on either side of a second and a minute, one whose first track is number 3 | `TocRight`, `PositionsAgree`, `HidesOldPositions` |
| `Cdtext_titles` | two drives, two discs for one and a third for the other: texts over several packs, empty, repeated, of two blocks in turns, of wide characters; the reading of 253 more (all texts of one track over five words, eight blocks, none) is the `ASSUME` of `MCCdtext` | `TextOfThisDisc`, `KeptTextKnown`, `NewDiscShown` |
| `Volume_slots` | eleven drivers, volumes and balances at the ends, in the middle and beside it | `SideKept`, `VolumeReadBack` |

Those that fail show where the code does not do what its comments say:

| Run | Violates | Because |
|---|---|---|
| `Toc_discid` | `DiscidInSeconds` | the CDDB id is computed from frames, not from seconds |
| `Cdda_wakeup` | `RequestHeard` | the reader signals once, maybe before the player waits |

**Bounds.** The state of the software is finite for given discs, so nothing but
the discs and the arguments is bounded. What matters about discs is whether one
has more tracks than the next, whether the first, the last or every track is
data, and whether there is a track before, between and after: one to three tracks
and a few discs have every case; `MCToc` and `MCCdtext` choose theirs for where
seconds are rounded and texts are cut. Positions 0 and 1 in tracks of one or two seconds are
inside, and beyond the end. In `Cdda_seek` a ring of two blocks is the smallest
in which a thread can hold a block and wait for the next, and two requests are
what a seek is. `Interface` is bounded only where two devices are opened: with one,
orders and changes of the drive are unlimited. With two, `MaxOrders` and `MaxEvents`
bound how many there are altogether, before the second device is opened and after,
not when or from which handler: one order, to the old device before `d_ptr` is assigned
or to the new one after, and one change, the end of a track or a tray opened or closed
by hand, meet the polls and handlers of both. What several orders to one device do to each other
is in the part with one device; for two, the theorems say it. Two devices are one left behind and one in use, and the deepest
stack has a poll of each, one inside a handler of the other, and the move between them. The theorems have no bound.
Deadlock is checked in all runs but `Interface_signals`, where all may stop once the object
is destroyed and the bounds are used up.

**Changes that are not seen.** With `Unseen = FALSE` the drive of `KCompactDisc`
changes at most once between two polls: opening a tray, taking a disc
out, putting one in, closing the tray and spinning up each take longer than the
second between them. `Device` and `Cdtext` assume the same with `seen`. In
`WmCdromApi` the drive changes as it likes, and `missed` remembers that it did so
twice between two calls.
`TocComplete`, the playlist and
`ServesOrders` hold without this assumption, as the runs and theorems say. `TocOfThisDisc` and `PlaysAskedTrack` ask for `~missed`, since the
library has no other way to notice a change. `Unseen = FALSE` is what `PlayingDiscKnown` and
`EntriesInList` need: a tray closed empty while `cur_cdmode` still says PLAYING
leaves the object "playing" a disc with no tracks when the header of the next
disc cannot be read.

**Fairness.** `PlayerOrders`: the timer ticks for ever between calls of slots
(`[]<><<ByTimer>>_tick`: `timerExpired` starts its timer again on every path, and
nothing stops it), and a drive with a disc spins up and one that plays gets
to the end (weak fairness of `DriveTurns`). `Device`: the timer polls (weak
fairness of `Poll`). `Phonon`: the event loop delivers signals (weak fairness of
`Deliver`). `Cdda`: each thread runs and a call that has begun goes on (weak
fairness), and a thread that tries to lock a mutex that is free again and again
gets it (strong fairness of the four steps that lock in a loop). `Interface` has safety
properties only and assumes no fairness: a handler may never return. Nothing is assumed of the
application or of the person at the drive.

### Where a property is narrower than one might expect

- `TocComplete` covers the entries that `wm_cd_status` looks up for a drive that plays, is
  paused or has stopped (cdrom.c:387-407) and those of `wm_cd_play`. It leaves out the
  length at cdrom.c:416 of a drive that has stopped, and all of cdrom.c:404-416 after
  `WM_CDM_UNKNOWN`, which falls through to it: there the code goes by the
  `curtrack` of the disc before, which nothing bounds, in a table that `read_toc` may have left
  half filled. The object never asks for that length, and for the position only of a disc
  that plays.
- `PlaysAskedTrack` says where a play starts, not where it ends.
- `TocRight`: on Linux, the BSDs, AIX and IRIX a disc whose first track is not number
  1 cannot be read (`read_toc` asks for track 1); on OSF/1 and Ultrix it is read with the wrong
  starts. AIX and IRIX take every track for an audio track.
- `HidesOldPositions`: after a seek backward the old position lies past the one
  asked for, the unsigned difference is huge, and the filter lets it through.
- `TextOfThisDisc`: with two drives whose discs have as many tracks the kept text of one is
  shown for the other when `metadataLookup()` is called (wmlib_interface.cpp:308
  compares numbers of tracks only), so that all but the number of titles asks for drives
  that are `Apart`. When a disc is exchanged behind a status that stays
  (`WM_CDM_NO_DISC`), `m_tracks` is not 0 and the tracks and titles of the disc before
  stay (wmlib_interface.cpp:221), while the table and the text are those of the new one:
  `metadataLookup()` then shows the new titles over the old tracks. Such a handle is
  `behind`, and all that is claimed is that its titles are those of a disc of its drive.
- `NewDiscShown` is about polls that find a disc while none is listed. A text of wide characters is shown as empty titles (the code
  that would read it is not compiled); eight blocks in turns are given up under the message "more as
  8 languageblocks defined" (cdtext.c:293-298), although there are eight.
- `NoDiscShown` leaves out Linux, AIX and IRIX, `DiscFound` Linux and IRIX,
  `TocOfThisDisc` AIX and IRIX, for the reasons in the next section.
- `TitleNotInterrupted` leaves out a title broken off by a late `Stopped` after an order
  (`hurried`), and `PlayReturns` does not say which block is played after a seek: see the
  deviations for both.
- `DestroyEnds` does not say that the threads end: see the deviations.
- `ServesOrders` of `Interface` tells one device's orders from another's as the code
  does: a slot called before `d_ptr` is the new implementation orders the old one.
- `SideKept` leaves out AIX, and `VolumeReadBack` AIX and the drives of Toshiba and
  Sony: their way back belongs to another curve than their way there.

### Deviations met on the way, and not among the runs

Playing (`cdrom.c`, `kcompactdisc*.cpp`):

- The last audio track of a disc whose last track is data is played as one frame
  of the track before (cdrom.c:523-549). A play of a track behind a data track can end in
  the data track (cdrom.c:535-549).
- In random mode the last track but one is played on into the last (cdrom.c:543
  tests `end == ntracks`).
- `eject()` of a playing disc leaves `m_statusExpected` at Ejected
  (kcompactdisc_p.cpp:203): the next disc put in is ejected as well. `eject()`
  of a tray without a disc opens nothing, since only "stopped" leads to it.
- "No disc" is not assigned to `cur_cdmode` (cdrom.c:381-426): a drive that is empty when it is opened,
  or emptied between two polls, is shown as it was before.
- `curtrack` of a disc that has gone indexes the array of the next (cdrom.c:413-416).
- A drive without a resume function is resumed up to the end -1 (cdrom.c:585), and
  stops at once.
- `createInterface` forgets a handle whose first status is an error without
  `wm_cd_destroy` (wmlib_interface.cpp:55-89).

Moving and signals (`kcompactdisc*.cpp`, `wmlib_interface.cpp`):

- `setDevice` calls `moveInterface` on `d_ptr`, so that `q->d_ptr != this`
  (kcompactdisc_p.cpp:75) never holds: the implementation that is left is neither
  deleted nor stopped. It goes on polling, playing and going on to the next track, its
  signals come from the same object as those of the new one, and since the
  destructor deletes `d_ptr` only, it outlives the object it refers to.
- `setDevice` on the device that is in use makes two implementations poll and order
  one drive.
- When the new device cannot be opened the object goes on with the old
  implementation, not with the dummy the comment speaks of.
- Of the settings only `m_infoMode` is carried over: the playlist switches of the new
  implementation are the default ones.
- Signals emitted while an implementation is created come while `d_ptr` is still the old
  one: a handler that calls `tracks()` or `play()` asks or orders that.
- `discStatusChanged` comes before `m_status` is assigned: `discStatus()`, `eject()`
  and `play()` called by its handler go by the old status.
- The default audio system of `setDevice`, an empty name, is neither "cdin" nor
  "phonon": it is digital playback, whose opening fails on Linux (see `Cdda` above).
- A disc changed while the status shown stays the same keeps the number of tracks,
  titles and playlist of the disc before (wmlib_interface.cpp:221).
- The list of devices is never made anew while it is not empty
  (kcompactdisc.cpp:93), and a name that is not in it stands for its first device,
  so that `setDevice` with a wrong name opens another drive.

Devices:

- plat_linux.c:148 opens the device if it is open already: after
  `wm_cd_closetray` could not open it again, no call does.
- AIX: an open tray makes the status fail, and nothing changes.
- IRIX: `gen_close` closes descriptor 1, since `fd` is set to 1 for "open" only; the
  status never opens the device again, and after a reopening that failed every
  call fails; a play ignores where it is to end.
- FreeBSD's eject closes the device even when it is refused. The check for a mounted disc on the
  BSDs compares with `st_rdev` and never fires.
- Only `plat_linux.c` and `plat_freebsd.c` define `gen_scale_volume`; the other
  five do not link at this commit and are modelled as written. OSF/1 aborts on an audio
  error (left out).

Digital playback:

- The lost wake-up of `Cdda_wakeup`.
- After a seek a block of the old request may be played (cdda.c:113 waits for
  the reader only), and the block with the end of a track plays the sound it held a
  round before (cdda.c:302).
- `wm_cdda_destroy` sleeps for a fixed time and frees the blocks while the threads
  may be anywhere. The reader leaves its loop when it next finds no blocks; a player that
  waits for the reader's signal waits for ever. The locks, the condition and `wakeup`
  are shared with the threads of the next handle.
- A late store of STOPPED makes `wm_cd_stop` leave a playing drive alone
  (cdda.c:248).
- When ALSA fails but can be prepared again, `alsa_play` returns that it was prepared:
  the player goes on, on a block marked as an error (audio_alsa.c:285-292).

Volume: `getbalance` returns half of the step that was set; on Linux each reading
of the volume may lose a step, so that `setBalance` called again and again turns
the volume down; on a drive whose volume cannot be read `setBalance` mutes, and on
AIX always, as its inverse reads every level from 128 on as 0. The Toshiba curve is
a cube, its comment says square. Sony's inverse takes a level of 100 for one of 255,
and its curve begins at 50, so that `volume()` is 0 once it has been set, and `setBalance` mutes.
`fixup_drive_struct` compares the whole of what the drive says of itself: names
filled up with blanks, as SCSI has them, fit no entry, so that a fixup is installed
only for names without them, or for no names at all; a revision that is not empty
is compared with a null pointer (cdrom.c:250). The SCSI-2 functions are installed by
no platform that compiles; of those that are not modelled, `wm_scsi2_get_cdlen` takes the
variable it is to set by value, and eject and close send a plain stop.

CD-Text: a mark that repeats the text before counts as the end of its text
(cdtext.c:173-178); where the disc writes an end after it, one entry is skipped.
`metadataLookup()` without a disc indexes empty lists if the drive cannot say how
many tracks there are.

Phonon: `stop()` followed by `playTrack()` while Stopped is under way goes on to
another title; titles counted as 0 while the status is Playing leave empty lists that
are indexed; a tray that was ejected is never closed by `eject()`; signals are connected before the
source is set, while `m_producerWidget` is null (phonon_interface.cpp:67-72); the
controller goes on to the next title by itself, so that a random playlist is not
followed.

## 4. Proofs

`WmCdromLemmas` proves of every `wm_cd_*` operator that it takes a `Sound` drive
to a `Sound` one. `Sound` is the type of the drive and `Known`, the strengthening
without which `TocComplete` is not inductive: which of `cur_cdmode`, `ntracks`
and `oldmode` vouch for the array, also after `read_toc` has failed at each of
the places it can fail at. The central lemma is `StatusSound`, on `wm_cd_status`;
the others follow since no ioctl touches what the library knows (`Moved`).

**The drive and the player.**

- `ApiTypeCorrect`, `ApiTocComplete` (`WmCdromApiProofs`): for every set of discs,
  every tray, every sequence of calls, and changes of the drive seen or unseen; for the
  entries section 3 names, not for what is looked up after `WM_CDM_UNKNOWN`.
- `ApiTocOfThisDisc`: while no change is `missed`. The invariant needs two
  strengths: `Current` (the table is that of the disc and the disc is ready) once
  a call has looked, and the weaker `Fresh` after one change of the drive.
- `ApiStatusStable`: a status depends on `oldmode` alone, and the one before has left
  the mode it finds, so that from a `Sound` drive the second changes nothing.
- `ApiPlaysAskedTrack`: the invariant adds `Heard` (below) and the property itself,
  which `PlayOn` keeps only because a play stops at the end of its track. It assumes
  `TracksLast`: a track without data lasts longer than the second `gen_play` starts late
  or stops early, and a position asked for is inside its track. `playPosition`
  checks neither; a slider is not longer than its track, and the Red Book asks for four seconds.
- `PlayerTypeCorrect`, `PlayerPlaylistMatchesDisc` (`KCompactDiscProofs`): the
  playlist lists every track of the known disc once. The invariant is `ListOf`
  with `Sound`; the step that matters is `PollChange`, whose number of tracks comes
  from a table that is complete by `Sound`.
- `PlayerPlayingDiscKnown`, `PlayerEntriesInList`: as long as each change of the drive
  is polled (`~Unseen`; section 3 says what happens otherwise). Neither is
  inductive. `KnownInv` adds `Gone`, that a drive which is shown as playing although
  the last poll found no disc has none that is ready, so that the next status finds no
  disc, or reads its table; `Unknown`, that while no tracks are known there is no
  current track; and `Numbered`, that no entry of the list is 0, since a current track 0 is
  looked for in it.
- `OrdersServed` (`KCompactDiscProofs`): `PlayerOrders` implements `Player`, for all
  discs, trays, drives and arguments, and changes seen or unseen. The invariant
  `OInv` has three parts. `OrderInv`: `m_statusExpected` remembers the last order as
  far as the timer asks for it. `TrayInv`: a tray the object has opened is open.
  `Sane`: `Sound`, and `Heard`, that a drive with sound holds a disc which the next
  status does not take for a missing one, without which `wm_cd_stop`, which does
  nothing when no disc is shown, would leave it playing.
- `OrdersTracksFollow` (`KCompactDiscProofs`): `TracksFollowInOrder`, as long as each
  change of the drive is polled. The object never looks the next track up when the
  drive runs on into it, so the invariant has to say of the drive what the playlist
  says of the object. `FollowInv`: while a disc is known the drive `Serves` it or none
  (another disc cannot be ready before a poll has shown there is none, and has
  forgotten the one before), a drive that sounds has a current track of its own disc
  (`Tracked`), and a playlist that is not random has the tracks in order. `Orderly`:
  while no order has come since the last poll, what plays is the current track or
  its successor, and what a poll has found under the head is still there a
  second later, unless it is the current track. The last part is why `AudioDiscs`
  asks for tracks of more than a second: with a shorter one, as with two unseen
  changes, TLC finds a track that is passed over between two polls. `AudioDiscs`
  also leaves out discs with data, on which `wm_cd_play` may start a track before the
  one it is asked for (`StartFrame` when the end is limited to the last audio track);
  that is more than the property needs, no violation is known there.

**The platforms.**

- `DeviceTocOfThisDisc`, `DeviceNoDiscShown`, `DeviceOrdersObeyed` (`DeviceProofs`):
  for any set of platforms and of discs. They rest on `DeviceInvariant`, whose `Fit`
  relates the modes to the drive whether it has been looked at or not: `Drive` (only a
  disc that is ready sounds), `Modes` (what is shown as playing or paused was so when it
  was last asked for) and `TocKnown`; `Noticed` is what a look adds. Most lemmas say
  that an operator leaves a handle `Opened`: another file descriptor, and nothing
  else. One status of each of the seven platforms is proved to be `Fit`
  (`StatusFit`), all else follows.
- `TableOfContentsRight`: from a disc whose first track is number 1 the seven
  platforms read one table (`EntriesRight`, `TableRight`), and those that ask for
  tracks by number can read no other (`FirstIsOne`).
- `TablePositionsAgree`: `SecondsAgree` is the arithmetic of the roundings;
  that a frame lies in the track found for it needs the start frames to go up from
  any track to any later one (`StartsUp`, from neighbours, by the least-number
  principle) and the greatest of a finite set of tracks to exist (`GreatestNumber`).
- `SeekHidesOldPositions`: assumes `InReach`, that no disc and no position asked for
  is as long as the unsigned difference of 32 bits is taken for: 2^32 seconds in
  the code, `Farthest` in the model. Without it a position past the expected one
  would not count as far.

- `VolumeTypeCorrect`, `VolumeSideKept`, `VolumeIsReadBack`: for all volumes,
  balances and levels a drive may be found with. The invariant is small
  (`VolumeInv`: the type, and that nothing is read of digital playback); the work is
  in the scales. Each curve rises (`LevelMonotone`, with the square and the cube by
  hand) and ends within a byte (`LevelFits`), also for the setting below 0 that a
  volume above 100 leads to. Each way back leads to a setting (`UnscaleSettings`)
  that grows with the level, but that the searches of Toshiba and Sony may come to one
  more for a level below: the balance halves the difference, and that takes the one away. The
  binary searches are recursive functions of an interval; that such a function exists
  (`HalvingExists`), where its result lies (`HalvingBetween`), that it grows with the level
  (`HalvingMonotone`) and that it finds what is on the curve (`SearchFinds`) are
  proved from the sizes of the halves by the least-number principle
  (`HalvingInduction`).

**Digital playback, CD-Text.**

- `CddaTypeCorrect`, `CddaBlockExclusive` (`CddaProofs`): for every number of
  blocks and of requests the player never plays the block the reader reads into.
  The invariant says at which steps each thread holds which locks (`ReaderHolds`,
  `PlayerHolds`): two while it goes over to the next block.
- `CdtextKeptTextKnown` (`CdtextProofs`): for all drives, discs and texts and
  whatever fails, the shared text is that of the disc an open handle counts the tracks of
  or, while it counts none, of a disc of its drive. Of a handle the invariant says that
  what it has found, counts and lists fits together (`Fits`: a handle that says "ready" counts
  the tracks of the disc in its drive, a handle that is not `behind` counts those
  it lists, or none), and of the text that some open handle owns it (`Kept`, `OwnText`).
  `Noticed` (a drive the timer has found empty says so) is what a new disc needs.
- `CdtextTextOfThisDisc`, `CdtextNewDiscShown`: for all drives and discs whose
  texts the parser reads right (`ParsesRight`, a hypothesis of the theorems: a text found
  valid is that of the first block). That is a fold over the packs, which no proof here can reach; TLC
  evaluates `ReadsRight` on the discs of `MCCdtext`. The invariant says of each handle
  of which disc the titles shown are (`Titled`): one in another drive with as many
  tracks, or one of this drive, and then the one that is listed unless the handle is
  `behind`. Each outcome of each call is shown to keep this (`StatusOk`, `FillOk`, `TimerOk`),
  and to leave of the text what was there, none, or one of the handle's own (`Keeps`), so
  that the other handles need not be looked at again (`CallKeeps`).

**The object and its implementations.**

- `InterfaceTimerKept`, `InterfaceToldRight`, `InterfaceUrlOfOpened`
  (`InterfaceProofs`): for any number of devices, handlers nested to any depth and
  no bound on orders (`Within` is never used). The invariant `IInv` adds to the three
  properties what the calls in the stack are about to do: `AllAnnounced` (what the
  handlers of each pending signal were told is what its poll will leave), and
  `HasList` (a device is opened only by a list that stays). That one device's polls do not
  spoil another's is where `TimerKept` comes in: a call that returns is the only
  one of its device (`ReturnedRuns`), so those below it are of others
  (`BelowAnnounced`). `Due` counts calls; its lemmas are about cardinalities of
  sets of positions.
- `InterfacePlayers` (`InterfaceProofs`): `Spec => PlayerOf(d)!Spec` for every
  device. The invariant `OrdersInv` adds that only a disc that was found plays (`DriveSet`), so that
  `wm_cd_stop`, which does nothing when no disc is shown, never misses one, whatever
  fails and whatever the tray tells; that what an implementation expects goes
  with the order it was given (`Expects`) and that orders and calls are those of
  open devices; `NotEjected` follows from `Player` itself.
- `PhononSettlesOnDisc`, `PhononTitleInList`, `PhononTitleNotInterrupted` and
  `PhononServesOrders` (`PhononProofs`): for all numbers of titles and queues of any length.
  `PhononInvariant` is about the queue: `Pending` says what the signals under way,
  delivered in order, will make of the status and of the number of tracks,
  and, if no order was given meanwhile (`~hurried`), what the titles are when each is
  handled. Every order and every turn of the backend is shown to append an `Answer`,
  and `PendingAppended` does the rest, once for all of them.

They assume `DiscAssumption`, `ApiAssumption`, `PlayerAssumption`, `DeviceAssumption`,
`TocAssumption`, `VolumeAssumption`, `CddaAssumption`, `CdtextAssumption`, `InterfaceAssumption` and
`PhononAssumption`: the tracks of a disc start one after the other, there is at
least one, arguments are numbers, and the ring has at least two blocks. Each
inductive invariant was first checked by TLC as an invariant of the run.

Only model-checked: what the folds of `Cdtext` compute, and all liveness, which the provers do not reach: `EjectOpensTray`, `AdvancesAtEnd`, `DiscFound`,
`PlayReturns`, `StopSettles`, `DestroyEnds`.

## 5. Plan

Done, in this order: `WmCdrom`, `KCompactDisc`, `PlayerOrders` and their proofs,
`Cdda` with its proofs, `Volume`, `Device`, `Phonon`, `Toc`, `Cdtext`, `Player` with
the refinements, `wm_cdda_destroy`, `Interface` with its proofs, the proofs about
`Phonon`, `Device`, `Toc`, the titles of `Cdtext` and `Volume`. Next:

1. A second `wm_cdda_init` under `Cdda`: two handles that share the locks, `oops`
   and the ALSA handle; `wm_cdda_destroy` leaves the audio system's
   `init_complete` set. The audio backends.
2. Moving to and from Phonon in `Interface`, and a device opened twice: what an
   application may rely on when two implementations order one drive has yet to be
   stated.

## 6. Not modelled

Opening one device twice, and moving to Phonon, in `Interface` (planned); the audio
backends, but for what `alsa_play` returns (planned); a second `wm_cdda_init`
(planned); the SCSI commands other than the inquiry, the volume and the CD-Text, which
only platforms use that do not compile; finding devices in `kcompactdisc.cpp` (a query
of Solid); messages, sleeping and freeing; the sample application. Of the
platforms, bsd386, hpux, news, scor5, sun and svr4 do not compile at this commit (undeclared
names, wrong member names, unbalanced statements). `PROJECT.json` names the files and
the reason for each.

-------------------------------- MODULE Cdda --------------------------------
(***************************************************************************)
(* Digital playback (src/wmlib/cdda.c) with the reading of plat_linux.c,   *)
(* after wm_cdda_init has started its threads.  The reader fills a ring of *)
(* blocks, holding the lock of a block until it has that of the next one;  *)
(* the player plays them; the client's thread gives commands.  They share  *)
(* command, status and the positions, without a lock: each read or write   *)
(* of one of these is a step.  A position counts blocks, not frames.  At   *)
(* last wm_cdda_destroy takes the blocks away from under the threads.      *)
(***************************************************************************)
EXTENDS Integers

CONSTANTS
  NumBlocks,    \* COUNT_CDDA_BLOCKS
  Requests,     \* <<start, end>> of the requests to play
  MaxRequests,  \* bound: how many of them; the last is not paused
  ReadFails,    \* the drive may fail to read
  Pauses        \* the client pauses and resumes

ASSUME CddaAssumption ==
  /\ NumBlocks \in Nat /\ NumBlocks > 1 /\ MaxRequests \in Nat
  /\ Requests \subseteq Nat \X Nat /\ {ReadFails, Pauses} \subseteq BOOLEAN

VARIABLES
  command, status,    \* of struct wm_drive
  position, ending,   \* current_position, ending_position
  blks,               \* the ring; sound is the request a block was read for
  lock,               \* blks_mutex
  waiting,            \* the player waits for wakeup_audio
  reader,             \* i, the command it saw, wakeup
  player,
  client,
  asked,              \* history: the number of the last request
  heard               \* history: the request whose sound was played last

drive == <<command, status, position, ending>>
vars  == <<drive, blks, lock, waiting, reader, player, client, asked, heard>>

Block == 0 .. NumBlocks - 1

\* d->blocks: wm_cdda_destroy has not yet come to its end.
Blocks == client.pc # "destroyed"

\* Mutant: one block too far.
MutantNextBlock(i) == IF i + 1 <= NumBlocks THEN i + 1 ELSE 0

\* get_next_block
NextBlock(i) == IF i + 1 < NumBlocks THEN i + 1 ELSE 0

\* WM_CDM_*; "INITIAL" is 0.
CddaMode == {"INITIAL", "TRACK_DONE", "PLAYING", "PAUSED", "STOPPED", "EJECTED",
             "CDDAERROR"}

\* wm_cdda_init: everything is zero, but for the status.  wm_cd_init has shown
\* it as TRACK_DONE and read the table of contents.  (The other states that
\* gen_cdda_open leaves are shown as no disc, and so is 0 after them.)
Init ==
  /\ command = "INITIAL" /\ status = "CDDAERROR"
  /\ position = 0 /\ ending = 0
  /\ blks = [i \in Block |-> [status |-> "INITIAL", sound |-> 0]]
  /\ lock = [i \in Block |-> "free"] /\ waiting = FALSE
  /\ reader = [pc |-> "idle", i |-> 0, saw |-> "INITIAL", wakeup |-> 0]
  /\ player = [pc |-> "top", i |-> 0]
  /\ client = [pc |-> "ready", want |-> <<0, 0>>]
  /\ asked = 0 /\ heard = 0

(***************************************************************************)
(* cdda_fct_read                                                           *)
(***************************************************************************)

ReaderAt(pc) == reader.pc = pc
ReaderTo(pc) == reader' = [reader EXCEPT !.pc = pc]

\* Before it looks at the blocks again, it copies the command to the status
\* until it is to play.
ReaderIdle ==
  /\ ReaderAt("idle")
  /\ ReaderTo(IF command = "PLAYING" THEN "first" ELSE "load")
  /\ UNCHANGED <<drive, blks, lock, waiting, player, client, asked, heard>>
ReaderLoad ==
  /\ ReaderAt("load")
  /\ reader' = [reader EXCEPT !.pc = "store", !.saw = command]
  /\ UNCHANGED <<drive, blks, lock, waiting, player, client, asked, heard>>
ReaderStore ==
  /\ ReaderAt("store") /\ status' = reader.saw
  /\ reader' = [reader EXCEPT !.pc = "idle", !.saw = "INITIAL"]
  /\ UNCHANGED <<command, position, ending, blks, lock, waiting, player, client,
                 asked, heard>>

ReaderFirst ==
  /\ ReaderAt("first") /\ lock[0] = "free"
  /\ lock' = [lock EXCEPT ![0] = "reader"]
  /\ reader' = [reader EXCEPT !.pc = "test", !.i = 0, !.wakeup = 1]
  /\ UNCHANGED <<drive, blks, waiting, player, client, asked, heard>>

\* gen_cdda_read: nothing is read at the end of the request.
ReaderTest ==
  /\ ReaderAt("test")
  /\ ReaderTo(IF command = "PLAYING" THEN "begin" ELSE "leave")
  /\ UNCHANGED <<drive, blks, lock, waiting, player, client, asked, heard>>
ReaderEnd ==
  /\ ReaderAt("begin") /\ position >= ending
  /\ blks' = [blks EXCEPT ![reader.i].status = "TRACK_DONE"]
  /\ ReaderTo("next")
  /\ UNCHANGED <<drive, lock, waiting, player, client, asked, heard>>
ReaderBegin ==
  /\ ReaderAt("begin") /\ position < ending
  /\ ReaderTo("read")
  /\ UNCHANGED <<drive, blks, lock, waiting, player, client, asked, heard>>
ReaderRead ==
  /\ ReaderAt("read")
  /\ blks' = [blks EXCEPT ![reader.i] =
                [status |-> "PLAYING", sound |-> asked]]
  /\ position' = position + 1
  /\ ReaderTo("next")
  /\ UNCHANGED <<command, status, ending, lock, waiting, player, client, asked, heard>>
ReaderFails ==
  /\ ReaderAt("read") /\ (ReadFails \/ ~Blocks)
  /\ \E s \in {"EJECTED", "CDDAERROR"} : blks' = [blks EXCEPT ![reader.i].status = s]
  /\ command' = "STOPPED"
  /\ ReaderTo("leave")
  /\ UNCHANGED <<status, position, ending, lock, waiting, player, client, asked, heard>>

\* Mutant: the reader does not wait for the lock of the next block.
MutantReaderNext ==
  /\ ReaderAt("next") /\ ReaderTo("signal")
  /\ UNCHANGED <<drive, blks, lock, waiting, player, client, asked, heard>>

\* The next block is locked before this one is released.
ReaderNext ==
  /\ ReaderAt("next") /\ lock[NextBlock(reader.i)] = "free"
  /\ lock' = [lock EXCEPT ![NextBlock(reader.i)] = "reader"]
  /\ ReaderTo("signal")
  /\ UNCHANGED <<drive, blks, waiting, player, client, asked, heard>>
ReaderSignal ==
  /\ ReaderAt("signal")
  /\ waiting' = IF reader.wakeup = 1 THEN FALSE ELSE waiting
  /\ reader' = [reader EXCEPT !.pc = "unlock", !.wakeup = 0]
  /\ UNCHANGED <<drive, blks, lock, player, client, asked, heard>>
ReaderUnlock ==
  /\ ReaderAt("unlock")
  /\ lock' = [lock EXCEPT ![reader.i] = "free"]
  /\ reader' = [reader EXCEPT !.pc = "test", !.i = NextBlock(@)]
  /\ UNCHANGED <<drive, blks, waiting, player, client, asked, heard>>
\* Mutant: the loop that copies the command is left out.
MutantLeaveToFirst ==
  /\ ReaderAt("leave")
  /\ lock' = [lock EXCEPT ![reader.i] = "free"]
  /\ reader' = [reader EXCEPT !.pc = IF Blocks THEN "first" ELSE "ended",
                              !.i = 0, !.wakeup = 0]
  /\ UNCHANGED <<drive, blks, waiting, player, client, asked, heard>>

ReaderLeave ==
  /\ ReaderAt("leave")
  /\ lock' = [lock EXCEPT ![reader.i] = "free"]
  /\ reader' = [reader EXCEPT !.pc = IF Blocks THEN "idle" ELSE "ended",
                              !.i = 0, !.wakeup = 0]
  /\ UNCHANGED <<drive, blks, waiting, player, client, asked, heard>>

Reader ==
  \/ ReaderIdle \/ ReaderLoad \/ ReaderStore \/ ReaderFirst \/ ReaderTest
  \/ ReaderEnd \/ ReaderBegin \/ ReaderRead \/ ReaderFails \/ ReaderNext
  \/ ReaderSignal \/ ReaderUnlock \/ ReaderLeave

(***************************************************************************)
(* cdda_fct_play                                                           *)
(***************************************************************************)

PlayerAt(pc) == player.pc = pc
PlayerTo(pc) == player' = [player EXCEPT !.pc = pc]

PlayerTop ==
  /\ PlayerAt("top")
  /\ player' = CASE ~Blocks -> [player EXCEPT !.pc = "ended"]
                 [] Blocks /\ command = "PLAYING" -> [pc |-> "lock", i |-> NextBlock(player.i)]
                 [] Blocks /\ command # "PLAYING" -> [pc |-> "lock0", i |-> 0]
  /\ UNCHANGED <<drive, blks, lock, waiting, reader, client, asked, heard>>

\* pthread_cond_wait with the lock of block 0, which it releases and, once it
\* is woken, takes again.
PlayerWait ==
  /\ PlayerAt("lock0") /\ lock[0] = "free"
  /\ waiting' = TRUE /\ PlayerTo("wait")
  /\ UNCHANGED <<drive, blks, lock, reader, client, asked, heard>>
PlayerLock ==
  /\ PlayerAt("lock") \/ (PlayerAt("wait") /\ ~waiting)
  /\ lock[player.i] = "free"
  /\ lock' = [lock EXCEPT ![player.i] = "player"] /\ PlayerTo("play")
  /\ UNCHANGED <<drive, blks, waiting, reader, client, asked, heard>>

\* wmaudio_play plays the buffer, whatever the block's status.
PlayerPlay ==
  /\ PlayerAt("play")
  /\ heard' = blks[player.i].sound /\ PlayerTo("state")
  /\ UNCHANGED <<drive, blks, lock, waiting, reader, client, asked>>
PlayerFails ==
  /\ PlayerAt("play")
  /\ blks' = [blks EXCEPT ![player.i].status = "CDDAERROR"]
  /\ command' = "STOPPED" /\ PlayerTo("state")
  /\ UNCHANGED <<status, position, ending, lock, waiting, reader, client, asked, heard>>
\* ALSA marks the block as well, but what it returns is whether the device
\* could be prepared again: then nothing is stopped.
PlayerBroken ==
  /\ PlayerAt("play")
  /\ blks' = [blks EXCEPT ![player.i].status = "CDDAERROR"]
  /\ PlayerTo("state")
  /\ UNCHANGED <<drive, lock, waiting, reader, client, asked, heard>>

PlayerState ==
  /\ PlayerAt("state")
  /\ status' = blks[player.i].status
  /\ PlayerTo(IF status' = "TRACK_DONE" THEN "done" ELSE "unlock")
  /\ UNCHANGED <<command, position, ending, blks, lock, waiting, reader, client,
                 asked, heard>>
PlayerDone ==
  /\ PlayerAt("done") /\ command' = "STOPPED" /\ PlayerTo("unlock")
  /\ UNCHANGED <<status, position, ending, blks, lock, waiting, reader, client,
                 asked, heard>>
PlayerUnlock ==
  /\ PlayerAt("unlock")
  /\ lock' = [lock EXCEPT ![player.i] = "free"] /\ PlayerTo("top")
  /\ UNCHANGED <<drive, blks, waiting, reader, client, asked, heard>>

Player ==
  \/ PlayerTop \/ PlayerWait \/ PlayerLock \/ PlayerPlay \/ PlayerFails
  \/ PlayerBroken \/ PlayerState \/ PlayerDone \/ PlayerUnlock

(***************************************************************************)
(* The client: cdda_play, cdda_pause and cdda_stop, as wm_cd_play,         *)
(* wm_cd_pause and wm_cd_stop call them after a look at the status.        *)
(***************************************************************************)

ClientAt(pc) == client.pc = pc
ClientTo(pc) == client' = [client EXCEPT !.pc = pc]

\* cdda_play stops the reader, waits until it has stopped ...
PlayBegin(request) ==
  /\ ClientAt("ready") /\ asked < MaxRequests /\ status # "EJECTED"
  /\ command' = "STOPPED" /\ client' = [pc |-> "settle", want |-> request]
  /\ UNCHANGED <<status, position, ending, blks, lock, waiting, reader, player,
                 asked, heard>>
PlaySettled ==
  /\ ClientAt("settle") /\ status = command /\ ClientTo("set")
  /\ UNCHANGED <<drive, blks, lock, waiting, reader, player, asked, heard>>

\* ... and starts it at the new position: where to start is set before where to
\* end, and the command before the status.
PlaySet ==
  /\ ClientAt("set") /\ ClientTo("end") /\ position' = client.want[1]
  /\ UNCHANGED <<command, status, ending, blks, lock, waiting, reader, player, asked,
                 heard>>
PlaySetEnd ==
  /\ ClientAt("end") /\ client' = [pc |-> "start", want |-> <<0, 0>>]
  /\ ending' = client.want[2] /\ asked' = asked + 1
  /\ UNCHANGED <<command, status, position, blks, lock, waiting, reader, player, heard>>
PlayStart ==
  /\ ClientAt("start") /\ ClientTo("started") /\ command' = "PLAYING"
  /\ UNCHANGED <<status, position, ending, blks, lock, waiting, reader, player,
                 asked, heard>>
PlayStarted ==
  /\ ClientAt("started") /\ ClientTo("ready") /\ status' = "PLAYING"
  /\ UNCHANGED <<command, position, ending, blks, lock, waiting, reader, player,
                 asked, heard>>

\* wm_cd_stop does nothing when the status is stopped, or no disc.
Stop ==
  /\ ClientAt("ready") /\ status \notin {"STOPPED", "EJECTED"}
  /\ command' = "STOPPED"
  /\ UNCHANGED <<status, position, ending, blks, lock, waiting, reader, player,
                 client, asked, heard>>

\* wm_cd_pause looks at the status; cdda_pause at the command.
PauseLook ==
  /\ ClientAt("ready") /\ Pauses /\ asked < MaxRequests
  /\ status = "PLAYING" /\ ClientTo("pause")
  /\ UNCHANGED <<drive, blks, lock, waiting, reader, player, asked, heard>>
Pause ==
  /\ ClientAt("pause") /\ ClientTo("ready")
  /\ command' = IF command = "PLAYING" THEN "PAUSED" ELSE "PLAYING"
  /\ UNCHANGED <<status, position, ending, blks, lock, waiting, reader, player,
                 asked, heard>>

\* wm_cd_pause of a paused drive without a resume function: it plays from a
\* position in seconds of the track up to the end -1.
Resume == Pauses /\ status = "PAUSED" /\ PlayBegin(<<0, -1>>)

\* Mutant: the threads are not stopped.
MutantDestroyBegin ==
  /\ ClientAt("ready") /\ ClientTo("closing")
  /\ UNCHANGED <<drive, blks, lock, waiting, reader, player, asked, heard>>

\* wm_cdda_destroy stops the threads, sleeps for a while and frees the buffers,
\* with which it cannot read any more, without waiting for the threads.  No call
\* comes after it.
DestroyBegin ==
  /\ ClientAt("ready") /\ ClientTo("closing") /\ command' = "STOPPED"
  /\ UNCHANGED <<status, position, ending, blks, lock, waiting, reader, player, asked,
                 heard>>
DestroyEnd ==
  /\ ClientAt("closing") /\ ClientTo("destroyed")
  /\ UNCHANGED <<drive, blks, lock, waiting, reader, player, asked, heard>>

PlayOn ==
  PlaySettled \/ PlaySet \/ PlaySetEnd \/ PlayStart \/ PlayStarted \/ Pause \/ DestroyEnd
Client ==
  \/ \E r \in Requests : PlayBegin(r)
  \/ Stop \/ PauseLook \/ Resume \/ DestroyBegin \/ PlayOn

\* The reader has returned; the player has returned as well, or is never woken.
Ended == ReaderAt("ended") /\ (PlayerAt("ended") \/ waiting) /\ UNCHANGED vars

Next == Reader \/ Player \/ Client \/ Ended

Spec == Init /\ [][Next]_vars

\* The threads run, each gets a lock that is free again and again, and the
\* client's calls return if they can.
FairSpec ==
  /\ Spec
  /\ WF_vars(Reader) /\ WF_vars(Player) /\ WF_vars(PlayOn)
  /\ SF_vars(ReaderFirst) /\ SF_vars(ReaderNext)
  /\ SF_vars(PlayerLock) /\ SF_vars(PlayerWait)

(***************************************************************************)
(* Properties.                                                             *)
(***************************************************************************)

\* Type invariant: the two threads stay inside the ring.
ReaderPc == {"idle", "load", "store", "first", "test", "begin", "read", "next",
             "signal", "unlock", "leave", "ended"}
PlayerPc == {"top", "lock0", "wait", "lock", "play", "state", "done", "unlock", "ended"}
ClientPc == {"ready", "settle", "set", "end", "start", "started", "pause", "closing", "destroyed"}

DriveType  == command \in CddaMode /\ status \in CddaMode /\ position \in Nat /\ ending \in Int
RingType   == blks \in [Block -> [status : CddaMode, sound : Nat]]
LockType   == lock \in [Block -> {"free", "reader", "player"}] /\ waiting \in BOOLEAN
ReaderType == reader \in [pc : ReaderPc, i : Block, saw : CddaMode, wakeup : {0, 1}]
PlayerType == player \in [pc : PlayerPc, i : Block]
ClientType == client \in [pc : ClientPc, want : Nat \X Int]
HeardType  == asked \in Nat /\ heard \in Nat

TypeOK ==
  /\ DriveType /\ RingType /\ LockType /\ ReaderType /\ PlayerType /\ ClientType
  /\ HeardType

\* The reader never reads into the block that is being played, though it goes
\* round the ring without asking how far the player has come.
BlockExclusive ==
  ReaderAt("read") /\ (PlayerAt("play") \/ PlayerAt("state")) => reader.i # player.i

\* cdda_play returns: the loop that waits for the reader ends, whichever thread
\* has written the status last.
PlayReturns == ClientAt("settle") ~> ClientAt("ready")

\* Once nothing is to play any more, the status says so and the player sleeps:
\* neither thread holds a lock that the other one waits for.
StopSettles ==
  <>[](command = "STOPPED" /\ Blocks) => <>[](status = "STOPPED" /\ PlayerAt("wait"))

\* After wm_cdda_destroy both threads come to rest, whatever they were doing when
\* it slept: each leaves the blocks alone and all locks free, which the threads of
\* the next handle share, although not every thread ends.
AtRest == reader.pc \in {"idle", "load", "store", "ended"} /\ player.pc \in {"wait", "ended"}
DestroyEnds ==
  <>[](~Blocks) => <>[](AtRest /\ \A i \in Block : lock[i] = "free")

\* A request with something to read is heard, unless it is stopped (cdda.c,
\* after the first block is released: "audio can start here").
RequestHeard ==
  (ClientAt("started") /\ position < ending) ~> (heard = asked \/ command # "PLAYING")
=============================================================================

------------------------------ MODULE CddaProofs ------------------------------
(***************************************************************************)
(* The threads of digital playback stay inside the ring and never use the  *)
(* same block, however many blocks there are.                              *)
(***************************************************************************)
EXTENDS Cdda, TLAPS

(***************************************************************************)
(* Which locks a thread holds, by where it is: the reader that of its      *)
(* block, and before it goes on that of the next one as well; the player   *)
(* that of its block.                                                      *)
(***************************************************************************)
ReaderHolds ==
  /\ reader.pc \in {"test", "begin", "read", "next", "signal", "unlock", "leave"}
       => lock[reader.i] = "reader"
  /\ reader.pc \in {"signal", "unlock"} => lock[NextBlock(reader.i)] = "reader"

PlayerHolds ==
  player.pc \in {"play", "state", "done", "unlock"} => lock[player.i] = "player"

IInv == TypeOK /\ ReaderHolds /\ PlayerHolds

\* The ring has more than one block, so that the next one is another.
LEMMA NextBlockType ==
  \A i \in Block : NextBlock(i) \in Block /\ NextBlock(i) # i
  BY CddaAssumption, SMT DEF NextBlock, Block

\* The first block is one of the ring.
LEMMA FirstBlock == 0 \in Block
  BY CddaAssumption, SMT DEF Block

LEMMA InitInv == Init => IInv
<1> SUFFICES ASSUME Init PROVE IInv
  OBVIOUS
<1> USE FirstBlock DEF Init
<1>1. DriveType
  BY DEF DriveType, CddaMode
<1>2. RingType /\ HeardType
  BY DEF RingType, HeardType, CddaMode
<1>3. ReaderType
  BY DEF ReaderType, ReaderPc, CddaMode
<1>4. LockType /\ PlayerType
  BY DEF LockType, PlayerType, PlayerPc
<1>5. ClientType
  BY DEF ClientType, ClientPc
<1>6. ReaderHolds /\ PlayerHolds
  BY DEF ReaderHolds, PlayerHolds
<1> QED
  BY <1>1, <1>2, <1>3, <1>4, <1>5, <1>6 DEF IInv, TypeOK

(***************************************************************************)
(* The steps of the reader, part of the invariant by part.                 *)
(***************************************************************************)
\* It copies a mode, moves the position on or stops.
LEMMA ReaderDrive == TypeOK /\ Reader => DriveType'
<1> SUFFICES ASSUME TypeOK, Reader PROVE DriveType'
  OBVIOUS
<1> USE DEF TypeOK, DriveType, ReaderType, CddaMode, ReaderAt, ReaderTo, drive
<1>1. CASE ReaderIdle
  BY <1>1 DEF ReaderIdle
<1>2. CASE ReaderLoad
  BY <1>2 DEF ReaderLoad
<1>3. CASE ReaderStore
  BY <1>3 DEF ReaderStore
<1>4. CASE ReaderFirst
  BY <1>4 DEF ReaderFirst
<1>5. CASE ReaderTest
  BY <1>5 DEF ReaderTest
<1>6. CASE ReaderEnd
  BY <1>6 DEF ReaderEnd
<1>7. CASE ReaderBegin
  BY <1>7 DEF ReaderBegin
<1>8. CASE ReaderRead
  BY <1>8 DEF ReaderRead
<1>9. CASE ReaderFails
  BY <1>9 DEF ReaderFails
<1>10. CASE ReaderNext
  BY <1>10 DEF ReaderNext
<1>11. CASE ReaderSignal
  BY <1>11 DEF ReaderSignal
<1>12. CASE ReaderUnlock
  BY <1>12 DEF ReaderUnlock
<1>13. CASE ReaderLeave
  BY <1>13 DEF ReaderLeave
<1> QED
  BY <1>1, <1>2, <1>3, <1>4, <1>5, <1>6, <1>7, <1>8, <1>9, <1>10, <1>11, <1>12, <1>13
  DEF Reader

\* It writes the blocks it has read or could not read.
LEMMA ReaderRing == TypeOK /\ Reader => RingType'
<1> SUFFICES ASSUME TypeOK, Reader PROVE RingType'
  OBVIOUS
<1> USE DEF TypeOK, RingType, ReaderType, ReaderAt, ReaderTo, drive
<1>1. CASE ReaderEnd
  BY <1>1 DEF ReaderEnd, CddaMode
<1>2. CASE ReaderRead
  BY <1>2 DEF ReaderRead, CddaMode, HeardType
<1>3. CASE ReaderFails
  BY <1>3 DEF ReaderFails, CddaMode
<1>4. CASE UNCHANGED blks
  BY <1>4
<1> QED
  BY <1>1, <1>2, <1>3, <1>4 DEF Reader, ReaderIdle, ReaderLoad, ReaderStore,
     ReaderFirst, ReaderTest, ReaderBegin, ReaderNext, ReaderSignal, ReaderUnlock,
     ReaderLeave

\* It takes and gives back locks as itself.
LEMMA ReaderLock == TypeOK /\ Reader => LockType'
  BY NextBlockType, FirstBlock DEF TypeOK, LockType, ReaderType, Reader, ReaderIdle,
     ReaderLoad, ReaderStore, ReaderFirst, ReaderTest, ReaderEnd, ReaderBegin,
     ReaderRead, ReaderFails, ReaderNext, ReaderSignal, ReaderUnlock, ReaderLeave,
     ReaderAt, ReaderTo, drive

\* It stays in the ring.
LEMMA ReaderSelf == TypeOK /\ Reader => ReaderType'
<1> SUFFICES ASSUME TypeOK, Reader PROVE ReaderType'
  OBVIOUS
<1> USE NextBlockType, FirstBlock
    DEF TypeOK, DriveType, ReaderType, ReaderPc, ReaderAt, ReaderTo, drive
<1>1. CASE ReaderIdle
  BY <1>1 DEF ReaderIdle
<1>2. CASE ReaderLoad
  BY <1>2 DEF ReaderLoad
<1>3. CASE ReaderStore
  BY <1>3 DEF ReaderStore, CddaMode
<1>4. CASE ReaderFirst
  BY <1>4 DEF ReaderFirst
<1>5. CASE ReaderTest
  BY <1>5 DEF ReaderTest
<1>6. CASE ReaderEnd
  BY <1>6 DEF ReaderEnd
<1>7. CASE ReaderBegin
  BY <1>7 DEF ReaderBegin
<1>8. CASE ReaderRead
  BY <1>8 DEF ReaderRead
<1>9. CASE ReaderFails
  BY <1>9 DEF ReaderFails
<1>10. CASE ReaderNext
  BY <1>10 DEF ReaderNext
<1>11. CASE ReaderSignal
  BY <1>11 DEF ReaderSignal
<1>12. CASE ReaderUnlock
  BY <1>12 DEF ReaderUnlock
<1>13. CASE ReaderLeave
  BY <1>13 DEF ReaderLeave
<1> QED
  BY <1>1, <1>2, <1>3, <1>4, <1>5, <1>6, <1>7, <1>8, <1>9, <1>10, <1>11, <1>12, <1>13
  DEF Reader

\* It touches nothing of the other threads.
LEMMA ReaderOthers == TypeOK /\ Reader => PlayerType' /\ ClientType' /\ HeardType'
  BY DEF TypeOK, PlayerType, ClientType, HeardType, Reader, ReaderIdle, ReaderLoad,
     ReaderStore, ReaderFirst, ReaderTest, ReaderEnd, ReaderBegin, ReaderRead,
     ReaderFails, ReaderNext, ReaderSignal, ReaderUnlock, ReaderLeave, ReaderAt,
     ReaderTo, drive

\* It goes on only with the lock of the next block.
LEMMA ReaderHold == IInv /\ Reader => ReaderHolds'
<1> SUFFICES ASSUME IInv, Reader PROVE ReaderHolds'
  OBVIOUS
<1> USE NextBlockType, FirstBlock
    DEF IInv, TypeOK, LockType, ReaderType, ReaderHolds, ReaderAt, ReaderTo, drive
<1>1. CASE ReaderIdle
  BY <1>1 DEF ReaderIdle
<1>2. CASE ReaderLoad
  BY <1>2 DEF ReaderLoad
<1>3. CASE ReaderStore
  BY <1>3 DEF ReaderStore
<1>4. CASE ReaderFirst
  BY <1>4 DEF ReaderFirst
<1>5. CASE ReaderTest
  BY <1>5 DEF ReaderTest
<1>6. CASE ReaderEnd
  BY <1>6 DEF ReaderEnd
<1>7. CASE ReaderBegin
  BY <1>7 DEF ReaderBegin
<1>8. CASE ReaderRead
  BY <1>8 DEF ReaderRead
<1>9. CASE ReaderFails
  BY <1>9 DEF ReaderFails
<1>10. CASE ReaderNext
  BY <1>10 DEF ReaderNext
<1>11. CASE ReaderSignal
  BY <1>11 DEF ReaderSignal
<1>12. CASE ReaderUnlock
  BY <1>12 DEF ReaderUnlock
<1>13. CASE ReaderLeave
  BY <1>13 DEF ReaderLeave
<1> QED
  BY <1>1, <1>2, <1>3, <1>4, <1>5, <1>6, <1>7, <1>8, <1>9, <1>10, <1>11, <1>12, <1>13
  DEF Reader

\* It takes no lock that the player holds, and gives back its own.
LEMMA ReaderLeavesPlayer == IInv /\ Reader => PlayerHolds'
<1> SUFFICES ASSUME IInv, Reader PROVE PlayerHolds'
  OBVIOUS
<1> USE NextBlockType, FirstBlock
    DEF IInv, TypeOK, LockType, ReaderType, PlayerType, ReaderHolds, PlayerHolds, ReaderAt, ReaderTo, drive
<1>1. CASE ReaderIdle
  BY <1>1 DEF ReaderIdle
<1>2. CASE ReaderLoad
  BY <1>2 DEF ReaderLoad
<1>3. CASE ReaderStore
  BY <1>3 DEF ReaderStore
<1>4. CASE ReaderFirst
  BY <1>4 DEF ReaderFirst
<1>5. CASE ReaderTest
  BY <1>5 DEF ReaderTest
<1>6. CASE ReaderEnd
  BY <1>6 DEF ReaderEnd
<1>7. CASE ReaderBegin
  BY <1>7 DEF ReaderBegin
<1>8. CASE ReaderRead
  BY <1>8 DEF ReaderRead
<1>9. CASE ReaderFails
  BY <1>9 DEF ReaderFails
<1>10. CASE ReaderNext
  BY <1>10 DEF ReaderNext
<1>11. CASE ReaderSignal
  BY <1>11 DEF ReaderSignal
<1>12. CASE ReaderUnlock
  BY <1>12 DEF ReaderUnlock
<1>13. CASE ReaderLeave
  BY <1>13 DEF ReaderLeave
<1> QED
  BY <1>1, <1>2, <1>3, <1>4, <1>5, <1>6, <1>7, <1>8, <1>9, <1>10, <1>11, <1>12, <1>13
  DEF Reader

LEMMA ReaderInv == IInv /\ Reader => IInv'
  BY ReaderDrive, ReaderRing, ReaderLock, ReaderSelf, ReaderOthers, ReaderHold,
     ReaderLeavesPlayer
  DEF IInv, TypeOK

(***************************************************************************)
(* The steps of the player.                                                *)
(***************************************************************************)
\* It stays in the ring, and shows the status of its block.
LEMMA PlayerTypes == TypeOK /\ Player => TypeOK'
<1> SUFFICES ASSUME TypeOK, Player PROVE TypeOK'
  OBVIOUS
<1>1. DriveType'
  BY DEF TypeOK, DriveType, RingType, PlayerType, CddaMode, Player, PlayerTop,
     PlayerWait, PlayerLock, PlayerPlay, PlayerFails, PlayerBroken, PlayerState, PlayerDone,
     PlayerUnlock, PlayerAt, PlayerTo, drive
<1>2. RingType'
  BY DEF TypeOK, DriveType, RingType, CddaMode, PlayerType, Player, PlayerTop,
     PlayerWait, PlayerLock, PlayerPlay, PlayerFails, PlayerBroken, PlayerState, PlayerDone,
     PlayerUnlock, PlayerAt, PlayerTo, drive
<1>3. LockType'
  BY NextBlockType, FirstBlock DEF TypeOK, LockType, PlayerType, Player, PlayerTop,
     PlayerWait, PlayerLock, PlayerPlay, PlayerFails, PlayerBroken, PlayerState, PlayerDone,
     PlayerUnlock, PlayerAt, PlayerTo, drive
<1>4. PlayerType'
  BY NextBlockType, FirstBlock DEF TypeOK, PlayerType, PlayerPc, Player, PlayerTop,
     PlayerWait, PlayerLock, PlayerPlay, PlayerFails, PlayerBroken, PlayerState, PlayerDone,
     PlayerUnlock, PlayerAt, PlayerTo, drive
<1>5. HeardType'
  BY DEF TypeOK, HeardType, PlayerType, RingType, Player, PlayerTop, PlayerWait,
     PlayerLock, PlayerPlay, PlayerFails, PlayerBroken, PlayerState, PlayerDone, PlayerUnlock,
     PlayerAt, PlayerTo, drive
<1>6. (ReaderType /\ ClientType)'
  BY DEF TypeOK, ReaderType, ClientType, Player, PlayerTop, PlayerWait, PlayerLock,
     PlayerPlay, PlayerFails, PlayerBroken, PlayerState, PlayerDone, PlayerUnlock, PlayerAt,
     PlayerTo, drive
<1> QED
  BY <1>1, <1>2, <1>3, <1>4, <1>5, <1>6 DEF TypeOK

\* It plays with the lock of its block, and takes only free ones.
LEMMA PlayerLocks == IInv /\ Player => ReaderHolds' /\ PlayerHolds'
<1>1. IInv /\ Player => ReaderHolds'
  BY NextBlockType, FirstBlock DEF IInv, TypeOK, LockType, ReaderType, PlayerType,
     ReaderHolds, PlayerHolds, Player, PlayerTop, PlayerWait, PlayerLock, PlayerPlay,
     PlayerFails, PlayerBroken, PlayerState, PlayerDone, PlayerUnlock, PlayerAt, PlayerTo, drive
<1>2. IInv /\ Player => PlayerHolds'
  BY NextBlockType, FirstBlock DEF IInv, TypeOK, LockType, PlayerType, PlayerHolds,
     Player, PlayerTop, PlayerWait, PlayerLock, PlayerPlay, PlayerFails, PlayerBroken, PlayerState,
     PlayerDone, PlayerUnlock, PlayerAt, PlayerTo, drive
<1> QED
  BY <1>1, <1>2

(***************************************************************************)
(* The steps of the client: it takes no lock.                              *)
(***************************************************************************)
\* Its requests are positions, its commands modes.
LEMMA ClientInv == IInv /\ Client => IInv'
<1> SUFFICES ASSUME IInv, Client PROVE IInv'
  OBVIOUS
<1>1. DriveType'
  BY DEF IInv, TypeOK, DriveType, ClientType, CddaMode, Client, PlayBegin, Stop,
     PauseLook, Resume, PlayOn, PlaySettled, PlaySet, PlaySetEnd, PlayStart, PlayStarted, Pause,
     DestroyBegin, DestroyEnd, ClientAt, ClientTo, drive
<1>2. ClientType'
  BY CddaAssumption DEF IInv, TypeOK, ClientType, ClientPc, Client, PlayBegin, Stop,
     PauseLook, Resume, PlayOn, PlaySettled, PlaySet, PlaySetEnd, PlayStart, PlayStarted, Pause,
     DestroyBegin, DestroyEnd, ClientAt, ClientTo, drive
<1>3. (RingType /\ LockType /\ ReaderType /\ PlayerType /\ HeardType)'
  BY DEF IInv, TypeOK, RingType, LockType, ReaderType, PlayerType, HeardType, Client,
     PlayBegin, Stop, PauseLook, Resume, PlayOn, PlaySettled, PlaySet, PlaySetEnd, PlayStart,
     PlayStarted, Pause, DestroyBegin, DestroyEnd, ClientAt, ClientTo, drive
<1>4. (ReaderHolds /\ PlayerHolds)'
  BY DEF IInv, TypeOK, ReaderHolds, PlayerHolds, Client, PlayBegin, Stop, PauseLook,
     Resume, PlayOn, PlaySettled, PlaySet, PlaySetEnd, PlayStart, PlayStarted, Pause, DestroyBegin,
     DestroyEnd, ClientAt, ClientTo, drive
<1> QED
  BY <1>1, <1>2, <1>3, <1>4 DEF IInv, TypeOK

LEMMA StutterInv == IInv /\ UNCHANGED vars => IInv'
<1> SUFFICES ASSUME IInv, UNCHANGED vars PROVE IInv'
  OBVIOUS
<1> USE DEF vars, drive, IInv, TypeOK
<1>1. DriveType' /\ RingType' /\ LockType' /\ HeardType'
  BY DEF DriveType, RingType, LockType, HeardType
<1>2. ReaderType' /\ PlayerType' /\ ClientType'
  BY DEF ReaderType, PlayerType, ClientType
<1>3. ReaderHolds' /\ PlayerHolds'
  BY DEF ReaderHolds, PlayerHolds
<1> QED
  BY <1>1, <1>2, <1>3

LEMMA CddaInvariant == Spec => []IInv
<1>1. Init => IInv
  BY InitInv
<1>2. IInv /\ [Next]_vars => IInv'
  BY ReaderInv, PlayerTypes, PlayerLocks, ClientInv, StutterInv
  DEF Next, Ended, IInv
<1> QED
  BY <1>1, <1>2, PTL DEF Spec

(***************************************************************************)
(* The type of the state of cdda.c; both threads index the ring inside its *)
(* bounds.                                                                 *)
(***************************************************************************)
THEOREM CddaTypeCorrect == Spec => []TypeOK
<1>1. IInv => TypeOK
  BY DEF IInv
<1> QED
  BY <1>1, CddaInvariant, PTL

(***************************************************************************)
(* The buffer the player plays is not the one the reader reads into: each  *)
(* holds the lock of its block at that point.                              *)
(***************************************************************************)
THEOREM CddaBlockExclusive == Spec => []BlockExclusive
<1>1. IInv => BlockExclusive
  BY DEF IInv, TypeOK, LockType, ReaderType, PlayerType, ReaderHolds, PlayerHolds,
         BlockExclusive, ReaderAt, PlayerAt
<1> QED
  BY <1>1, CddaInvariant, PTL
=============================================================================

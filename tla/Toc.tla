--------------------------------- MODULE Toc ---------------------------------
(***************************************************************************)
(* From the table of contents on the disc to the numbers an application is *)
(* shown: what each platform reads (src/wmlib/plat_*.c), what read_toc     *)
(* makes of it (src/wmlib/cdrom.c), the CDDB id (src/wmlib/cddb.c) and the *)
(* positions of timerExpired with their filter after a seek                *)
(* (src/wmlib_interface.cpp).  A disc is a record of                       *)
(*   first   the number of its first track                                 *)
(*   start   the frames its tracks start at, and the lead-out              *)
(*   data    the indices of its data tracks                                *)
(* Where the drive goes when it is told to play is WmCdrom's: here it goes *)
(* anywhere.                                                               *)
(***************************************************************************)
EXTENDS Integers, Sequences

CONSTANTS
  Platforms,  \* platforms the library is built for
  TocDiscs,   \* discs a person may put in
  Heads,      \* frames the drive may be at when it is looked at
  Positions   \* arguments of playPosition, in seconds

Increasing(s) == \A i \in 1 .. Len(s) - 1 : s[i] < s[i + 1]

ASSUME TocAssumption ==
  /\ Platforms \subseteq {"linux", "freebsd", "openbsd", "osf1", "ultrix", "aix", "irix"}
  /\ \A d \in TocDiscs :
       /\ d.first \in Nat \ {0}
       /\ d.start \in Seq(Nat) /\ Len(d.start) > 1 /\ Increasing(d.start)
       /\ d.data \subseteq 1 .. Len(d.start) - 1
  /\ Heads \subseteq Nat /\ Positions \subseteq Nat

VARIABLES
  os, disc,
  thiscd,     \* ntracks, trk and length of struct wm_cdinfo
  ready,      \* read_toc has succeeded
  mode,       \* "stopped" | "playing" | "paused"
  head,       \* the frame the drive is at
  m_track, m_trackPosition, m_discPosition,
  m_trackExpectedPosition, m_seek

table == <<os, disc, thiscd, ready>>
motion == <<mode, head>>
shown == <<m_track, m_trackPosition, m_discPosition>>
seek  == <<m_trackExpectedPosition, m_seek>>
tocVars == <<table, motion, shown, seek>>

(***************************************************************************)
(* Frames, and the minutes, seconds and frames of the ioctls.              *)
(***************************************************************************)

Msf(frames) == [m |-> frames \div (60 * 75), s |-> (frames % (60 * 75)) \div 75,
                f |-> frames % 75]
Frames(msf) == msf.m * 60 * 75 + msf.s * 75 + msf.f

FramesToSec(frames) == frames \div 75

(***************************************************************************)
(* What the platforms read.                                                *)
(***************************************************************************)

NumTracks(d) == Len(d.start) - 1

\* gen_get_trackcount: the number of the last track, or how many there are.
LastTrackCount(d) == d.first + NumTracks(d) - 1
FreebsdTrackcount(d) == LastTrackCount(d) - d.first + 1
OpenbsdTrackcount(d) == LastTrackCount(d) - d.first + 1
Osf1Trackcount(d)    == LastTrackCount(d)
UltrixTrackcount(d)  == LastTrackCount(d)
AixTrackcount(d)     == LastTrackCount(d)
IrixTrackcount(d)    == LastTrackCount(d)

TrackCount(system, d) ==
  CASE system = "linux"   -> LastTrackCount(d)
    [] system = "freebsd" -> FreebsdTrackcount(d)
    [] system = "openbsd" -> OpenbsdTrackcount(d)
    [] system = "osf1"    -> Osf1Trackcount(d)
    [] system = "ultrix"  -> UltrixTrackcount(d)
    [] system = "aix"     -> AixTrackcount(d)
    [] system = "irix"    -> IrixTrackcount(d)

Entry(d, i) ==
  [start |-> Frames(Msf(d.start[i])), data |-> IF i \in d.data THEN 1 ELSE 0]
NoEntry == [start |-> 0, data |-> 0]

\* gen_get_trackinfo asks for a track by its number, and fails if it is not
\* one of the disc.  AIX and IRIX do not ask whether it is a data track.
AskTrackinfo(d, t) == {Entry(d, i) : i \in {t - d.first + 1} \cap (1 .. NumTracks(d))}
LinuxTrackinfo(d, t)   == AskTrackinfo(d, t)
FreebsdTrackinfo(d, t) == AskTrackinfo(d, t)
OpenbsdTrackinfo(d, t) == AskTrackinfo(d, t)
AixTrackinfo(d, t)     == {[e EXCEPT !.data = 0] : e \in AskTrackinfo(d, t)}
IrixTrackinfo(d, t)    == {[e EXCEPT !.data = 0] : e \in AskTrackinfo(d, t)}

\* OSF/1 and Ultrix read all entries and take the one at an index, into an
\* array that is zero after the lead-out.
Osf1Trackinfo(d, t)   == {IF t \in DOMAIN d.start THEN Entry(d, t) ELSE NoEntry}
UltrixTrackinfo(d, t) == Osf1Trackinfo(d, t)

\* The entry of a track, or none.
Trackinfo(system, d, t) ==
  CASE system = "linux"   -> LinuxTrackinfo(d, t)
    [] system = "freebsd" -> FreebsdTrackinfo(d, t)
    [] system = "openbsd" -> OpenbsdTrackinfo(d, t)
    [] system = "osf1"    -> Osf1Trackinfo(d, t)
    [] system = "ultrix"  -> UltrixTrackinfo(d, t)
    [] system = "aix"     -> AixTrackinfo(d, t)
    [] system = "irix"    -> IrixTrackinfo(d, t)

\* Mutant: the last track is taken for the lead-out.
MutantCdlen(system, d) ==
  IF system \in {"osf1", "ultrix"} THEN Osf1Trackinfo(d, LastTrackCount(d))
  ELSE {Entry(d, Len(d.start))}

\* gen_get_cdlen: the lead-out, by its number, as the entry after the last,
\* or on IRIX as the length of the disc.
LeadOut(d)     == {Entry(d, Len(d.start))}
Osf1Cdlen(d)   == Osf1Trackinfo(d, LastTrackCount(d) + 1)
UltrixCdlen(d) == UltrixTrackinfo(d, LastTrackCount(d) + 1)
Cdlen(system, d) ==
  CASE system = "osf1"   -> Osf1Cdlen(d)
    [] system = "ultrix" -> UltrixCdlen(d)
    [] OTHER             -> LeadOut(d)

(***************************************************************************)
(* read_toc, and what is computed from the table.                          *)
(***************************************************************************)

NoToc == [ntracks |-> 0, trk |-> << >>, length |-> 0]

\* All that read_toc asks the platform for can be read.
TocReadable(system, d) ==
  \A t \in 1 .. TrackCount(system, d) : Trackinfo(system, d, t) # {}

Only(entries) == CHOOSE e \in entries : TRUE

\* Seconds of an audio track; of a data track, kilobytes.
TrackLength(e, i) ==
  IF e[i].data = 1 THEN (e[i + 1].start - e[i].start) * 2
  ELSE FramesToSec(e[i + 1].start) - FramesToSec(e[i].start)

ReadToc(system, d) ==
  LET n == TrackCount(system, d)
      e == [i \in 1 .. n + 1 |-> Only(IF i <= n THEN Trackinfo(system, d, i)
                                                ELSE Cdlen(system, d))]
      end == FramesToSec(e[n + 1].start)
  IN  [ntracks |-> n,
       trk |-> [i \in 1 .. n + 1 |->
                  [start |-> e[i].start, data |-> e[i].data,
                   length |-> IF i <= n THEN TrackLength(e, i) ELSE end]],
       length |-> end]

\* wm_cd_gettracklen, wm_cd_gettrackstart and wm_cd_gettrackdata: 0 for a
\* track that is not there; the start of the track after the last is the
\* lead-out.
GetTrackLen(t)   == IF t \in 1 .. thiscd.ntracks THEN thiscd.trk[t].length ELSE 0
GetTrackStart(t) == IF t \in 1 .. thiscd.ntracks + 1 THEN thiscd.trk[t].start ELSE 0
GetTrackData(t)  == IF t \in 1 .. thiscd.ntracks THEN thiscd.trk[t].data ELSE 0

\* trackLength(), isAudio() and discSignature() of the application; a disc
\* that has been read is known by the next poll.
ShownLength(t) == IF t = 0 THEN 0 ELSE GetTrackLen(t)
ShownAudio(t)  == t # 0 /\ GetTrackData(t) = 0
Signature      == [t \in 1 .. thiscd.ntracks + 1 |-> GetTrackStart(t)]

\* Mutant: trk is indexed by the number of the track.
MutantCurtrack(frame) ==
  LET begun == {t \in 2 .. thiscd.ntracks : thiscd.trk[t + 1].start <= frame}
  IN  CHOOSE t \in begun \cup {1} : \A u \in begun : u <= t

\* wm_cd_status looks for the track from the last one on.
Curtrack(frame) ==
  LET begun == {t \in 2 .. thiscd.ntracks : thiscd.trk[t].start <= frame}
  IN  CHOOSE t \in begun \cup {1} : \A u \in begun : u <= t

AbsValue(n) == IF n < 0 THEN -n ELSE n

\* wm_get_cur_pos_abs, wm_get_cur_pos_rel
CurPosAbs(frame) == FramesToSec(frame)
CurPosRel(frame) == FramesToSec(AbsValue(frame - thiscd.trk[Curtrack(frame)].start))

\* The sum of the digits of a number.
CddbSum[n \in Nat] == IF n < 10 THEN n ELSE (n % 10) + CddbSum[n \div 10]

SumTo(n, f) ==
  LET sum[i \in 0 .. n] == IF i = 0 THEN 0 ELSE sum[i - 1] + f[i] IN sum[n]

\* The three numbers that the id is put together from, in bits 24, 8 and 0.
CddbDiscid ==
  LET Start(t) == thiscd.trk[t].start
  IN  [n |-> SumTo(thiscd.ntracks, [t \in 1 .. thiscd.ntracks |-> CddbSum[Start(t)]]) % 255,
       t |-> Start(thiscd.ntracks + 1) - Start(1),
       tracks |-> thiscd.ntracks]

(***************************************************************************)
(* The slots that seek, and timerExpired.                                  *)
(***************************************************************************)

\* The difference is unsigned and of 32 bits before abs() sees it as a long:
\* a position past the expected one is farther than any other (2^32 is out of
\* TLC's reach).
Farthest == 1073741824   \* 2^30

\* Mutant: the difference is signed, and abs() does its work.
MutantAbsDistance(expected, position) == AbsValue(expected - position)

Distance(expected, position) ==
  IF expected >= position THEN expected - position ELSE Farthest

Seeks(position) ==
  /\ ready
  /\ m_trackExpectedPosition' = position
  /\ m_seek' = AbsValue(position - m_trackPosition)
  /\ mode' = "playing" /\ head' \in Heads
  /\ UNCHANGED <<table, shown>>

PlayTrack    == Seeks(0)
PlayPosition == \E position \in Positions : Seeks(position)

PauseSlot ==
  /\ mode \in {"playing", "paused"}
  /\ mode' = IF mode = "playing" THEN "paused" ELSE "playing"
  /\ UNCHANGED <<table, head, shown, seek>>

\* Positions are hidden until they are no nearer than before, or right.
Filter(distance) == IF distance > m_seek THEN 0 ELSE distance

PollPlaying ==
  /\ mode = "playing"
  /\ m_trackPosition' = CurPosRel(head)
  /\ m_discPosition' = CurPosAbs(head) - FramesToSec(Signature[1])
  /\ m_seek' = IF m_seek = 0 THEN 0
               ELSE Filter(Distance(m_trackExpectedPosition, m_trackPosition'))
  /\ m_track' = Curtrack(head)
  /\ UNCHANGED <<table, motion, m_trackExpectedPosition>>

PollStopped ==
  /\ mode = "stopped"
  /\ m_seek' = 0 /\ m_track' = 0
  /\ UNCHANGED <<table, motion, m_trackPosition, m_discPosition, m_trackExpectedPosition>>

\* The drive plays on; at the end it stops.
Turn ==
  /\ mode = "playing"
  /\ \/ head' \in {frame \in Heads : frame > head} /\ mode' = mode
     \/ mode' = "stopped" /\ head' = head
  /\ UNCHANGED <<table, shown, seek>>

TocInit ==
  /\ os \in Platforms /\ disc \in TocDiscs
  /\ ready = TocReadable(os, disc)
  /\ thiscd = IF ready THEN ReadToc(os, disc) ELSE NoToc
  /\ mode = "stopped" /\ head = 0
  /\ m_track = 0 /\ m_trackPosition = 0 /\ m_discPosition = 0
  /\ m_trackExpectedPosition = 0 /\ m_seek = 0

TocNext == PlayTrack \/ PlayPosition \/ PauseSlot \/ PollPlaying \/ PollStopped \/ Turn

TocSpec == TocInit /\ [][TocNext]_tocVars

(***************************************************************************)
(* Properties.                                                             *)
(***************************************************************************)

\* The platforms agree on the table of contents that can be read, though they
\* count tracks and find entries in four ways: each track has its own start
\* and kind and the last entry is the lead-out, as the application sees them.
\* OSF/1 and Ultrix index from the first track that is there, so that theirs
\* must be number 1, and AIX and IRIX know audio tracks only.
TocRight ==
  ready /\ (os \in {"osf1", "ultrix"} => disc.first = 1) =>
    /\ Signature = disc.start
    /\ os \notin {"aix", "irix"} =>
         \A i \in 1 .. NumTracks(disc) : ShownAudio(i) <=> i \notin disc.data

AudioOnly == disc.first = 1 /\ \A i \in 1 .. thiscd.ntracks : ShownAudio(i)

\* Wherever the drive is found between the first track and the lead-out, the
\* position in the track is not beyond the length of the track, and that on
\* the disc, which is computed without it, is the same up to a second.
PositionsAgree ==
  [][PollPlaying /\ AudioOnly /\ head >= disc.start[1] /\ head < disc.start[Len(disc.start)] =>
       LET before == FramesToSec(Signature[m_track']) - FramesToSec(Signature[1])
       IN  /\ m_trackPosition' <= ShownLength(m_track')
           /\ m_discPosition' - (before + m_trackPosition') \in {0, 1}]_tocVars

\* After a seek the position of before is hidden if the drive is still there,
\* so long as the seek was a forward one, and never a position that is at or
\* past the one asked for, whatever else has been asked for in between.
HidesOldPositions ==
  [][PollPlaying /\ m_seek # 0 =>
       /\ m_trackPosition' >= m_trackExpectedPosition => m_seek' = 0
       /\ m_trackPosition' = m_trackPosition /\ m_trackPosition < m_trackExpectedPosition
            => m_seek' # 0]_tocVars

\* The id is that of CDDB: its second part is the length of the disc in
\* seconds, a difference of two rounded numbers (cddb.c:98-100).
DiscidInSeconds ==
  ready => CddbDiscid.t = thiscd.length - FramesToSec(thiscd.trk[1].start)
=============================================================================

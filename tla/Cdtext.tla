------------------------------- MODULE Cdtext -------------------------------
(***************************************************************************)
(* CD-Text, from the packs on the disc to the titles an application is     *)
(* shown: get_glob_cdtext and what it calls (src/wmlib/cdtext.c,           *)
(* src/wmlib/scsi.c), and cdtext() with the timer and the slots that reach *)
(* it (src/wmlib_interface.cpp).  What has been read is kept in one global *)
(* variable, which the handles of all drives share.  A disc is a record of *)
(*   tracks   how many tracks it has                                       *)
(*   blocks   its text, a block for each language: the code of the block,  *)
(*            whether its characters take two bytes, and the names and     *)
(*            performers of the disc (0) and of its tracks                 *)
(*   byKind   the names of all blocks come before the performers           *)
(* A text is a sequence of characters.                                     *)
(***************************************************************************)
EXTENDS Integers, SequencesExt

CONSTANTS
  Handles,              \* drives that may be open at a time
  DiscsOf,              \* discs a person may put in each
  NoDisc,
  Unknown,              \* lists of "Unknown Title", "Track 1", ...
  Char,                 \* characters of texts
  End, Repeat,          \* marks between the characters
  MaxLanguageBlocks,    \* MAX_LANGUAGE_BLOCKS
  DatafieldLength       \* DATAFIELD_LENGHT_IN_PACK

Discs == UNION {DiscsOf[h] : h \in Handles}

TextKind == {"name", "performer"}
Texts(n) == [0 .. n -> Seq(Char)]

ASSUME CdtextAssumption ==
  /\ NoDisc \notin Discs /\ End \notin Char /\ Repeat \notin Char /\ End # Repeat
  /\ MaxLanguageBlocks \in Nat \ {0} /\ DatafieldLength \in Nat \ {0}
  /\ \A d \in Discs :
       /\ d.tracks \in Nat \ {0} /\ d.byKind \in BOOLEAN
       /\ d.blocks \in Seq(Range(d.blocks))
       /\ \A i \in DOMAIN d.blocks :
            /\ d.blocks[i].code \in 0 .. 7 /\ d.blocks[i].unicode \in BOOLEAN
            /\ \A kind \in TextKind : d.blocks[i][kind] \in Texts(d.tracks)
            /\ \A j \in 1 .. i - 1 : d.blocks[i].code # d.blocks[j].code

(***************************************************************************)
(* The disc's text in packs: the texts one after another, each with its    *)
(* end, cut where a pack is full.  A pack names the text its first         *)
(* character belongs to.  A text that is that of the track before may be   *)
(* replaced by one mark, without an end, as get_data_from_cdtext_pack      *)
(* reads it.                                                               *)
(***************************************************************************)

Stream(texts, n) ==
  FlattenSeq([k \in 1 .. n + 1 |->
    LET i == k - 1
        chars == IF i > 0 /\ texts[i] # << >> /\ texts[i] = texts[i - 1]
                 THEN <<Repeat>> ELSE Append(texts[i], End)
    IN  [j \in DOMAIN chars |-> [char |-> chars[j], track |-> i]]])

KindPacks(d, block, kind) ==
  LET s == Stream(block[kind], d.tracks)
      Cut(k) == [kind |-> kind, code |-> block.code, unicode |-> block.unicode,
                 track |-> s[(k - 1) * DatafieldLength + 1].track,
                 data |-> [i \in 1 .. DatafieldLength |->
                             LET at == (k - 1) * DatafieldLength + i
                             IN  IF at <= Len(s) THEN s[at].char ELSE End]]
  IN  [k \in 1 .. (Len(s) + DatafieldLength - 1) \div DatafieldLength |-> Cut(k)]

BlockPacks(d, block) ==
  KindPacks(d, block, "name") \o KindPacks(d, block, "performer")

Packs(d) ==
  LET Of(kind) == FlattenSeq([i \in DOMAIN d.blocks |-> KindPacks(d, d.blocks[i], kind)])
  IN  IF d.byKind THEN Of("name") \o Of("performer")
      ELSE FlattenSeq([i \in DOMAIN d.blocks |-> BlockPacks(d, d.blocks[i])])

\* wm_scsi_get_cdtext: the length of the data counts four bytes of header, of
\* which it takes off three; the pack that is one too many has type 0.
\* (Lengths of up to 42 packs.  It takes 255 for 256, see the README.)
InvalidPack == [kind |-> "invalid"]
ScsiGetCdtext(d) == Append(Packs(d), InvalidPack)

(***************************************************************************)
(* get_data_from_cdtext_pack                                               *)
(***************************************************************************)

Put(acc, c) ==
  CASE c = End    -> [acc EXCEPT !.arr = @ + 1]
    [] c = Repeat -> [acc EXCEPT !.texts[acc.arr] = @ \o acc.texts[acc.arr - 1], !.arr = @ + 1]
    [] OTHER      -> [acc EXCEPT !.texts[acc.arr] = Append(@, c)]

\* Characters of two bytes are not read.
GetDataFromCdtextPack(pack, texts) ==
  IF pack.unicode THEN texts
  ELSE FoldLeft(Put, [arr |-> pack.track, texts |-> texts], pack.data).texts

(***************************************************************************)
(* get_glob_cdtext: the packs one by one into blocks.                      *)
(***************************************************************************)

NoInfo == [valid |-> FALSE, entries |-> 0, blocks |-> << >>]

NewBlock(code, entries) ==
  [code |-> code, name |-> [i \in 0 .. entries - 1 |-> << >>],
   performer |-> [i \in 0 .. entries - 1 |-> << >>]]

\* lp is the index of the block of the last pack, 0 before the first.  The
\* search for the block of a pack counts on after it has found one, so that
\* everything is given up when the last block there may be is found again.
TakeBlock(acc, code) ==
  LET found    == {j \in DOMAIN acc.blocks : acc.blocks[j].code = code}
      searched == IF found = {} THEN Len(acc.blocks) ELSE CHOOSE j \in found : TRUE
  IN  CASE acc.lp \in found -> acc
        [] acc.lp \notin found /\ searched >= MaxLanguageBlocks ->
             [acc EXCEPT !.failed = TRUE]
        [] acc.lp \notin found /\ searched < MaxLanguageBlocks /\ found # {} ->
             [acc EXCEPT !.lp = searched]
        [] OTHER -> [acc EXCEPT !.lp = searched + 1,
                                !.blocks = Append(@, NewBlock(code, acc.entries))]

TakePack(acc, pack) ==
  IF acc.failed \/ pack.kind \notin TextKind THEN acc
  ELSE LET t == TakeBlock(acc, pack.code)
       IN  IF t.failed THEN t
           ELSE [t EXCEPT !.blocks[t.lp][pack.kind] = GetDataFromCdtextPack(pack, @)]

\* The text of a disc as wm_cdtext_info.
Parse(d) ==
  LET all == FoldLeft(TakePack, [blocks |-> << >>, lp |-> 0, failed |-> FALSE,
                                 entries |-> d.tracks + 1], ScsiGetCdtext(d))
  IN  IF all.failed THEN NoInfo
      ELSE [valid |-> all.blocks # << >>, entries |-> d.tracks + 1, blocks |-> all.blocks]

InfoOf == [d \in Discs |-> Parse(d)]

\* The text of a disc whose number of tracks could not be read next to it has
\* one entry, and is no less valid.  Its packs are written behind the arrays of
\* that one entry; what the blocks hold then is not modelled, for nothing here
\* shows a text of one entry.
NoCount(d) == [InfoOf[d] EXCEPT !.entries = 1, !.blocks = << >>]
TextsOf == [d \in Discs |-> {InfoOf[d], NoCount(d)}]

\* get_glob_cdtext: what it may leave and return, d being the disc in the drive.
GetGlobCdtext(info, d, redo) ==
  IF ~redo /\ info.valid THEN {info}
  ELSE {NoInfo} \cup (IF d = NoDisc THEN {} ELSE TextsOf[d])

\* Mutant: nothing is freed.
MutantFreeCdtext(info) == info

FreeCdtext(info) == IF info.valid THEN NoInfo ELSE info

(***************************************************************************)
(* The calls of one handle.  Each is the set of all it may leave of s:     *)
(*   s.h     the handle and the object that owns it:                       *)
(*     open, disc                                                          *)
(*     oldmode, cur_cdmode  the mode of the drive, the mode that is shown  *)
(*     known                the disc whose tracks wm_cd_getcountoftracks   *)
(*                          counts, NoDisc when it returns 0               *)
(*     m_status                                                            *)
(*     listed               the disc m_tracks was read from                *)
(*     shown                m_trackTitles and m_trackArtists               *)
(*     behind               history: another disc than the one listed has  *)
(*                          been found, and the lists have stayed          *)
(*   s.info  wm_cdtext_info                                                *)
(***************************************************************************)

\* What wm_cd_status returns, and m_status: "INITIAL" is the 0 of a new handle,
\* an error to the object; "no disc" stands for WM_CDM_NO_DISC, UNKNOWN and
\* EJECTED, and two modes for all of a disc that is ready.
ReadyModes == {"STOPPED", "PLAYING"}

Tracks(c) == IF c.listed = NoDisc THEN 0 ELSE c.listed.tracks

\* The mode of before stays, or none is shown: then no tracks are counted until
\* read_toc has read another table of contents.
Gone(c) ==
  {[c EXCEPT !.oldmode = "no disc"],
   [c EXCEPT !.oldmode = "no disc", !.cur_cdmode = "no disc", !.known = NoDisc]}

\* wm_cd_status of an empty drive: WM_CDM_NO_DISC leaves the mode of before, and
\* WM_CDM_EJECTED and UNKNOWN are shown.
DriveEmpty(s) == {[s EXCEPT !.h = c] : c \in Gone(s.h)}

\* WM_CDM_UNKNOWN: the disc has not reached its speed, or cannot be read.
NotReady(s) ==
  {[s EXCEPT !.h.oldmode = "no disc", !.h.cur_cdmode = "no disc", !.h.known = NoDisc]}

StillReady(s) == {[s EXCEPT !.h.cur_cdmode = m] : m \in ReadyModes}

\* Another disc than the one listed is found.
NowBehind(c) == c.behind \/ c.listed \notin {NoDisc, c.disc}

\* read_toc fails, which is no disc: at the header, where the mode of before
\* stays, or at an entry.
TocFails(s) ==
  {[s EXCEPT !.h = [c EXCEPT !.known = NoDisc, !.behind = NowBehind(c)]] : c \in Gone(s.h)}

Found(c) ==
  {[c EXCEPT !.oldmode = "ready", !.cur_cdmode = m, !.known = c.disc, !.behind = NowBehind(c)]
     : m \in ReadyModes}

\* Mutant: what is known of the text is good enough.
MutantFoundDisc(s) == [h : Found(s.h), info : GetGlobCdtext(s.info, s.h.disc, FALSE)]

\* A new disc has its table of contents and its text read.
FoundDisc(s) == [h : Found(s.h), info : GetGlobCdtext(s.info, s.h.disc, TRUE)]

WmCdStatus(s) ==
  IF s.h.disc = NoDisc THEN DriveEmpty(s)
  ELSE NotReady(s) \cup (IF s.h.oldmode = "ready" THEN StillReady(s)
                         ELSE TocFails(s) \cup FoundDisc(s))

\* The lists are filled all at once.
NoLists == [kind \in TextKind |-> << >>]
Lists(info) == [kind \in TextKind |-> info.blocks[1][kind]]

\* cdtext() with the text it gets, if it has an entry for each track.  (Without
\* tracks that is the text of one entry, and cdtext() writes the first entry of
\* a list that is empty: this is left out.)
Fill(c, info) ==
  [c EXCEPT !.shown = IF c.listed # NoDisc /\ info.valid /\ info.entries = Tracks(c) + 1
                      THEN Lists(info) ELSE @]

\* wm_cd_get_cdtext once the status is known, and cdtext().  A text that is not
\* there is asked for again.
CdtextOf(t) ==
  IF t.h.cur_cdmode = "no disc" THEN {t}
  ELSE {[h |-> Fill(t.h, info), info |-> info]
          : info \in GetGlobCdtext(t.info, t.h.disc, FALSE)}

QueryMetadata(s) == UNION {CdtextOf(t) : t \in WmCdStatus(s)}

\* Mutant: the lists are not filled before the titles are asked for.
MutantListTracks(c) == [c EXCEPT !.listed = c.known]

ListTracks(c) == [c EXCEPT !.listed = c.known, !.shown = Unknown]

\* timerExpired once the status is known.  Nothing is done about a status that
\* has not changed, nor about a stop after which the playlist goes on
\* (skipStatusChange, see KCompactDisc).  The lists are emptied when the status
\* becomes one without a disc, and filled only if they are empty.
ShowStatus(t) ==
  LET c == [t.h EXCEPT !.m_status = t.h.cur_cdmode]
      Becoming(e) == [h |-> e, info |-> t.info]
  IN  CASE t.h.cur_cdmode = t.h.m_status -> {t}
        [] t.h.cur_cdmode # t.h.m_status /\ t.h.cur_cdmode = "no disc" ->
             {Becoming([c EXCEPT !.listed = NoDisc, !.shown = NoLists, !.behind = FALSE])}
        [] t.h.cur_cdmode # t.h.m_status /\ t.h.cur_cdmode # "no disc" ->
             (IF t.h.cur_cdmode = "STOPPED" THEN {t} ELSE {})
             \cup IF c.listed = NoDisc /\ c.known # NoDisc
                  THEN QueryMetadata(Becoming(ListTracks(c)))
                  ELSE {Becoming(c)}

TimerExpired(s) == UNION {ShowStatus(t) : t \in WmCdStatus(s)}

ClosedHandle(disc) ==
  [open |-> FALSE, disc |-> disc, oldmode |-> "no disc", cur_cdmode |-> "INITIAL",
   known |-> NoDisc, m_status |-> "no disc", listed |-> NoDisc, shown |-> NoLists,
   behind |-> FALSE]

(***************************************************************************)
(* All handles, and the text they share.                                   *)
(***************************************************************************)

VARIABLES
  handle,           \* the record of each
  wm_cdtext_info,
  seen              \* the timer has expired since the disc was last changed

vars == <<handle, wm_cdtext_info, seen>>

Now(h) == [h |-> handle[h], info |-> wm_cdtext_info]

Becomes(h, s) == handle' = [handle EXCEPT ![h] = s.h] /\ wm_cdtext_info' = s.info

Poll(h) ==
  /\ handle[h].open
  /\ \E s \in TimerExpired(Now(h)) : Becomes(h, s)
  /\ seen' = [seen EXCEPT ![h] = TRUE]

MetadataLookup(h) ==
  /\ handle[h].open
  /\ \E s \in QueryMetadata(Now(h)) : Becomes(h, s)
  /\ UNCHANGED seen

\* play(), pause(), stop(), eject() ... look at the drive before anything else,
\* and after it.
OtherSlot(h) ==
  /\ handle[h].open
  /\ \E s \in WmCdStatus(Now(h)) : Becomes(h, s)
  /\ UNCHANGED seen

\* An object is made to use the drive, or deleted.  (One whose first look fails
\* at an entry of the table of contents gives up and leaves all as it is.)
CreateInterface(h) ==
  /\ ~handle[h].open
  /\ LET made == [handle[h] EXCEPT !.open = TRUE] IN
       \E s \in WmCdStatus([h |-> made, info |-> wm_cdtext_info]) : Becomes(h, s)
  /\ UNCHANGED seen

Destroy(h) ==
  /\ handle[h].open
  /\ Becomes(h, [h |-> ClosedHandle(handle[h].disc), info |-> FreeCdtext(wm_cdtext_info)])
  /\ seen' = [seen EXCEPT ![h] = TRUE]

\* A person takes the disc out or puts one in, at most once between two looks
\* of the timer.
ChangeDisc(h) ==
  /\ seen[h]
  /\ \E disc \in IF handle[h].disc = NoDisc THEN DiscsOf[h] ELSE {NoDisc} :
       handle' = [handle EXCEPT ![h].disc = disc]
  /\ seen' = [seen EXCEPT ![h] = ~handle[h].open]
  /\ UNCHANGED wm_cdtext_info

Init ==
  /\ \E disc \in [Handles -> Discs \cup {NoDisc}] :
       /\ \A h \in Handles : disc[h] \in DiscsOf[h] \cup {NoDisc}
       /\ handle = [h \in Handles |-> ClosedHandle(disc[h])]
  /\ wm_cdtext_info = NoInfo
  /\ seen = [h \in Handles |-> TRUE]

Next == \E h \in Handles :
  \/ Poll(h) \/ MetadataLookup(h) \/ OtherSlot(h)
  \/ CreateInterface(h) \/ Destroy(h) \/ ChangeDisc(h)

Spec == Init /\ [][Next]_vars

(***************************************************************************)
(* Properties.                                                             *)
(***************************************************************************)

\* What the packs were made from, for a disc that has text.  Characters of
\* two bytes are not read, and eight blocks are read only one after another.
Readable(d) == d.blocks # << >> /\ (d.byKind => Len(d.blocks) < MaxLanguageBlocks)
TextOf(d) ==
  [kind \in TextKind |-> IF d.blocks[1].unicode THEN [i \in 0 .. d.tracks |-> << >>]
                         ELSE d.blocks[1][kind]]

\* Reading the packs comes to this.
ReadsRight(d) ==
  /\ Parse(d).valid = Readable(d)
  /\ Readable(d) => Lists(Parse(d)) = TextOf(d)

\* No other drive may hold a disc of as many tracks: with one that does,
\* the two are taken for each other (see the README).
Apart(h) == \A g \in Handles \ {h} : \A d \in DiscsOf[g] : d.tracks # Tracks(handle[h])

\* Titles that are shown have an entry for each track that is listed.  They are
\* the text of a disc of this drive, not of one in another drive, and, unless
\* another disc has been found behind a status that stayed (a drive that says
\* WM_CDM_NO_DISC when emptied: then the lists stay, and a lookup fills them
\* with the text of the other disc), of the disc whose tracks are listed: not of
\* the disc before, though it has as many and the text is asked for once only.
TextOfThisDisc ==
  \A h \in Handles : LET c == handle[h] IN
    c.shown \notin {NoLists, Unknown} =>
      /\ \A kind \in TextKind : DOMAIN c.shown[kind] = 0 .. Tracks(c)
      /\ Apart(h) => \E d \in DiscsOf[h] : Readable(d) /\ c.shown = TextOf(d)
      /\ Apart(h) /\ ~c.behind => Readable(c.listed) /\ c.shown = TextOf(c.listed)

\* A poll that finds a new disc and lists its tracks shows its text if it could
\* be read with the number of tracks, wherever the packs cut it, and "unknown"
\* otherwise, provided the disc is still ready when the text is asked for.
NewDiscShown ==
  [][\A h \in Handles : LET c == handle'[h] IN
       /\ handle[h].oldmode = "no disc" /\ handle[h].listed = NoDisc
       /\ c.oldmode = "ready" /\ c.listed # NoDisc
       => /\ c.listed = c.disc
          /\ c.shown = IF wm_cdtext_info'.valid /\ wm_cdtext_info'.entries > 1
                       THEN TextOf(c.disc) ELSE Unknown]_vars

\* The text that is kept for all handles is that of the disc whose tracks an
\* open handle counts or, while it counts none, of a disc it has had: that of a
\* handle that is closed never stays, whichever handles are open besides.
KeptTextKnown ==
  wm_cdtext_info.valid =>
    \E h \in Handles :
      /\ handle[h].open
      /\ \E d \in DiscsOf[h] : /\ handle[h].known \in {d, NoDisc}
                               /\ wm_cdtext_info \in TextsOf[d]
=============================================================================

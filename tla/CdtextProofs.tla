---------------------------- MODULE CdtextProofs ----------------------------
(***************************************************************************)
(* The text that all handles share is always that of a disc which a handle *)
(* that is open has had, and what a handle shows is that of its own discs, *)
(* for all drives, discs and texts.                                        *)
(***************************************************************************)
EXTENDS Cdtext, TLAPS

Infos == {NoInfo} \cup UNION {TextsOf[d] : d \in Discs}
ShownLists == {NoLists, Unknown} \cup {Lists(info) : info \in Infos}
Modes == ReadyModes \cup {"INITIAL", "no disc"}

Handle ==
  [open : BOOLEAN, disc : Discs \cup {NoDisc}, oldmode : {"no disc", "ready"},
   cur_cdmode : Modes, known : Discs \cup {NoDisc}, m_status : Modes,
   listed : Discs \cup {NoDisc}, shown : ShownLists, behind : BOOLEAN]

-----------------------------------------------------------------------------

(***************************************************************************)
(* The text of a disc.                                                     *)
(***************************************************************************)

\* A text that is valid has an entry for each track of its disc, or just one.
LEMMA InfoEntries ==
  ASSUME NEW d \in Discs, NEW info \in TextsOf[d], info.valid
  PROVE  \/ info = InfoOf[d] /\ info.entries = d.tracks + 1
         \/ info.entries = 1
<1>1. InfoOf[d] = Parse(d)
  BY DEF InfoOf
<1>2. PICK blocks : Parse(d) \in {NoInfo, [valid |-> blocks # << >>, entries |-> d.tracks + 1,
                                           blocks |-> blocks]}
  BY DEF Parse
<1>3. NoCount(d).entries = 1
  BY <1>1, <1>2 DEF NoInfo, NoCount
<1>4. InfoOf[d].valid => InfoOf[d].entries = d.tracks + 1
  BY <1>1, <1>2 DEF NoInfo
<1> QED  BY <1>3, <1>4 DEF TextsOf

\* get_glob_cdtext returns the text it has, one of the disc's, or none.
LEMMA GetGlobOutcomes ==
  ASSUME NEW info \in Infos, NEW d \in Discs \cup {NoDisc}, NEW redo \in BOOLEAN,
         NEW g \in GetGlobCdtext(info, d, redo)
  PROVE  /\ g \in Infos
         /\ \/ g = info /\ ~redo
            \/ ~g.valid
            \/ d \in Discs /\ g \in TextsOf[d]
<1>1. ~NoInfo.valid
  BY DEF NoInfo
<1>2. (g = info /\ ~redo) \/ g = NoInfo \/ (d # NoDisc /\ g \in TextsOf[d])
  BY DEF GetGlobCdtext
<1> QED  BY <1>1, <1>2 DEF Infos

-----------------------------------------------------------------------------

(***************************************************************************)
(* One handle.                                                             *)
(***************************************************************************)

Elsewhere(h, info) == \E g \in Handles \ {h} : \E d \in DiscsOf[g] : info \in TextsOf[d]

\* The text is that of a disc of this handle: the one whose tracks are counted,
\* and the one whose tracks are listed, if there are such.
OwnText(h, c, info) ==
  \E d \in DiscsOf[h] : /\ info \in TextsOf[d] /\ c.known \in {d, NoDisc}
                        /\ c.listed # NoDisc /\ ~c.behind => d = c.listed

Origin(h, c, info) == info.valid => OwnText(h, c, info) \/ Elsewhere(h, info)

\* The titles come from a disc in another drive, or from one of this drive.
Titled(h, c) ==
  c.shown \notin {NoLists, Unknown} =>
    /\ c.listed # NoDisc
    /\ \E d \in Discs :
         /\ InfoOf[d].valid /\ c.shown = Lists(InfoOf[d]) /\ d.tracks = c.listed.tracks
         /\ \/ \E g \in Handles \ {h} : d \in DiscsOf[g]
            \/ d \in DiscsOf[h] /\ (~c.behind => d = c.listed)

Placed(h, c) == {c.disc, c.known, c.listed} \subseteq DiscsOf[h] \cup {NoDisc}

\* What is known, counted and listed fits together.
Fits(c) ==
  /\ c.oldmode = "ready" => c.known # NoDisc
  /\ c.oldmode = "ready" /\ c.disc # NoDisc => c.known = c.disc
  /\ ~c.open => c.oldmode = "no disc" /\ c.listed = NoDisc
  /\ c.listed # NoDisc /\ ~c.behind => c.known \in {c.listed, NoDisc}
  /\ c.behind => c.listed # NoDisc

Sane(h, c) == c \in Handle /\ Placed(h, c) /\ Fits(c) /\ Titled(h, c)

\* A text may be kept from before, be invalid, or be that of a disc of the handle.
Keeps(h, c, info, r) ==
  \/ r.info = info /\ (OwnText(h, c, info) => OwnText(h, r.h, info))
  \/ ~r.info.valid
  \/ OwnText(h, r.h, r.info)

\* What a call makes of a handle that is open.
CallOk(h, c, info, r) ==
  /\ Sane(h, r.h) /\ r.info \in Infos
  /\ r.h.open /\ r.h.disc = c.disc
  /\ c.disc = NoDisc => r.h.oldmode = "no disc"
  /\ Keeps(h, c, info, r)

\* What a call leaves that only looks at the drive.
Same(c, e) ==
  /\ e.open = c.open /\ e.disc = c.disc /\ e.m_status = c.m_status
  /\ e.listed = c.listed /\ e.shown = c.shown

\* The outcomes of wm_cd_status, field by field.
Looked(c, info, r) ==
  /\ r = [h |-> r.h, info |-> r.info] /\ r.h \in Handle /\ Same(c, r.h)
  /\ \/ /\ c.disc = NoDisc /\ r.info = info /\ r.h.behind = c.behind
        /\ r.h.oldmode = "no disc" /\ r.h.known \in {c.known, NoDisc}
     \/ /\ c.disc # NoDisc /\ r.info = info /\ r.h.behind = c.behind
        /\ r.h.oldmode = "no disc" /\ r.h.known = NoDisc /\ r.h.cur_cdmode = "no disc"
     \/ /\ c.disc # NoDisc /\ r.info = info /\ r.h.behind = c.behind
        /\ c.oldmode = "ready" /\ r.h.oldmode = "ready" /\ r.h.known = c.known
        /\ r.h.cur_cdmode \in ReadyModes
     \/ /\ c.disc # NoDisc /\ r.info = info /\ r.h.behind = NowBehind(c)
        /\ c.oldmode = "no disc" /\ r.h.oldmode = "no disc" /\ r.h.known = NoDisc
     \/ /\ c.disc # NoDisc /\ r.info \in GetGlobCdtext(info, c.disc, TRUE)
        /\ r.h.behind = NowBehind(c)
        /\ c.oldmode = "no disc" /\ r.h.oldmode = "ready" /\ r.h.known = c.disc

\* wm_cd_status does one of these.
LEMMA StatusLooks ==
  ASSUME NEW c \in Handle, NEW info, NEW r \in WmCdStatus([h |-> c, info |-> info])
  PROVE  Looked(c, info, r)
<1> DEFINE s == [h |-> c, info |-> info]
<1>1. s.h = c /\ s.info = info
  OBVIOUS
<1>2. NowBehind(c) \in BOOLEAN
  BY DEF NowBehind, Handle
<1>3. ASSUME NEW e \in Gone(c)
      PROVE  /\ e \in Handle /\ Same(c, e) /\ e.behind = c.behind /\ e.oldmode = "no disc"
             /\ e.known \in {c.known, NoDisc}
             /\ [e EXCEPT !.known = NoDisc, !.behind = NowBehind(e)] \in Handle
             /\ NowBehind(e) = NowBehind(c)
  <2>1. \/ e = [c EXCEPT !.oldmode = "no disc"]
        \/ e = [c EXCEPT !.oldmode = "no disc", !.cur_cdmode = "no disc", !.known = NoDisc]
    BY <1>3 DEF Gone
  <2>2. e \in Handle /\ Same(c, e) /\ e.behind = c.behind /\ e.oldmode = "no disc"
        /\ e.known \in {c.known, NoDisc}
    BY <2>1 DEF Handle, Same, Modes
  <2>3. NowBehind(e) = NowBehind(c)
    BY <2>2 DEF NowBehind, Same
  <2> QED  BY <1>2, <2>2, <2>3 DEF Handle
<1>4. CASE c.disc = NoDisc
  <2>1. PICK e \in Gone(c) : r = [s EXCEPT !.h = e]
    BY <1>4 DEF WmCdStatus, DriveEmpty
  <2>2. r.h = e /\ r.info = info /\ r = [h |-> r.h, info |-> r.info]
    BY <2>1
  <2> QED  BY <1>3, <1>4, <2>2 DEF Looked
<1>5. CASE c.disc # NoDisc /\ r \in NotReady(s)
  <2>1. r = [s EXCEPT !.h.oldmode = "no disc", !.h.cur_cdmode = "no disc", !.h.known = NoDisc]
    BY <1>5 DEF NotReady
  <2>2. /\ r.info = info /\ r = [h |-> r.h, info |-> r.info]
        /\ r.h = [c EXCEPT !.oldmode = "no disc", !.cur_cdmode = "no disc", !.known = NoDisc]
    BY <2>1
  <2>3. /\ r.h \in Handle /\ Same(c, r.h) /\ r.h.behind = c.behind
        /\ r.h.oldmode = "no disc" /\ r.h.known = NoDisc /\ r.h.cur_cdmode = "no disc"
    BY <2>2 DEF Handle, Same, Modes
  <2> QED  BY <1>5, <2>2, <2>3 DEF Looked
<1>6. CASE c.disc # NoDisc /\ c.oldmode = "ready" /\ r \in StillReady(s)
  <2>1. PICK m \in ReadyModes : r = [s EXCEPT !.h.cur_cdmode = m]
    BY <1>6 DEF StillReady
  <2>2. /\ r.info = info /\ r = [h |-> r.h, info |-> r.info]
        /\ r.h = [c EXCEPT !.cur_cdmode = m]
    BY <2>1
  <2>3. /\ r.h \in Handle /\ Same(c, r.h) /\ r.h.behind = c.behind
        /\ r.h.oldmode = c.oldmode /\ r.h.known = c.known /\ r.h.cur_cdmode \in ReadyModes
    BY <2>2 DEF Handle, Same, Modes
  <2> QED  BY <1>6, <2>2, <2>3 DEF Looked
<1>7. CASE c.disc # NoDisc /\ c.oldmode # "ready" /\ r \in TocFails(s)
  <2>1. PICK e \in Gone(c) :
          r = [s EXCEPT !.h = [e EXCEPT !.known = NoDisc, !.behind = NowBehind(e)]]
    BY <1>7 DEF TocFails
  <2>2. /\ r.info = info /\ r = [h |-> r.h, info |-> r.info]
        /\ r.h = [e EXCEPT !.known = NoDisc, !.behind = NowBehind(e)]
    BY <2>1
  <2>3. e \in Handle /\ Same(c, e) /\ e.oldmode = "no disc" /\ NowBehind(e) = NowBehind(c)
    BY <1>3
  <2>4. /\ r.h \in Handle /\ Same(c, r.h) /\ r.h.behind = NowBehind(c)
        /\ r.h.oldmode = "no disc" /\ r.h.known = NoDisc
    BY <1>3, <2>2, <2>3 DEF Handle, Same
  <2>5. c.oldmode = "no disc"
    BY <1>7 DEF Handle
  <2> QED  BY <1>7, <2>2, <2>4, <2>5 DEF Looked
<1>8. CASE c.disc # NoDisc /\ c.oldmode # "ready" /\ r \in FoundDisc(s)
  <2>1. /\ r = [h |-> r.h, info |-> r.info]
        /\ r.h \in Found(c) /\ r.info \in GetGlobCdtext(info, c.disc, TRUE)
    BY <1>8 DEF FoundDisc
  <2>2. PICK m \in ReadyModes :
          r.h = [c EXCEPT !.oldmode = "ready", !.cur_cdmode = m, !.known = c.disc,
                          !.behind = NowBehind(c)]
    BY <2>1 DEF Found
  <2>3. /\ r.h \in Handle /\ Same(c, r.h) /\ r.h.behind = NowBehind(c)
        /\ r.h.oldmode = "ready" /\ r.h.known = c.disc
    BY <1>2, <2>2 DEF Handle, Same, Modes
  <2>4. c.oldmode = "no disc"
    BY <1>8 DEF Handle
  <2> QED  BY <1>8, <2>1, <2>3, <2>4 DEF Looked
<1> QED  BY <1>4, <1>5, <1>6, <1>7, <1>8 DEF WmCdStatus

\* What is counted and listed is the disc in the drive, if one is shown.
Behaves(c, e) ==
  e.disc # NoDisc /\ e.cur_cdmode # "no disc" =>
    /\ e.known \in {e.disc, NoDisc}
    /\ e.listed # NoDisc /\ ~e.behind => e.listed = e.disc

\* wm_cd_status keeps a handle sane, and a text it reads is the disc's own.
LEMMA StatusOk ==
  ASSUME NEW h \in Handles, NEW c, NEW info \in Infos, Sane(h, c), c.open,
         NEW r \in WmCdStatus([h |-> c, info |-> info])
  PROVE  CallOk(h, c, info, r) /\ Same(c, r.h) /\ Behaves(c, r.h)
<1> c \in Handle
  BY DEF Sane
<1> DEFINE e == r.h
<1>1. Looked(c, info, r)
  BY StatusLooks
<1>2. e \in Handle /\ Same(c, e)
  BY <1>1 DEF Looked
<1>3. r.info = info \/ (c.disc # NoDisc /\ r.info \in GetGlobCdtext(info, c.disc, TRUE))
  BY <1>1 DEF Looked
<1>4. r.info \in Infos
  BY <1>3, GetGlobOutcomes DEF Handle
<1>5. e.behind = c.behind \/ e.behind = NowBehind(c)
  BY <1>1 DEF Looked
<1>6. c.behind => e.behind
  BY <1>5 DEF NowBehind
<1>7. Placed(h, e)
  BY <1>1 DEF Looked, Same, Placed, Sane
<1>8. Fits(e)
  <2> HIDE DEF e
  <2>1. Fits(c) /\ c.oldmode \in {"no disc", "ready"}
    BY DEF Sane, Handle
  <2> QED  BY <1>1, <2>1 DEF e, Looked, Same, Fits, NowBehind
<1>9. Titled(h, e)
  BY <1>2, <1>6 DEF Titled, Sane, Same
<1>10. Keeps(h, c, info, r)
  <2>1. CASE r.info = info /\ e.known \in {c.known, NoDisc}
    BY <1>2, <1>6, <2>1 DEF Keeps, OwnText, Same
  <2>2. CASE /\ c.disc # NoDisc /\ r.info \in GetGlobCdtext(info, c.disc, TRUE)
             /\ e.behind = NowBehind(c) /\ e.known = c.disc
    <3>1. ~r.info.valid \/ r.info \in TextsOf[c.disc]
      BY <2>2, GetGlobOutcomes DEF Handle
    <3>2. c.disc \in DiscsOf[h]
      BY <2>2 DEF Sane, Placed
    <3>3. e.listed # NoDisc /\ ~e.behind => c.disc = e.listed
      BY <1>2, <2>2 DEF NowBehind, Same
    <3> QED  BY <2>2, <3>1, <3>2, <3>3 DEF Keeps, OwnText
  <2> QED  BY <1>1, <2>1, <2>2 DEF Looked
<1>11. Behaves(c, e)
  <2> HIDE DEF e
  <2>1. Fits(c)
    BY DEF Sane
  <2> QED  BY <1>1, <2>1 DEF e, Looked, Same, Fits, NowBehind, Behaves
<1>12. c.disc = NoDisc => e.oldmode = "no disc"
  BY <1>1 DEF Looked
<1> QED  BY <1>2, <1>4, <1>7, <1>8, <1>9, <1>10, <1>11, <1>12 DEF CallOk, Sane, Same

\* Texts of discs are kept over two calls in a row.
LEMMA TwoCalls ==
  ASSUME NEW h, NEW c, NEW info, NEW r, NEW q,
         CallOk(h, c, info, r), CallOk(h, r.h, r.info, q)
  PROVE  CallOk(h, c, info, q)
BY DEF CallOk, Keeps

\* A call leaves a text that is of a disc of the handle, or from elsewhere.
LEMMA OriginKept ==
  ASSUME NEW h, NEW c, NEW info, NEW r, CallOk(h, c, info, r), Origin(h, c, info)
  PROVE  Origin(h, r.h, r.info)
BY DEF CallOk, Keeps, Origin

\* cdtext() fills in titles of a disc that fits the lists, or none.
LEMMA FillOk ==
  ASSUME NEW h \in Handles, NEW c, NEW info \in Infos, Sane(h, c), Origin(h, c, info)
  PROVE  Sane(h, Fill(c, info))
<1> DEFINE e == Fill(c, info)
<1>1. c \in Handle
  BY DEF Sane
<1>2. CASE ~(c.listed # NoDisc /\ info.valid /\ info.entries = Tracks(c) + 1)
  <2>1. e = c
    BY <1>1, <1>2 DEF Fill, Handle
  <2> QED  BY <2>1
<1>3. CASE c.listed # NoDisc /\ info.valid /\ info.entries = Tracks(c) + 1
  <2>1. e = [c EXCEPT !.shown = Lists(info)]
    BY <1>3 DEF Fill
  <2>2. e \in Handle
    BY <1>1, <2>1 DEF Handle, ShownLists
  <2>3. /\ e.disc = c.disc /\ e.known = c.known /\ e.listed = c.listed
        /\ e.behind = c.behind /\ e.oldmode = c.oldmode /\ e.open = c.open
        /\ e.shown = Lists(info)
    BY <1>1, <2>1 DEF Handle
  <2>4. Placed(h, e) /\ Fits(e)
    BY <2>3 DEF Sane, Placed, Fits
  <2>5. c.listed \in Discs /\ c.listed.tracks \in Nat \ {0} /\ Tracks(c) = c.listed.tracks
    BY <1>1, <1>3, CdtextAssumption DEF Handle, Tracks
  <2>6. ASSUME NEW d \in Discs, info \in TextsOf[d]
        PROVE  info = InfoOf[d] /\ d.tracks = c.listed.tracks
    <3>1. d.tracks \in Nat \ {0}
      BY CdtextAssumption
    <3>2. info.entries = c.listed.tracks + 1
      BY <1>3, <2>5
    <3>3. (info = InfoOf[d] /\ info.entries = d.tracks + 1) \/ info.entries = 1
      BY <1>3, <2>6, InfoEntries
    <3> QED  BY <2>5, <3>1, <3>2, <3>3
  <2>7. OwnText(h, c, info) \/ Elsewhere(h, info)
    BY <1>3 DEF Origin
  <2>8. CASE OwnText(h, c, info)
    <3>1. PICK d \in DiscsOf[h] :
            info \in TextsOf[d] /\ (c.listed # NoDisc /\ ~c.behind => d = c.listed)
      BY <2>8 DEF OwnText
    <3>2. d \in Discs
      BY DEF Discs
    <3>3. info = InfoOf[d] /\ d.tracks = c.listed.tracks
      BY <2>6, <3>1, <3>2
    <3>4. Titled(h, e)
      BY <1>3, <2>3, <3>1, <3>2, <3>3 DEF Titled
    <3> QED  BY <2>2, <2>4, <3>4 DEF Sane
  <2>9. CASE Elsewhere(h, info)
    <3>1. PICK g \in Handles \ {h} : \E d \in DiscsOf[g] : info \in TextsOf[d]
      BY <2>9 DEF Elsewhere
    <3>2. PICK d \in DiscsOf[g] : info \in TextsOf[d]
      BY <3>1
    <3>3. d \in Discs
      BY DEF Discs
    <3>4. info = InfoOf[d] /\ d.tracks = c.listed.tracks
      BY <2>6, <3>2, <3>3
    <3>5. Titled(h, e)
      BY <1>3, <2>3, <3>2, <3>3, <3>4 DEF Titled
    <3> QED  BY <2>2, <2>4, <3>5 DEF Sane
  <2> QED  BY <2>7, <2>8, <2>9
<1> QED  BY <1>2, <1>3

\* wm_cd_get_cdtext and cdtext(), with or without a look at the drive before.
LEMMA CdtextOfOk ==
  ASSUME NEW h \in Handles, NEW t, NEW info \in Infos,
         Sane(h, t), t.open, Origin(h, t, info), Behaves(t, t),
         t.disc = NoDisc => t.oldmode = "no disc",
         NEW r \in CdtextOf([h |-> t, info |-> info])
  PROVE  CallOk(h, t, info, r) /\ r.h.m_status = t.m_status
<1> DEFINE s == [h |-> t, info |-> info]
<1>1. s.h = t /\ s.info = info
  OBVIOUS
<1>2. t \in Handle
  BY DEF Sane
<1>3. CASE t.cur_cdmode = "no disc"
  <2>1. r = s
    BY <1>3 DEF CdtextOf
  <2>2. r.h = t /\ r.info = info
    BY <1>1, <2>1
  <2> QED  BY <2>2 DEF CallOk, Keeps
<1>4. CASE t.cur_cdmode # "no disc"
  <2>1. PICK new \in GetGlobCdtext(info, t.disc, FALSE) :
          r = [h |-> Fill(t, new), info |-> new]
    BY <1>4 DEF CdtextOf
  <2>2. r.h = Fill(t, new) /\ r.info = new
    BY <2>1
  <2>3. t.disc \in Discs \cup {NoDisc}
    BY <1>2 DEF Handle
  <2>4. /\ new \in Infos
        /\ new = info \/ ~new.valid \/ (t.disc \in Discs /\ new \in TextsOf[t.disc])
    BY <2>3, GetGlobOutcomes
  <2>5. new = info \/ ~new.valid \/ OwnText(h, t, new)
    <3>1. CASE t.disc \in Discs /\ new \in TextsOf[t.disc]
      <4>1. t.disc # NoDisc
        BY <3>1, CdtextAssumption
      <4>2. t.disc \in DiscsOf[h]
        BY <4>1 DEF Sane, Placed
      <4> QED  BY <1>4, <3>1, <4>1, <4>2 DEF Behaves, OwnText
    <3> QED  BY <2>4, <3>1
  <2>6. Origin(h, t, new)
    BY <2>5 DEF Origin
  <2>7. Sane(h, r.h)
    BY <2>2, <2>4, <2>6, FillOk
  <2>8. \E lists : r.h = [t EXCEPT !.shown = lists]
    BY <2>2 DEF Fill
  <2>9. /\ r.h.open = t.open /\ r.h.disc = t.disc /\ r.h.oldmode = t.oldmode
        /\ r.h.known = t.known /\ r.h.listed = t.listed /\ r.h.behind = t.behind
        /\ r.h.m_status = t.m_status
    BY <1>2, <2>8 DEF Handle
  <2>10. OwnText(h, t, new) => OwnText(h, r.h, new)
    BY <2>9 DEF OwnText
  <2> QED  BY <2>2, <2>4, <2>5, <2>7, <2>9, <2>10 DEF CallOk, Keeps
<1> QED  BY <1>3, <1>4

\* metadataLookup, and the end of timerExpired.
LEMMA QueryOk ==
  ASSUME NEW h \in Handles, NEW c, NEW info \in Infos,
         Sane(h, c), c.open, Origin(h, c, info),
         NEW r \in QueryMetadata([h |-> c, info |-> info])
  PROVE  CallOk(h, c, info, r)
<1>1. PICK t \in WmCdStatus([h |-> c, info |-> info]) : r \in CdtextOf(t)
  BY DEF QueryMetadata
<1>2. CallOk(h, c, info, t) /\ Behaves(c, t.h)
  BY StatusOk
<1>3. Sane(h, t.h) /\ t.info \in Infos /\ t.h.open /\ t.h.disc = c.disc
      /\ (t.h.disc = NoDisc => t.h.oldmode = "no disc")
  BY <1>2 DEF CallOk
<1>4. Origin(h, t.h, t.info)
  BY <1>2, OriginKept
<1>5. t = [h |-> t.h, info |-> t.info]
  <2>1. c \in Handle
    BY DEF Sane
  <2>2. Looked(c, info, t)
    BY <1>1, <2>1, StatusLooks
  <2> QED  BY <2>2 DEF Looked
<1>6. Behaves(t.h, t.h)
  BY <1>2 DEF Behaves
<1>7. CallOk(h, t.h, t.info, r)
  BY <1>1, <1>3, <1>4, <1>5, <1>6, CdtextOfOk
<1> QED  BY <1>2, <1>7, TwoCalls

\* timerExpired, whatever it finds.
LEMMA TimerOk ==
  ASSUME NEW h \in Handles, NEW c, NEW info \in Infos,
         Sane(h, c), c.open, Origin(h, c, info),
         NEW r \in TimerExpired([h |-> c, info |-> info])
  PROVE  CallOk(h, c, info, r)
<1>1. PICK t \in WmCdStatus([h |-> c, info |-> info]) : r \in ShowStatus(t)
  BY DEF TimerExpired
<1> DEFINE b == t.h
           e == [b EXCEPT !.m_status = b.cur_cdmode]
<1>2. CallOk(h, c, info, t)
  BY StatusOk
<1>3. t = [h |-> b, info |-> t.info]
  <2>1. c \in Handle
    BY DEF Sane
  <2>2. Looked(c, info, t)
    BY <1>1, <2>1, StatusLooks
  <2> QED  BY <2>2 DEF Looked
<1>4. /\ Sane(h, b) /\ b \in Handle /\ t.info \in Infos /\ b.open /\ b.disc = c.disc
      /\ b.disc = NoDisc => b.oldmode = "no disc"
  BY <1>2 DEF CallOk, Sane
<1>5. Origin(h, b, t.info)
  BY <1>2, OriginKept
<1> HIDE DEF b
<1>6. /\ e \in Handle /\ e.open = b.open /\ e.disc = b.disc /\ e.oldmode = b.oldmode
      /\ e.known = b.known /\ e.listed = b.listed /\ e.shown = b.shown
      /\ e.behind = b.behind /\ e.cur_cdmode = b.cur_cdmode
  BY <1>4 DEF Handle
<1>7. ASSUME NEW x, NEW new, r = [h |-> x, info |-> new]
      PROVE  r.h = x /\ r.info = new
  BY <1>7
<1>8. CASE r = t
  BY <1>2, <1>8
<1>9. CASE r = [h |-> [e EXCEPT !.listed = NoDisc, !.shown = NoLists, !.behind = FALSE],
             info |-> t.info]
  <2> DEFINE n == [e EXCEPT !.listed = NoDisc, !.shown = NoLists, !.behind = FALSE]
  <2>1. r.h = n /\ r.info = t.info
    BY <1>3, <1>9
  <2>2. /\ n \in Handle /\ n.open = b.open /\ n.disc = b.disc /\ n.oldmode = b.oldmode
        /\ n.known = b.known /\ n.listed = NoDisc /\ n.shown = NoLists /\ ~n.behind
    BY <1>6 DEF Handle, ShownLists
  <2> HIDE DEF n
  <2>3. Placed(h, n) /\ Fits(n) /\ Titled(h, n)
    BY <1>4, <2>2 DEF Sane, Placed, Fits, Titled
  <2>4. OwnText(h, b, t.info) => OwnText(h, n, t.info)
    BY <2>2 DEF OwnText
  <2>5. CallOk(h, b, t.info, r)
    BY <1>4, <2>1, <2>2, <2>3, <2>4 DEF CallOk, Sane, Keeps
  <2> QED  BY <1>2, <2>5, TwoCalls DEF b
<1>10. CASE r = [h |-> e, info |-> t.info]
  <2>1. r.h = e /\ r.info = t.info
    BY <1>3, <1>10
  <2> HIDE DEF e
  <2>2. Placed(h, e) /\ Fits(e) /\ Titled(h, e)
    BY <1>4, <1>6 DEF Sane, Placed, Fits, Titled
  <2>3. OwnText(h, b, t.info) => OwnText(h, e, t.info)
    BY <1>6 DEF OwnText
  <2>4. CallOk(h, b, t.info, r)
    BY <1>4, <1>6, <2>1, <2>2, <2>3 DEF CallOk, Sane, Keeps
  <2> QED  BY <1>2, <2>4, TwoCalls DEF b
<1>11. CASE /\ e.listed = NoDisc /\ e.known # NoDisc
            /\ r \in QueryMetadata([h |-> ListTracks(e), info |-> t.info])
  <2> DEFINE n == ListTracks(e)
  <2>2. n = [e EXCEPT !.listed = e.known, !.shown = Unknown]
    BY DEF ListTracks
  <2>8. r \in QueryMetadata([h |-> n, info |-> t.info])
    BY <1>11
  <2> HIDE DEF e, n
  <2>3. /\ n \in Handle /\ n.open = b.open /\ n.disc = b.disc /\ n.oldmode = b.oldmode
        /\ n.known = b.known /\ n.listed = b.known /\ n.shown = Unknown
        /\ n.behind = b.behind
    BY <1>6, <2>2 DEF Handle, ShownLists
  <2>4. b.listed = NoDisc /\ ~b.behind /\ b.known # NoDisc
    BY <1>4, <1>6, <1>11 DEF Sane, Fits
  <2>5. Sane(h, n)
    BY <1>4, <2>3, <2>4 DEF Sane, Placed, Fits, Titled
  <2>6. OwnText(h, b, t.info) => OwnText(h, n, t.info)
    BY <2>3, <2>4 DEF OwnText
  <2>7. Origin(h, n, t.info)
    BY <1>5, <2>6 DEF Origin
  <2>9. n.open
    BY <1>4, <2>3
  <2>10. CallOk(h, n, t.info, r)
    BY <1>4, <2>5, <2>7, <2>8, <2>9, QueryOk
  <2>11. CallOk(h, b, t.info, r)
    BY <2>3, <2>6, <2>10 DEF CallOk, Keeps
  <2> QED  BY <1>2, <2>11, TwoCalls DEF b
<1>12. \/ r = t \/ r = [h |-> [e EXCEPT !.listed = NoDisc, !.shown = NoLists, !.behind = FALSE],
              info |-> t.info]
       \/ r = [h |-> e, info |-> t.info]
       \/ e.listed = NoDisc /\ e.known # NoDisc
          /\ r \in QueryMetadata([h |-> ListTracks(e), info |-> t.info])
  BY <1>1 DEF ShowStatus, b
<1> QED  BY <1>8, <1>9, <1>10, <1>11, <1>12

-----------------------------------------------------------------------------

(***************************************************************************)
(* All handles.                                                            *)
(***************************************************************************)

\* A drive that is empty has been found empty when the timer has expired since.
Noticed == \A h \in Handles : seen[h] /\ handle[h].disc = NoDisc => handle[h].oldmode = "no disc"

Kept == wm_cdtext_info.valid =>
          \E h \in Handles : handle[h].open /\ OwnText(h, handle[h], wm_cdtext_info)

IInv ==
  /\ handle \in [Handles -> Handle] /\ seen \in [Handles -> BOOLEAN]
  /\ wm_cdtext_info \in Infos
  /\ \A h \in Handles : Sane(h, handle[h])
  /\ Noticed /\ Kept

\* The text kept for all is that of a disc of this handle, or of another.
LEMMA OriginOfAll ==
  ASSUME Kept, NEW h \in Handles
  PROVE  Origin(h, handle[h], wm_cdtext_info)
<1>1. SUFFICES ASSUME wm_cdtext_info.valid
               PROVE  OwnText(h, handle[h], wm_cdtext_info) \/ Elsewhere(h, wm_cdtext_info)
  BY DEF Origin
<1>2. PICK g \in Handles : OwnText(g, handle[g], wm_cdtext_info)
  BY <1>1 DEF Kept
<1> QED  BY <1>2 DEF OwnText, Elsewhere

\* A call on one handle keeps the invariant.  c is the handle as the call finds it.
LEMMA CallKeeps ==
  ASSUME IInv, NEW h \in Handles, NEW c, NEW r,
         CallOk(h, c, wm_cdtext_info, r), Becomes(h, r), c.disc = handle[h].disc,
         handle[h].open => c = handle[h],
         seen' \in [Handles -> BOOLEAN], \A g \in Handles \ {h} : seen'[g] = seen[g]
  PROVE  IInv'
<1>1. handle' = [handle EXCEPT ![h] = r.h] /\ wm_cdtext_info' = r.info
  BY DEF Becomes
<1>2. r.h \in Handle /\ r.info \in Infos /\ Sane(h, r.h) /\ r.h.open /\ r.h.disc = c.disc
      /\ (r.h.disc = NoDisc => r.h.oldmode = "no disc")
  BY DEF CallOk, Sane
<1>3. handle' \in [Handles -> Handle] /\ handle'[h] = r.h
      /\ \A g \in Handles \ {h} : handle'[g] = handle[g]
  BY <1>1, <1>2 DEF IInv
<1>4. \A g \in Handles : Sane(g, handle'[g])
  BY <1>2, <1>3 DEF IInv
<1>5. \A g \in Handles : seen'[g] /\ handle'[g].disc = NoDisc => handle'[g].oldmode = "no disc"
  BY <1>2, <1>3 DEF IInv, Noticed
<1>6. ASSUME r.info.valid
      PROVE  \E g \in Handles : handle'[g].open /\ OwnText(g, handle'[g], r.info)
  <2>1. CASE r.info = wm_cdtext_info
             /\ (OwnText(h, c, wm_cdtext_info) => OwnText(h, r.h, wm_cdtext_info))
    <3>1. PICK g \in Handles : handle[g].open /\ OwnText(g, handle[g], wm_cdtext_info)
      BY <1>6, <2>1 DEF IInv, Kept
    <3>2. CASE g = h
      BY <1>2, <1>3, <2>1, <3>1, <3>2
    <3>3. CASE g # h
      BY <1>3, <2>1, <3>1, <3>3
    <3> QED  BY <3>2, <3>3
  <2>2. CASE OwnText(h, r.h, r.info)
    BY <1>2, <1>3, <2>2
  <2> QED  BY <1>6, <2>1, <2>2 DEF CallOk, Keeps
<1> QED  BY <1>1, <1>2, <1>3, <1>4, <1>5, <1>6 DEF IInv, Noticed, Kept

\* A handle that nobody has opened is sane.
LEMMA ClosedOk ==
  ASSUME NEW h \in Handles, NEW disc \in Discs \cup {NoDisc},
         disc \in DiscsOf[h] \cup {NoDisc}
  PROVE  Sane(h, ClosedHandle(disc)) /\ ClosedHandle(disc).oldmode = "no disc"
<1> DEFINE n == ClosedHandle(disc)
<1>1. n \in Handle
  BY DEF ClosedHandle, Handle, Modes, ReadyModes, ShownLists
<1>2. /\ n.disc = disc /\ ~n.open /\ n.oldmode = "no disc" /\ n.known = NoDisc
      /\ n.listed = NoDisc /\ n.shown = NoLists /\ ~n.behind
  BY DEF ClosedHandle
<1> HIDE DEF n
<1>3. Placed(h, n) /\ Fits(n) /\ Titled(h, n)
  BY <1>2 DEF Placed, Fits, Titled
<1> QED  BY <1>1, <1>2, <1>3 DEF Sane, n

\* At first there is no text, and no handle is open.
LEMMA InitOk == Init => IInv
<1> SUFFICES ASSUME Init PROVE IInv
  OBVIOUS
<1>1. PICK disc \in [Handles -> Discs \cup {NoDisc}] :
        /\ \A h \in Handles : disc[h] \in DiscsOf[h] \cup {NoDisc}
        /\ handle = [h \in Handles |-> ClosedHandle(disc[h])]
  BY DEF Init
<1>2. wm_cdtext_info = NoInfo /\ seen = [h \in Handles |-> TRUE] /\ ~NoInfo.valid
  BY DEF Init, NoInfo
<1>3. ASSUME NEW h \in Handles
      PROVE  Sane(h, handle[h]) /\ handle[h].oldmode = "no disc"
  BY <1>1, ClosedOk
<1>4. \A h \in Handles : handle[h] \in Handle
  BY <1>3 DEF Sane
<1>5. handle \in [Handles -> Handle]
  BY <1>1, <1>4
<1>6. seen \in [Handles -> BOOLEAN] /\ wm_cdtext_info \in Infos
  BY <1>2 DEF Infos
<1> QED  BY <1>2, <1>3, <1>5, <1>6 DEF IInv, Noticed, Kept

\* The text goes with any handle that is closed.
LEMMA DestroyOk ==
  ASSUME IInv, NEW h \in Handles, Destroy(h)
  PROVE  IInv'
<1> DEFINE n == ClosedHandle(handle[h].disc)
<1>1. handle' = [handle EXCEPT ![h] = n] /\ wm_cdtext_info' = FreeCdtext(wm_cdtext_info)
      /\ seen' = [seen EXCEPT ![h] = TRUE]
  BY DEF Destroy, Becomes
<1>2. handle[h].disc \in Discs \cup {NoDisc} /\ handle[h].disc \in DiscsOf[h] \cup {NoDisc}
  BY DEF IInv, Sane, Placed, Handle
<1>3. Sane(h, n) /\ n.oldmode = "no disc" /\ n \in Handle
  BY <1>2, ClosedOk DEF Sane
<1> HIDE DEF n
<1>4. wm_cdtext_info' \in Infos /\ ~wm_cdtext_info'.valid
  BY <1>1 DEF FreeCdtext, NoInfo, Infos, IInv
<1>5. /\ handle' \in [Handles -> Handle] /\ handle'[h] = n
      /\ \A g \in Handles \ {h} : handle'[g] = handle[g]
  BY <1>1, <1>3 DEF IInv
<1>6. seen' \in [Handles -> BOOLEAN] /\ \A g \in Handles \ {h} : seen'[g] = seen[g]
  BY <1>1 DEF IInv
<1>7. \A g \in Handles : Sane(g, handle'[g])
  BY <1>3, <1>5 DEF IInv
<1>8. \A g \in Handles : seen'[g] /\ handle'[g].disc = NoDisc => handle'[g].oldmode = "no disc"
  BY <1>3, <1>5, <1>6 DEF IInv, Noticed
<1> QED  BY <1>4, <1>5, <1>6, <1>7, <1>8 DEF IInv, Noticed, Kept

\* What is known of the disc before has been given up when the next is put in.
LEMMA ChangeDiscOk ==
  ASSUME IInv, NEW h \in Handles, ChangeDisc(h)
  PROVE  IInv'
<1> DEFINE c == handle[h]
<1>1. PICK disc \in IF c.disc = NoDisc THEN DiscsOf[h] ELSE {NoDisc} :
        handle' = [handle EXCEPT ![h].disc = disc]
  BY DEF ChangeDisc
<1> DEFINE n == [c EXCEPT !.disc = disc]
<1>2. c \in Handle /\ Sane(h, c) /\ handle' = [handle EXCEPT ![h] = n]
      /\ disc \in Discs \cup {NoDisc} /\ disc \in DiscsOf[h] \cup {NoDisc}
  BY <1>1 DEF IInv, Discs
<1>3. /\ n \in Handle /\ n.disc = disc /\ n.open = c.open /\ n.oldmode = c.oldmode
      /\ n.known = c.known /\ n.listed = c.listed /\ n.shown = c.shown /\ n.behind = c.behind
  BY <1>2 DEF Handle
<1>4. seen' = [seen EXCEPT ![h] = ~c.open] /\ wm_cdtext_info' = wm_cdtext_info
  BY DEF ChangeDisc
<1>5. disc # NoDisc => c.oldmode = "no disc"
  BY <1>1 DEF ChangeDisc, IInv, Noticed
<1>6. /\ handle' \in [Handles -> Handle] /\ handle'[h] = n
      /\ \A g \in Handles \ {h} : handle'[g] = handle[g]
  BY <1>2, <1>3 DEF IInv
<1>7. seen' \in [Handles -> BOOLEAN] /\ (seen'[h] => ~c.open)
      /\ \A g \in Handles \ {h} : seen'[g] = seen[g]
  BY <1>2, <1>4 DEF IInv, Handle
<1> HIDE DEF n, c
<1>8. Sane(h, n)
  <2>1. Placed(h, n) /\ Titled(h, n)
    BY <1>2, <1>3 DEF Sane, Placed, Titled
  <2>2. Fits(n)
    BY <1>2, <1>3, <1>5 DEF Sane, Fits
  <2> QED  BY <1>3, <2>1, <2>2 DEF Sane
<1>9. \A g \in Handles : Sane(g, handle'[g])
  BY <1>6, <1>8 DEF IInv
<1>10. seen'[h] => n.oldmode = "no disc"
  BY <1>2, <1>3, <1>7 DEF Sane, Fits
<1>11. \A g \in Handles : seen'[g] /\ handle'[g].disc = NoDisc => handle'[g].oldmode = "no disc"
  BY <1>6, <1>7, <1>10 DEF IInv, Noticed
<1>12. ASSUME wm_cdtext_info.valid
       PROVE  \E g \in Handles : handle'[g].open /\ OwnText(g, handle'[g], wm_cdtext_info)
  <2>1. PICK g \in Handles : handle[g].open /\ OwnText(g, handle[g], wm_cdtext_info)
    BY <1>12 DEF IInv, Kept
  <2>2. handle'[g].open /\ OwnText(g, handle'[g], wm_cdtext_info)
    <3>1. CASE g = h
      BY <1>3, <1>6, <2>1, <3>1 DEF OwnText, c
    <3>2. CASE g # h
      BY <1>6, <2>1, <3>2
    <3> QED  BY <3>1, <3>2
  <2> QED  BY <2>2
<1> QED  BY <1>4, <1>6, <1>7, <1>9, <1>11, <1>12 DEF IInv, Noticed, Kept

\* The invariant is kept by every step.
LEMMA NextOk == IInv /\ [Next]_vars => IInv'
<1> SUFFICES ASSUME IInv, [Next]_vars PROVE IInv'
  OBVIOUS
<1>1. ASSUME NEW h \in Handles, Poll(h)
      PROVE  IInv'
  <2>1. PICK r \in TimerExpired(Now(h)) : Becomes(h, r)
    BY <1>1 DEF Poll
  <2>2. Sane(h, handle[h]) /\ handle[h].open /\ wm_cdtext_info \in Infos
        /\ Origin(h, handle[h], wm_cdtext_info)
    BY <1>1, OriginOfAll DEF Poll, IInv
  <2>3. CallOk(h, handle[h], wm_cdtext_info, r)
    BY <2>1, <2>2, TimerOk DEF Now
  <2>4. seen' \in [Handles -> BOOLEAN] /\ \A g \in Handles \ {h} : seen'[g] = seen[g]
    BY <1>1 DEF Poll, IInv
  <2> QED  BY <2>1, <2>3, <2>4, CallKeeps
<1>2. ASSUME NEW h \in Handles, MetadataLookup(h)
      PROVE  IInv'
  <2>1. PICK r \in QueryMetadata(Now(h)) : Becomes(h, r)
    BY <1>2 DEF MetadataLookup
  <2>2. Sane(h, handle[h]) /\ handle[h].open /\ wm_cdtext_info \in Infos
        /\ Origin(h, handle[h], wm_cdtext_info)
    BY <1>2, OriginOfAll DEF MetadataLookup, IInv
  <2>3. CallOk(h, handle[h], wm_cdtext_info, r)
    BY <2>1, <2>2, QueryOk DEF Now
  <2>4. seen' \in [Handles -> BOOLEAN] /\ \A g \in Handles \ {h} : seen'[g] = seen[g]
    BY <1>2 DEF MetadataLookup, IInv
  <2> QED  BY <2>1, <2>3, <2>4, CallKeeps
<1>3. ASSUME NEW h \in Handles, OtherSlot(h)
      PROVE  IInv'
  <2>1. PICK r \in WmCdStatus(Now(h)) : Becomes(h, r)
    BY <1>3 DEF OtherSlot
  <2>2. Sane(h, handle[h]) /\ handle[h].open /\ wm_cdtext_info \in Infos
    BY <1>3 DEF OtherSlot, IInv
  <2>3. CallOk(h, handle[h], wm_cdtext_info, r)
    BY <2>1, <2>2, StatusOk DEF Now
  <2>4. seen' \in [Handles -> BOOLEAN] /\ \A g \in Handles \ {h} : seen'[g] = seen[g]
    BY <1>3 DEF OtherSlot, IInv
  <2> QED  BY <2>1, <2>3, <2>4, CallKeeps
<1>4. ASSUME NEW h \in Handles, CreateInterface(h)
      PROVE  IInv'
  <2> DEFINE c == [handle[h] EXCEPT !.open = TRUE]
  <2>1. PICK r \in WmCdStatus([h |-> c, info |-> wm_cdtext_info]) : Becomes(h, r)
    BY <1>4 DEF CreateInterface
  <2>4. /\ handle[h] \in Handle /\ Sane(h, handle[h]) /\ ~handle[h].open
        /\ wm_cdtext_info \in Infos
    BY <1>4 DEF CreateInterface, IInv
  <2>5. /\ c \in Handle /\ c.open /\ c.disc = handle[h].disc
        /\ c.known = handle[h].known /\ c.oldmode = handle[h].oldmode
        /\ c.listed = handle[h].listed /\ c.shown = handle[h].shown
        /\ c.behind = handle[h].behind
    BY <2>4 DEF Handle
  <2> HIDE DEF c
  <2>6. Sane(h, c)
    BY <2>4, <2>5 DEF Sane, Placed, Fits, Titled
  <2>7. CallOk(h, c, wm_cdtext_info, r)
    BY <2>1, <2>4, <2>5, <2>6, StatusOk
  <2>8. seen' \in [Handles -> BOOLEAN] /\ \A g \in Handles \ {h} : seen'[g] = seen[g]
    BY <1>4 DEF CreateInterface, IInv
  <2> QED  BY <2>1, <2>4, <2>5, <2>7, <2>8, CallKeeps
<1>5. CASE UNCHANGED vars
  BY <1>5 DEF vars, IInv, Noticed, Kept
<1> QED  BY <1>1, <1>2, <1>3, <1>4, <1>5, DestroyOk, ChangeDiscOk DEF Next

\* Every handle is sane, and the text kept is that of a disc an open one has had.
THEOREM Invariant == Spec => []IInv
BY InitOk, NextOk, PTL DEF Spec

\* The text kept for all handles is never one that a handle has left behind.
THEOREM CdtextKeptTextKnown == Spec => []KeptTextKnown
<1>1. IInv => KeptTextKnown
  BY DEF IInv, Kept, KeptTextKnown, OwnText
<1> QED  BY <1>1, Invariant, PTL

-----------------------------------------------------------------------------

(***************************************************************************)
(* What is shown, if the packs are read right.                             *)
(***************************************************************************)

\* Each disc's packs give its text back, which the runs check on discs.
ParsesRight == \A d \in Discs : ReadsRight(d)

\* Titles have an entry for each listed track, and are those of a disc of this
\* drive; of the disc that is listed unless another was found behind it.
THEOREM CdtextTextOfThisDisc == ASSUME ParsesRight PROVE Spec => []TextOfThisDisc
<1>1. ASSUME NEW d \in Discs, InfoOf[d].valid
      PROVE  /\ Readable(d) /\ Lists(InfoOf[d]) = TextOf(d)
             /\ \A kind \in TextKind : DOMAIN TextOf(d)[kind] = 0 .. d.tracks
  <2>1. InfoOf[d] = Parse(d) /\ ReadsRight(d)
    BY DEF InfoOf, ParsesRight
  <2>2. Readable(d) /\ Lists(InfoOf[d]) = TextOf(d)
    BY <1>1, <2>1 DEF ReadsRight
  <2>3. 1 \in DOMAIN d.blocks
    BY <2>2, CdtextAssumption DEF Readable
  <2>4. \A kind \in TextKind : d.blocks[1][kind] \in [0 .. d.tracks -> Seq(Char)]
    BY <2>3, CdtextAssumption DEF Texts
  <2>5. ASSUME NEW kind \in TextKind
        PROVE  DOMAIN TextOf(d)[kind] = 0 .. d.tracks
    BY <2>4 DEF TextOf
  <2> QED  BY <2>2, <2>5
<1>2. ASSUME IInv, NEW h \in Handles, handle[h].shown \notin {NoLists, Unknown}
      PROVE  LET c == handle[h] IN
             /\ \A kind \in TextKind : DOMAIN c.shown[kind] = 0 .. Tracks(c)
             /\ Apart(h) => \E d \in DiscsOf[h] : Readable(d) /\ c.shown = TextOf(d)
             /\ Apart(h) /\ ~c.behind => Readable(c.listed) /\ c.shown = TextOf(c.listed)
  <2> DEFINE c == handle[h]
  <2>1. Titled(h, c)
    BY <1>2 DEF IInv, Sane
  <2>2. c.listed # NoDisc
    BY <1>2, <2>1 DEF Titled
  <2>3. PICK d \in Discs :
          /\ InfoOf[d].valid /\ c.shown = Lists(InfoOf[d]) /\ d.tracks = c.listed.tracks
          /\ \/ \E g \in Handles \ {h} : d \in DiscsOf[g]
             \/ d \in DiscsOf[h] /\ (~c.behind => d = c.listed)
    BY <1>2, <2>1 DEF Titled
  <2>4. Tracks(c) = d.tracks
    BY <2>2, <2>3 DEF Tracks
  <2>5. /\ Readable(d) /\ c.shown = TextOf(d)
        /\ \A kind \in TextKind : DOMAIN c.shown[kind] = 0 .. Tracks(c)
    BY <1>1, <2>3, <2>4
  <2>6. Apart(h) => d \in DiscsOf[h] /\ (~c.behind => d = c.listed)
    BY <2>3, <2>4 DEF Apart
  <2> QED  BY <2>5, <2>6
<1>3. IInv => TextOfThisDisc
  BY <1>2 DEF TextOfThisDisc
<1> QED  BY <1>3, Invariant, PTL

\* A disc with a track has a text of more entries than one.
LEMMA MoreThanOne == /\ \A x : x > 1 => x # 1
                     /\ \A x : \A k \in Nat \ {0} : x = k + 1 => x > 1
OBVIOUS

\* What one call of the timer shows of a disc it has just found.
LEMMA NewDiscPoll ==
  ASSUME ParsesRight, NEW h \in Handles, NEW c, NEW info \in Infos, Sane(h, c),
         c.oldmode = "no disc", c.listed = NoDisc,
         NEW r \in TimerExpired([h |-> c, info |-> info]),
         r.h.oldmode = "ready", r.h.listed # NoDisc
  PROVE  /\ r.h.listed = r.h.disc
         /\ r.h.shown = IF r.info.valid /\ r.info.entries > 1
                        THEN TextOf(r.h.disc) ELSE Unknown
<1> DEFINE disc == c.disc
<1>1. c \in Handle
  BY DEF Sane
<1>2. PICK t \in WmCdStatus([h |-> c, info |-> info]) : r \in ShowStatus(t)
  BY DEF TimerExpired
<1> DEFINE b == t.h
           e == [b EXCEPT !.m_status = b.cur_cdmode]
           n == ListTracks(e)
<1>3. Looked(c, info, t)
  BY <1>1, <1>2, StatusLooks
<1>4. b \in Handle /\ t = [h |-> b, info |-> t.info] /\ b.listed = NoDisc /\ b.disc = disc
  BY <1>3 DEF Looked, Same
<1> HIDE DEF b
<1>5. /\ e.listed = NoDisc /\ e.known # NoDisc /\ e.disc = disc
      /\ e.oldmode = b.oldmode /\ e.known = b.known /\ e \in Handle
      /\ r \in QueryMetadata([h |-> n, info |-> t.info])
  <2>1. /\ e \in Handle /\ e.listed = NoDisc /\ e.disc = disc /\ e.oldmode = b.oldmode
        /\ e.known = b.known
    BY <1>4 DEF Handle
  <2>2. r # t
    BY <1>4 DEF b
  <2>3. r # [h |-> [e EXCEPT !.listed = NoDisc, !.shown = NoLists, !.behind = FALSE],
             info |-> t.info]
    <3> DEFINE x == [e EXCEPT !.listed = NoDisc, !.shown = NoLists, !.behind = FALSE]
    <3>1. x.listed = NoDisc
      BY <2>1 DEF Handle
    <3> HIDE DEF x, e
    <3>2. ASSUME r = [h |-> x, info |-> t.info] PROVE FALSE
      BY <1>4, <3>1, <3>2
    <3> QED  BY <3>2 DEF x
  <2>4. r # [h |-> e, info |-> t.info]
    <3> HIDE DEF e
    <3>1. ASSUME r = [h |-> e, info |-> t.info] PROVE FALSE
      BY <1>4, <2>1, <3>1
    <3> QED  BY <3>1
  <2> QED  BY <1>2, <2>1, <2>2, <2>3, <2>4 DEF ShowStatus, b
<1>6. n = [e EXCEPT !.listed = e.known, !.shown = Unknown]
  BY DEF ListTracks
<1> HIDE DEF e, n
<1>7. r \in QueryMetadata([h |-> n, info |-> t.info])
  BY <1>5
<1>8. /\ n \in Handle /\ n.listed = b.known /\ n.known = b.known /\ n.shown = Unknown
      /\ n.disc = disc /\ n.oldmode = b.oldmode
  BY <1>5, <1>6 DEF Handle, ShownLists
<1>9. PICK v \in WmCdStatus([h |-> n, info |-> t.info]) : r \in CdtextOf(v)
  BY <1>7 DEF QueryMetadata
<1>10. Looked(n, t.info, v)
  BY <1>8, <1>9, StatusLooks
<1>11. v.h \in Handle /\ v.h.disc = disc /\ v.h.listed = b.known /\ v.h.shown = Unknown
       /\ v = [h |-> v.h, info |-> v.info]
  BY <1>8, <1>10 DEF Looked, Same
<1>12. r = v \/ \E new \in GetGlobCdtext(v.info, disc, FALSE) :
                  r = [h |-> Fill(v.h, new), info |-> new]
  BY <1>9, <1>11 DEF CdtextOf
<1>13. ASSUME NEW new
       PROVE  /\ Fill(v.h, new).oldmode = v.h.oldmode /\ Fill(v.h, new).disc = disc
              /\ Fill(v.h, new).listed = b.known
              /\ Fill(v.h, new).shown = IF b.known # NoDisc /\ new.valid
                                           /\ new.entries = Tracks(v.h) + 1
                                        THEN Lists(new) ELSE Unknown
  <2>1. Fill(v.h, new)
        = [v.h EXCEPT !.shown = IF v.h.listed # NoDisc /\ new.valid
                                   /\ new.entries = Tracks(v.h) + 1
                                THEN Lists(new) ELSE v.h.shown]
    BY DEF Fill
  <2> DEFINE x == IF v.h.listed # NoDisc /\ new.valid /\ new.entries = Tracks(v.h) + 1
                  THEN Lists(new) ELSE v.h.shown
  <2>2. Fill(v.h, new) = [v.h EXCEPT !.shown = x]
    BY <2>1
  <2>3. x = IF b.known # NoDisc /\ new.valid /\ new.entries = Tracks(v.h) + 1
            THEN Lists(new) ELSE Unknown
    BY <1>11
  <2> HIDE DEF x
  <2>4. /\ Fill(v.h, new).oldmode = v.h.oldmode /\ Fill(v.h, new).disc = v.h.disc
        /\ Fill(v.h, new).listed = v.h.listed /\ Fill(v.h, new).shown = x
    BY <1>11, <2>2 DEF Handle
  <2> QED  BY <1>11, <2>3, <2>4
<1>14. v.h.oldmode = "ready"
  <2>1. CASE r = v
    BY <2>1
  <2>2. CASE \E new \in GetGlobCdtext(v.info, disc, FALSE) : r = [h |-> Fill(v.h, new), info |-> new]
    <3>1. PICK new : r = [h |-> Fill(v.h, new), info |-> new]
      BY <2>2
    <3>2. r.h = Fill(v.h, new)
      BY <3>1
    <3> QED  BY <1>13, <3>2
  <2> QED  BY <1>12, <2>1, <2>2
<1>15. disc # NoDisc /\ b.known # NoDisc
  BY <1>5, <1>8, <1>10, <1>14 DEF Looked
<1>16. /\ b.oldmode = "ready" /\ b.known = disc
       /\ t.info \in GetGlobCdtext(info, disc, TRUE)
  BY <1>3, <1>15 DEF Looked, b
<1>17. v.info = t.info /\ v.h.cur_cdmode \in ReadyModes
  BY <1>8, <1>10, <1>14, <1>16 DEF Looked
<1>18. PICK new \in GetGlobCdtext(v.info, disc, FALSE) :
         r = [h |-> Fill(v.h, new), info |-> new]
  <2>1. v.h.cur_cdmode # "no disc"
    BY <1>17 DEF ReadyModes
  <2> QED  BY <1>9, <1>11, <2>1 DEF CdtextOf
<1>19. r.h = Fill(v.h, new) /\ r.info = new
  BY <1>18
<1>20. disc \in Discs /\ v.info \in Infos
  <2>1. disc \in Discs
    BY <1>1, <1>15 DEF Handle
  <2> QED  BY <1>16, <1>17, <2>1, GetGlobOutcomes
<1>21. ~new.valid \/ new \in TextsOf[disc]
  <2>1. ~v.info.valid \/ v.info \in TextsOf[disc]
    BY <1>16, <1>17, <1>20, GetGlobOutcomes
  <2> QED  BY <1>18, <1>20, <2>1, GetGlobOutcomes
<1>22. Tracks(v.h) = disc.tracks /\ disc.tracks \in Nat \ {0}
  BY <1>11, <1>15, <1>16, <1>20, CdtextAssumption DEF Tracks
<1>23. CASE new.valid /\ new.entries > 1
  <2>1. new = InfoOf[disc] /\ new.entries = disc.tracks + 1
    <3>1. new \in TextsOf[disc] /\ new.valid /\ disc \in Discs
      BY <1>20, <1>21, <1>23
    <3>2. (new = InfoOf[disc] /\ new.entries = disc.tracks + 1) \/ new.entries = 1
      BY <3>1, InfoEntries
    <3>3. new.entries # 1
      BY <1>23, MoreThanOne
    <3> QED  BY <3>2, <3>3
  <2>2. Lists(new) = TextOf(disc)
    BY <1>20, <1>23, <2>1 DEF ParsesRight, ReadsRight, InfoOf
  <2> QED  BY <1>13, <1>15, <1>16, <1>19, <1>22, <1>23, <2>1, <2>2
<1>24. CASE ~(new.valid /\ new.entries > 1)
  <2>1. ~(new.valid /\ new.entries = Tracks(v.h) + 1)
    <3> DEFINE k == Tracks(v.h)
    <3>2. k \in Nat \ {0}
      BY <1>22
    <3> HIDE DEF k
    <3>1. ASSUME new.entries = k + 1 PROVE new.entries > 1
      BY <3>1, <3>2, MoreThanOne
    <3> QED  BY <1>24, <3>1 DEF k
  <2> QED  BY <1>13, <1>15, <1>16, <1>19, <1>24, <2>1
<1> QED  BY <1>23, <1>24

\* A poll that finds a new disc and lists its tracks shows that disc's text if
\* it could be read with the number of tracks, and "unknown" otherwise.
THEOREM CdtextNewDiscShown == ASSUME ParsesRight PROVE Spec => NewDiscShown
<1> DEFINE Shows(h) ==
      LET c == handle'[h] IN
        /\ handle[h].oldmode = "no disc" /\ handle[h].listed = NoDisc
        /\ c.oldmode = "ready" /\ c.listed # NoDisc
        => /\ c.listed = c.disc
           /\ c.shown = IF wm_cdtext_info'.valid /\ wm_cdtext_info'.entries > 1
                        THEN TextOf(c.disc) ELSE Unknown
<1>1. ASSUME IInv, [Next]_vars, NEW h \in Handles,
             handle[h].oldmode = "no disc", handle[h].listed = NoDisc,
             handle'[h].oldmode = "ready", handle'[h].listed # NoDisc
      PROVE  Shows(h)
  <2>1. Sane(h, handle[h]) /\ handle[h] \in Handle /\ handle \in [Handles -> Handle]
        /\ wm_cdtext_info \in Infos
    BY <1>1 DEF IInv
  <2>2. ASSUME NEW g \in Handles, NEW r, Becomes(g, r), g # h
        PROVE  FALSE
    BY <1>1, <2>1, <2>2 DEF Becomes
  <2>3. ASSUME NEW r, Becomes(h, r)
        PROVE  handle'[h] = r.h /\ wm_cdtext_info' = r.info
    BY <2>1, <2>3 DEF Becomes
  <2>4. ASSUME NEW g \in Handles, Poll(g)
        PROVE  Shows(h)
    <3>1. PICK r \in TimerExpired(Now(g)) : Becomes(g, r)
      BY <2>4 DEF Poll
    <3>2. g = h
      BY <2>2, <3>1
    <3>3. handle'[h] = r.h /\ wm_cdtext_info' = r.info
      BY <2>3, <3>1, <3>2
    <3>4. r \in TimerExpired([h |-> handle[h], info |-> wm_cdtext_info])
      BY <3>1, <3>2 DEF Now
    <3>5. r.h.oldmode = "ready" /\ r.h.listed # NoDisc
      BY <1>1, <3>3
    <3>6. /\ r.h.listed = r.h.disc
          /\ r.h.shown = IF r.info.valid /\ r.info.entries > 1
                         THEN TextOf(r.h.disc) ELSE Unknown
      BY <1>1, <2>1, <3>4, <3>5, NewDiscPoll
    <3> QED  BY <3>3, <3>6
  <2>5. ASSUME NEW g \in Handles, NEW c, NEW r \in WmCdStatus([h |-> c, info |-> wm_cdtext_info]),
               c \in Handle, c.listed = NoDisc
        PROVE  r.h.listed = NoDisc
    BY <2>5, StatusLooks DEF Looked, Same
  <2>6. ASSUME NEW g \in Handles, OtherSlot(g)
        PROVE  Shows(h)
    <3>1. PICK r \in WmCdStatus(Now(g)) : Becomes(g, r)
      BY <2>6 DEF OtherSlot
    <3>2. g = h /\ r \in WmCdStatus([h |-> handle[h], info |-> wm_cdtext_info])
      BY <2>2, <3>1 DEF Now
    <3> QED  BY <1>1, <2>1, <2>3, <2>5, <3>1, <3>2
  <2>7. ASSUME NEW g \in Handles, CreateInterface(g)
        PROVE  Shows(h)
    <3> DEFINE c == [handle[h] EXCEPT !.open = TRUE]
    <3>1. PICK r \in WmCdStatus([h |-> [handle[g] EXCEPT !.open = TRUE],
                                 info |-> wm_cdtext_info]) : Becomes(g, r)
      BY <2>7 DEF CreateInterface
    <3>2. g = h
      BY <2>2, <3>1
    <3>3. c \in Handle /\ c.listed = NoDisc
      BY <1>1, <2>1 DEF Handle
    <3>4. r \in WmCdStatus([h |-> c, info |-> wm_cdtext_info])
      BY <3>1, <3>2
    <3> QED  BY <1>1, <2>3, <2>5, <3>1, <3>2, <3>3, <3>4
  <2>8. ASSUME NEW g \in Handles, MetadataLookup(g)
        PROVE  Shows(h)
    <3>1. PICK r \in QueryMetadata(Now(g)) : Becomes(g, r)
      BY <2>8 DEF MetadataLookup
    <3>2. g = h
      BY <2>2, <3>1
    <3>3. PICK t \in WmCdStatus([h |-> handle[h], info |-> wm_cdtext_info]) : r \in CdtextOf(t)
      BY <3>1, <3>2 DEF Now, QueryMetadata
    <3>4. Looked(handle[h], wm_cdtext_info, t)
      BY <2>1, <3>3, StatusLooks
    <3>5. t.h \in Handle /\ t.h.listed = NoDisc
      BY <1>1, <3>4 DEF Looked, Same
    <3>6. r.h = t.h \/ \E x : r.h = [t.h EXCEPT !.shown = x]
      <4>1. CASE t.h.cur_cdmode = "no disc"
        BY <3>3, <4>1 DEF CdtextOf
      <4>2. CASE t.h.cur_cdmode # "no disc"
        <5>1. PICK new : r = [h |-> Fill(t.h, new), info |-> new]
          BY <3>3, <4>2 DEF CdtextOf
        <5>2. r.h = Fill(t.h, new)
          BY <5>1
        <5> QED  BY <5>2 DEF Fill
      <4> QED  BY <4>1, <4>2
    <3>7. r.h.listed = NoDisc
      BY <3>5, <3>6 DEF Handle
    <3> QED  BY <1>1, <2>3, <3>1, <3>2, <3>7
  <2>9. ASSUME NEW g \in Handles, Destroy(g)
        PROVE  Shows(h)
    <3>1. PICK r : Becomes(g, r) /\ r.h = ClosedHandle(handle[g].disc)
      BY <2>9 DEF Destroy
    <3>2. r.h.oldmode = "no disc"
      <4>1. ClosedHandle(handle[g].disc).oldmode = "no disc"
        BY DEF ClosedHandle
      <4> QED  BY <3>1, <4>1
    <3> QED  BY <1>1, <2>2, <2>3, <3>1, <3>2
  <2>10. ASSUME NEW g \in Handles, ChangeDisc(g)
         PROVE  Shows(h)
    <3>1. PICK disc : handle' = [handle EXCEPT ![g].disc = disc]
      BY <2>10 DEF ChangeDisc
    <3>2. handle'[h] = handle[h] \/ handle'[h] = [handle[h] EXCEPT !.disc = disc]
      BY <2>1, <3>1
    <3>3. handle'[h].oldmode = "no disc"
      BY <1>1, <2>1, <3>2 DEF Handle
    <3> QED  BY <1>1, <3>3
  <2>11. CASE UNCHANGED vars
    BY <1>1, <2>11 DEF vars
  <2> QED  BY <1>1, <2>4, <2>6, <2>7, <2>8, <2>9, <2>10, <2>11 DEF Next
<1>2. IInv /\ [Next]_vars => [\A h \in Handles : Shows(h)]_vars
  BY <1>1
<1>3. [][\A h \in Handles : Shows(h)]_vars => NewDiscShown
  BY PTL DEF NewDiscShown
<1> QED  BY <1>2, <1>3, Invariant, PTL DEF Spec
=============================================================================

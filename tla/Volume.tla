------------------------------- MODULE Volume -------------------------------
(***************************************************************************)
(* Volume and balance.  The drive keeps one level per channel and nothing  *)
(* else does: setVolume reads the balance back from the drive and          *)
(* setBalance the volume, each through wm_cd_getvolume and the inverse of  *)
(* the platform's volume scale, before it writes both channels.  So an     *)
(* error of the reading is written, and read again by the next call.       *)
(* The platforms without a gen_scale_volume do not link (README, 3): they  *)
(* are modelled as if the scaling of cdrom.c did nothing there.            *)
(***************************************************************************)
EXTENDS Integers, Sequences

CONSTANTS
  Volumes,    \* percentages an application may set
  Balances,   \* percentages an application may set
  PowerOn     \* levels of a channel before anybody sets it

ASSUME VolumeAssumption ==
  Volumes \subseteq Nat /\ Balances \subseteq 0 .. 100 /\ PowerOn \subseteq 0 .. 255

VARIABLES
  driver,     \* whose functions are installed in struct wm_drive_proto
  readable,   \* the drive's levels can be read
  left, right \* levels of the channels

volumeVars == <<driver, readable, left, right>>

Smaller(a, b) == IF a < b THEN a ELSE b
Larger(a, b)  == IF a < b THEN b ELSE a
Clamp(n, lo, hi) == Larger(lo, Smaller(n, hi))

\* Division of C: it rounds towards 0.
Quot(a, b) == IF a >= 0 THEN a \div b ELSE -((-a) \div b)

(***************************************************************************)
(* Whose functions are installed: those of the platform, unless there is a *)
(* fixup for the drive.                                                    *)
(***************************************************************************)

CompiledPlatforms == {"linux", "freebsd", "openbsd", "osf1", "ultrix", "aix", "irix"}

\* What a drive may say of itself: names filled up with blanks or with zeros,
\* or nothing.  Of a drive of the list, no revision: strncmp would compare it
\* with a null pointer.
Inquiries ==
  [vendor : {"TOSHIBA ", "TOSHIBA", "SONY    ", "SONY", ""},
   model  : {"CD-ROM XM-3401", "CD-ROM", "XM-3401", "CDU-8012", ""},
   answered : BOOLEAN]

\* wm_scsi_get_drive_type: only Linux sends SCSI commands.  "CD-ROM" and the
\* blanks after it are taken off the model.
ScsiGetDriveType(platform, inquiry) ==
  IF platform # "linux" \/ ~inquiry.answered THEN [vendor |-> "Generic", model |-> "drive"]
  ELSE [vendor |-> inquiry.vendor,
        model |-> CASE inquiry.model = "CD-ROM XM-3401" -> "XM-3401"
                    [] inquiry.model = "CD-ROM"         -> ""
                    [] OTHER                            -> inquiry.model]

FixupList ==
  << [vendor |-> "TOSHIBA", model |-> "XM-3501",  fixup |-> "toshiba"],
     [vendor |-> "TOSHIBA", model |-> "XM-3401",  fixup |-> "toshiba"],
     [vendor |-> "TOSHIBA", model |-> "XM-3301",  fixup |-> "toshiba"],
     [vendor |-> "SONY",    model |-> "CDU-8012", fixup |-> "sony"],
     [vendor |-> "SONY",    model |-> "CDU 561",  fixup |-> "sony"],
     [vendor |-> "SONY",    model |-> "CDU-76S",  fixup |-> "sony"] >>

\* fixup_drive_struct takes the first entry that begins with what the drive
\* says: the whole name without the blanks, or nothing.
FixupDriveStruct(platform, type) ==
  LET fits == {i \in DOMAIN FixupList : /\ type.vendor \in {"", FixupList[i].vendor}
                                       /\ type.model \in {"", FixupList[i].model}}
  IN  IF fits = {} THEN platform
      ELSE FixupList[CHOOSE i \in fits : \A j \in fits : i <= j].fixup

\* "scsi2" are the commands of scsi.c, "digital" those of cdda.c.
Drivers ==
  {FixupDriveStruct(p, ScsiGetDriveType(p, i)) : p \in CompiledPlatforms, i \in Inquiries}
    \cup {"scsi2", "digital"}

(***************************************************************************)
(* The curves from slider settings 0 .. 100 to levels, and back.  Linux    *)
(* and FreeBSD apply theirs in gen_scale_volume, which a fixup for a drive *)
(* may replace; the others have none and apply theirs in gen_set_volume.   *)
(***************************************************************************)

Linear(vol, lo, hi) == Quot(vol * (hi - lo), 100) + lo

LinuxScale(vol)   == Linear(vol, 0, 255)
IrixScale(vol)    == Linear(vol, 0, 255)
Scsi2Scale(vol)   == Linear(vol, 0, 255)
FreebsdScale(vol) == Linear(vol, 10, 255)
OpenbsdScale(vol) == Linear(vol, 10, 255)
AixScale(vol)     == Linear(vol, 128, 255)
\* An inverse square curve upside down.
Osf1Scale(vol)    ==
  Quot((100 * 100 - (100 - vol) * (100 - vol)) * (255 - 128), 100 * 100) + 128
UltrixScale(vol)  == Osf1Scale(vol)
ToshibaScale(vol) == Quot(vol * vol * vol, 10000)
SonyScale(vol)    == Quot(Quot(100 * 100 - (100 - vol) * (100 - vol), 100) + 100, 2)

LinuxUnscale(level) == Quot(level * 100, 255)
IrixUnscale(level)  == LinuxUnscale(level)
Scsi2Unscale(level) == LinuxUnscale(level)
\* The bounds of the curve and of the slider have changed places; both terms of
\* the division are negated here, as \div takes a positive divisor only.
AixUnscale(level) == Larger(0, Quot((128 - level) * 255, 128 - 100))

\* The settings a binary search is left with, from i[1] to i[2].
Intervals == (0 .. 100) \X (0 .. 100)
Middle(i)    == (i[1] + i[2]) \div 2
LowerHalf(i) == <<i[1], Middle(i) - 1>>
UpperHalf(i) == <<Middle(i) + 1, i[2]>>

\* Mutant: an upper bound that is not probed.
MutantSearch(level, curve) ==
  LET probe[i \in Intervals] ==
        CASE level < curve[Middle(i)] /\ i[1] < Middle(i) -> probe[LowerHalf(i)]
          [] level > curve[Middle(i)] /\ Middle(i) < i[2] -> probe[UpperHalf(i)]
          [] OTHER                                        -> Middle(i)
  IN  probe[<<0, 99>>]

\* A binary search for a setting with that level: the last one probed.
Search(level, curve) ==
  LET probe[i \in Intervals] ==
        CASE level < curve[Middle(i)] /\ i[1] < Middle(i) -> probe[LowerHalf(i)]
          [] level > curve[Middle(i)] /\ Middle(i) < i[2] -> probe[UpperHalf(i)]
          [] OTHER                                        -> Middle(i)
  IN  probe[<<0, 100>>]

FreebsdCurve == [vol \in 0 .. 100 |-> FreebsdScale(vol)]
OpenbsdCurve == [vol \in 0 .. 100 |-> OpenbsdScale(vol)]
Osf1Curve    == [vol \in 0 .. 100 |-> Osf1Scale(vol)]
UltrixCurve  == [vol \in 0 .. 100 |-> UltrixScale(vol)]
SonyCurve    == [vol \in 0 .. 100 |-> SonyScale(vol)]
SquareCurve  == [vol \in 0 .. 100 |-> (vol * vol) \div 100]

FreebsdUnscale(level) == Search(level, FreebsdCurve)
OpenbsdUnscale(level) == Search(level, OpenbsdCurve)
Osf1Unscale(level)    == Search(level, Osf1Curve)
UltrixUnscale(level)  == Search(level, UltrixCurve)

\* A binary search for the lowest setting that reaches a level.
Reaching(level, curve) ==
  LET probe[i \in Intervals] ==
        CASE level <= curve[Middle(i)] /\ i[1] < Middle(i) -> probe[LowerHalf(i)]
          [] level > curve[Middle(i)] /\ Middle(i) < i[2]  -> probe[UpperHalf(i)]
          [] OTHER -> IF level < curve[Middle(i)] THEN Middle(i) + 1 ELSE Middle(i)
  IN  Smaller(probe[<<0, 100>>], 100)

\* Searches the inverse of another curve, vol^2 / 100.
ToshibaUnscale(level) == Reaching(level, SquareCurve)
\* Takes the level for one of 255, though it was set as one of 100.
SonyUnscale(level) == Reaching((level * 100 + 254) \div 255, SonyCurve)

(***************************************************************************)
(* proto.scale_volume and gen_set_volume of a platform, as one: the level  *)
(* a channel is set to; gen_get_volume and proto.unscale_volume.           *)
(***************************************************************************)

LinuxLevel(vol)   == Clamp(LinuxScale(vol), 0, 255)
ToshibaLevel(vol) == Clamp(ToshibaScale(vol), 0, 255)
SonyLevel(vol)    == Clamp(SonyScale(vol), 0, 255)
FreebsdLevel(vol) == Larger(0, FreebsdScale(vol))
OpenbsdLevel(vol) == OpenbsdScale(Larger(0, vol))
\* CDROM_MIN_VOLUME .. CDROM_MAX_VOLUME is what a byte holds.
Osf1Level(vol)    == Clamp(Osf1Scale(vol), 0, 255)
UltrixLevel(vol)  == Clamp(UltrixScale(vol), 0, 255)
AixLevel(vol)     == AixScale(vol) % 256
Scsi2Level(vol)   == Scsi2Scale(vol) % 256
\* A gain of the workstation, which is not below 0.
IrixLevel(vol)    == Larger(0, IrixScale(vol))

Level(vol) ==
  CASE driver = "linux"   -> LinuxLevel(vol)
    [] driver = "toshiba" -> ToshibaLevel(vol)
    [] driver = "sony"    -> SonyLevel(vol)
    [] driver = "freebsd" -> FreebsdLevel(vol)
    [] driver = "openbsd" -> OpenbsdLevel(vol)
    [] driver = "osf1"    -> Osf1Level(vol)
    [] driver = "ultrix"  -> UltrixLevel(vol)
    [] driver = "aix"     -> AixLevel(vol)
    [] driver = "irix"    -> IrixLevel(vol)
    [] driver = "scsi2"   -> Scsi2Level(vol)
Unscale(level) ==
  CASE driver = "linux"   -> LinuxUnscale(level)
    [] driver = "toshiba" -> ToshibaUnscale(level)
    [] driver = "sony"    -> SonyUnscale(level)
    [] driver = "freebsd" -> FreebsdUnscale(level)
    [] driver = "openbsd" -> OpenbsdUnscale(level)
    [] driver = "osf1"    -> Osf1Unscale(level)
    [] driver = "ultrix"  -> UltrixUnscale(level)
    [] driver = "aix"     -> AixUnscale(level)
    [] driver = "irix"    -> IrixUnscale(level)
    [] driver = "scsi2"   -> Scsi2Unscale(level)

(***************************************************************************)
(* wm_cd_getvolume, wm_cd_getbalance, wm_cd_volume                         *)
(***************************************************************************)

\* Mutant: balance is read as left minus right.
MutantGetBalance ==
  IF ~readable THEN 0 ELSE Clamp(Quot(Unscale(left) - Unscale(right), 2), -10, 10)

WmCdGetVolume  == IF ~readable THEN -1 ELSE Larger(Unscale(left), Unscale(right))
WmCdGetBalance ==
  IF ~readable THEN 0 ELSE Clamp(Quot(Unscale(right) - Unscale(left), 2), -10, 10)

\* How far the balance moves the channels; vol is not yet clamped.
Shift(vol, bal) == Clamp(bal, -10, 10) * Quot(vol, 10)

\* Digital playback asks the sound system, and none that is compiled has an
\* answer (wmaudio_balvol is NULL).
CddaSets == FALSE

\* The levels are set: OSF/1, Ultrix and SCSI-2 read the settings of the
\* channels first, and set nothing where they cannot be read.
Sets(l, r) ==
  IF \/ driver = "digital" /\ ~CddaSets
     \/ driver \in {"osf1", "ultrix", "scsi2"} /\ ~readable
  THEN UNCHANGED <<left, right>>
  ELSE left' = Level(l) /\ right' = Level(r)

\* Mutant: settings are not limited to the end of the slider.
MutantWmCdVolume(vol, bal) ==
  LET centre == Clamp(vol, 0, 100)
  IN  Sets(centre - Shift(vol, bal), centre + Shift(vol, bal))

\* The softer setting may be negative when vol is above 100.
WmCdVolume(vol, bal) ==
  LET centre == Clamp(vol, 0, 100)
  IN  Sets(Smaller(centre - Shift(vol, bal), 100), Smaller(centre + Shift(vol, bal), 100))

(***************************************************************************)
(* The slots.                                                              *)
(***************************************************************************)

\* RANGE2PERCENT and PERCENT2RANGE
ToPercent(x, lo, hi)   == Quot((x - lo) * 100, hi - lo)
FromPercent(x, lo, hi) == (x * (hi - lo)) \div 100 + lo

SetVolume(volume) ==
  /\ WmCdVolume(FromPercent(volume, 0, 100), WmCdGetBalance)
  /\ UNCHANGED <<driver, readable>>

SetBalance(balance) ==
  /\ WmCdVolume(WmCdGetVolume, FromPercent(balance, -10, 10))
  /\ UNCHANGED <<driver, readable>>

\* volume() and balance() of a drive that can be read.
VolumeShown  == ToPercent(WmCdGetVolume, 0, 100)
BalanceShown == ToPercent(WmCdGetBalance, -10, 10)

VolumeInit ==
  /\ driver \in Drivers /\ readable \in BOOLEAN
  /\ driver = "irix" => readable
  /\ driver = "digital" => ~readable
  /\ left \in PowerOn /\ right \in PowerOn

VolumeNext ==
  \/ \E volume \in Volumes : SetVolume(volume)
  \/ \E balance \in Balances : SetBalance(balance)

VolumeSpec == VolumeInit /\ [][VolumeNext]_volumeVars

(***************************************************************************)
(* Properties.                                                             *)
(***************************************************************************)

\* The type of the variables: a level fits the byte the drive takes.
TypeOK ==
  /\ driver \in Drivers /\ readable \in BOOLEAN
  /\ left \in 0 .. 255 /\ right \in 0 .. 255

\* However inexactly the balance is read back, setVolume() never makes the
\* softer channel the louder one: what it writes is on the side that was
\* read, for each of the curves, near both ends of the scale, and when the
\* balance cannot be read at all.  Nor is the balance that setBalance() has
\* set shown to be on the other side of the middle.  Except on AIX, whose
\* inverse takes levels from 128 on for silence and softer ones for loud.
SideKept ==
  [][driver # "aix" =>
       /\ \A volume \in Volumes : SetVolume(volume) =>
            (left >= right => left' >= right') /\ (left <= right => left' <= right')
       /\ readable =>
            \A balance \in Balances : SetBalance(balance) =>
              /\ balance <= 50 => BalanceShown' <= 50
              /\ balance >= 50 => BalanceShown' >= 50]_volumeVars

\* What is read after a step, if volume was set in it: it may be one less where
\* the way back is a division, where the curve is searched it is a setting of
\* the same level.
ReadsBack(volume) ==
  IF driver \in {"linux", "irix", "scsi2"} THEN VolumeShown' \in {volume, volume - 1}
  ELSE Level(VolumeShown') = Level(volume)

\* On a drive whose channels are alike, what setVolume() has set is what
\* volume() reads back where the inverse is searched, or a setting that
\* sounds the same where the curve is flat, and at most one less where two
\* divisions round down.  setBalance() to the middle, which sets
\* the volume it reads, keeps it within the same bounds.  Not where the way
\* back belongs to another curve than the way there.
VolumeReadBack ==
  [][readable /\ driver \notin {"toshiba", "sony", "aix"} /\ left = right =>
       /\ \A volume \in Volumes : SetVolume(volume) => ReadsBack(Smaller(volume, 100))
       /\ SetBalance(50) => ReadsBack(VolumeShown)]_volumeVars
=============================================================================

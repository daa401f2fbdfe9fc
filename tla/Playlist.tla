------------------------------ MODULE Playlist ------------------------------
(***************************************************************************)
(* The playlist algorithms of KCompactDiscPrivate (src/kcompactdisc_p.cpp) *)
(* as operators on the fields they read: the list p (m_playlist), the      *)
(* current track (m_track), the number of tracks (m_tracks) and the two    *)
(* switches loop and random.  Lists count from 1 here, from 0 in the code. *)
(***************************************************************************)
EXTENDS Integers, Sequences, Functions

\* make_playlist: every list it can leave behind.
Playlists(tracks, random) ==
  IF random THEN Injection(1 .. tracks, 1 .. tracks)
            ELSE {[i \in 1 .. tracks |-> i]}

Listed(p, track)  == \E i \in DOMAIN p : p[i] = track
IndexOf(p, track) == CHOOSE i \in DOMAIN p : p[i] = track

\* An entry of a list: the list the call leaves and an index into it, 0 when
\* the call returns no track.
Entry(list, at) == [list |-> list, at |-> at]
TrackOf(e) == IF e.at = 0 THEN 0 ELSE e.list[e.at]

\* The list after wrapping around: shuffled again in random mode.
Wrapped(p, tracks, random) == IF random THEN Playlists(tracks, random) ELSE {p}

\* Mutant: the last entry has a next one.
MutantNextEntries(p, track, tracks, loop, random) ==
  IF p = << >> THEN {Entry(p, 0)}
  ELSE IF ~Listed(p, track) THEN {Entry(p, 1)}
  ELSE IF IndexOf(p, track) <= Len(p) THEN {Entry(p, IndexOf(p, track) + 1)}
  ELSE IF loop THEN {Entry(q, 1) : q \in Wrapped(p, tracks, random)}
  ELSE {Entry(p, 0)}

\* Mutant: the list is always a loop.
MutantNextInLoop(p, track, tracks, loop, random) ==
  IF p = << >> THEN {Entry(p, 0)}
  ELSE IF ~Listed(p, track) THEN {Entry(p, 1)}
  ELSE IF IndexOf(p, track) < Len(p) THEN {Entry(p, IndexOf(p, track) + 1)}
  ELSE {Entry(q, 1) : q \in Wrapped(p, tracks, random)}

\* getNextTrackInPlaylist
NextEntries(p, track, tracks, loop, random) ==
  IF p = << >> THEN {Entry(p, 0)}
  ELSE IF ~Listed(p, track) THEN {Entry(p, 1)}
  ELSE IF IndexOf(p, track) < Len(p) THEN {Entry(p, IndexOf(p, track) + 1)}
  ELSE IF loop THEN {Entry(q, 1) : q \in Wrapped(p, tracks, random)}
  ELSE {Entry(p, 0)}

\* getPrevTrackInPlaylist: max_index is that of the list before it is shuffled.
PrevEntries(p, track, tracks, loop, random) ==
  IF p = << >> THEN {Entry(p, 0)}
  ELSE IF ~Listed(p, track) THEN {Entry(p, 1)}
  ELSE IF IndexOf(p, track) > 1 THEN {Entry(p, IndexOf(p, track) - 1)}
  ELSE IF loop THEN {Entry(q, Len(p)) : q \in Wrapped(p, tracks, random)}
  ELSE {Entry(p, 0)}
=============================================================================

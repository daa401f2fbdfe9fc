----------------------------- MODULE PhononProofs -----------------------------
(***************************************************************************)
(* Theorems about Phonon's Spec, for all discs, arguments of the slots and *)
(* numbers of signals under way.                                           *)
(***************************************************************************)
EXTENDS Phonon, TLAPS

(***************************************************************************)
(* The inductive invariant, as parts that speak of a media object m, the   *)
(* signals q under way and what the object shows.                          *)
(***************************************************************************)

Signal == State \cup {"Buffering", "tick"}
HasTitles == {"Stopped", "Playing", "Paused"}

\* The media object has titles when it has loaded a disc, which is in the drive.
Media(m) ==
  /\ m \in [state : State, title : Nat, titles : Nat]
  /\ m.state \in HasTitles => m.title \in 1 .. m.titles
  /\ m.state \notin HasTitles => m.title = 0 /\ m.titles = 0

Failed(q) == \E i \in 1 .. Len(q) : q[i] = "Error"

\* The last of the signals is of the state of the media object, unless that
\* is playing and has ticked.
Follows(q, m, shown) ==
  /\ q = << >> => shown = DiscStatusTranslate(m.state)
  /\ q # << >> => q[Len(q)] = m.state \/ (q[Len(q)] = "tick" /\ m.state = "Playing")

\* A tick follows the signal that the object plays.
TicksPlay(q, shown) ==
  \A i \in 1 .. Len(q) :
    q[i] = "tick" => IF i = 1 THEN shown = "Playing" ELSE q[i - 1] = "Playing"

\* What was counted are the titles of the media object, or it has failed since.
Counted(q, m, shown, tracks) ==
  /\ tracks # 0 => tracks = m.titles \/ Failed(q)
  /\ tracks = 0 => shown \in {"NoDisc", "NotReady"} \/ Failed(q)
  /\ shown = "NoDisc" => tracks = 0

\* Without an order in a hurry, only the failure of the object is signalled
\* after it has stopped, and an object that has ticked and failed is not
\* started again before that is known.
Calm(q, m) ==
  \A i, j \in 1 .. Len(q) : i < j =>
    /\ q[i] = "Stopped" => q[j] = "Error"
    /\ q[i] = "tick" /\ q[j] = "Error" => m.state = "Error"

\* The title is that of a disc that was counted, or of one that has failed in
\* a hurry since.
Titled(q, shown, track, tracks, hasty) ==
  /\ shown = "NoDisc" => track = 0
  /\ track # 0 /\ tracks = 0 => hasty /\ Failed(q)

\* All of this.
Pending(q, m, shown, track, tracks, hasty) ==
  /\ Follows(q, m, shown) /\ TicksPlay(q, shown)
  /\ Counted(q, m, shown, tracks)
  /\ Titled(q, shown, track, tracks, hasty)
  /\ ~hasty => Calm(q, m)

ListOf(tracks, list) ==
  /\ list \in Seq(Nat)
  /\ tracks # 0 => list \in Injection(1 .. tracks, 1 .. tracks)

Types ==
  /\ Media(media) /\ signals \in Seq(Signal)
  /\ tray \in {"closed", "ejected", "opened"} /\ disc \in Nat
  /\ m_status \in Status /\ m_statusExpected \in Status \cup {"Ejected"}
  /\ m_track \in Nat /\ m_tracks \in Nat
  /\ m_loopPlaylist \in BOOLEAN /\ m_randomPlaylist \in BOOLEAN
  /\ hurried \in BOOLEAN

IInv ==
  /\ Types
  /\ media.state = "Loading" => signals = << >> /\ m_status = "NotReady" /\ m_tracks = 0
  /\ Pending(signals, media, m_status, m_track, m_tracks, hurried)
  /\ ListOf(m_tracks, m_playlist)
  /\ order = "stop" => m_statusExpected = "Stopped"
  /\ m_statusExpected = "Ejected" => order = "eject"
  /\ order # "close"

(***************************************************************************)
(* Signals that are appended and handled.                                  *)
(***************************************************************************)

\* The media object m answers with the signals s, and is n.
Answer(m, n, s) ==
  /\ Media(n) /\ s \in Seq(Signal) /\ \A i \in 1 .. Len(s) : s[i] # "tick"
  /\ n.state = "Loading" => n = m /\ s = << >>
  /\ s = << >> => n.state = m.state
  /\ s # << >> => s[Len(s)] = n.state
  /\ n.titles # m.titles => Failed(s) \/ m.titles = 0
  /\ Failed(s) => n.state = "Error"
  /\ \A i \in 1 .. Len(s) : s[i] = "Stopped" => i = Len(s)

\* Nothing is under way.
LEMMA NothingPending ==
  \A m, shown : ~Failed(<< >>) /\ Calm(<< >>, m) /\ TicksPlay(<< >>, shown)
<1>1. Len(<< >>) = 0
  OBVIOUS
<1> QED
  BY <1>1 DEF Failed, Calm, TicksPlay

\* What holds of the signals under way holds when an answer follows them.
LEMMA Appended ==
  ASSUME NEW q \in Seq(Signal), NEW m, NEW n, NEW s, Answer(m, n, s), Media(m),
         NEW shown, NEW tracks, Follows(q, m, shown) \/ s # << >>, TicksPlay(q, shown)
  PROVE  /\ q \o s \in Seq(Signal)
         /\ Follows(q \o s, n, shown) /\ TicksPlay(q \o s, shown)
         /\ Counted(q, m, shown, tracks) => Counted(q \o s, n, shown, tracks)
         /\ Failed(q) => Failed(q \o s)
<1>1. s \in Seq(Signal) /\ q \o s \in Seq(Signal) /\ Len(q \o s) = Len(q) + Len(s)
  BY DEF Answer
<1>2. /\ \A i \in 1 .. Len(q) : (q \o s)[i] = q[i]
      /\ \A i \in 1 .. Len(s) : (q \o s)[Len(q) + i] = s[i]
      /\ \A i \in 1 .. Len(q \o s) :
           i \notin 1 .. Len(q) => i - Len(q) \in 1 .. Len(s) /\ (q \o s)[i] = s[i - Len(q)]
  BY <1>1
<1>3. (Failed(q) => Failed(q \o s)) /\ (Failed(s) => Failed(q \o s))
  <2>1. \A i \in 1 .. Len(q) : i \in 1 .. Len(q \o s)
    BY <1>1
  <2>2. \A i \in 1 .. Len(s) : Len(q) + i \in 1 .. Len(q \o s)
    BY <1>1
  <2> QED
    BY <2>1, <2>2, <1>2 DEF Failed
<1>4. Follows(q \o s, n, shown)
  <2>1. CASE s = << >>
    BY <2>1, <1>1 DEF Follows, Answer
  <2>2. CASE s # << >>
    <3>1. Len(s) \in 1 .. Len(s)
      BY <2>2, <1>1
    <3>2. (q \o s)[Len(q \o s)] = n.state /\ q \o s # << >>
      BY <2>2, <3>1, <1>1, <1>2 DEF Answer
    <3> QED
      BY <3>2 DEF Follows
  <2> QED
    BY <2>1, <2>2
<1>5. TicksPlay(q \o s, shown)
  <2> SUFFICES ASSUME NEW i \in 1 .. Len(q \o s), (q \o s)[i] = "tick"
               PROVE  IF i = 1 THEN shown = "Playing" ELSE (q \o s)[i - 1] = "Playing"
    BY DEF TicksPlay
  <2>1. i \in 1 .. Len(q)
    BY <1>2 DEF Answer
  <2>2. q[i] = "tick" /\ (i # 1 => (q \o s)[i - 1] = q[i - 1])
    BY <2>1, <1>2
  <2> QED
    BY <2>1, <2>2 DEF TicksPlay
<1>6. Counted(q, m, shown, tracks) => Counted(q \o s, n, shown, tracks)
  BY <1>3 DEF Counted, Answer
<1> QED
  BY <1>1, <1>3, <1>4, <1>5, <1>6

\* Signals stay calm, if nothing but a failure follows that the object has
\* stopped, and only what has not failed goes on after a tick.
LEMMA CalmAppended ==
  ASSUME NEW q \in Seq(Signal), NEW m, NEW n, NEW s, Answer(m, n, s), Calm(q, m),
         \A i \in 1 .. Len(q) : q[i] = "Stopped" => \A j \in 1 .. Len(s) : s[j] = "Error",
         (\E i \in 1 .. Len(q) : q[i] = "tick")
           => n.state = "Error" \/ (m.state # "Error" /\ ~Failed(s))
  PROVE  Calm(q \o s, n)
<1> SUFFICES ASSUME NEW i \in 1 .. Len(q \o s), NEW j \in 1 .. Len(q \o s), i < j
             PROVE  /\ (q \o s)[i] = "Stopped" => (q \o s)[j] = "Error"
                    /\ (q \o s)[i] = "tick" /\ (q \o s)[j] = "Error" => n.state = "Error"
  BY DEF Calm
<1>1. s \in Seq(Signal) /\ q \o s \in Seq(Signal) /\ Len(q \o s) = Len(q) + Len(s)
  BY DEF Answer
<1>2. \A k \in 1 .. Len(q \o s) :
        (q \o s)[k] = IF k \in 1 .. Len(q) THEN q[k] ELSE s[k - Len(q)]
  BY <1>1
<1>3. CASE i \in 1 .. Len(q) /\ j \in 1 .. Len(q)
  BY <1>2, <1>3 DEF Calm, Failed
<1>4. CASE i \in 1 .. Len(q) /\ j \notin 1 .. Len(q)
  <2>1. j - Len(q) \in 1 .. Len(s) /\ (q \o s)[j] = s[j - Len(q)] /\ (q \o s)[i] = q[i]
    BY <1>1, <1>2, <1>4
  <2> QED
    BY <1>4, <2>1 DEF Failed
<1>5. CASE i \notin 1 .. Len(q)
  <2>1. /\ i - Len(q) \in 1 .. Len(s) /\ (q \o s)[i] = s[i - Len(q)]
        /\ i - Len(q) # Len(s)
    BY <1>1, <1>2, <1>5
  <2> QED
    BY <2>1 DEF Answer
<1> QED
  BY <1>3, <1>4, <1>5

\* What holds of the signals under way holds when the first has been handled.
LEMMA Popped ==
  ASSUME NEW q \in Seq(Signal), q # << >>, NEW m, Media(m), NEW shown, NEW tracks,
         TicksPlay(q, shown)
  PROVE  /\ Tail(q) \in Seq(Signal) /\ Head(q) \in Signal /\ Head(q) = q[1]
         /\ Follows(q, m, shown) => Tail(q) # << >> \/ Head(q) = m.state
                                   \/ (Head(q) = "tick" /\ m.state = "Playing")
         /\ Follows(q, m, shown) /\ Tail(q) # << >> => \A any : Follows(Tail(q), m, any)
         /\ Head(q) = "tick" => shown = "Playing" /\ TicksPlay(Tail(q), shown)
         /\ Head(q) # "Playing" => \A any : TicksPlay(Tail(q), any)
         /\ TicksPlay(Tail(q), "Playing")
         /\ Failed(q) => Head(q) = "Error" \/ Failed(Tail(q))
         /\ Calm(q, m) => Calm(Tail(q), m)
<1>1. /\ Tail(q) \in Seq(Signal) /\ Len(Tail(q)) = Len(q) - 1 /\ Len(q) \in Nat \ {0}
      /\ \A i \in 1 .. Len(Tail(q)) : Tail(q)[i] = q[i + 1] /\ i + 1 \in 1 .. Len(q)
  OBVIOUS
<1>2. Head(q) = q[1] /\ q[1] \in Signal /\ 1 \in 1 .. Len(q)
  BY <1>1
<1>3. Follows(q, m, shown) => Tail(q) # << >> \/ Head(q) = m.state
                                   \/ (Head(q) = "tick" /\ m.state = "Playing")
  <2>1. Len(<< >>) = 0
    OBVIOUS
  <2>2. ASSUME Tail(q) = << >> PROVE Len(q) = 1
    <3>1. Len(Tail(q)) = 0
      BY <2>1, <2>2, Zenon
    <3> QED
      BY <3>1, <1>1
  <2> QED
    BY <2>2, <1>2 DEF Follows
<1>4. Follows(q, m, shown) /\ Tail(q) # << >> => \A any : Follows(Tail(q), m, any)
  <2> SUFFICES ASSUME Follows(q, m, shown), Tail(q) # << >>, NEW any
               PROVE  Follows(Tail(q), m, any)
    OBVIOUS
  <2>1. Len(Tail(q)) \in 1 .. Len(Tail(q))
    BY <1>1
  <2>2. Tail(q)[Len(Tail(q))] = q[Len(q)]
    BY <2>1, <1>1
  <2> QED
    BY <2>2 DEF Follows
<1>5. ASSUME NEW any, Head(q) = "Playing" => any = "Playing"
      PROVE  TicksPlay(Tail(q), any)
  <2> SUFFICES ASSUME NEW i \in 1 .. Len(Tail(q)), Tail(q)[i] = "tick"
               PROVE  IF i = 1 THEN any = "Playing" ELSE Tail(q)[i - 1] = "Playing"
    BY DEF TicksPlay
  <2>1. q[i + 1] = "tick" /\ i + 1 \in 1 .. Len(q) /\ i + 1 # 1
    BY <1>1
  <2>2. q[i] = "Playing"
    BY <2>1 DEF TicksPlay
  <2> QED
    BY <1>1, <1>2, <1>5, <2>2
<1>6. Head(q) = "tick" => shown = "Playing"
  BY <1>2 DEF TicksPlay
<1>7. Failed(q) => Head(q) = "Error" \/ Failed(Tail(q))
  <2> SUFFICES ASSUME NEW i \in 1 .. Len(q), q[i] = "Error", Head(q) # "Error"
               PROVE  Failed(Tail(q))
    BY DEF Failed
  <2>1. i - 1 \in 1 .. Len(Tail(q)) /\ Tail(q)[i - 1] = "Error"
    BY <1>1, <1>2
  <2> QED
    BY <2>1 DEF Failed
<1>8. Calm(q, m) => Calm(Tail(q), m)
  BY <1>1 DEF Calm
<1> QED
  BY <1>1, <1>2, <1>3, <1>4, <1>5, <1>6, <1>7, <1>8

(***************************************************************************)
(* The orders to the media object.                                         *)
(***************************************************************************)

\* An answer of no signal, of one, and of two.
LEMMA NoAnswer ==
  ASSUME NEW m, NEW n, Media(n), n.state = m.state, n.titles = m.titles,
         n.state = "Loading" => n = m
  PROVE  Answer(m, n, << >>)
<1>1. << >> \in Seq(Signal) /\ Len(<< >>) = 0
  OBVIOUS
<1> QED
  BY <1>1 DEF Answer, Failed

LEMMA OneAnswer ==
  ASSUME NEW m, NEW n, Media(n), n.state # "Loading",
         n.titles # m.titles => n.state = "Error" \/ m.titles = 0
  PROVE  Answer(m, n, <<n.state>>)
<1> DEFINE s == <<n.state>>
<1>1. n.state \in Signal /\ n.state # "tick"
  BY DEF Media, Signal, State
<1>2. /\ s \in Seq(Signal) /\ s # << >> /\ Len(s) = 1 /\ s[1] = n.state
      /\ \A i \in 1 .. Len(s) : i = 1
  BY <1>1
<1>3. Failed(s) <=> n.state = "Error"
  BY <1>2 DEF Failed
<1> HIDE DEF s
<1>4. Answer(m, n, s)
  BY <1>1, <1>2, <1>3 DEF Answer
<1> QED
  BY <1>4 DEF s

LEMMA TwoAnswers ==
  ASSUME NEW m, NEW n, Media(n), n.state = "Playing", NEW via \in {"Buffering", "Loading"},
         n.titles # m.titles => m.titles = 0
  PROVE  Answer(m, n, <<via, n.state>>)
<1> DEFINE s == <<via, n.state>>
<1>1. n.state \in Signal /\ via \in Signal
  BY DEF Signal, State
<1>2. /\ s \in Seq(Signal) /\ s # << >> /\ Len(s) = 2 /\ s[1] = via /\ s[2] = n.state
      /\ \A i \in 1 .. Len(s) : i = 1 \/ i = 2
  BY <1>1
<1>3. ~Failed(s)
  BY <1>2 DEF Failed
<1> HIDE DEF s
<1>4. Answer(m, n, s)
  BY <1>1, <1>2, <1>3 DEF Answer
<1> QED
  BY <1>4 DEF s

\* What an order makes of the media object and of the signals q under way.
Obeyed(q, states) ==
  \E s : signals' = q \o s /\ Answer(media, media', s) /\ media'.state \in states

\* setCurrentTitle, seek and play: the object plays, or cannot be played.
LEMMA PlayObeyed ==
  ASSUME Types, NEW track \in Nat, NEW q, MediaPlay(track, q)
  PROVE  Obeyed(q, IF media.state = "Stopped" THEN {"Playing"} ELSE {"Playing", media.state})
<1>1. Media(media)
  BY DEF Types
<1> DEFINE Title(titles) == IF track \in 1 .. titles THEN track
                            ELSE IF media.title \in 1 .. titles THEN media.title ELSE 1
           Plays(titles) == [state |-> "Playing", title |-> Title(titles), titles |-> titles]
<1>2. ASSUME NEW n \in Nat \ {0}
      PROVE  /\ Media(Plays(n)) /\ Plays(n).state = "Playing" /\ Plays(n).titles = n
  BY <1>2 DEF Media, State, HasTitles
<1>3. CASE media.state = "Playing"
  <2>1. media.titles \in Nat \ {0}
    BY <1>1, <1>3 DEF Media, HasTitles
  <2>2. PICK states \in {<< >>, <<"Buffering", "Playing">>} : Becomes(Plays(media.titles), q, states)
    BY <1>3 DEF MediaPlay
  <2>3. Media(media') /\ media'.state = "Playing" /\ media'.titles = media.titles /\ signals' = q \o states
    BY <1>2, <2>1, <2>2 DEF Becomes
  <2>4. Answer(media, media', states)
    BY <1>3, <2>2, <2>3, NoAnswer, TwoAnswers
  <2> QED
    BY <2>3, <2>4 DEF Obeyed
<1>4. CASE media.state \in {"Stopped", "Paused"}
  <2>1. media.titles \in Nat \ {0}
    BY <1>1, <1>4 DEF Media, HasTitles
  <2>2. Becomes(Plays(media.titles), q, <<"Playing">>)
    BY <1>4 DEF MediaPlay
  <2>3. Media(media') /\ media'.state = "Playing" /\ media'.titles = media.titles /\ signals' = q \o <<"Playing">>
    BY <1>2, <2>1, <2>2 DEF Becomes
  <2>4. Answer(media, media', <<media'.state>>)
    BY <2>3, OneAnswer
  <2> QED
    BY <2>3, <2>4 DEF Obeyed
<1>5. CASE media.state \in {"Loading", "Error"} /\ OpticalDisc
  <2>1. disc \in Nat \ {0} /\ media.titles = 0
    BY <1>1, <1>5 DEF Media, HasTitles, OpticalDisc, Types
  <2>2. Becomes(Plays(disc), q, <<"Loading", "Playing">>)
    BY <1>5 DEF MediaPlay
  <2>3. Media(media') /\ media'.state = "Playing" /\ signals' = q \o <<"Loading", "Playing">>
    BY <1>2, <2>1, <2>2 DEF Becomes
  <2>4. Answer(media, media', <<"Loading", media'.state>>)
    BY <2>1, <2>3, TwoAnswers
  <2> QED
    BY <2>3, <2>4 DEF Obeyed
<1>6. CASE media.state \in {"Loading", "Error"} /\ ~OpticalDisc
  <2>1. media' = media /\ signals' = q \o << >>
    BY <1>6 DEF MediaPlay, Ignores, Becomes
  <2>2. Answer(media, media', << >>)
    BY <1>1, <2>1, NoAnswer
  <2> QED
    BY <1>6, <2>1, <2>2 DEF Obeyed
<1>7. media.state \in State
  BY <1>1 DEF Media
<1> QED
  BY <1>3, <1>4, <1>5, <1>6, <1>7 DEF State

\* An order that is ignored.
LEMMA IgnoreObeyed ==
  ASSUME Types, NEW q, Ignores(q)
  PROVE  Obeyed(q, {media.state}) /\ media' = media
<1>1. media' = media /\ signals' = q \o << >> /\ Media(media)
  BY DEF Ignores, Becomes, Types
<1>2. Answer(media, media', << >>)
  BY <1>1, NoAnswer
<1> QED
  BY <1>1, <1>2 DEF Obeyed

\* pause and stop, and the failure of the object: one signal, if it acts.
LEMMA OneObeyed ==
  ASSUME Types, NEW q, NEW n, Media(n), Becomes(n, q, <<n.state>>), n.state # "Loading",
         n.titles = media.titles \/ n.state = "Error" \/ media.titles = 0
  PROVE  Obeyed(q, {n.state})
<1>1. media' = n /\ signals' = q \o <<n.state>>
  BY DEF Becomes
<1>2. Answer(media, n, <<n.state>>)
  BY OneAnswer
<1> QED
  BY <1>1, <1>2 DEF Obeyed

LEMMA PauseObeyed ==
  ASSUME Types, NEW q, MediaPause(q)
  PROVE  Obeyed(q, {"Paused", media.state})
<1>1. CASE media.state = "Playing"
  <2> DEFINE n == [media EXCEPT !.state = "Paused"]
  <2>1. Media(n) /\ n.state = "Paused" /\ n.titles = media.titles
    BY <1>1 DEF Types, Media, State, HasTitles
  <2>2. Becomes(n, q, <<n.state>>)
    BY <1>1, <2>1 DEF MediaPause
  <2> HIDE DEF n
  <2>3. Obeyed(q, {n.state})
    BY <2>1, <2>2, OneObeyed
  <2> QED
    BY <2>1, <2>3 DEF Obeyed
<1>2. CASE media.state # "Playing"
  BY <1>2, IgnoreObeyed DEF MediaPause, Obeyed
<1> QED
  BY <1>1, <1>2

LEMMA StopObeyed ==
  ASSUME Types, NEW q, MediaStop(q)
  PROVE  Obeyed(q, {"Stopped", media.state} \ {"Playing", "Paused"})
<1>1. CASE media.state \in {"Playing", "Paused"}
  <2> DEFINE n == [media EXCEPT !.state = "Stopped"]
  <2>1. Media(n) /\ n.state = "Stopped" /\ n.titles = media.titles
    BY <1>1 DEF Types, Media, State, HasTitles
  <2>2. Becomes(n, q, <<n.state>>)
    BY <1>1, <2>1 DEF MediaStop
  <2> HIDE DEF n
  <2>3. Obeyed(q, {n.state})
    BY <2>1, <2>2, OneObeyed
  <2> QED
    BY <2>1, <2>3 DEF Obeyed
<1>2. CASE media.state \notin {"Playing", "Paused"}
  BY <1>2, IgnoreObeyed DEF MediaStop, Obeyed
<1> QED
  BY <1>1, <1>2

LEMMA FailObeyed ==
  ASSUME Types, NEW q, Fails(q)
  PROVE  \E s : /\ signals' = q \o s /\ Answer(media, media', s) /\ media'.state = "Error"
               /\ s \in {<< >>, <<"Error">>}
<1>1. CASE media.state = "Error"
  <2>1. media' = media /\ signals' = q \o << >> /\ Media(media)
    BY <1>1 DEF Fails, Ignores, Becomes, Types
  <2> QED
    BY <1>1, <2>1, NoAnswer
<1>2. CASE media.state # "Error"
  <2> DEFINE n == [state |-> "Error", title |-> 0, titles |-> 0]
  <2>1. Media(n) /\ n.state = "Error"
    BY DEF Media, State, HasTitles
  <2>2. media' = n /\ signals' = q \o <<"Error">>
    BY <1>2 DEF Fails, Becomes
  <2> HIDE DEF n
  <2> QED
    BY <2>1, <2>2, OneAnswer
<1> QED
  BY <1>1, <1>2

(***************************************************************************)
(* The steps.                                                              *)
(***************************************************************************)

\* The object is not stopped by a signal that is under way, if it plays or
\* pauses and no order was given in a hurry.
LEMMA NoneStopped ==
  ASSUME NEW q \in Seq(Signal), NEW m, m.state \in {"Playing", "Paused"}, NEW shown,
         Follows(q, m, shown), Calm(q, m)
  PROVE  \A i \in 1 .. Len(q) : q[i] # "Stopped"
<1> SUFFICES ASSUME NEW i \in 1 .. Len(q), q[i] = "Stopped" PROVE FALSE
  OBVIOUS
<1>1. q # << >> /\ Len(q) \in 1 .. Len(q)
  OBVIOUS
<1>2. q[Len(q)] \notin {"Stopped", "Error"}
  BY <1>1 DEF Follows
<1>3. i < Len(q)
  BY <1>1, <1>2
<1> QED
  BY <1>1, <1>2, <1>3 DEF Calm

\* What is pending stays as it should when an answer is appended.
LEMMA PendingAppended ==
  ASSUME NEW q \in Seq(Signal), NEW m, NEW n, NEW s, Answer(m, n, s), Media(m),
         NEW shown, NEW track, NEW tracks, NEW hasty,
         Pending(q, m, shown, track, tracks, hasty), NEW hasty2,
         hasty => hasty2 \/ q = << >>,
         ~hasty2 => /\ \A i \in 1 .. Len(q) : q[i] = "Stopped" => \A j \in 1 .. Len(s) : s[j] = "Error"
                    /\ (\E i \in 1 .. Len(q) : q[i] = "tick")
                         => n.state = "Error" \/ (m.state # "Error" /\ ~Failed(s))
  PROVE  q \o s \in Seq(Signal) /\ Pending(q \o s, n, shown, track, tracks, hasty2)
<1>1. /\ q \o s \in Seq(Signal)
      /\ Follows(q \o s, n, shown) /\ TicksPlay(q \o s, shown)
      /\ Counted(q \o s, n, shown, tracks)
      /\ Failed(q) => Failed(q \o s)
  BY Appended DEF Pending
<1>2. q = << >> => ~Failed(q) /\ Calm(q, m)
  BY DEF Failed, Calm
<1>3. Titled(q \o s, shown, track, tracks, hasty2)
  BY <1>1, <1>2 DEF Pending, Titled
<1>4. ~hasty2 => Calm(q, m)
  BY <1>2 DEF Pending
<1>5. ~hasty2 => Calm(q \o s, n)
  BY <1>4, CalmAppended
<1> QED
  BY <1>1, <1>3, <1>5 DEF Pending

\* An order to the media object keeps what is pending.
LEMMA OrderPending ==
  ASSUME IInv, NEW states, Obeyed(signals, states),
         hurried' = (hurried \/ signals # << >>)
  PROVE  /\ Media(media') /\ signals' \in Seq(Signal)
         /\ media'.state = "Loading" => signals' = << >> /\ m_status = "NotReady" /\ m_tracks = 0
         /\ Pending(signals', media', m_status, m_track, m_tracks, hurried')
<1>1. PICK s : signals' = signals \o s /\ Answer(media, media', s)
  BY DEF Obeyed
<1>2. /\ signals \in Seq(Signal) /\ Media(media)
      /\ Pending(signals, media, m_status, m_track, m_tracks, hurried)
  BY DEF IInv, Types
<1>3. signals = << >> => \A i \in 1 .. Len(signals) : FALSE
  OBVIOUS
<1>4. hurried => hurried' \/ signals = << >>
  OBVIOUS
<1>5. ~hurried' => signals = << >>
  OBVIOUS
<1>6. signals' \in Seq(Signal) /\ Pending(signals', media', m_status, m_track, m_tracks, hurried')
  BY <1>1, <1>2, <1>3, <1>4, <1>5, PendingAppended
<1>7. media'.state = "Loading" => signals' = signals /\ media' = media
  BY <1>1, <1>2 DEF Answer
<1> QED
  BY <1>1, <1>6, <1>7 DEF Answer, IInv

\* make_playlist leaves a list of each track, once.
LEMMA MadePlaylist ==
  ASSUME NEW n \in Nat, NEW random \in BOOLEAN, NEW p \in Playlists(n, random)
  PROVE  /\ p \in Injection(1 .. n, 1 .. n)
         /\ p \in Seq(Nat) /\ Len(p) = n
<1>1. p \in Injection(1 .. n, 1 .. n)
  BY DEF Playlists, Injection, IsInjective
<1>2. p \in [1 .. n -> 1 .. n]
  BY <1>1 DEF Injection
<1> QED
  BY <1>1, <1>2

\* The list next() and prev() leave is the old one or a new one as good.
LEMMA EntryList ==
  ASSUME NEW p, NEW track, NEW n, NEW loop, NEW random,
         NEW e \in NextEntries(p, track, n, loop, random)
                     \cup PrevEntries(p, track, n, loop, random)
  PROVE  e.list = p \/ (random /\ e.list \in Playlists(n, random))
<1>1. \A q, i : Entry(q, i).list = q
  BY DEF Entry
<1>2. \A q \in Wrapped(p, n, random) :
        q = p \/ (random /\ q \in Playlists(n, random))
  BY DEF Wrapped
<1>3. CASE e \in NextEntries(p, track, n, loop, random)
  BY <1>1, <1>2, <1>3 DEF NextEntries
<1>4. CASE e \in PrevEntries(p, track, n, loop, random)
  BY <1>1, <1>2, <1>4 DEF PrevEntries
<1> QED
  BY <1>3, <1>4

\* The playlist that next(), prev() and the advance leave, and their track.
LEMMA EntryTrack ==
  ASSUME IInv, NEW e \in InList(Following) \cup InList(Preceding)
  PROVE  ListOf(m_tracks, e.list) /\ TrackOf(e) \in Nat
<1>1. /\ m_playlist \in Seq(Nat) /\ m_tracks \in Nat
      /\ m_tracks # 0 => m_playlist \in Injection(1 .. m_tracks, 1 .. m_tracks)
  BY DEF IInv, Types, ListOf
<1>2. ASSUME NEW p \in Playlists(m_tracks, m_randomPlaylist) PROVE ListOf(m_tracks, p)
  BY <1>1, <1>2, MadePlaylist DEF ListOf, IInv, Types
<1>3. e.list = m_playlist \/ e.list \in Playlists(m_tracks, m_randomPlaylist)
  BY EntryList DEF InList, Following, Preceding
<1>4. ListOf(m_tracks, e.list)
  BY <1>2, <1>3 DEF IInv
<1>5. e.at \in {0} \cup DOMAIN e.list
  BY DEF InList
<1> QED
  BY <1>4, <1>5 DEF TrackOf, ListOf

\* playTrack and what plays the title of an entry.
LEMMA PlayStep ==
  ASSUME IInv, NEW track \in Nat, Ordered("play"), PlayTrack(track),
         ListOf(m_tracks, m_playlist'),
         UNCHANGED <<drive, m_status, m_track, m_tracks, modes>>
  PROVE  IInv'
<1>1. hurried' = (hurried \/ signals # << >>) /\ order' = "play" /\ m_statusExpected' = "Playing"
  BY DEF Ordered, PlayTrack
<1>2. PICK states : Obeyed(signals, states)
  BY PlayObeyed DEF PlayTrack, IInv
<1>3. /\ Media(media') /\ signals' \in Seq(Signal)
      /\ media'.state = "Loading" => signals' = << >> /\ m_status = "NotReady" /\ m_tracks = 0
      /\ Pending(signals', media', m_status, m_track, m_tracks, hurried')
  BY <1>1, <1>2, OrderPending
<1>4. Types'
  BY <1>1, <1>3 DEF IInv, Types, Status, drive, modes
<1> QED
  BY <1>1, <1>3, <1>4 DEF IInv

\* The slots of the application keep the inductive invariant.
LEMMA SlotStep == IInv /\ Slot => IInv'
<1> SUFFICES ASSUME IInv, Slot PROVE IInv'
  OBVIOUS
<1>1. CASE PlayTrackSlot
  BY <1>1, PlayStep, PhononAssumption DEF PlayTrackSlot, IInv
<1>2. CASE PlayPosition
  BY <1>2, PlayStep DEF PlayPosition, IInv, Types
<1>3. ASSUME NEW entries, PlayEntry(entries), entries = Following \/ entries = Preceding
      PROVE  IInv'
  <2>1. PICK e \in InList(entries) :
          /\ m_playlist' = e.list
          /\ IF TrackOf(e) # 0 THEN Ordered("play") /\ PlayTrack(TrackOf(e))
             ELSE UNCHANGED <<media, signals, m_statusExpected, order, hurried>>
    BY <1>3 DEF PlayEntry
  <2>2. ListOf(m_tracks, m_playlist') /\ TrackOf(e) \in Nat
    BY <1>3, <2>1, EntryTrack
  <2>3. UNCHANGED <<drive, m_status, m_track, m_tracks, modes>>
    BY <1>3 DEF PlayEntry
  <2>4. CASE TrackOf(e) # 0
    BY <2>1, <2>2, <2>3, <2>4, PlayStep
  <2>5. CASE TrackOf(e) = 0
    BY <2>1, <2>2, <2>3, <2>5 DEF IInv, Types, drive, modes
  <2> QED
    BY <2>4, <2>5
<1>4. CASE NextTrack \/ PrevTrack \/ Play
  BY <1>3, <1>4 DEF NextTrack, PrevTrack, Play
<1>5. CASE Pause \/ Stop \/ EjectPlaying \/ EjectStopped
  <2>1. hurried' = (hurried \/ signals # << >>)
    BY <1>5 DEF Pause, Stop, EjectPlaying, EjectStopped, Ordered
  <2>2. \E states : Obeyed(signals, states)
    <3>1. CASE Pause
      BY <3>1, PauseObeyed DEF Pause, IInv
    <3>2. CASE Stop \/ EjectPlaying
      BY <3>2, StopObeyed DEF Stop, EjectPlaying, IInv
    <3>3. CASE EjectStopped /\ Fails(signals)
      BY <3>3, FailObeyed DEF Obeyed, IInv
    <3>4. CASE EjectStopped /\ Ignores(signals)
      BY <3>4, IgnoreObeyed DEF IInv
    <3> QED
      BY <1>5, <3>1, <3>2, <3>3, <3>4 DEF EjectStopped, DriveEject
  <2>3. /\ Media(media') /\ signals' \in Seq(Signal)
        /\ media'.state = "Loading" => signals' = << >> /\ m_status = "NotReady" /\ m_tracks = 0
        /\ Pending(signals', media', m_status, m_track, m_tracks, hurried')
    BY <2>1, <2>2, OrderPending
  <2>4. UNCHANGED <<disc, m_status, m_track, m_tracks, m_playlist, m_loopPlaylist, m_randomPlaylist>>
    BY <1>5 DEF Pause, Stop, EjectPlaying, EjectStopped, DriveEject, drive, modes
  <2>5. /\ tray' \in {"closed", "ejected", "opened"}
        /\ m_statusExpected' \in Status \cup {"Ejected"}
        /\ order' = "stop" => m_statusExpected' = "Stopped"
        /\ m_statusExpected' = "Ejected" => order' = "eject"
        /\ order' # "close"
    BY <1>5 DEF Pause, Stop, EjectPlaying, EjectStopped, DriveEject, drive, IInv, Types,
                Status, Ordered
  <2>6. Types'
    BY <2>1, <2>3, <2>4, <2>5 DEF IInv, Types
  <2> QED
    BY <2>3, <2>4, <2>5, <2>6 DEF IInv
<1>6. CASE SetLoopPlaylist \/ SetRandomPlaylist
  <2>1. UNCHANGED <<media, signals, drive, m_status, m_statusExpected, m_track, m_tracks, order, hurried>>
    BY <1>6 DEF SetLoopPlaylist, SetRandomPlaylist
  <2>2. m_loopPlaylist' \in BOOLEAN /\ m_randomPlaylist' \in BOOLEAN
    BY <1>6, PhononAssumption DEF SetLoopPlaylist, SetRandomPlaylist, IInv, Types
  <2>3. ListOf(m_tracks, m_playlist')
    BY <1>6, <2>2, MadePlaylist DEF SetLoopPlaylist, SetRandomPlaylist, IInv, Types, ListOf
  <2> QED
    BY <2>1, <2>2, <2>3 DEF IInv, Types, drive
<1> QED
  BY <1>1, <1>2, <1>4, <1>5, <1>6 DEF Slot

\* What is known when the first signal is handled.
LEMMA FirstSignal ==
  ASSUME IInv, signals # << >>
  PROVE  /\ media.state # "Loading" /\ Media(media)
         /\ Tail(signals) \in Seq(Signal) /\ Head(signals) \in Signal
         /\ Tail(signals) # << >> => \A any : Follows(Tail(signals), media, any)
         /\ Tail(signals) = << >> =>
              Head(signals) = media.state \/ (Head(signals) = "tick" /\ media.state = "Playing")
         /\ Head(signals) = "tick" =>
              m_status = "Playing" /\ TicksPlay(Tail(signals), m_status)
         /\ Head(signals) # "Playing" => \A any : TicksPlay(Tail(signals), any)
         /\ TicksPlay(Tail(signals), "Playing")
         /\ Failed(signals) => Head(signals) = "Error" \/ Failed(Tail(signals))
         /\ ~hurried => Calm(Tail(signals), media)
         /\ Tail(signals) = << >> => ~Failed(Tail(signals)) /\ Calm(Tail(signals), media)
<1>1. /\ signals \in Seq(Signal) /\ Media(media)
      /\ media.state = "Loading" => signals = << >>
      /\ Follows(signals, media, m_status) /\ TicksPlay(signals, m_status)
      /\ ~hurried => Calm(signals, media)
  BY DEF IInv, Types, Pending
<1> QED
  BY <1>1, NothingPending, Popped

\* tick keeps the inductive invariant.
LEMMA TickStep == IInv /\ HandleTick => IInv'
<1> SUFFICES ASSUME IInv, HandleTick PROVE IInv'
  OBVIOUS
<1>1. /\ media' = media /\ signals' = Tail(signals) \o << >>
      /\ hurried' = (hurried /\ signals' # << >>) /\ m_track' = media.title
      /\ UNCHANGED <<drive, m_status, m_statusExpected, m_tracks, m_playlist, modes, order>>
      /\ signals # << >> /\ Head(signals) = "tick"
  BY DEF HandleTick, Ignores, Becomes, Under
<1>2. signals' = Tail(signals)
  BY <1>1, FirstSignal
<1>3. Counted(signals, media, "Playing", m_tracks) /\ m_status = "Playing"
  BY <1>1, FirstSignal DEF IInv, Pending
<1>4. Counted(signals', media, m_status, m_tracks)
  BY <1>1, <1>2, <1>3, FirstSignal DEF Counted
<1>5. Titled(signals', m_status, m_track', m_tracks, hurried')
  <2> SUFFICES ASSUME m_track' # 0, m_tracks = 0 PROVE hurried' /\ Failed(signals')
    BY <1>3 DEF Titled
  <2>1. Failed(signals')
    BY <1>3, <1>4 DEF Counted
  <2>2. signals' # << >>
    BY <2>1, <1>2, FirstSignal, <1>1
  <2>3. CASE ~hurried
    <3>1. Calm(signals, media) /\ signals \in Seq(Signal)
      BY <2>3 DEF IInv, Pending, Types
    <3>2. PICK i \in 1 .. Len(Tail(signals)) : Tail(signals)[i] = "Error"
      BY <1>2, <2>1 DEF Failed
    <3>3. /\ 1 \in 1 .. Len(signals) /\ i + 1 \in 1 .. Len(signals) /\ 1 < i + 1
          /\ signals[1] = "tick" /\ signals[i + 1] = "Error"
      BY <3>1, <3>2, <1>1
    <3>4. media.state = "Error"
      BY <3>1, <3>3 DEF Calm
    <3> QED
      BY <3>4, <1>1, <2>2 DEF IInv, Types, Media, HasTitles
  <2> QED
    BY <2>1, <2>2, <2>3, <1>1
<1>6. Pending(signals', media, m_status, m_track', m_tracks, hurried')
  <2>1. signals' = << >> => media.state = "Playing"
    BY <1>1, <1>2, FirstSignal DEF Media, State
  <2>2. Follows(signals', media, m_status)
    BY <2>1, <1>1, <1>2, <1>3, FirstSignal DEF Follows, DiscStatusTranslate
  <2>3. TicksPlay(signals', m_status)
    BY <1>1, <1>2, <1>3, FirstSignal
  <2>4. ~hurried' => Calm(signals', media)
    BY <1>1, <1>2, FirstSignal
  <2> QED
    BY <2>2, <2>3, <2>4, <1>4, <1>5 DEF Pending
<1>7. Types'
  BY <1>1, <1>2, FirstSignal DEF IInv, Types, drive, modes, Media
<1> QED
  BY <1>1, <1>2, <1>6, <1>7, FirstSignal DEF IInv

\* The signal of a status that is shown already keeps the inductive invariant.
LEMMA SameStep == IInv /\ HandleSame => IInv'
<1> SUFFICES ASSUME IInv, HandleSame PROVE IInv'
  OBVIOUS
<1>1. /\ media' = media /\ signals' = Tail(signals) \o << >>
      /\ hurried' = (hurried /\ signals' # << >>)
      /\ UNCHANGED <<drive, m_status, m_statusExpected, m_track, m_tracks, m_playlist, modes, order>>
      /\ signals # << >> /\ Head(signals) # "tick" /\ DiscStatusTranslate(Head(signals)) = m_status
  BY DEF HandleSame, Handled, Shown, Ignores, Becomes, Under
<1>2. signals' = Tail(signals)
  BY <1>1, FirstSignal
<1>3. /\ Follows(signals, media, m_status) /\ Counted(signals, media, m_status, m_tracks)
      /\ Titled(signals, m_status, m_track, m_tracks, hurried)
  BY DEF IInv, Pending
<1>4. /\ Head(signals) = "Error" => m_status = "NoDisc"
      /\ Head(signals) = "Playing" => m_status = "Playing"
  BY <1>1 DEF DiscStatusTranslate
<1>5. Counted(signals', media, m_status, m_tracks)
  BY <1>1, <1>2, <1>3, <1>4, FirstSignal DEF Counted
<1>6. Titled(signals', m_status, m_track, m_tracks, hurried')
  BY <1>1, <1>2, <1>3, <1>4, FirstSignal DEF Titled, Counted
<1>7. Follows(signals', media, m_status)
  BY <1>1, <1>2, FirstSignal DEF Follows
<1>8. TicksPlay(signals', m_status)
  BY <1>1, <1>2, <1>4, FirstSignal
<1>9. ~hurried' => Calm(signals', media)
  BY <1>1, <1>2, FirstSignal
<1>10. Pending(signals', media, m_status, m_track, m_tracks, hurried')
  BY <1>5, <1>6, <1>7, <1>8, <1>9 DEF Pending
<1>11. Types'
  BY <1>1, <1>2, FirstSignal DEF IInv, Types, drive, modes
<1> QED
  BY <1>1, <1>10, <1>11, FirstSignal DEF IInv

\* The automatic advance keeps the inductive invariant.
LEMMA AdvanceStep == IInv /\ HandleAdvance => IInv'
<1> SUFFICES ASSUME IInv, HandleAdvance PROVE IInv'
  OBVIOUS
<1>1. PICK e \in InList(Following) :
        m_playlist' = e.list /\ MediaPlay(TrackOf(e), Tail(signals))
  BY DEF HandleAdvance
<1>2. ListOf(m_tracks, m_playlist') /\ TrackOf(e) \in Nat
  BY <1>1, EntryTrack
<1>3. /\ hurried' = (hurried /\ signals' # << >>)
      /\ UNCHANGED <<drive, m_status, m_statusExpected, m_track, m_tracks, modes, order>>
      /\ signals # << >> /\ Head(signals) = "Stopped"
  BY FirstSignal DEF HandleAdvance, Handled, Shown, Advances, DiscStatusTranslate, Under, Signal, State
<1>4. PICK s : /\ signals' = Tail(signals) \o s /\ Answer(media, media', s)
               /\ media.state = "Stopped" => media'.state = "Playing"
  BY <1>1, <1>2, PlayObeyed DEF Obeyed, IInv
<1>5. s = << >> => Tail(signals) # << >>
  BY <1>3, <1>4, FirstSignal DEF Answer
<1>6. Tail(signals) # << >> => Follows(Tail(signals), media, m_status)
  BY <1>3, FirstSignal
<1>7. Counted(Tail(signals), media, m_status, m_tracks) /\ TicksPlay(Tail(signals), m_status)
  BY <1>3, FirstSignal DEF IInv, Pending, Counted
<1>8. /\ signals' \in Seq(Signal) /\ Follows(signals', media', m_status)
      /\ TicksPlay(signals', m_status) /\ Counted(signals', media', m_status, m_tracks)
      /\ Failed(Tail(signals)) => Failed(signals')
  BY <1>3, <1>4, <1>5, <1>6, <1>7, FirstSignal, Appended
<1>9. signals' # << >>
  BY <1>3, <1>4, <1>5, FirstSignal DEF Answer
<1>10. Titled(signals', m_status, m_track, m_tracks, hurried')
  BY <1>3, <1>8, <1>9, FirstSignal DEF IInv, Pending, Titled
<1>11. ~hurried' => Calm(signals', media')
  <2> SUFFICES ASSUME ~hurried PROVE Calm(signals', media')
    BY <1>3, <1>9
  <2>1. Calm(signals, media) /\ signals \in Seq(Signal)
    BY DEF IInv, Pending, Types
  <2>2. \A i \in 1 .. Len(Tail(signals)) : Tail(signals)[i] = "Error"
    <3> SUFFICES ASSUME NEW i \in 1 .. Len(Tail(signals)) PROVE Tail(signals)[i] = "Error"
      OBVIOUS
    <3>1. /\ 1 \in 1 .. Len(signals) /\ i + 1 \in 1 .. Len(signals) /\ 1 < i + 1
          /\ signals[1] = "Stopped" /\ signals[i + 1] = Tail(signals)[i]
      BY <1>3, <2>1
    <3> QED
      BY <3>1, <2>1 DEF Calm
  <2> QED
    BY <1>3, <1>4, <2>2, CalmAppended, FirstSignal
<1>12. Pending(signals', media', m_status, m_track, m_tracks, hurried')
  BY <1>8, <1>10, <1>11 DEF Pending
<1>13. Types' /\ media'.state # "Loading"
  BY <1>3, <1>4, <1>8, FirstSignal DEF IInv, Types, Answer, drive, modes
<1> QED
  BY <1>2, <1>3, <1>12, <1>13 DEF IInv

\* The change of the status keeps the inductive invariant, as does the
\* ejection that may go with it.
LEMMA ChangeStep == IInv /\ HandleChange => IInv'
<1> SUFFICES ASSUME IInv, HandleChange PROVE IInv'
  OBVIOUS
<1>1. /\ hurried' = (hurried /\ signals' # << >>)
      /\ UNCHANGED <<disc, m_statusExpected, modes, order>>
      /\ signals # << >> /\ Head(signals) # "tick" /\ m_status' = DiscStatusTranslate(Head(signals))
      /\ m_status' # m_status /\ UpdateDisc
  BY DEF HandleChange, Handled, Shown, Under, DriveEject, drive
<1>2. /\ m_status' \in Status
      /\ Head(signals) = "Error" <=> m_status' = "NoDisc"
      /\ Head(signals) = "Playing" <=> m_status' = "Playing"
      /\ Head(signals) = "Stopped" <=> m_status' = "Stopped"
  BY <1>1, FirstSignal DEF DiscStatusTranslate, Signal, State, Status
<1>3. PICK s : /\ signals' = Tail(signals) \o s /\ Answer(media, media', s)
               /\ \/ s = << >> /\ media' = media
                  \/ /\ s \in {<< >>, <<"Error">>} /\ media'.state = "Error"
                     /\ m_status' = "Stopped"
  <2>1. CASE Fails(Tail(signals)) /\ m_status' = "Stopped"
    BY <2>1, FailObeyed DEF IInv
  <2>2. CASE Ignores(Tail(signals))
    BY <2>2, NoAnswer DEF Ignores, Becomes, IInv, Types
  <2> QED
    BY <2>1, <2>2 DEF HandleChange, DriveEject
<1>4. tray' \in {"closed", "ejected", "opened"}
  BY DEF HandleChange, DriveEject, drive, IInv, Types
<1>5. s = << >> => Tail(signals) # << >> \/ m_status' = DiscStatusTranslate(media.state)
  BY <1>1, <1>3, FirstSignal DEF Media, State
<1>6. s # << >> \/ Follows(Tail(signals), media, m_status')
  BY <1>5, FirstSignal, <1>1 DEF Follows
<1>7. TicksPlay(Tail(signals), m_status')
  BY <1>1, <1>2, FirstSignal
<1>8. ~hurried' => Calm(signals', media')
  <2>1. CASE signals' = << >>
    BY <2>1, NothingPending
  <2>2. CASE signals' # << >> /\ ~hurried
    <3>1. \A j \in 1 .. Len(s) : s[j] = "Error"
      BY <1>3
    <3>2. media'.state = "Error" \/ (media' = media /\ s = << >>)
      BY <1>3
    <3>3. CASE media'.state = "Error"
      <4>1. Calm(Tail(signals), media) /\ Tail(signals) \in Seq(Signal)
        BY <1>1, <2>2, FirstSignal
      <4> QED
        BY <3>1, <3>3, <4>1, <1>3, CalmAppended
    <3>4. CASE media' = media /\ s = << >>
      BY <2>2, <3>4, <1>3, FirstSignal
    <3> QED
      BY <3>2, <3>3, <3>4
  <2> QED
    BY <1>1, <2>1, <2>2
<1>9. /\ signals' \in Seq(Signal) /\ Follows(signals', media', m_status')
      /\ TicksPlay(signals', m_status')
      /\ Failed(Tail(signals)) => Failed(signals')
  BY <1>1, <1>3, <1>6, <1>7, FirstSignal, Appended
<1>10. /\ m_tracks' \in Nat /\ m_track' \in Nat /\ ListOf(m_tracks', m_playlist')
  <2>1. media'.titles \in Nat
    BY <1>3 DEF Answer, Media
  <2> QED
    BY <1>1, <2>1, MadePlaylist DEF UpdateDisc, IInv, Types, ListOf
<1>11. /\ Failed(signals) => m_status' = "NoDisc" \/ Failed(signals')
       /\ Failed(signals') => signals' # << >>
  BY <1>1, <1>2, <1>9, FirstSignal, NothingPending
<1>12. media'.state = "Error" => Failed(signals') \/ m_status' = "NoDisc"
  <2> SUFFICES ASSUME media'.state = "Error", m_status' # "NoDisc" PROVE Failed(signals')
    OBVIOUS
  <2>1. signals' # << >>
    BY <1>9 DEF Follows, DiscStatusTranslate
  <2>2. signals'[Len(signals')] = "Error" /\ Len(signals') \in 1 .. Len(signals')
    BY <1>9, <2>1 DEF Follows
  <2> QED
    BY <2>2 DEF Failed
<1>13. Counted(signals', media', m_status', m_tracks')
  <2>1. Counted(signals, media, m_status, m_tracks)
    BY DEF IInv, Pending
  <2>2. media'.titles = media.titles \/ media'.state = "Error"
    BY <1>3
  <2>3. media'.titles = 0 => media'.state = "Error"
    <3>1. media.titles = 0 => media.state = "Error"
      BY <1>1, FirstSignal DEF Media, HasTitles, State
    <3> QED
      BY <3>1, <1>3
  <2>4. media'.titles \in Nat
    BY <1>3 DEF Answer, Media
  <2> QED
    BY <2>1, <2>2, <2>3, <2>4, <1>1, <1>11, <1>12 DEF UpdateDisc, Counted
<1>14. Titled(signals', m_status', m_track', m_tracks', hurried')
  <2>1. Titled(signals, m_status, m_track, m_tracks, hurried)
    BY DEF IInv, Pending
  <2> QED
    BY <2>1, <1>1, <1>11 DEF UpdateDisc, Titled
<1>15. Pending(signals', media', m_status', m_track', m_tracks', hurried')
  BY <1>8, <1>9, <1>13, <1>14 DEF Pending
<1>16. Types' /\ media'.state # "Loading"
  BY <1>1, <1>2, <1>3, <1>4, <1>9, <1>10, FirstSignal DEF IInv, Types, Answer, modes
<1> QED
  BY <1>1, <1>10, <1>15, <1>16 DEF IInv

(***************************************************************************)
(* The backend, the drive and a person.                                    *)
(***************************************************************************)

\* The media object answers to nobody, without haste.
LEMMA WorldAnswer ==
  ASSUME IInv, NEW s, signals' = signals \o s, Answer(media, media', s), UNCHANGED player,
         \/ signals = << >>
         \/ s \in {<< >>, <<"Error">>} /\ media'.state = "Error"
         \/ media.state = "Playing" /\ s \in {<< >>, <<"Stopped">>},
         disc' \in Nat, tray' \in {"closed", "ejected", "opened"}, UNCHANGED modes
  PROVE  IInv'
<1>1. /\ signals \in Seq(Signal) /\ Media(media)
      /\ Pending(signals, media, m_status, m_track, m_tracks, hurried)
  BY DEF IInv, Types
<1>2. ~hurried => \A i \in 1 .. Len(signals) :
                    signals[i] = "Stopped" => \A j \in 1 .. Len(s) : s[j] = "Error"
  <2>1. CASE s = << >> \/ s = <<"Error">>
    BY <2>1
  <2>2. CASE signals = << >>
    BY <2>2
  <2>3. CASE media.state = "Playing"
    BY <2>3, <1>1, NoneStopped DEF Pending
  <2> QED
    BY <2>1, <2>2, <2>3
<1>3. (\E i \in 1 .. Len(signals) : signals[i] = "tick")
        => media'.state = "Error" \/ (media.state # "Error" /\ ~Failed(s))
  <2>1. CASE signals = << >>
    BY <2>1
  <2>2. CASE media.state = "Playing" /\ s \in {<< >>, <<"Stopped">>}
    BY <2>2, NothingPending DEF Failed
  <2> QED
    BY <2>1, <2>2
<1>4. signals' \in Seq(Signal) /\ Pending(signals', media', m_status, m_track, m_tracks, hurried)
  BY <1>1, <1>2, <1>3, PendingAppended
<1>5. media'.state = "Loading" => media' = media /\ signals' = signals
  BY <1>1 DEF Answer
<1>6. Types'
  BY <1>4 DEF IInv, Types, Answer, player, modes
<1> QED
  BY <1>4, <1>5, <1>6 DEF IInv, player

\* The source is loaded.
LEMMA LoadStep == IInv /\ Load => IInv'
<1> SUFFICES ASSUME IInv, Load PROVE IInv'
  OBVIOUS
<1>1. /\ signals = << >> /\ Media(media) /\ media.titles = 0 /\ UNCHANGED <<tray, disc>>
      /\ UNCHANGED player /\ UNCHANGED modes
      /\ tray \in {"closed", "ejected", "opened"} /\ disc \in Nat
  BY DEF Load, IInv, Types, Media, HasTitles, drive, player, modes
<1>2. CASE OpticalDisc
  <2> DEFINE n == [state |-> "Stopped", title |-> 1, titles |-> disc]
  <2>1. Media(n) /\ n.state = "Stopped"
    BY <1>1, <1>2 DEF Media, State, HasTitles, OpticalDisc
  <2>2. media' = n /\ signals' = signals \o <<n.state>>
    BY <1>2 DEF Load, Becomes
  <2> HIDE DEF n
  <2>3. Answer(media, media', <<n.state>>)
    BY <1>1, <2>1, <2>2, OneAnswer
  <2> QED
    BY <1>1, <2>2, <2>3, WorldAnswer
<1>3. CASE ~OpticalDisc
  <2>1. Fails(signals)
    BY <1>3 DEF Load
  <2> QED
    BY <1>1, <2>1, FailObeyed, WorldAnswer DEF IInv
<1> QED
  BY <1>2, <1>3

\* A title ends.
LEMMA TitleEndsStep == IInv /\ TitleEnds => IInv'
<1> SUFFICES ASSUME IInv, TitleEnds PROVE IInv'
  OBVIOUS
<1>1. /\ Media(media) /\ media.state = "Playing" /\ UNCHANGED <<tray, disc>>
      /\ UNCHANGED player /\ UNCHANGED modes
      /\ tray \in {"closed", "ejected", "opened"} /\ disc \in Nat
  BY DEF TitleEnds, IInv, Types, drive, player, modes
<1>2. CASE media.title < media.titles /\ Becomes([media EXCEPT !.title = @ + 1], signals, << >>)
  <2>1. Media(media') /\ media'.state = "Playing" /\ media'.titles = media.titles
    BY <1>1, <1>2 DEF Media, HasTitles, State, Becomes
  <2>2. signals' = signals \o << >>
    BY <1>2 DEF Becomes
  <2> QED
    BY <1>1, <2>1, <2>2, NoAnswer, WorldAnswer
<1>3. CASE Becomes([media EXCEPT !.state = "Stopped"], signals, <<"Stopped">>)
  <2>1. Media(media') /\ media'.state = "Stopped" /\ media'.titles = media.titles
    BY <1>1, <1>3 DEF Media, HasTitles, State, Becomes
  <2>2. signals' = signals \o <<media'.state>>
    BY <1>3, <2>1 DEF Becomes
  <2>3. Answer(media, media', <<media'.state>>)
    BY <2>1, OneAnswer
  <2> QED
    BY <1>1, <2>1, <2>2, <2>3, WorldAnswer
<1> QED
  BY <1>2, <1>3 DEF TitleEnds

\* A person opens and closes the tray.
LEMMA TrayStep == IInv /\ Tray => IInv'
<1> SUFFICES ASSUME IInv, Tray PROVE IInv'
  OBVIOUS
<1>1. /\ Media(media) /\ UNCHANGED player /\ UNCHANGED modes
      /\ disc' \in Nat /\ tray' \in {"closed", "ejected", "opened"}
  <2>1. Media(media) /\ disc \in Nat
    BY DEF IInv, Types
  <2>2. UNCHANGED player
    BY DEF Tray
  <2>3. UNCHANGED modes
    BY <2>2 DEF player
  <2>4. disc' \in {disc, 0} \cup Titles /\ tray' \in {"closed", "opened"}
    BY DEF Tray
  <2> QED
    BY <2>1, <2>2, <2>3, <2>4, PhononAssumption
<1>2. CASE Fails(signals)
  BY <1>1, <1>2, FailObeyed, WorldAnswer DEF IInv
<1>3. CASE Ignores(signals)
  <2>1. media' = media /\ signals' = signals
    BY <1>3 DEF Ignores, Becomes, IInv, Types
  <2>2. Types'
    BY <1>1, <2>1 DEF IInv, Types, player, modes
  <2> QED
    BY <1>1, <2>1, <2>2 DEF IInv, player
<1> QED
  BY <1>2, <1>3 DEF Tray

\* The media object ticks.
LEMMA TickedStep == IInv /\ Tick => IInv'
<1> SUFFICES ASSUME IInv, Tick PROVE IInv'
  OBVIOUS
<1>1. /\ Media(media) /\ signals \in Seq(Signal) /\ media.state = "Playing" /\ media' = media
      /\ signals' = signals \o <<"tick">> /\ UNCHANGED <<drive, player>>
      /\ \A i \in 1 .. Len(signals) : signals[i] # "tick"
      /\ Pending(signals, media, m_status, m_track, m_tracks, hurried)
  BY DEF Tick, Becomes, IInv, Types
<1>2. "tick" \in Signal
  BY DEF Signal
<1>3. /\ signals' \in Seq(Signal) /\ Len(signals') = Len(signals) + 1
      /\ signals'[Len(signals) + 1] = "tick" /\ signals' # << >>
      /\ \A i \in 1 .. Len(signals) : signals'[i] = signals[i]
      /\ \A i \in 1 .. Len(signals') : i \in 1 .. Len(signals) \/ i = Len(signals')
  BY <1>1, <1>2
<1>4. Follows(signals', media, m_status)
  BY <1>1, <1>3 DEF Follows
<1>5. TicksPlay(signals', m_status)
  <2>1. Len(signals') = 1 => m_status = "Playing"
    <3>1. Len(signals') = 1 => signals = << >>
      BY <1>1, <1>3
    <3> QED
      BY <3>1, <1>1 DEF Pending, Follows, DiscStatusTranslate
  <2>2. Len(signals') # 1 => signals'[Len(signals') - 1] = "Playing"
    <3> SUFFICES ASSUME Len(signals') # 1 PROVE signals'[Len(signals') - 1] = "Playing"
      OBVIOUS
    <3>1. signals # << >> /\ Len(signals) \in 1 .. Len(signals)
      BY <1>1, <1>3
    <3>2. signals[Len(signals)] = "Playing"
      BY <3>1, <1>1 DEF Pending, Follows
    <3> QED
      BY <3>1, <3>2, <1>1, <1>3
  <2> QED
    BY <2>1, <2>2, <1>1, <1>3 DEF TicksPlay
<1>6. Failed(signals) => Failed(signals')
  BY <1>3 DEF Failed
<1>7. ~hurried => Calm(signals', media)
  <2> SUFFICES ASSUME ~hurried PROVE Calm(signals', media)
    OBVIOUS
  <2>1. \A i \in 1 .. Len(signals) : signals[i] # "Stopped"
    BY <1>1, NoneStopped DEF Pending
  <2> QED
    BY <2>1, <1>1, <1>3 DEF Calm
<1>8. Pending(signals', media, m_status, m_track, m_tracks, hurried)
  BY <1>1, <1>4, <1>5, <1>6, <1>7 DEF Pending, Counted, Titled
<1>9. Types'
  BY <1>1, <1>3 DEF IInv, Types, drive, player, modes
<1> QED
  BY <1>1, <1>8, <1>9 DEF IInv, player

\* A new object.
LEMMA NewObject == Init => IInv
<1> SUFFICES ASSUME Init PROVE IInv
  OBVIOUS
<1>1. Len(<< >>) = 0 /\ << >> \in Seq(Signal) /\ signals = << >>
  BY DEF Init
<1>2. disc \in Nat
  BY PhononAssumption DEF Init
<1>3. Media(media)
  BY <1>2 DEF Init, Media, State, HasTitles
<1>4. /\ m_status = DiscStatusTranslate(media.state) /\ m_tracks = media.titles /\ m_track = 0
      /\ media.state \in {"Loading", "Stopped", "Error"}
      /\ media.state = "Stopped" => m_tracks # 0
  BY <1>2 DEF Init
<1>5. m_status = CASE media.state = "Loading" -> "NotReady"
                   [] media.state = "Stopped" -> "Stopped"
                   [] media.state = "Error"   -> "NoDisc"
  BY <1>4 DEF DiscStatusTranslate
<1>6. Types
  <2>1. m_status \in Status /\ m_statusExpected \in Status
    BY <1>4, <1>5 DEF Init, Status
  <2>2. m_tracks \in Nat
    BY <1>3, <1>4 DEF Media
  <2>3. tray = "closed" /\ m_loopPlaylist = FALSE /\ m_randomPlaylist = FALSE /\ hurried = FALSE
    BY DEF Init
  <2> QED
    BY <1>1, <1>2, <1>3, <1>4, <2>1, <2>2, <2>3 DEF Types
<1>7. Pending(signals, media, m_status, m_track, m_tracks, hurried)
  BY <1>1, <1>3, <1>4, <1>5, NothingPending
  DEF Pending, Follows, Counted, Titled, Media, HasTitles
<1>8. ListOf(m_tracks, m_playlist)
  <2>1. m_tracks \in Nat /\ m_playlist = [i \in 1 .. m_tracks |-> i]
    BY <1>6 DEF Init, Types
  <2>2. m_playlist \in Playlists(m_tracks, FALSE)
    BY <2>1 DEF Playlists
  <2> QED
    BY <2>1, <2>2, MadePlaylist DEF ListOf
<1> QED
  BY <1>1, <1>4, <1>5, <1>6, <1>7, <1>8 DEF Init, IInv, Media, HasTitles

\* Every step keeps the inductive invariant.
LEMMA PhononStep == IInv /\ [Next]_vars => IInv'
<1> SUFFICES ASSUME IInv, [Next]_vars PROVE IInv'
  OBVIOUS
<1>1. CASE UNCHANGED vars
  BY <1>1 DEF vars, IInv, Types, drive, modes
<1>2. CASE Deliver
  BY <1>2, TickStep, SameStep, AdvanceStep, ChangeStep DEF Deliver
<1> QED
  BY <1>1, <1>2, SlotStep, LoadStep, TitleEndsStep, TickedStep, TrayStep DEF Next

(***************************************************************************)
(* The theorems.                                                           *)
(***************************************************************************)

\* The inductive invariant: types, what the signals under way still have to
\* tell the object, and what the last order has it expect.
THEOREM PhononInvariant == Spec => []IInv
<1> QED
  BY NewObject, PhononStep, PTL DEF Spec

\* Once the event loop has handled every signal, the object shows the state of
\* the media object, and has counted and listed the titles of its disc.
THEOREM PhononSettlesOnDisc == Spec => []SettlesOnDisc
<1>1. IInv => SettlesOnDisc
  <2> SUFFICES ASSUME IInv, signals = << >>
               PROVE  /\ m_status = DiscStatusTranslate(media.state)
                      /\ m_tracks = media.titles
                      /\ m_tracks # 0 => m_playlist \in Injection(1 .. m_tracks, 1 .. m_tracks)
    BY DEF SettlesOnDisc
  <2>1. m_status = DiscStatusTranslate(media.state) /\ ~Failed(signals)
    BY NothingPending DEF IInv, Pending, Follows
  <2>2. m_tracks # 0 => m_tracks = media.titles
    BY <2>1 DEF IInv, Pending, Counted
  <2>3. m_tracks = 0 => m_status \in {"NoDisc", "NotReady"}
    BY <2>1 DEF IInv, Pending, Counted
  <2>4. Media(media)
    BY DEF IInv, Types
  <2>5. m_status \in {"NoDisc", "NotReady"} => media.state \in {"Error", "Loading"}
    BY <2>1, <2>4 DEF Media, State, DiscStatusTranslate
  <2> QED
    BY <2>1, <2>2, <2>3, <2>4, <2>5 DEF IInv, ListOf, Media, HasTitles
<1> QED
  BY <1>1, PhononInvariant, PTL

\* The meta data of another title is asked for only while the lists of artists
\* and titles have an entry for it.
THEOREM PhononTitleInList == Spec => TitleInList
<1>1. IInv /\ [Next]_vars =>
        [~hurried /\ HandleTick /\ m_track' # m_track => m_tracks # 0 /\ m_track' <= m_tracks]_vars
  <2> SUFFICES ASSUME IInv, ~hurried, HandleTick, m_track' # m_track
               PROVE  m_tracks # 0 /\ m_track' <= m_tracks
    OBVIOUS
  <2>1. /\ m_track' = media.title /\ signals # << >> /\ Head(signals) = "tick"
        /\ signals \in Seq(Signal) /\ Media(media) /\ m_track \in Nat /\ m_tracks \in Nat
        /\ Counted(signals, media, m_status, m_tracks)
        /\ Titled(signals, m_status, m_track, m_tracks, hurried)
        /\ Calm(signals, media)
    BY DEF HandleTick, IInv, Types, Pending
  <2>2. m_status = "Playing"
    BY <2>1, FirstSignal
  <2>3. CASE Failed(signals)
    <3>1. PICK i \in 1 .. Len(signals) : signals[i] = "Error"
      BY <2>3 DEF Failed
    <3>2. 1 \in 1 .. Len(signals) /\ signals[1] = "tick" /\ 1 < i
      BY <2>1, <3>1
    <3>3. media.state = "Error"
      BY <2>1, <3>1, <3>2 DEF Calm
    <3>4. m_track' = 0
      BY <2>1, <3>3 DEF Media, HasTitles
    <3> QED
      BY <2>1, <3>4 DEF Titled
  <2>4. CASE ~Failed(signals)
    <3>1. m_tracks # 0 /\ m_tracks = media.titles
      BY <2>1, <2>2, <2>4 DEF Counted
    <3> QED
      BY <2>1, <3>1 DEF Media
  <2> QED
    BY <2>3, <2>4
<1> QED
  BY <1>1, PhononInvariant, PTL DEF Spec, TitleInList

\* Of itself, the object does not leave a title that plays or is paused for
\* another, however far the signals it has not handled lag behind.
THEOREM PhononTitleNotInterrupted == Spec => TitleNotInterrupted
<1>1. IInv /\ [Next]_vars =>
        [~hurried /\ Deliver /\ media.state \in {"Playing", "Paused"}
           => media'.title \in {media.title, 0}]_vars
  <2> SUFFICES ASSUME IInv, ~hurried, Deliver, media.state \in {"Playing", "Paused"}
               PROVE  media'.title \in {media.title, 0}
    OBVIOUS
  <2>1. ~HandleAdvance
    <3> SUFFICES ASSUME HandleAdvance PROVE FALSE
      OBVIOUS
    <3>1. /\ signals # << >> /\ signals \in Seq(Signal)
          /\ Follows(signals, media, m_status) /\ Calm(signals, media)
      BY DEF HandleAdvance, Handled, IInv, Types, Pending
    <3>2. Head(signals) = "Stopped"
      BY FirstSignal DEF HandleAdvance, Handled, Shown, Advances, DiscStatusTranslate,
                         Signal, State
    <3>3. 1 \in 1 .. Len(signals) /\ signals[1] = "Stopped"
      BY <3>1, <3>2
    <3> QED
      BY <3>1, <3>3, NoneStopped
  <2>2. CASE HandleTick \/ HandleSame
    BY <2>2 DEF HandleTick, HandleSame, Ignores, Becomes
  <2>3. CASE HandleChange
    BY <2>3 DEF HandleChange, DriveEject, Fails, Ignores, Becomes
  <2> QED
    BY <2>1, <2>2, <2>3 DEF Deliver
<1> QED
  BY <1>1, PhononInvariant, PTL DEF Spec, TitleNotInterrupted

\* What the application observes is a Player: whatever signals are under way,
\* the object is silent once it has been told to stop, plays on only if it has
\* not, and ejects the disc only if that was ordered last.
THEOREM PhononServesOrders == Spec => ServesOrders
<1>1. Init => P!Init
  BY DEF Init, P!Init
<1>2. IInv /\ [Next]_vars => [P!Next]_P!vars
  <2> SUFFICES ASSUME IInv, [Next]_vars PROVE [P!Next]_P!vars
    OBVIOUS
  <2>1. CASE PlayTrackSlot \/ PlayPosition
    BY <2>1 DEF PlayTrackSlot, PlayPosition, Ordered, drive, P!Next, P!Order, P!Play
  <2>2. CASE NextTrack \/ PrevTrack \/ Play
    <3>1. UNCHANGED drive
      BY <2>2 DEF NextTrack, PrevTrack, Play, PlayEntry
    <3>2. order' = "play" \/ UNCHANGED <<media, order>>
      BY <2>2 DEF NextTrack, PrevTrack, Play, PlayEntry, Ordered
    <3> QED
      BY <3>1, <3>2 DEF drive, P!Next, P!Order, P!Play, P!vars
  <2>3. CASE Pause
    BY <2>3 DEF Pause, Ordered, drive, P!Next, P!Order, P!Pause
  <2>4. CASE Stop \/ EjectPlaying
    <3>1. media'.state # "Playing" /\ UNCHANGED drive
      BY <2>4, StopObeyed DEF Stop, EjectPlaying, Obeyed, IInv
    <3> QED
      BY <2>4, <3>1 DEF Stop, EjectPlaying, Ordered, drive,
                        P!Next, P!Order, P!Stop, P!Eject, P!NoStart
  <2>5. CASE EjectStopped
    <3>1. media' = media \/ media'.state = "Error"
      BY <2>5, FailObeyed, IgnoreObeyed DEF EjectStopped, DriveEject, IInv
    <3> QED
      BY <2>5, <3>1 DEF EjectStopped, Ordered, DriveEject, drive,
                        P!Next, P!Order, P!Eject, P!NoStart
  <2>6. CASE SetLoopPlaylist \/ SetRandomPlaylist \/ HandleTick \/ HandleSame \/ Tick
             \/ UNCHANGED vars
    BY <2>6 DEF SetLoopPlaylist, SetRandomPlaylist, HandleTick, HandleSame, Tick, Ignores,
                Becomes, player, drive, vars, P!vars
  <2>7. CASE HandleAdvance
    <3>1. PICK e \in InList(Following) : MediaPlay(TrackOf(e), Tail(signals))
      BY <2>7 DEF HandleAdvance
    <3>2. media'.state \in {"Playing", media.state}
      BY <3>1, EntryTrack, PlayObeyed DEF Obeyed, IInv
    <3>3. order \notin {"stop", "close"} /\ UNCHANGED <<drive, order>>
      BY <2>7 DEF HandleAdvance, Advances, IInv
    <3> QED
      BY <3>2, <3>3 DEF drive, P!Next, P!GoesOn, P!vars
  <2>8. CASE HandleChange
    <3>1. CASE Ignores(Tail(signals)) /\ UNCHANGED drive
      BY <2>8, <3>1 DEF HandleChange, Ignores, Becomes, drive, P!vars
    <3>2. CASE OpticalDisc /\ Fails(Tail(signals)) /\ tray' = "ejected" /\ m_statusExpected = "Ejected"
      <4>1. media'.state = "Error" /\ order = "eject" /\ order' = order
        BY <2>8, <3>2, FailObeyed DEF HandleChange, IInv
      <4> QED
        BY <3>2, <4>1 DEF P!Next, P!Ejects
    <3> QED
      BY <2>8, <3>1, <3>2 DEF HandleChange, DriveEject
  <2>9. CASE Load \/ TitleEnds
    <3>1. media' = media \/ media'.state # "Playing" \/ (media.state = "Playing" /\ media'.state = "Playing")
      <4>1. CASE TitleEnds
        BY <4>1 DEF TitleEnds, Becomes, IInv, Types, Media
      <4>2. CASE Load
        BY <4>2 DEF Load, Fails, Becomes, Ignores
      <4> QED
        BY <2>9, <4>1, <4>2
    <3>2. UNCHANGED <<drive, order>>
      BY <2>9 DEF Load, TitleEnds, player
    <3> QED
      BY <3>1, <3>2 DEF drive, P!Next, P!Silence, P!vars
  <2>10. CASE Tray
    <3>1. CASE tray = "closed" /\ Fails(signals) /\ tray' = "opened"
      BY <2>10, <3>1, FailObeyed DEF Tray, player, IInv, P!Next, P!Opened
    <3>2. CASE tray # "closed" /\ Ignores(signals) /\ tray' = "closed"
      BY <2>10, <3>2 DEF Tray, player, Ignores, Becomes, P!Next, P!Closed, P!NoStart
    <3> QED
      BY <2>10, <3>1, <3>2 DEF Tray
  <2> QED
    BY <2>1, <2>2, <2>3, <2>4, <2>5, <2>6, <2>7, <2>8, <2>9, <2>10 DEF Next, Slot, Deliver
<1> QED
  BY <1>1, <1>2, PhononInvariant, PTL DEF Spec, ServesOrders, P!Spec
=============================================================================

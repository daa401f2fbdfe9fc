------------------------------ MODULE MCCdtext ------------------------------
EXTENDS Cdtext, TLC
CONSTANTS h1, h2

\* A text for each entry of a list of two tracks, and of one.
Two(a, b, c) == 0 :> a @@ 1 :> b @@ 2 :> c
One(a, b) == 0 :> a @@ 1 :> b
Block(code, name, performer) ==
  [code |-> code, unicode |-> FALSE, name |-> name, performer |-> performer]

A == <<"a">>  B == <<"b">>  AB == <<"a", "b">>  None == << >>

\* The discs of the run: texts over several packs; as many tracks, and nothing in
\* common, in blocks that are read in turns; one track, in characters of two
\* bytes.
Plain ==
  [tracks |-> 2, byKind |-> FALSE,
   blocks |-> <<Block(3, Two(AB, A \o AB \o AB, None), Two(A, A, B))>>]
Turns ==
  [tracks |-> 2, byKind |-> TRUE,
   blocks |-> <<Block(3, Two(B, None, B), Two(None, None, None)),
                Block(0, Two(A, None, None), Two(None, B, None))>>]
Wide ==
  [tracks |-> 1, byKind |-> FALSE,
   blocks |-> <<[Block(1, One(A \o AB, AB \o B), One(A, A)) EXCEPT !.unicode = TRUE]>>]

MCDiscsOf == h1 :> {Plain, Turns} @@ h2 :> {Wide}

\* Reading is checked on more of them: all texts of two entries over a few
\* words, eight blocks, also one too many when they are read in turns, and none.
Words == {None, A, AB, A \o AB, AB \o AB}
Short == {[tracks |-> 1, byKind |-> b, blocks |-> <<Block(1, One(t, u), One(u, v))>>]
            : b \in BOOLEAN, t \in Words, u \in Words, v \in Words}
Eight == {[tracks |-> 2, byKind |-> b,
           blocks |-> [i \in 1 .. 8 |-> Block(i - 1, Two(A, B, A), Two(B, A, B))]]
            : b \in BOOLEAN}
Silent == [Plain EXCEPT !.blocks = << >>]

ASSUME \A d \in {Plain, Turns, Wide, Silent} \cup Short \cup Eight : ReadsRight(d)
MCHandles == {h1, h2}
=============================================================================

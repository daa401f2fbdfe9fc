---------------------------- MODULE MCInterface ----------------------------
EXTENDS Interface

\* The disc in the first device has two tracks, that in the second has one.
MCTracks == <<2, 1>>

First == INSTANCE Player WITH
  order <- orders[1], playing <- drives[1].mode = "Playing", tray <- drives[1].tray
Second == INSTANCE Player WITH
  order <- orders[2], playing <- drives[2].mode = "Playing", tray <- drives[2].tray

\* Each device is a Player for the orders its implementation was given, also
\* when setDevice has left it behind, when the orders come from handlers that a
\* poll waits for, and when the object is destroyed.
ServesOrders == First!Spec /\ Second!Spec
=============================================================================

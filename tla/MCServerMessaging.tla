------------------------- MODULE MCServerMessaging -------------------------
EXTENDS ServerMessaging, TLC
CONSTANTS a, b, a1, a2, b1

\* a has two devices and a dialog with itself besides the one with b.
MCOwner == (a1 :> a) @@ (a2 :> a) @@ (b1 :> b)

\* b is on another server than a; a dialog of a user with itself stays on one.
MCDc == (a :> 1) @@ (b :> 2)

\* The second device of a only reads.
MCWrites == {<<a1, a>>, <<a1, b>>, <<b1, a>>}
=============================================================================

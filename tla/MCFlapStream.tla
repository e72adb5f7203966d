---------------------------- MODULE MCFlapStream ----------------------------
(* An instance of FlapStream for TLC. *)
EXTENDS FlapStream

\* The hello of channel 1 cut to nothing, and data that looks like the start
\* of a FLAP and has a byte that is negative as a char.
Flaps == { [chan |-> 1, body |-> <<>>], [chan |-> 2, body |-> <<42, 200, 0>>] }
=============================================================================

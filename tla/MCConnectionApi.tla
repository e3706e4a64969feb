--------------------------- MODULE MCConnectionApi ---------------------------
(* Delays for ConnectionApi: the first attempt is made at once. *)
EXTENDS ConnectionApi

MCIntervals == <<0, 5>>
=============================================================================

-------------------------- MODULE MCServerSessions --------------------------
(* Connections, session ids and keys are interchangeable. *)
EXTENDS ServerSessions, TLC

Symmetry == Permutations(Conns) \cup Permutations(Sessions) \cup Permutations(Keys)
=============================================================================

-------------------------- MODULE MCSessionStream --------------------------
(***************************************************************************)
(* Instances of SessionStream for TLC: one connection, which is attached   *)
(* several times.  Connections share only the session's own variables,     *)
(* which the threads of the session already change at every point.         *)
(***************************************************************************)
EXTENDS SessionStream

=============================================================================

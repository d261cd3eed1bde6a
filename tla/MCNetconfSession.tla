-------------------------- MODULE MCNetconfSession --------------------------
(***************************************************************************)
(* NetconfSession for TLC: a <hello> and two requests on a channel, and a  *)
(* second channel on the same connection.                                  *)
(***************************************************************************)
EXTENDS NetconfSession
=============================================================================

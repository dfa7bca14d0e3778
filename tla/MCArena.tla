------------------------------- MODULE MCArena -------------------------------
(***************************************************************************)
(* A small arena for TLC: requests below, at and above what it has left.   *)
(***************************************************************************)
EXTENDS Arena

MCRequests == {0, 1, 3, 6}
MCMsgLens  == {1, 2}
=============================================================================

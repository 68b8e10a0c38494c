------------------------------- MODULE MCBook -------------------------------
(***************************************************************************)
(* Book for TLC.  The ids of channels can be exchanged: nothing compares   *)
(* them except for equality.                                               *)
(***************************************************************************)
EXTENDS Book

ChannelSymmetry == Permutations(Channels)

=============================================================================

----------------------------- MODULE MCResender -----------------------------
(* Instances of Resender for TLC.                                          *)
EXTENDS Resender

MCMaxQueued == [t \in CommandTypes |-> IF t = "Command" THEN 3 ELSE 1]

=============================================================================

---------------------------- MODULE MCAudioQueue ----------------------------
(***************************************************************************)
(* Streams for the runs of AudioQueue: a talker with frames of the usual   *)
(* size and a longer one, whose stream ends, and one who sends a packet    *)
(* that is not opus and one that is too big.                               *)
(***************************************************************************)
EXTENDS AudioQueue

CONSTANTS alice, bob

MCStreams == alice :> {<<2, 2, 3, 5, 2, 0>>} @@ bob :> {<<2, -1>>}

=============================================================================

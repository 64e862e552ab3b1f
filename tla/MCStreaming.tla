---------------------------- MODULE MCStreaming ----------------------------
(* Constants of the run of Streaming. *)
EXTENDS Streaming, TLC

\* One chunk a packet, but the first packets are larger than the estimate has it.
Skewed == 0 :> 0 @@ 1 :> 1 @@ 2 :> 2 @@ 3 :> 2 @@ 4 :> 3

AtTheStart == <<0>>
=============================================================================

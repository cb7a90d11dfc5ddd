---------------------------- MODULE NMChannel_MC ----------------------------
(* Instances of NMChannel for TLC. *)
EXTENDS NMChannel
=============================================================================

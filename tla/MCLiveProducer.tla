-------------------------- MODULE MCLiveProducer --------------------------
(* Instances of LiveProducer for TLC. *)
EXTENDS LiveProducer
=============================================================================

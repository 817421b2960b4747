---------------------------- MODULE MCRelayVoice ----------------------------
(* Instances of RelayVoice for TLC. *)
EXTENDS RelayVoice
=============================================================================

--------------------------- MODULE MCProviderStreams ---------------------------
(***************************************************************************)
(* ProviderStreams by itself, over every reply of at most three blocks.    *)
(***************************************************************************)
EXTENDS ProviderStreams

MCReplies == UNION {[1..n -> {"text", "call"}] : n \in 0..3}
=============================================================================

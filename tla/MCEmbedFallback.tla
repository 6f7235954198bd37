--------------------------- MODULE MCEmbedFallback ---------------------------
(* Instances of EmbedFallback for TLC.                                     *)
EXTENDS EmbedFallback
=============================================================================

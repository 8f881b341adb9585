----------------------------- MODULE MCJsonExtract ----------------------------
(***************************************************************************)
(* Instances of JsonExtract for TLC: every text up to a length.            *)
(***************************************************************************)
EXTENDS JsonExtract

mcPieces == {"open", "close", "quote", "backslash", "prose", "fence_json", "fence_line", "fence"}
===============================================================================

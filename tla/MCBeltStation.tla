--------------------------- MODULE MCBeltStation ---------------------------
(* Two belts: the first with block detection, the second, the last of the  *)
(* station, with accumulation and the downstream release input.            *)
EXTENDS BeltStation

TwoBelts == <<{"link", "block"}, {"link", "photo", "io"}>>
=============================================================================

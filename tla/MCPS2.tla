-------------------------------- MODULE MCPS2 --------------------------------
(***************************************************************************)
(* Two keys, the first of them Enter (0x5A in scan code set 2), one mouse  *)
(* packet, one poll.                                                       *)
(***************************************************************************)
EXTENDS PS2

TwoKeys == <<Bits(\h5A), Bits(\h1C)>>

TwoConfigs == {Bits(\h47), Bits(\h30)}
=============================================================================

--------------------------- MODULE MCSegmentation ---------------------------
(* Two payloads of eight data segments and one parity segment, one of      *)
(* which does not fill its last segment, and one too short for parity.     *)
EXTENDS Segmentation

MCPayloadSize(m) ==
  IF m = "full" THEN 16 ELSE IF m = "ragged" THEN 15 ELSE 3
=============================================================================

--------------------------- MODULE MCReceivePath ----------------------------
(* Chat messages in the clear, of two segments, or encrypted with a group  *)
(* key, and the message that brings that key.                              *)
EXTENDS ReceivePath

MCPayloadSize(m) == IF m = "big" THEN 4 ELSE 1
MCNeedsKey(m) == IF m = "secret" THEN "k" ELSE NoKey
MCCarriesKey(m) == IF m = "keys" THEN "k" ELSE NoKey
=============================================================================

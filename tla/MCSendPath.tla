----------------------------- MODULE MCSendPath -----------------------------
(* Two datasync payloads of two messages each, one message in both: the    *)
(* first payload is split into two envelopes, the second fits in one.      *)
EXTENDS SendPath

MCMessageIDsOf(d) == IF d = "split" THEN {"m1", "m2"} ELSE {"m2", "m3"}
MCSegmentsOf(d) == IF d = "split" THEN 2 ELSE 1
=============================================================================

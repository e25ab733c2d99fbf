------------------------- MODULE MCEnvelopesMonitor -------------------------
(* EnvelopesMonitor with interchangeable hashes and messages. *)
EXTENDS EnvelopesMonitor, TLC

Symmetry == Permutations(Hash) \cup Permutations(MessageID)
=============================================================================

----------------------------- MODULE MCContacts -----------------------------
(* Two accounts, which are interchangeable. *)
EXTENDS Contacts, TLC

Symmetry == Permutations(Party)
=============================================================================

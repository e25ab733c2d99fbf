----------------------------- MODULE MCGroupChat -----------------------------
(* An instance of GroupChat: ann and cyn are contacts of bob only. *)
EXTENDS GroupChat

CONSTANTS ann, bob, cyn

Chain == {{ann, bob}, {bob, cyn}}
NameAndImage == {<<"name", "image">>}
NoSkew == [x \in Accounts |-> 0]
AheadB == [x \in Accounts |-> IF x = bob THEN 2 ELSE 0]
=============================================================================

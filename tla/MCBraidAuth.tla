----------------------------- MODULE MCBraidAuth -----------------------------
(* Two clients, each with its own bogus recovery address; sessions and     *)
(* challenges enough for every request to need a fresh one.               *)
EXTENDS BraidAuth, TLC

CONSTANTS c1, c2, b1, b2, s1, s2, s3, s4, ch1, ch2, ch3, ch4

MCClients == {c1, c2}
MCAttackers == {c2}
MCBogusOf == (c1 :> b1) @@ (c2 :> b2)
MCSessionIds == {s1, s2, s3, s4}
MCChallengeIds == {ch1, ch2, ch3, ch4}
=============================================================================

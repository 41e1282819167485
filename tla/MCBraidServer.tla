---------------------------- MODULE MCBraidServer ----------------------------
(* Two concurrent subscription requests against one transport lifetime.   *)
EXTENDS BraidServer

CONSTANTS h1, h2

MCHandlers == {h1, h2}
=============================================================================

---------------------------- MODULE MCBraidLogger ----------------------------
(* Three loggers: gLogger and two that goroutines construct with labels of *)
(* length 1 or 2 (or none), one relabel, verbose levels 0..2 at -v=1.      *)
EXTENDS BraidLogger

CONSTANTS g, l1, l2

MCLoggers == {g, l1, l2}
=============================================================================

---------------------------- MODULE MCFscacheLru ----------------------------
(* Model values for FscacheLru.                                            *)
EXTENDS FscacheLru

CONSTANTS r1, a1, a2

MCEntry     == {r1, a1, a2}
MCRootEntry == {r1}
=============================================================================

---------------------------- MODULE MCKonicaLink ----------------------------
(* Timers for KonicaLink.                                                  *)
EXTENDS KonicaLink

CONSTANTS t1, t2

MCTimer == {t1, t2}
=============================================================================

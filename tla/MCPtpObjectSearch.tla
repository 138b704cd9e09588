-------------------------- MODULE MCPtpObjectSearch --------------------------
(* Handles for PtpObjectSearch.                                            *)
EXTENDS PtpObjectSearch

MCNearHandle == 5 .. 9
=============================================================================

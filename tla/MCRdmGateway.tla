---------------------------- MODULE MCRdmGateway ----------------------------
(* RdmGateway with three UIDs and a table of two.                         *)
EXTENDS RdmGateway

MCUid == 0 .. 2
=============================================================================

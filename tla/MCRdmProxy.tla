----------------------------- MODULE MCRdmProxy -----------------------------
(* RdmProxy with UIDs of three bits and the counters of the code.          *)
EXTENDS RdmProxy

MCProxied == {0, 2, 3, 6}
=============================================================================

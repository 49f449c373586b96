---------------------------- MODULE MCArtNetRdm -----------------------------
(* Two ports with an address of their own, in a network that falls silent  *)
(* and in one that sends ArtSync as well.  (What a network does where only *)
(* ArtSync is sent, it does in the latter too.)                            *)
EXTENDS ArtNetRdm

MCOwnAddress == [p \in 0 .. 1 |-> p]
MCNetworks   == {{"silence"}, {"sync", "silence"}}

\* Whether a discovery is a full one decides no step of the node and no
\* property of it: states that differ in that alone are explored once.
MCView == <<job, finished, turn, enabled, waiting, running, bgVars, output, discovery_disabled, network>>
=============================================================================

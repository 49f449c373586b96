----------------------------- MODULE MCRdmLine ------------------------------
(* RdmLine with UIDs of three bits and the counters of the code.           *)
EXTENDS RdmLine, RdmBranches

MCHalving == <<7, 4, 2, 1>>   \* a branch of 7 UIDs has halves of 3 and 4

\* Two discoveries on a line that changes between them and loses frames; one
\* of more devices than the table has room for; and two discoveries, one of
\* them stopped, with an answer that is late.
MCChanging == [devices |-> {0, 1, 6}, losses |-> 2, lates |-> 0, changes |-> 1, runs |-> 2, stops |-> 0]
MCCrowd    == [devices |-> {0, 1, 2, 3, 5, 6}, losses |-> 0, lates |-> 0, changes |-> 0, runs |-> 1, stops |-> 0]
MCLate     == [devices |-> {1, 2}, losses |-> 1, lates |-> 1, changes |-> 0, runs |-> 2, stops |-> 1]
MCScenarios == {MCChanging, MCCrowd, MCLate}
=============================================================================

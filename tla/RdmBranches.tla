----------------------------- MODULE RdmBranches ----------------------------
(***************************************************************************)
(* Why the stack of the discovery never overflows and nothing is searched  *)
(* twice: the strengthened invariants of RdmDiscovery from which           *)
(* RdmLine_proofs proves StackHasRoom and BranchesDisjoint.                *)
(*                                                                         *)
(* Halving[k] is the most UIDs a branch can hold after it has been halved  *)
(* k - 1 times; with UIDs of 48 bits it has 48 steps, and kTableSize is    *)
(* 200.                                                                    *)
(***************************************************************************)
EXTENDS RdmDiscovery

CONSTANT Halving

Depth == Len(Halving)

ASSUME HalvingAssumption ==
    /\ Halving \in Seq(Nat)
    /\ Depth >= 1 /\ Depth <= TableSize
    /\ Halving[1] >= MaxUid + 1
    /\ \A k \in 1 .. (Depth - 1) : Halving[k] <= 2 * Halving[k + 1]
    /\ Halving[Depth] = 1

\* Which states use the open branch, and whether a request of DISCOVERY is
\* under way in them.
Splitting == Phase \in {"Dub", "Quickfind", "QuickfindDiscovery"} \/ (Phase = "Discovery" /\ discovery.running)

PhaseOK ==
    /\ state = "LateResponse" => saved_state # "LateResponse"
    /\ Phase \in {"Unmute", "Mute", "DiscoverySingleDevice", "Dub", "Quickfind", "QuickfindDiscovery"}
          => ~discovery.running
    /\ Phase = "DiscoverySingleDevice" => discovery.lb = discovery.ub
    /\ Splitting => discovery.lb < discovery.ub

Size(branch) == branch.ub - branch.lb + 1

\* An entry of the stack, and the branch that was on top of it, has been
\* halved at least as often as there are entries below it.
BranchesShrink ==
    /\ Len(stack) <= Depth
    /\ \A i \in 1 .. Len(stack) : Size(stack[i]) <= Halving[i]
    /\ BranchOpen => /\ Len(stack) + 1 <= Depth
                     /\ Size(discovery) <= Halving[Len(stack) + 1]

BranchesInv == PhaseOK /\ BranchesDisjoint /\ BranchesShrink
=============================================================================

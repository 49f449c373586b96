---------------------------- MODULE RdmResponders ---------------------------
(***************************************************************************)
(* What an Input Gateway promises to the RDM controller on its DMX512      *)
(* line: to stand in for a set of responders, each muted or not.  Tables,  *)
(* positions and round robins do not exist here.                           *)
(***************************************************************************)
EXTENDS Naturals, FiniteSets

CONSTANTS Uid, TableSize

VARIABLES
    known,      \* the responders stood in for
    muted,      \* those of them that are muted
    answer      \* the frame sent on the line by the last step

vars == <<known, muted, answer>>

Silent         == [kind |-> "none", uid |-> 0]
MuteAck(uid)   == [kind |-> "mute", uid |-> uid]
UnMuteAck(uid) == [kind |-> "unmute", uid |-> uid]
BranchAck(uid) == [kind |-> "branch", uid |-> uid]

Init == known = {} /\ muted = {} /\ answer = Silent

\* Responders become known, none of them muted, as long as there is room.
Learn ==
    /\ known' \in SUBSET Uid /\ known \subseteq known'
    /\ Cardinality(known') <= TableSize
    /\ UNCHANGED muted /\ answer' = Silent

Forget == known' = {} /\ muted' = {} /\ answer' = Silent

MuteOne(uid) ==
    /\ uid \in known
    /\ muted' = muted \cup {uid} /\ answer' = MuteAck(uid)
    /\ UNCHANGED known

UnMuteOne(uid) ==
    /\ uid \in known
    /\ muted' = muted \ {uid} /\ answer' = UnMuteAck(uid)
    /\ UNCHANGED known

UnMuteEveryone == muted' = {} /\ answer' = Silent /\ UNCHANGED known

\* Only a responder that is not muted is heard on a branch.
AnswerBranch(uid) ==
    /\ uid \in known \ muted
    /\ answer' = BranchAck(uid)
    /\ UNCHANGED <<known, muted>>

StaySilent == answer' = Silent /\ UNCHANGED <<known, muted>>

Next ==
    \/ Learn \/ Forget \/ UnMuteEveryone \/ StaySilent
    \/ \E uid \in Uid : MuteOne(uid) \/ UnMuteOne(uid) \/ AnswerBranch(uid)

Spec == Init /\ [][Next]_vars
=============================================================================

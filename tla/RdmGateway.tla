----------------------------- MODULE RdmGateway -----------------------------
(***************************************************************************)
(* One port of the Art-Net node as an Input Gateway: its table is filled   *)
(* from ArtTodData, and ArtNetRdmController::RdmReceive answers the RDM    *)
(* controller on the DMX512 line in the name of the UIDs in it.            *)
(***************************************************************************)
EXTENDS Naturals, Sequences, FiniteSets

CONSTANTS Uid, UidAll, TableSize

ASSUME GatewayAssumption ==
    Uid \subseteq Nat /\ UidAll \in Nat \ Uid /\ TableSize \in Nat \ {0}

VARIABLES
    tod,        \* s_tod[port_index]
    answer      \* what the last message on the line was answered with

vars == <<tod, answer>>

Table == INSTANCE RdmTod

Silent         == [kind |-> "none", uid |-> 0]
Forwarded      == [kind |-> "forward", uid |-> 0]
MuteAck(uid)   == [kind |-> "mute", uid |-> uid]
UnMuteAck(uid) == [kind |-> "unmute", uid |-> uid]
BranchAck(uid) == [kind |-> "branch", uid |-> uid]

\* A message: its destination (the vendor broadcasts count as UidAll), its
\* parameter ("GET_SET" for the two other command classes), the range of a
\* DISC_UNIQUE_BRANCH, and whether the others carry no parameter data.
Dst == Uid \cup {UidAll}
Pids == {"GET_SET", "DISC_UNIQUE_BRANCH", "DISC_UN_MUTE", "DISC_MUTE"}
Message == [dst : Dst, pid : {"DISC_UNIQUE_BRANCH"}, lb : Uid, ub : Uid, empty : {FALSE}]
             \cup [dst : Dst, pid : Pids \ {"DISC_UNIQUE_BRANCH"}, lb : {UidAll}, ub : {UidAll}, empty : BOOLEAN]
-----------------------------------------------------------------------------
\* Exist or Next has been called: the table with the UID the message is about.
Addressed(t, m) == IF m.dst = UidAll THEN Table!Next(t) ELSE Table!Exist(t, m.dst)
SavedUid(t)     == t.tod[t.saved_index]

\* RdmReceive: the table and the answer after message m.
RdmReceive(t, m) ==
    LET s == Addressed(t, m)
        broadcast == m.dst = UidAll
    IN  CASE broadcast /\ m.pid = "GET_SET" -> [tod |-> t, answer |-> Forwarded]
          [] ~Table!IsSaved(s) -> [tod |-> s, answer |-> Silent]
          [] Table!IsSaved(s) /\ ~broadcast /\ m.pid = "GET_SET" -> [tod |-> s, answer |-> Forwarded]
          [] Table!IsSaved(s) /\ m.pid = "DISC_UNIQUE_BRANCH" ->
               [tod    |-> s,
                answer |-> IF ~Table!IsMuted(s) /\ m.lb <= SavedUid(s) /\ SavedUid(s) <= m.ub
                           THEN BranchAck(SavedUid(s)) ELSE Silent]
          [] Table!IsSaved(s) /\ m.pid = "DISC_UN_MUTE" /\ m.empty ->
               IF broadcast THEN [tod |-> Table!UnMuteAll(s), answer |-> Silent]
               ELSE [tod |-> Table!UnMute(s), answer |-> UnMuteAck(m.dst)]
          [] Table!IsSaved(s) /\ m.pid = "DISC_MUTE" /\ m.empty /\ ~broadcast ->
               [tod |-> Table!Mute(s), answer |-> MuteAck(m.dst)]
          [] OTHER -> [tod |-> s, answer |-> Silent]
-----------------------------------------------------------------------------
Init == tod = Table!Reset /\ answer = Silent

\* HandleRdmIn hands the message over and forwards it when told to.
HandleRdmIn ==
    \E m \in Message :
        LET r == RdmReceive(tod, m)
        IN  tod' = r.tod /\ answer' = r.answer

\* HandleTodData adds the UIDs of the packet one by one; with packets of one
\* UID every sequence of additions is reached.
HandleTodData ==
    \E uid \in Uid :
        /\ tod' = Table!AddUid(tod, uid)
        /\ answer' = Silent

\* Mutant: the mute bits outlive the entries.
TodResetKeepsMutes ==
    /\ tod' = [Table!Reset EXCEPT !.mutes = tod.mutes]
    /\ answer' = Silent

\* AtcFlush to an input port (HandleTodControl) and SendTodRequest both empty it.
TodReset == tod' = Table!Reset /\ answer' = Silent

Next == HandleRdmIn \/ HandleTodData \/ TodReset

Spec == Init /\ [][Next]_vars
-----------------------------------------------------------------------------
(* Properties.                                                             *)
AnswerKinds == {"none", "forward", "mute", "unmute", "branch"}

\* The types; and the table is well formed: no UID twice, not more than it has
\* room for, the saved position and the mute bits only at entries in use, so that
\* a UID that is added starts unmuted.
TableOK ==
    /\ tod \in Table!Tod /\ answer \in [kind : AnswerKinds, uid : Uid \cup {0}]
    /\ Len(tod.tod) <= TableSize
    /\ \A i, j \in 1 .. Len(tod.tod) : tod.tod[i] = tod.tod[j] => i = j
    /\ tod.saved_index \in 0 .. Len(tod.tod)
    /\ tod.mutes \subseteq 1 .. Len(tod.tod)

\* The gateway stands in for the responders of its table.
MutedUids == {tod.tod[i] : i \in tod.mutes \cap (1 .. Len(tod.tod))}
Heard == IF answer.kind = "forward" THEN Silent ELSE answer

Responders == INSTANCE RdmResponders
                WITH known <- Table!Entries(tod), muted <- MutedUids, answer <- Heard

\* Refinement: whatever the line asks and the network brings, the table, its
\* saved position and its mute bits behave as a set of responders.
StandsInForResponders == Responders!Spec
=============================================================================

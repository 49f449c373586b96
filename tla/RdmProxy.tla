------------------------------ MODULE RdmProxy ------------------------------
(***************************************************************************)
(* The discovery state machine of one port, wired to a port of another     *)
(* node that is an Input Gateway: the responders it finds are the UIDs in  *)
(* that gateway's table, answered for by RdmReceive.  The gateway answers  *)
(* a branch with the next UID of a round robin, so a silent branch does    *)
(* not mean an empty one; the retries of the state machine have to make up *)
(* for it.                                                                 *)
(***************************************************************************)
EXTENDS RdmDiscovery, FiniteSets

CONSTANTS
    Proxied,        \* the UIDs in the table of the gateway
    LossBudget      \* frames lost on the line between the two

ASSUME ProxiedAssumption ==
    Proxied \subseteq 0 .. MaxUid /\ Cardinality(Proxied) <= TableSize /\ LossBudget \in Nat

VARIABLES
    gateway,        \* the table of the gateway
    lost

proxyVars == <<vars, gateway, lost>>

\* Only the operators of RdmGateway are used: its state is `gateway'.
Proxy == INSTANCE RdmGateway
            WITH Uid <- 0 .. MaxUid, tod <- gateway, answer <- rx.data

\* The gateway has been in use: any order, any saved position, any mutes.
ProxyInit ==
    /\ Init
    /\ lost = 0
    /\ gateway \in [tod : {s \in [1 .. Cardinality(Proxied) -> Proxied] :
                              \A i, j \in DOMAIN s : s[i] = s[j] => i = j},
                    saved_index : 0 .. Cardinality(Proxied),
                    mutes : SUBSET (1 .. Cardinality(Proxied))]
-----------------------------------------------------------------------------
MessageOf(request) ==
    [dst |-> IF request.pid = "DISC_MUTE" THEN request.lb ELSE UidAll,
     pid |-> request.pid, lb |-> request.lb, ub |-> request.ub,
     empty |-> request.pid # "DISC_UNIQUE_BRANCH"]

FrameOf(answer) == [kind |-> answer.kind, uid |-> answer.uid]

FrameLost == lost < LossBudget /\ lost' = lost + 1

\* The request reaches the gateway and its answer the port, or one of the two
\* is lost.
GatewayAnswers ==
    /\ wire # Quiet /\ wire' = Quiet
    /\ \/ LET r == Proxy!RdmReceive(gateway, MessageOf(wire))
          IN  /\ gateway' = r.tod
              /\ IF r.answer.kind = "none"
                 THEN UNCHANGED <<rx, lost>>
                 ELSE \/ Arrives(FrameOf(r.answer)) /\ UNCHANGED lost
                      \/ FrameLost /\ UNCHANGED rx
       \/ FrameLost /\ UNCHANGED <<rx, gateway>>
    /\ UNCHANGED <<control, commands, search, response, tod>>

ProxyFull == Full /\ ~is_finished /\ tod = Table!Reset /\ UNCHANGED <<gateway, lost>>

ProxyProcess == Process /\ UNCHANGED <<gateway, lost>>

ProxyNext == ProxyFull \/ ProxyProcess \/ GatewayAnswers

ProxySpec == ProxyInit /\ [][ProxyNext]_proxyVars
                /\ WF_proxyVars(ProxyProcess) /\ WF_proxyVars(GatewayAnswers)
-----------------------------------------------------------------------------
\* A frame that is lost may cost the answer of the one UID that is left, and
\* the round robin then has to pass all the others before it is heard again.
EnoughRetries ==
    /\ LossBudget < UnmuteCounter /\ LossBudget < DiscoveryCounter /\ LossBudget < QuikfindCounter
    /\ LossBudget * Cardinality(Proxied) < QuikfindDiscoveryCounter

\* A discovery through a gateway ends with every UID the gateway stands in
\* for, whatever the gateway's round robin and mutes were before.
ProxiedAllFound == EnoughRetries /\ is_finished => Table!Entries(tod) = Proxied

\* And it does end.
ProxyDiscoveryEnds == state # "Idle" ~> is_finished
=============================================================================

------------------------- MODULE RdmGateway_proofs --------------------------
(***************************************************************************)
(* Theorems of RdmGateway, for every set of UIDs and every size of the     *)
(* table.  TableCorrect is the inductive invariant: what it says of the    *)
(* table is stated as WellFormed, with one lemma for each operation of     *)
(* RdmTod.  StandsIn proves the refinement from it.                        *)
(***************************************************************************)
EXTENDS RdmGateway, TLAPS, SequenceTheorems, FiniteSetTheorems

WellFormed(t) ==
    /\ t \in Table!Tod
    /\ Len(t.tod) <= TableSize
    /\ \A i, j \in 1 .. Len(t.tod) : t.tod[i] = t.tod[j] => i = j
    /\ t.saved_index \in 0 .. Len(t.tod)
    /\ t.mutes \subseteq 1 .. Len(t.tod)

Muted(t) == {t.tod[i] : i \in t.mutes \cap (1 .. Len(t.tod))}

\* What WellFormed says, with the types of the parts.
LEMMA TableParts ==
    ASSUME NEW t, WellFormed(t)
    PROVE  /\ t.tod \in Seq(Uid) /\ Len(t.tod) \in Nat /\ Len(t.tod) <= TableSize
           /\ \A i \in 1 .. Len(t.tod) : t.tod[i] \in Uid
           /\ t.saved_index \in 0 .. Len(t.tod) /\ t.saved_index \in 0 .. TableSize
           /\ t.mutes \subseteq 1 .. Len(t.tod) /\ t.mutes \in SUBSET (1 .. TableSize)
           /\ t = [tod |-> t.tod, saved_index |-> t.saved_index, mutes |-> t.mutes]
BY LenProperties, ElementOfSeq DEF WellFormed, Table!Tod

\* Another position, or other mute bits, within the table.
LEMMA SameEntries ==
    ASSUME NEW t, WellFormed(t), NEW position \in 0 .. Len(t.tod), NEW bits \in SUBSET (1 .. Len(t.tod))
    PROVE  /\ WellFormed([t EXCEPT !.saved_index = position])
           /\ WellFormed([t EXCEPT !.mutes = bits])
<1> DEFINE p == [t EXCEPT !.saved_index = position]
           q == [t EXCEPT !.mutes = bits]
<1>1. /\ t \in Table!Tod /\ Len(t.tod) \in Nat /\ Len(t.tod) <= TableSize
      /\ t.saved_index \in 0 .. Len(t.tod) /\ t.mutes \subseteq 1 .. Len(t.tod)
  BY TableParts DEF WellFormed
<1>2. position \in 0 .. TableSize /\ bits \in SUBSET (1 .. TableSize)
  BY <1>1, GatewayAssumption
<1>3. p \in Table!Tod /\ p.tod = t.tod /\ p.saved_index = position /\ p.mutes = t.mutes
  BY <1>1, <1>2 DEF Table!Tod
<1>4. q \in Table!Tod /\ q.tod = t.tod /\ q.saved_index = t.saved_index /\ q.mutes = bits
  BY <1>1, <1>2 DEF Table!Tod
<1>5. WellFormed(p)
  BY <1>1, <1>3 DEF WellFormed
<1>6. WellFormed(q)
  BY <1>1, <1>4 DEF WellFormed
<1> QED  BY <1>5, <1>6

\* The empty table.
LEMMA ResetOK == WellFormed(Table!Reset) /\ Table!Entries(Table!Reset) = {} /\ Muted(Table!Reset) = {}
BY GatewayAssumption DEF WellFormed, Table!Reset, Table!Tod, Table!NoEntry, Table!Entries, Muted

\* FindIndex returns the position of the UID, or NoEntry when the table does
\* not hold it: a UID the table holds is at one position, which is the first.
LEMMA FindIndexOK ==
    ASSUME NEW t, WellFormed(t), NEW uid
    PROVE  /\ Table!FindIndex(t, uid) \in 0 .. Len(t.tod)
           /\ Table!FindIndex(t, uid) # 0 => t.tod[Table!FindIndex(t, uid)] = uid
           /\ Table!FindIndex(t, uid) = 0 => uid \notin Table!Entries(t)
<1>1. CASE \E i \in 1 .. Len(t.tod) : Table!IsFirst(t, uid, i)
  <2>1. /\ Table!FindIndex(t, uid) \in 1 .. Len(t.tod)
        /\ Table!IsFirst(t, uid, Table!FindIndex(t, uid))
    BY <1>1 DEF Table!FindIndex
  <2> QED  BY <2>1, TableParts DEF Table!IsFirst
<1>2. CASE ~ \E i \in 1 .. Len(t.tod) : Table!IsFirst(t, uid, i)
  <2>1. Table!FindIndex(t, uid) = 0
    BY <1>2 DEF Table!FindIndex, Table!NoEntry
  <2>2. ASSUME NEW i \in 1 .. Len(t.tod), t.tod[i] = uid  PROVE  FALSE
    <3>1. \A j \in 1 .. (i - 1) : t.tod[j] # uid
      BY <2>2, TableParts DEF WellFormed
    <3> QED  BY <1>2, <2>2, <3>1 DEF Table!IsFirst
  <2> QED  BY <2>1, <2>2, TableParts DEF Table!Entries
<1> QED  BY <1>1, <1>2

\* AddUid adds an entry that is not muted, or none.
LEMMA AddUidOK ==
    ASSUME NEW t, WellFormed(t), NEW uid \in Uid
    PROVE  /\ WellFormed(Table!AddUid(t, uid))
           /\ Table!Entries(t) \subseteq Table!Entries(Table!AddUid(t, uid))
           /\ Muted(Table!AddUid(t, uid)) = Muted(t)
<1> DEFINE r == Table!AddUid(t, uid)
           n == Len(t.tod)
<1>1. CASE Table!CanAdd(t, uid)
  <2>1. r = [t EXCEPT !.tod = Append(t.tod, uid)]
    BY <1>1 DEF Table!AddUid
  <2>2. /\ Append(t.tod, uid) \in Seq(Uid) /\ Len(Append(t.tod, uid)) = n + 1
        /\ \A i \in 1 .. n : Append(t.tod, uid)[i] = t.tod[i]
        /\ Append(t.tod, uid)[n + 1] = uid
    BY AppendProperties, TableParts
  <2>3. n < TableSize /\ uid \notin Table!Entries(t)
    BY <1>1, FindIndexOK DEF Table!CanAdd, Table!NoEntry
  <2>4. r.tod = Append(t.tod, uid) /\ r.saved_index = t.saved_index /\ r.mutes = t.mutes /\ r \in Table!Tod
    <3>1. t \in Table!Tod
      BY DEF WellFormed
    <3> QED  BY <2>1, <2>2, <3>1 DEF Table!Tod
  <2>5. \A i, j \in 1 .. n + 1 : r.tod[i] = r.tod[j] => i = j
    BY <2>2, <2>3, <2>4, TableParts DEF Table!Entries, WellFormed
  <2>6. WellFormed(r)
    BY <2>2, <2>3, <2>4, <2>5, TableParts, GatewayAssumption, SMTT(30) DEF WellFormed
  <2>7. Table!Entries(t) \subseteq Table!Entries(r)
    BY <2>2, <2>4, TableParts DEF Table!Entries
  <2>8. Muted(r) = Muted(t)
    BY <2>2, <2>4, TableParts DEF Muted
  <2> QED  BY <2>6, <2>7, <2>8
<1>2. CASE ~Table!CanAdd(t, uid)
  BY <1>2 DEF Table!AddUid
<1> QED  BY <1>1, <1>2

\* No more entries than the table has room for.
LEMMA EntriesBound ==
    ASSUME NEW t, WellFormed(t)
    PROVE  Table!Entries(t) \subseteq Uid /\ Cardinality(Table!Entries(t)) <= TableSize
<1> DEFINE n == Len(t.tod)
           S == Table!Entries(t)
<1>1. n \in Nat /\ n <= TableSize /\ S \subseteq Uid
  BY TableParts DEF Table!Entries
<1>2. t.tod \in Surjection(1 .. n, S)
  BY TableParts, LenProperties DEF Surjection, Table!Entries
<1>3. Cardinality(S) <= n
  BY <1>1, <1>2, FS_SurjCardinalityBound DEF ExistsSurjection
<1>4. IsFiniteSet(S)
  BY <1>2, FS_Surjection, FS_Interval, <1>1
<1>5. Cardinality(S) \in Nat
  BY <1>4, FS_CardinalityType
<1> QED  BY <1>1, <1>3, <1>5, GatewayAssumption

\* Exist and Next move the saved position and nothing else; Exist moves it to
\* the UID that is asked for.
LEMMA AddressedOK ==
    ASSUME NEW t, WellFormed(t), NEW m \in Message
    PROVE  /\ WellFormed(Addressed(t, m))
           /\ Addressed(t, m).tod = t.tod /\ Addressed(t, m).mutes = t.mutes
           /\ Table!IsSaved(Addressed(t, m)) /\ m.dst # UidAll => SavedUid(Addressed(t, m)) = m.dst
<1>1. CASE m.dst = UidAll
  <2>1. Addressed(t, m) = Table!Next(t)
    BY <1>1 DEF Addressed
  <2> DEFINE p == IF Len(t.tod) = 0 THEN 0
                  ELSE IF t.saved_index = 0 \/ t.saved_index >= Len(t.tod) THEN 1
                  ELSE t.saved_index + 1
  <2>2. p \in 0 .. Len(t.tod) /\ Table!Next(t) = [t EXCEPT !.saved_index = p]
    <3>1. Len(t.tod) \in Nat /\ t.saved_index \in 0 .. Len(t.tod)
      BY TableParts
    <3>2. p \in 0 .. Len(t.tod)
      BY <3>1
    <3> QED  BY <3>2 DEF Table!Next, Table!NoEntry
  <2> QED  BY <1>1, <2>1, <2>2, SameEntries, TableParts
<1>2. CASE m.dst # UidAll
  <2>1. Addressed(t, m) = [t EXCEPT !.saved_index = Table!FindIndex(t, m.dst)]
    BY <1>2 DEF Addressed, Table!Exist
  <2>2. Table!FindIndex(t, m.dst) \in 0 .. Len(t.tod)
    BY FindIndexOK
  <2>3. WellFormed(Addressed(t, m))
    BY <2>1, <2>2, SameEntries
  <2>4. /\ Addressed(t, m).tod = t.tod /\ Addressed(t, m).mutes = t.mutes
        /\ Addressed(t, m).saved_index = Table!FindIndex(t, m.dst)
    BY <2>1, TableParts
  <2>5. Table!IsSaved(Addressed(t, m)) => SavedUid(Addressed(t, m)) = m.dst
    BY <2>4, FindIndexOK, TableParts DEF Table!IsSaved, SavedUid
  <2> QED  BY <2>3, <2>4, <2>5
<1> QED  BY <1>1, <1>2

\* Mute, UnMute and UnMuteAll, for a table whose saved position is in use.
LEMMA MutesOK ==
    ASSUME NEW t, WellFormed(t), Table!IsSaved(t)
    PROVE  /\ WellFormed(Table!Mute(t)) /\ Table!Entries(Table!Mute(t)) = Table!Entries(t)
           /\ Muted(Table!Mute(t)) = Muted(t) \cup {SavedUid(t)}
           /\ WellFormed(Table!UnMute(t)) /\ Table!Entries(Table!UnMute(t)) = Table!Entries(t)
           /\ Muted(Table!UnMute(t)) = Muted(t) \ {SavedUid(t)}
           /\ WellFormed(Table!UnMuteAll(t)) /\ Table!Entries(Table!UnMuteAll(t)) = Table!Entries(t)
           /\ Muted(Table!UnMuteAll(t)) = {}
           /\ SavedUid(t) \in Table!Entries(t)
           /\ ~Table!IsMuted(t) => SavedUid(t) \notin Muted(t)
<1> DEFINE p == t.saved_index
<1>1. p \in 1 .. Len(t.tod) /\ p # 0 /\ t.mutes \subseteq 1 .. Len(t.tod)
  BY TableParts DEF Table!IsSaved
<1>2. /\ Table!Mute(t) = [t EXCEPT !.mutes = t.mutes \cup {p}]
      /\ Table!UnMute(t) = [t EXCEPT !.mutes = t.mutes \ {p}]
      /\ Table!UnMuteAll(t) = [t EXCEPT !.mutes = {}]
  BY <1>1 DEF Table!Mute, Table!UnMute, Table!UnMuteAll, Table!IsSaved, Table!NoEntry
<1>3. WellFormed(Table!Mute(t)) /\ WellFormed(Table!UnMute(t)) /\ WellFormed(Table!UnMuteAll(t))
  <2>1. /\ t.mutes \cup {p} \in SUBSET (1 .. Len(t.tod)) /\ t.mutes \ {p} \in SUBSET (1 .. Len(t.tod))
        /\ {} \in SUBSET (1 .. Len(t.tod)) /\ 0 \in 0 .. Len(t.tod)
    BY <1>1, TableParts
  <2>2. WellFormed([t EXCEPT !.mutes = t.mutes \cup {p}])
    BY <2>1, SameEntries
  <2>3. WellFormed([t EXCEPT !.mutes = t.mutes \ {p}])
    BY <2>1, SameEntries
  <2>4. WellFormed([t EXCEPT !.mutes = {}])
    BY <2>1, SameEntries
  <2> QED  BY <1>2, <2>2, <2>3, <2>4
<1>4. /\ Table!Mute(t).tod = t.tod /\ Table!Mute(t).mutes = t.mutes \cup {p}
      /\ Table!UnMute(t).tod = t.tod /\ Table!UnMute(t).mutes = t.mutes \ {p}
      /\ Table!UnMuteAll(t).tod = t.tod /\ Table!UnMuteAll(t).mutes = {}
  BY <1>2, TableParts
<1>5. \A i \in 1 .. Len(t.tod) : t.tod[i] = t.tod[p] => i = p
  BY <1>1 DEF WellFormed
<1>6. Muted(Table!Mute(t)) = Muted(t) \cup {SavedUid(t)} /\ Muted(Table!UnMuteAll(t)) = {}
  BY <1>1, <1>4 DEF Muted, SavedUid
<1>7. Muted(Table!UnMute(t)) = Muted(t) \ {SavedUid(t)}
  BY <1>1, <1>4, <1>5 DEF Muted, SavedUid
<1>8. SavedUid(t) \in Table!Entries(t) /\ (~Table!IsMuted(t) => SavedUid(t) \notin Muted(t))
  BY <1>1, <1>5 DEF Table!Entries, Table!IsMuted, Table!IsSaved, SavedUid, Muted
<1> QED  BY <1>3, <1>4, <1>6, <1>7, <1>8 DEF Table!Entries
-----------------------------------------------------------------------------
Types == answer \in [kind : AnswerKinds, uid : Uid \cup {0}]

\* TableOK in the words of the lemmas.
LEMMA TableOKIs == TableOK <=> WellFormed(tod) /\ Types
BY DEF TableOK, WellFormed, Types

\* What a message does: the table that is saved is the one that was there, and
\* the answer is one of six.
LEMMA ReceiveCases ==
    ASSUME NEW t, WellFormed(t), NEW m \in Message
    PROVE  LET s == Addressed(t, m)
               r == RdmReceive(t, m)
           IN  \/ r = [tod |-> t, answer |-> Forwarded]
               \/ r = [tod |-> s, answer |-> Silent]
               \/ r = [tod |-> s, answer |-> Forwarded]
               \/ /\ Table!IsSaved(s) /\ ~Table!IsMuted(s)
                  /\ r = [tod |-> s, answer |-> BranchAck(SavedUid(s))]
               \/ Table!IsSaved(s) /\ r = [tod |-> Table!UnMuteAll(s), answer |-> Silent]
               \/ /\ Table!IsSaved(s) /\ m.dst # UidAll
                  /\ r = [tod |-> Table!UnMute(s), answer |-> UnMuteAck(m.dst)]
               \/ /\ Table!IsSaved(s) /\ m.dst # UidAll
                  /\ r = [tod |-> Table!Mute(s), answer |-> MuteAck(m.dst)]
BY DEF RdmReceive

\* Every step keeps the table well formed and is a step of the responders.
LEMMA GatewayStep ==
    ASSUME WellFormed(tod), Types, Next
    PROVE  WellFormed(tod') /\ Types' /\ Responders!Next
<1>0. MutedUids = Muted(tod) /\ MutedUids' = Muted(tod')
  BY DEF MutedUids, Muted
<1>1. CASE TodReset
  <2>1. tod' = Table!Reset /\ answer' = Silent
    BY <1>1 DEF TodReset
  <2>2. Table!Entries(tod)' = {} /\ MutedUids' = {}
    BY <1>0, <2>1, ResetOK
  <2>3. Responders!Forget
    BY <2>1, <2>2 DEF Responders!Forget, Responders!Silent, Silent, Heard
  <2> QED  BY <2>1, <2>3, ResetOK DEF Types, AnswerKinds, Silent, Responders!Next
<1>2. CASE HandleTodData
  <2>1. PICK uid \in Uid : tod' = Table!AddUid(tod, uid) /\ answer' = Silent
    BY <1>2 DEF HandleTodData
  <2>2. /\ WellFormed(tod') /\ Table!Entries(tod) \subseteq Table!Entries(tod')
        /\ MutedUids' = MutedUids
    <3>1. /\ WellFormed(Table!AddUid(tod, uid))
          /\ Table!Entries(tod) \subseteq Table!Entries(Table!AddUid(tod, uid))
          /\ Muted(Table!AddUid(tod, uid)) = Muted(tod)
      BY AddUidOK
    <3> QED  BY <1>0, <2>1, <3>1
  <2>3. Table!Entries(tod') \subseteq Uid /\ Cardinality(Table!Entries(tod')) <= TableSize
    BY <2>2, EntriesBound
  <2>4. Responders!Learn
    BY <2>1, <2>2, <2>3 DEF Responders!Learn, Responders!Silent, Silent, Heard, Table!Entries, Responders!Cardinality, Cardinality
  <2> QED  BY <2>1, <2>2, <2>4 DEF Types, AnswerKinds, Silent, Responders!Next
<1>3. CASE HandleRdmIn
  <2>1. PICK m \in Message : tod' = RdmReceive(tod, m).tod /\ answer' = RdmReceive(tod, m).answer
    BY <1>3 DEF HandleRdmIn
  <2> DEFINE s == Addressed(tod, m)
             r == RdmReceive(tod, m)
  <2>2. /\ WellFormed(s) /\ s.tod = tod.tod /\ s.mutes = tod.mutes
        /\ Table!IsSaved(s) /\ m.dst # UidAll => SavedUid(s) = m.dst
    BY AddressedOK
  <2>3. Table!Entries(s) = Table!Entries(tod) /\ Muted(s) = MutedUids
    BY <1>0, <2>2 DEF Table!Entries, Muted
  <2> DEFINE Quietly == WellFormed(tod') /\ Table!Entries(tod') = Table!Entries(tod)
  <2>4. CASE answer' \in {Silent, Forwarded} /\ (tod' = tod \/ tod' = s)
    <3>1. Quietly /\ MutedUids' = MutedUids
      BY <1>0, <2>2, <2>3, <2>4
    <3>2. Heard' = Silent
      BY <2>4 DEF Silent, Forwarded, Heard
    <3>3. Responders!StaySilent
      BY <3>1, <3>2 DEF Responders!StaySilent, Responders!Silent, Silent, Heard, Table!Entries
    <3> QED  BY <2>4, <3>1, <3>3 DEF Types, AnswerKinds, Silent, Forwarded, Responders!Next
  <2>5. CASE Table!IsSaved(s) /\ ~Table!IsMuted(s) /\ r = [tod |-> s, answer |-> BranchAck(SavedUid(s))]
    <3>1. tod' = s /\ answer' = BranchAck(SavedUid(s)) /\ Quietly /\ MutedUids' = MutedUids
      BY <1>0, <2>1, <2>2, <2>3, <2>5
    <3>2. SavedUid(s) \in Table!Entries(tod) \ MutedUids /\ SavedUid(s) \in Uid
      BY <2>2, <2>3, <2>5, MutesOK, EntriesBound
    <3>3. Responders!AnswerBranch(SavedUid(s))
      BY <3>1, <3>2 DEF Responders!AnswerBranch, Responders!BranchAck, BranchAck, Heard, Table!Entries
    <3> QED  BY <3>1, <3>2, <3>3 DEF Types, AnswerKinds, BranchAck, Responders!Next
  <2>6. CASE Table!IsSaved(s) /\ r = [tod |-> Table!UnMuteAll(s), answer |-> Silent]
    <3>1. tod' = Table!UnMuteAll(s) /\ answer' = Silent /\ Quietly /\ MutedUids' = {}
      BY <1>0, <2>1, <2>2, <2>3, <2>6, MutesOK
    <3>2. Responders!UnMuteEveryone
      BY <3>1 DEF Responders!UnMuteEveryone, Responders!Silent, Silent, Heard, Table!Entries
    <3> QED  BY <3>1, <3>2 DEF Types, AnswerKinds, Silent, Responders!Next
  <2>7. CASE /\ Table!IsSaved(s) /\ m.dst # UidAll
             /\ r = [tod |-> Table!UnMute(s), answer |-> UnMuteAck(m.dst)]
    <3>1. /\ tod' = Table!UnMute(s) /\ answer' = UnMuteAck(m.dst) /\ Quietly
          /\ MutedUids' = MutedUids \ {m.dst} /\ m.dst \in Table!Entries(tod)
      BY <1>0, <2>1, <2>2, <2>3, <2>7, MutesOK
    <3>2. Responders!UnMuteOne(m.dst) /\ m.dst \in Uid
      BY <3>1, EntriesBound DEF Responders!UnMuteOne, Responders!UnMuteAck, UnMuteAck, Heard, Table!Entries
    <3> QED  BY <3>1, <3>2 DEF Types, AnswerKinds, UnMuteAck, Responders!Next
  <2>8. CASE /\ Table!IsSaved(s) /\ m.dst # UidAll
             /\ r = [tod |-> Table!Mute(s), answer |-> MuteAck(m.dst)]
    <3>1. /\ tod' = Table!Mute(s) /\ answer' = MuteAck(m.dst) /\ Quietly
          /\ MutedUids' = MutedUids \cup {m.dst} /\ m.dst \in Table!Entries(tod)
      BY <1>0, <2>1, <2>2, <2>3, <2>8, MutesOK
    <3>2. Responders!MuteOne(m.dst) /\ m.dst \in Uid
      BY <3>1, EntriesBound DEF Responders!MuteOne, Responders!MuteAck, MuteAck, Heard, Table!Entries
    <3> QED  BY <3>1, <3>2 DEF Types, AnswerKinds, MuteAck, Responders!Next
  <2> QED  BY <2>1, <2>4, <2>5, <2>6, <2>7, <2>8, ReceiveCases
<1> QED  BY <1>1, <1>2, <1>3 DEF Next
-----------------------------------------------------------------------------
\* The initial table is empty, and stands for no responder.
LEMMA GatewayStart == Init => WellFormed(tod) /\ Types /\ Responders!Init
<1> SUFFICES ASSUME Init  PROVE  WellFormed(tod) /\ Types /\ Responders!Init
  OBVIOUS
<1>1. tod = Table!Reset /\ answer = Silent
  BY DEF Init
<1>2. Table!Entries(tod) = {} /\ MutedUids = {}
  BY <1>1, ResetOK DEF MutedUids, Muted
<1>3. Responders!Init
  BY <1>1, <1>2 DEF Responders!Init, Responders!Silent, Silent, Heard
<1> QED  BY <1>1, <1>3, ResetOK DEF Types, AnswerKinds, Silent

\* Whatever is asked on the line and comes from the network, the table of an
\* input port (s_tod of rdm_tod.h) has no UID twice, no more than it has room
\* for, and its saved position and mute bits are at entries in use.
THEOREM TableCorrect == Spec => []TableOK
<1>1. Init => TableOK
  BY GatewayStart, TableOKIs
<1>2. TableOK /\ [Next]_vars => TableOK'
  <2>1. TableOK /\ Next => TableOK'
    BY GatewayStep, TableOKIs DEF TableOK, WellFormed, Types
  <2>2. TableOK /\ UNCHANGED vars => TableOK'
    BY DEF TableOK, vars
  <2> QED  BY <2>1, <2>2
<1> QED  BY <1>1, <1>2, PTL DEF Spec

\* ArtNetRdmController::RdmReceive answers as the responders of the table would:
\* only a known UID acknowledges, and only an unmuted one is heard on a branch.
THEOREM StandsIn == Spec => StandsInForResponders
<1>1. Init => Responders!Init
  BY GatewayStart
<1>2. TableOK /\ [Next]_vars => [Responders!Next]_(Responders!vars)
  <2>1. TableOK /\ Next => Responders!Next
    BY GatewayStep, TableOKIs
  <2>2. UNCHANGED vars => UNCHANGED Responders!vars
    BY DEF vars, Responders!vars, MutedUids, Heard, Table!Entries
  <2> QED  BY <2>1, <2>2
<1> QED  BY <1>1, <1>2, TableCorrect, PTL DEF Spec, StandsInForResponders, Responders!Spec
=============================================================================

------------------------------- MODULE RdmTod -------------------------------
(***************************************************************************)
(* The RDM table of devices of one port: class rdm::Tod of                 *)
(* lib-rdm/include/rdm_tod.h.  A table is a record; every method of the    *)
(* class is an operator from the table before to the table after.  Entries *)
(* are counted from 1 here and from 0 in the code, so that kInvalidEntry   *)
(* (UINT32_MAX) can be 0, the position no entry has.                       *)
(***************************************************************************)
EXTENDS Naturals, Sequences

CONSTANTS
    Uid,        \* the UIDs an entry can hold
    TableSize   \* kTableSize

NoEntry == 0                                            \* kInvalidEntry

Tod == [tod : Seq(Uid), saved_index : 0 .. TableSize, mutes : SUBSET (1 .. TableSize)]

Reset == [tod |-> << >>, saved_index |-> NoEntry, mutes |-> {}]

UidCount(t) == Len(t.tod)

Entries(t) == {t.tod[i] : i \in 1 .. Len(t.tod)}

IsFirst(t, uid, i) ==
    /\ i \in 1 .. Len(t.tod)
    /\ t.tod[i] = uid
    /\ \A j \in 1 .. (i - 1) : t.tod[j] # uid

FindIndex(t, uid) ==
    IF \E i \in 1 .. Len(t.tod) : IsFirst(t, uid, i)
    THEN CHOOSE i \in 1 .. Len(t.tod) : IsFirst(t, uid, i)
    ELSE NoEntry

\* Mutant: a UID that may be added twice.
CanAddTwice(t, uid) == Len(t.tod) < TableSize

CanAdd(t, uid) == Len(t.tod) < TableSize /\ FindIndex(t, uid) = NoEntry

\* A full table and a UID it already holds leave it as it is; the mute bit of
\* the new entry is the one its slot happens to have.
AddUid(t, uid) ==
    IF CanAdd(t, uid) THEN [t EXCEPT !.tod = Append(t.tod, uid)] ELSE t

\* Mutant: the entries move down one position too far on.
DeleteNext(t, uid) ==
    LET e == FindIndex(t, uid)
        Old(i) == IF i <= e THEN i ELSE i + 1
    IN  IF e = NoEntry THEN t
        ELSE [t EXCEPT !.tod = [i \in 1 .. (Len(t.tod) - 1) |-> t.tod[Old(i)]]]

\* The entries after the deleted one move down with their mute bits, the slot
\* that becomes free loses its bit, and the saved position follows its entry.
Delete(t, uid) ==
    LET e    == FindIndex(t, uid)
        n    == Len(t.tod)
        Old(i) == IF i < e THEN i ELSE i + 1
    IN  IF e = NoEntry
        THEN t
        ELSE [tod         |-> [i \in 1 .. (n - 1) |-> t.tod[Old(i)]],
              mutes       |-> {i \in 1 .. (n - 1) : Old(i) \in t.mutes}
                                \cup {i \in t.mutes : i > n},
              saved_index |-> IF t.saved_index = e THEN NoEntry
                              ELSE IF t.saved_index > e THEN t.saved_index - 1
                              ELSE t.saved_index]

Exist(t, uid) == [t EXCEPT !.saved_index = FindIndex(t, uid)]

\* The round robin over the entries; the UID it returns is the saved entry.
Next(t) ==
    [t EXCEPT !.saved_index =
        IF Len(t.tod) = 0 THEN NoEntry
        ELSE IF t.saved_index = NoEntry \/ t.saved_index >= Len(t.tod) THEN 1
        ELSE t.saved_index + 1]

IsSaved(t) == t.saved_index \in 1 .. Len(t.tod)

Mute(t) ==
    IF t.saved_index = NoEntry THEN t
    ELSE [t EXCEPT !.mutes = @ \cup {t.saved_index}]

UnMute(t) ==
    IF IsSaved(t) THEN [t EXCEPT !.mutes = @ \ {t.saved_index}] ELSE t

UnMuteAll(t) == [t EXCEPT !.mutes = {}]

IsMuted(t) == IsSaved(t) => t.saved_index \in t.mutes

\* CopyUidEntry: the entry at a position, or the broadcast UID past the end.
CopyUidEntry(t, i, uidAll) == IF i \in 1 .. Len(t.tod) THEN t.tod[i] ELSE uidAll
=============================================================================

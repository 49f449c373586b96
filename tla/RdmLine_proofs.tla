--------------------------- MODULE RdmLine_proofs ---------------------------
(***************************************************************************)
(* Theorems of RdmDiscovery, for every line, every size of the table and   *)
(* every value of the counters.  Safety proves the inductive invariant     *)
(* TypeOK /\ BranchesInv (see RdmBranches); TypeCorrect, StackNeverFull,   *)
(* SearchedOnce and ImplementsJob follow from it.  They hold of RdmLine as *)
(* well: every step of the devices is a LineStep, whatever the scenario.   *)
(*                                                                         *)
(* The second half is about RdmLine: LineSafety proves the invariants      *)
(* FoundInv and StaysInv, and EveryDeviceIsFound, NothingIsInvented and    *)
(* NobodyIsSilenced follow from them.                                      *)
(*                                                                         *)
(* The last part is about RdmProxy: ProxyIsALine carries the theorems of   *)
(* RdmDiscovery over to it, and GatewayIsFound proves ProxiedAllFound from *)
(* the invariant ProxyInv.                                                 *)
(***************************************************************************)
EXTENDS RdmLine, RdmProxy, RdmBranches, TLAPS, SequenceTheorems, FiniteSetTheorems

\* FindIndex returns a position of the table, or NoEntry.
LEMMA FindIndexType ==
    ASSUME NEW t \in Table!Tod, NEW uid \in Uid
    PROVE  /\ Table!FindIndex(t, uid) \in 0 .. Len(t.tod)
           /\ Table!FindIndex(t, uid) # 0 => t.tod[Table!FindIndex(t, uid)] = uid
<1>1. Len(t.tod) \in Nat
  BY LenProperties DEF Table!Tod
<1>2. CASE \E i \in 1 .. Len(t.tod) : Table!IsFirst(t, uid, i)
  <2>1. Table!FindIndex(t, uid) = CHOOSE i \in 1 .. Len(t.tod) : Table!IsFirst(t, uid, i)
    BY <1>2 DEF Table!FindIndex
  <2>2. /\ Table!FindIndex(t, uid) \in 1 .. Len(t.tod)
        /\ Table!IsFirst(t, uid, Table!FindIndex(t, uid))
    BY <1>2, <2>1
  <2> QED  BY <1>1, <2>2 DEF Table!IsFirst
<1>3. CASE ~ \E i \in 1 .. Len(t.tod) : Table!IsFirst(t, uid, i)
  <2>1. Table!FindIndex(t, uid) = 0
    BY <1>3 DEF Table!FindIndex, Table!NoEntry
  <2> QED  BY <1>1, <2>1
<1> QED  BY <1>2, <1>3

TableOf(t) == t \in Table!Tod /\ Len(t.tod) <= TableSize

\* The empty table is a table.
LEMMA ResetType == TableOf(Table!Reset)
BY ConstantsAssumption DEF TableOf, Table!Reset, Table!Tod, Table!NoEntry

\* AddUid never makes a table longer than kTableSize.
LEMMA AddUidType ==
    ASSUME NEW t, TableOf(t), NEW uid \in Uid
    PROVE  TableOf(Table!AddUid(t, uid))
<1> DEFINE r == Table!AddUid(t, uid)
<1>1. CASE Table!CanAdd(t, uid)
  <2>1. r = [t EXCEPT !.tod = Append(t.tod, uid)]
    BY <1>1 DEF Table!AddUid
  <2>2. t.tod \in Seq(Uid) /\ Append(t.tod, uid) \in Seq(Uid) /\ Len(Append(t.tod, uid)) = Len(t.tod) + 1
    BY AppendProperties DEF TableOf, Table!Tod
  <2>3. Len(t.tod) < TableSize
    BY <1>1 DEF Table!CanAdd
  <2>4. r.tod = Append(t.tod, uid) /\ r \in Table!Tod
    BY <2>1, <2>2 DEF TableOf, Table!Tod
  <2> QED  BY <2>2, <2>3, <2>4, LenProperties, ConstantsAssumption DEF TableOf
<1>2. CASE ~Table!CanAdd(t, uid)
  BY <1>2 DEF Table!AddUid
<1> QED  BY <1>1, <1>2

\* Delete closes the gap it makes and leaves a table.
LEMMA DeleteType ==
    ASSUME NEW t, TableOf(t), NEW uid \in Uid
    PROVE  TableOf(Table!Delete(t, uid))
<1> DEFINE e == Table!FindIndex(t, uid)
           n == Len(t.tod)
           Old(i) == IF i < e THEN i ELSE i + 1
           r == [tod         |-> [i \in 1 .. (n - 1) |-> t.tod[Old(i)]],
                 mutes       |-> {i \in 1 .. (n - 1) : Old(i) \in t.mutes} \cup {i \in t.mutes : i > n},
                 saved_index |-> IF t.saved_index = e THEN 0
                                 ELSE IF t.saved_index > e THEN t.saved_index - 1 ELSE t.saved_index]
<1>0. t.tod \in Seq(Uid) /\ n \in Nat /\ n <= TableSize /\ e \in 0 .. n
      /\ t.saved_index \in 0 .. TableSize /\ t.mutes \subseteq 1 .. TableSize
  BY FindIndexType, LenProperties DEF TableOf, Table!Tod
<1>1. CASE e = 0
  BY <1>1 DEF Table!Delete, Table!NoEntry
<1>2. CASE e # 0
  <2>1. Table!Delete(t, uid) = r
    BY <1>2 DEF Table!Delete, Table!NoEntry
  <2>2. r.tod \in Seq(Uid) /\ Len(r.tod) = n - 1
    <3>1. n - 1 \in Nat
      BY <1>0, <1>2
    <3>2. \A i \in 1 .. (n - 1) : Old(i) \in 1 .. n
      BY <1>0, <1>2
    <3>3. \A i \in 1 .. (n - 1) : t.tod[Old(i)] \in Uid
      BY <1>0, <3>2, ElementOfSeq
    <3> QED  BY <3>1, <3>3, IsASeq
  <2>3. r.mutes \subseteq 1 .. TableSize
    BY <1>0, ConstantsAssumption
  <2>4. r.saved_index \in 0 .. TableSize
    BY <1>0, <1>2, ConstantsAssumption
  <2>5. r \in Table!Tod
    BY <2>2, <2>3, <2>4 DEF Table!Tod
  <2> HIDE DEF r, n
  <2>6. Len(r.tod) <= TableSize
    BY <1>0, <2>2, ConstantsAssumption
  <2> QED  BY <2>1, <2>5, <2>6 DEF TableOf
<1> QED  BY <1>1, <1>2
-----------------------------------------------------------------------------
\* What the state machine does to its table leaves a table.
LEMMA TableResults ==
    ASSUME TypeOK
    PROVE  /\ Table!UidCount(tod) \in 0 .. TableSize
           /\ \A i \in Nat : Table!CopyUidEntry(tod, i, UidAll) \in Uid
<1>1. tod.tod \in Seq(Uid) /\ Len(tod.tod) \in Nat /\ Len(tod.tod) <= TableSize
  BY LenProperties DEF TypeOK, Table!Tod
<1>2. UidAll \in Uid
  BY ConstantsAssumption DEF UidAll, Uid
<1>3. \A i \in 1 .. Len(tod.tod) : tod.tod[i] \in Uid
  BY <1>1, ElementOfSeq
<1> QED  BY <1>1, <1>2, <1>3 DEF Table!UidCount, Table!CopyUidEntry

\* A branch can always be pushed; a stack that is not empty has a top.
LEMMA StackResults ==
    /\ << >> \in Seq(Branch)
    /\ \A s \in Seq(Branch), b \in Branch : Push(s, b) \in Seq(Branch)
    /\ \A s \in Seq(Branch) : s # << >> => Pop(s) \in Seq(Branch) /\ s[Len(s)] \in Branch
<1>1. \A s \in Seq(Branch), b \in Branch : Push(s, b) \in Seq(Branch)
  BY AppendProperties DEF Push
<1>2. ASSUME NEW s \in Seq(Branch), s # << >>
      PROVE  Pop(s) \in Seq(Branch) /\ s[Len(s)] \in Branch
  <2>1. Len(s) \in Nat \ {0}
    BY <1>2, EmptySeq
  <2>2. s[Len(s)] \in Branch
    BY <2>1, ElementOfSeq
  <2>3. Pop(s) \in Seq(Branch)
    BY <2>1, SubSeqProperties DEF Pop
  <2> QED  BY <2>2, <2>3
<1> QED  BY <1>1, <1>2, EmptySeq

\* The middle of a branch is the half of the sum of its bounds.
LEMMA MidPositionIsMiddle ==
    ASSUME NEW lb \in Uid, NEW ub \in Uid
    PROVE  MidPosition(lb, ub) = (lb + ub) \div 2
<1>1. PICK h \in Nat : h = TopBit \div 2 /\ TopBit = 2 * h
  <2>1. TopBit \in Nat /\ TopBit % 2 = 0
    BY ConstantsAssumption
  <2>2. TopBit \div 2 \in Nat
    BY <2>1
  <2>3. TopBit = 2 * (TopBit \div 2)
    BY <2>1
  <2> QED  BY <2>2, <2>3
<1>2. ASSUME NEW u \in Uid
      PROVE  u % TopBit = IF u >= TopBit THEN u - TopBit ELSE u
  BY <1>1, ConstantsAssumption DEF Uid, UidAll
<1> QED  BY <1>1, <1>2, ConstantsAssumption DEF MidPosition, Uid, UidAll
-----------------------------------------------------------------------------
\* The constants are numbers, and so are the bounds made of them.
LEMMA Numbers ==
    /\ TopBit \in Nat /\ TopBit > 0 /\ TableSize \in Nat /\ TableSize > 0
    /\ UnmuteCounter \in 0 .. UnmuteCounter /\ MuteCounter \in 0 .. MuteCounter
    /\ DiscoveryCounter \in 0 .. DiscoveryCounter /\ QuikfindCounter \in 0 .. QuikfindCounter
    /\ QuikfindDiscoveryCounter \in 0 .. QuikfindDiscoveryCounter
    /\ MuteCounter \in 0 .. Larger(MuteCounter, QuikfindDiscoveryCounter)
    /\ QuikfindDiscoveryCounter \in 0 .. Larger(MuteCounter, QuikfindDiscoveryCounter)
    /\ 0 \in Uid /\ MaxUid \in Uid /\ UidAll \in Uid
BY ConstantsAssumption DEF Larger, Uid, UidAll, MaxUid

\* A discovery starts with a branch.
LEMMA FirstBranch == << >> \in Seq(Branch) /\ [lb |-> 0, ub |-> MaxUid] \in Branch
BY Numbers, StackResults DEF Branch

\* Both halves of a branch are branches.
LEMMA HalvesAreBranches ==
    ASSUME NEW lb \in Uid, NEW ub \in Uid, lb < ub
    PROVE  /\ [lb |-> lb, ub |-> MidPosition(lb, ub)] \in Branch
           /\ [lb |-> MidPosition(lb, ub) + 1, ub |-> ub] \in Branch
<1>1. PICK mid \in Int : mid = (lb + ub) \div 2 /\ 2 * mid <= lb + ub /\ lb + ub <= 2 * mid + 1
  BY DEF Uid
<1>2. MidPosition(lb, ub) = mid
  BY <1>1, MidPositionIsMiddle
<1>3. mid \in Uid /\ mid + 1 \in Uid
  BY <1>1, ConstantsAssumption DEF Uid, UidAll
<1> QED  BY <1>2, <1>3 DEF Branch

\* The types hold at first.
LEMMA TypeInit == Init => TypeOK
<1> SUFFICES ASSUME Init PROVE TypeOK
  OBVIOUS
<1>1. tod \in Table!Tod /\ Len(tod.tod) <= TableSize
  BY ResetType DEF Init, TableOf
<1>2. wire \in Wire /\ rx \in [data : Frame, complete : BOOLEAN]
  BY Numbers DEF Init, Wire, Quiet, Frame, Garbled
<1>3. /\ unmute \in Counter(UnmuteCounter) /\ quick_find_discovery \in Counter(QuikfindDiscoveryCounter)
      /\ single_device \in Counter(Larger(MuteCounter, QuikfindDiscoveryCounter))
  BY Numbers DEF Init, NotRunning, Counter, Larger
<1>4. mute \in [tod_entries : 0 .. TableSize, counter : 0 .. MuteCounter, uid : Uid, running : BOOLEAN]
  BY Numbers DEF Init
<1>5. /\ discovery \in [lb : Uid, ub : Uid, counter : 0 .. DiscoveryCounter, running : BOOLEAN]
      /\ quick_find \in [counter : 0 .. QuikfindCounter, uid : Uid, running : BOOLEAN]
  BY Numbers DEF Init, NoBranch
<1>6. stack \in Seq(Branch)
  BY StackResults DEF Init
<1> QED  BY <1>1, <1>2, <1>3, <1>4, <1>5, <1>6 DEF TypeOK, Init, States

\* No step leaves the types, whatever arrives on the line: the counters do not
\* pass zero, the table does not pass its size.
LEMMA TypeStep == ASSUME TypeOK, BranchesInv, [Next]_vars PROVE TypeOK'
<1> USE DEF TypeOK
<1>1. CASE Full
  <2>1. state' \in States /\ saved_state' \in States \ {"LateResponse"}
    BY <1>1 DEF Full, Start, NewState, States
  <2>2. is_finished' \in BOOLEAN /\ do_incremental' \in BOOLEAN
    BY <1>1 DEF Full, Start
  <2>3. unmute' \in Counter(UnmuteCounter)
    BY <1>1, Numbers DEF Full, Start, NotRunning, Counter
  <2>4. mute' \in [tod_entries : 0 .. TableSize, counter : 0 .. MuteCounter, uid : Uid, running : BOOLEAN]
    BY <1>1, Numbers DEF Full, Start
  <2>5. discovery' \in [lb : Uid, ub : Uid, counter : 0 .. DiscoveryCounter, running : BOOLEAN]
    BY <1>1, Numbers DEF Full, Start
  <2>6. stack' \in Seq(Branch)
    BY <1>1, StackResults, FirstBranch DEF Full, Start
  <2>7. single_device' \in Counter(Larger(MuteCounter, QuikfindDiscoveryCounter))
    BY <1>1, Numbers DEF Full, Start, NotRunning, Counter
  <2>8. quick_find' \in [counter : 0 .. QuikfindCounter, uid : Uid, running : BOOLEAN]
    BY <1>1, Numbers DEF Full, Start
  <2>9. quick_find_discovery' \in Counter(QuikfindDiscoveryCounter)
    BY <1>1, Numbers DEF Full, Start, NotRunning, Counter
  <2>10. tod' \in Table!Tod /\ Len(tod'.tod) <= TableSize
    BY <1>1, ResetType DEF Full, TableOf
  <2>11. UNCHANGED <<response, wire, rx>>
    BY <1>1 DEF Full, Start, port
  <2> QED  BY <2>1, <2>2, <2>3, <2>4, <2>5, <2>6, <2>7, <2>8, <2>9, <2>10, <2>11
<1>2. CASE Incremental
  <2>1. state' \in States /\ saved_state' \in States \ {"LateResponse"}
    BY <1>2 DEF Incremental, Start, NewState, States
  <2>2. is_finished' \in BOOLEAN /\ do_incremental' \in BOOLEAN
    BY <1>2 DEF Incremental, Start
  <2>3. unmute' \in Counter(UnmuteCounter)
    BY <1>2, Numbers DEF Incremental, Start, NotRunning, Counter
  <2>4. mute' \in [tod_entries : 0 .. TableSize, counter : 0 .. MuteCounter, uid : Uid, running : BOOLEAN]
    BY <1>2, Numbers, TableResults DEF Incremental, Start
  <2>5. discovery' \in [lb : Uid, ub : Uid, counter : 0 .. DiscoveryCounter, running : BOOLEAN]
    BY <1>2, Numbers DEF Incremental, Start
  <2>6. stack' \in Seq(Branch)
    BY <1>2, StackResults, FirstBranch DEF Incremental, Start
  <2>7. single_device' \in Counter(Larger(MuteCounter, QuikfindDiscoveryCounter))
    BY <1>2, Numbers DEF Incremental, Start, NotRunning, Counter
  <2>8. quick_find' \in [counter : 0 .. QuikfindCounter, uid : Uid, running : BOOLEAN]
    BY <1>2, Numbers DEF Incremental, Start
  <2>9. quick_find_discovery' \in Counter(QuikfindDiscoveryCounter)
    BY <1>2, Numbers DEF Incremental, Start, NotRunning, Counter
  <2>10. UNCHANGED <<response, tod, wire, rx>>
    BY <1>2 DEF Incremental, Start, port
  <2> QED  BY <2>1, <2>2, <2>3, <2>4, <2>5, <2>6, <2>7, <2>8, <2>9, <2>10
<1>3. CASE IsFinished
  <2>1. is_finished' \in BOOLEAN /\ do_incremental' \in BOOLEAN
    BY <1>3 DEF IsFinished
  <2>2. UNCHANGED <<state, saved_state, unmute, mute, discovery, stack, single_device, quick_find, quick_find_discovery, response, tod, wire, rx>>
    BY <1>3 DEF IsFinished, commands, search, port
  <2> QED  BY <2>1, <2>2
<1>4. CASE Stop
  <2>1. state' \in States /\ saved_state' \in States \ {"LateResponse"}
    BY <1>4 DEF Stop, NewState, States
  <2>2. is_finished' \in BOOLEAN /\ do_incremental' \in BOOLEAN
    BY <1>4 DEF Stop
  <2>3. UNCHANGED <<unmute, mute, discovery, stack, single_device, quick_find, quick_find_discovery, response, tod, wire, rx>>
    BY <1>4 DEF Stop, commands, search, port
  <2> QED  BY <2>1, <2>2, <2>3
<1>5. CASE LateResponse
  <2>1. state' \in States /\ saved_state' \in States \ {"LateResponse"}
    BY <1>5 DEF LateResponse, States
  <2>2. rx' \in [data : Frame, complete : BOOLEAN]
    BY <1>5 DEF LateResponse, Receive
  <2>3. UNCHANGED <<is_finished, do_incremental, unmute, mute, discovery, stack, single_device, quick_find, quick_find_discovery, response, tod, wire>>
    BY <1>5 DEF LateResponse, commands, search
  <2> QED  BY <2>1, <2>2, <2>3
<1>6. CASE UnmuteDone
  <2>1. state' \in States /\ saved_state' \in States \ {"LateResponse"}
    BY <1>6 DEF UnmuteDone, Goto, NewState, States
  <2>2. unmute' \in Counter(UnmuteCounter)
    BY <1>6, Numbers DEF UnmuteDone, NotRunning, Counter
  <2>3. UNCHANGED <<is_finished, do_incremental, mute, discovery, stack, single_device, quick_find, quick_find_discovery, response, tod, wire, rx>>
    BY <1>6 DEF UnmuteDone, search, port, Goto
  <2> QED  BY <2>1, <2>2, <2>3
<1>7. CASE UnmuteSend
  <2>1. unmute' \in Counter(UnmuteCounter)
    BY <1>7 DEF UnmuteSend, Counter
  <2>2. wire' \in Wire
    BY <1>7, Numbers DEF UnmuteSend, Transmit, DiscUnMute, Wire
  <2>3. UNCHANGED <<state, saved_state, is_finished, do_incremental, mute, discovery, stack, single_device, quick_find, quick_find_discovery, response, tod, rx>>
    BY <1>7 DEF UnmuteSend, search, control, Stay
  <2> QED  BY <2>1, <2>2, <2>3
<1>8. CASE UnmuteReceive
  <2>1. rx' \in [data : Frame, complete : BOOLEAN]
    BY <1>8 DEF UnmuteReceive, Receive
  <2>2. UNCHANGED <<state, saved_state, is_finished, do_incremental, unmute, mute, discovery, stack, single_device, quick_find, quick_find_discovery, response, tod, wire>>
    BY <1>8 DEF UnmuteReceive, control, commands, search, Stay
  <2> QED  BY <2>1, <2>2
<1>9. CASE UnmuteTimeOut
  <2>1. unmute' \in Counter(UnmuteCounter)
    BY <1>9, Numbers, SMTT(30) DEF UnmuteTimeOut, NotRunning, Counter
  <2>2. UNCHANGED <<state, saved_state, is_finished, do_incremental, mute, discovery, stack, single_device, quick_find, quick_find_discovery, response, tod, wire, rx>>
    BY <1>9 DEF UnmuteTimeOut, control, search, port, Stay
  <2> QED  BY <2>1, <2>2
<1>10. CASE MuteDone
  <2>1. state' \in States /\ saved_state' \in States \ {"LateResponse"}
    BY <1>10 DEF MuteDone, Goto, NewState, States
  <2>2. mute' \in [tod_entries : 0 .. TableSize, counter : 0 .. MuteCounter, uid : Uid, running : BOOLEAN]
    BY <1>10 DEF MuteDone
  <2>3. UNCHANGED <<is_finished, do_incremental, unmute, discovery, stack, single_device, quick_find, quick_find_discovery, response, tod, wire, rx>>
    BY <1>10 DEF MuteDone, search, port, Goto, MuteOther
  <2> QED  BY <2>1, <2>2, <2>3
<1>11. CASE MuteDeviceIsGone
  <2>1. mute' \in [tod_entries : 0 .. TableSize, counter : 0 .. MuteCounter, uid : Uid, running : BOOLEAN]
    <3>1. mute \in [tod_entries : 0 .. TableSize, counter : 0 .. MuteCounter, uid : Uid, running : BOOLEAN] /\ mute.tod_entries \in 0 .. TableSize /\ TableSize \in Nat
      BY ConstantsAssumption DEF Counter, Larger
    <3>2. mute.tod_entries - 1 \in 0 .. TableSize
      BY <1>11, <3>1 DEF MuteDeviceIsGone
    <3> QED  BY <1>11, <3>1, <3>2, Numbers DEF MuteDeviceIsGone
  <2>2. tod' \in Table!Tod /\ Len(tod'.tod) <= TableSize
    BY <1>11, DeleteType DEF MuteDeviceIsGone, TableOf
  <2>3. UNCHANGED <<state, saved_state, is_finished, do_incremental, unmute, discovery, stack, single_device, quick_find, quick_find_discovery, response, wire, rx>>
    BY <1>11 DEF MuteDeviceIsGone, control, search, port, Stay, MuteOther
  <2> QED  BY <2>1, <2>2, <2>3
<1>12. CASE MuteSend
  <2>1. mute' \in [tod_entries : 0 .. TableSize, counter : 0 .. MuteCounter, uid : Uid, running : BOOLEAN]
    <3>1. Table!CopyUidEntry(tod, mute.tod_entries, UidAll) \in Uid
      BY TableResults, ConstantsAssumption
    <3> QED  BY <1>12, <3>1 DEF MuteSend
  <2>2. wire' \in Wire
    BY <1>12, TableResults DEF MuteSend, Transmit, DiscMute, Wire
  <2>3. UNCHANGED <<state, saved_state, is_finished, do_incremental, unmute, discovery, stack, single_device, quick_find, quick_find_discovery, response, tod, rx>>
    BY <1>12 DEF MuteSend, control, search, Stay, MuteOther
  <2> QED  BY <2>1, <2>2, <2>3
<1>13. CASE MuteResponse
  <2>1. mute' \in [tod_entries : 0 .. TableSize, counter : 0 .. MuteCounter, uid : Uid, running : BOOLEAN]
    <3>1. mute \in [tod_entries : 0 .. TableSize, counter : 0 .. MuteCounter, uid : Uid, running : BOOLEAN] /\ mute.tod_entries \in 0 .. TableSize /\ TableSize \in Nat
      BY ConstantsAssumption DEF Counter, Larger
    <3>2. mute.tod_entries - 1 \in 0 .. TableSize
      BY <1>13, <3>1 DEF MuteResponse
    <3> QED  BY <1>13, <3>1, <3>2 DEF MuteResponse
  <2>2. response' \in BOOLEAN
    BY <1>13 DEF MuteResponse, Received
  <2>3. rx' \in [data : Frame, complete : BOOLEAN]
    BY <1>13 DEF MuteResponse, Received, Receive
  <2>4. UNCHANGED <<state, saved_state, is_finished, do_incremental, unmute, discovery, stack, single_device, quick_find, quick_find_discovery, tod, wire>>
    BY <1>13 DEF MuteResponse, control, search, Stay, MuteOther
  <2> QED  BY <2>1, <2>2, <2>3, <2>4
<1>14. CASE MuteTimeOut
  <2>1. mute' \in [tod_entries : 0 .. TableSize, counter : 0 .. MuteCounter, uid : Uid, running : BOOLEAN]
    <3>1. mute \in [tod_entries : 0 .. TableSize, counter : 0 .. MuteCounter, uid : Uid, running : BOOLEAN] /\ mute.counter \in 0 .. MuteCounter /\ MuteCounter \in Nat
      BY ConstantsAssumption DEF Counter, Larger
    <3>2. mute.counter - 1 \in 0 .. MuteCounter
      BY <1>14, <3>1 DEF MuteTimeOut
    <3> QED  BY <1>14, <3>1, <3>2 DEF MuteTimeOut
  <2>2. response' \in BOOLEAN
    BY <1>14 DEF MuteTimeOut, TimedOut
  <2>3. wire' \in Wire
    BY <1>14 DEF MuteTimeOut, Transmit, DiscMute, Wire
  <2>4. UNCHANGED <<state, saved_state, is_finished, do_incremental, unmute, discovery, stack, single_device, quick_find, quick_find_discovery, tod, rx>>
    BY <1>14 DEF MuteTimeOut, control, search, Stay, MuteOther, TimedOut
  <2> QED  BY <2>1, <2>2, <2>3, <2>4
<1>15. CASE DiscoveryAnswered
  <2>1. state' \in States /\ saved_state' \in States \ {"LateResponse"}
    BY <1>15 DEF DiscoveryAnswered, Goto, NewState, States
  <2>2. discovery' \in [lb : Uid, ub : Uid, counter : 0 .. DiscoveryCounter, running : BOOLEAN]
    BY <1>15 DEF DiscoveryAnswered
  <2>3. response' \in BOOLEAN
    BY <1>15 DEF DiscoveryAnswered
  <2>4. rx' \in [data : Frame, complete : BOOLEAN]
    BY <1>15 DEF DiscoveryAnswered, Receive
  <2>5. UNCHANGED <<is_finished, do_incremental, unmute, mute, stack, single_device, quick_find, quick_find_discovery, tod, wire>>
    BY <1>15 DEF DiscoveryAnswered, commands, Goto
  <2> QED  BY <2>1, <2>2, <2>3, <2>4, <2>5
<1>16. CASE DiscoveryTimeOut
  <2>1. discovery' \in [lb : Uid, ub : Uid, counter : 0 .. DiscoveryCounter, running : BOOLEAN]
    <3>1. discovery \in [lb : Uid, ub : Uid, counter : 0 .. DiscoveryCounter, running : BOOLEAN] /\ discovery.counter \in 0 .. DiscoveryCounter /\ DiscoveryCounter \in Nat
      BY ConstantsAssumption DEF Counter, Larger
    <3>2. discovery.counter - 1 \in 0 .. DiscoveryCounter
      BY <1>16, <3>1 DEF DiscoveryTimeOut
    <3> QED  BY <1>16, <3>1, <3>2 DEF DiscoveryTimeOut
  <2>2. response' \in BOOLEAN
    BY <1>16 DEF DiscoveryTimeOut, TimedOut
  <2>3. wire' \in Wire
    BY <1>16 DEF DiscoveryTimeOut, Transmit, DiscBranch, Wire
  <2>4. UNCHANGED <<state, saved_state, is_finished, do_incremental, unmute, mute, stack, single_device, quick_find, quick_find_discovery, tod, rx>>
    BY <1>16 DEF DiscoveryTimeOut, control, commands, Stay, TimedOut
  <2> QED  BY <2>1, <2>2, <2>3, <2>4
<1>17. CASE DiscoveryNoMore
  <2>1. state' \in States /\ saved_state' \in States \ {"LateResponse"}
    BY <1>17 DEF DiscoveryNoMore, GotoLate, NewState, States
  <2>2. UNCHANGED <<is_finished, do_incremental, unmute, mute, discovery, stack, single_device, quick_find, quick_find_discovery, response, tod, wire, rx>>
    BY <1>17 DEF DiscoveryNoMore, commands, search, port, GotoLate
  <2> QED  BY <2>1, <2>2
<1>18. CASE DiscoveryTakeSingle
  <2>1. state' \in States /\ saved_state' \in States \ {"LateResponse"}
    BY <1>18 DEF DiscoveryTakeSingle, GotoLate, NewState, States
  <2>2. discovery' \in [lb : Uid, ub : Uid, counter : 0 .. DiscoveryCounter, running : BOOLEAN]
    BY <1>18, StackResults DEF DiscoveryTakeSingle, Top, Branch
  <2>3. stack' \in Seq(Branch)
    BY <1>18, StackResults DEF DiscoveryTakeSingle
  <2>4. quick_find_discovery' \in Counter(QuikfindDiscoveryCounter)
    BY <1>18 DEF DiscoveryTakeSingle, Counter
  <2>5. UNCHANGED <<is_finished, do_incremental, unmute, mute, single_device, quick_find, response, tod, wire, rx>>
    BY <1>18 DEF DiscoveryTakeSingle, port, GotoLate
  <2> QED  BY <2>1, <2>2, <2>3, <2>4, <2>5
<1>19. CASE DiscoveryTakeBranch
  <2>1. discovery' \in [lb : Uid, ub : Uid, counter : 0 .. DiscoveryCounter, running : BOOLEAN]
    BY <1>19, StackResults, Numbers DEF DiscoveryTakeBranch, Top, Branch
  <2>2. stack' \in Seq(Branch)
    BY <1>19, StackResults DEF DiscoveryTakeBranch
  <2>3. wire' \in Wire
    BY <1>19, StackResults DEF DiscoveryTakeBranch, Top, Branch, Transmit, DiscBranch, Wire
  <2>4. UNCHANGED <<state, saved_state, is_finished, do_incremental, unmute, mute, single_device, quick_find, quick_find_discovery, response, tod, rx>>
    BY <1>19 DEF DiscoveryTakeBranch, control, commands, Stay
  <2> QED  BY <2>1, <2>2, <2>3, <2>4
<1>20. CASE SingleGiveUp
  <2>1. state' \in States /\ saved_state' \in States \ {"LateResponse"}
    BY <1>20 DEF SingleGiveUp, GotoLate, NewState, States
  <2>2. single_device' \in Counter(Larger(MuteCounter, QuikfindDiscoveryCounter))
    BY <1>20, Numbers DEF SingleGiveUp, NotRunning, Counter
  <2>3. UNCHANGED <<is_finished, do_incremental, unmute, mute, discovery, stack, quick_find, quick_find_discovery, response, tod, wire, rx>>
    BY <1>20 DEF SingleGiveUp, search, port, GotoLate, SingleOther
  <2> QED  BY <2>1, <2>2, <2>3
<1>21. CASE SingleSend
  <2>1. single_device' \in Counter(Larger(MuteCounter, QuikfindDiscoveryCounter))
    BY <1>21 DEF SingleSend, Counter
  <2>2. wire' \in Wire
    BY <1>21 DEF SingleSend, Transmit, DiscMute, Wire
  <2>3. UNCHANGED <<state, saved_state, is_finished, do_incremental, unmute, mute, discovery, stack, quick_find, quick_find_discovery, response, tod, rx>>
    BY <1>21 DEF SingleSend, control, search, Stay, SingleOther
  <2> QED  BY <2>1, <2>2, <2>3
<1>22. CASE SingleResponse
  <2>1. state' \in States /\ saved_state' \in States \ {"LateResponse"}
    BY <1>22 DEF SingleResponse, Goto, NewState, States
  <2>2. single_device' \in Counter(Larger(MuteCounter, QuikfindDiscoveryCounter))
    BY <1>22, Numbers DEF SingleResponse, NotRunning, Counter
  <2>3. response' \in BOOLEAN
    BY <1>22 DEF SingleResponse, Received
  <2>4. tod' \in Table!Tod /\ Len(tod'.tod) <= TableSize
    BY <1>22, AddUidType DEF SingleResponse, TableOf
  <2>5. rx' \in [data : Frame, complete : BOOLEAN]
    BY <1>22 DEF SingleResponse, Received, Receive
  <2>6. UNCHANGED <<is_finished, do_incremental, unmute, mute, discovery, stack, quick_find, quick_find_discovery, wire>>
    BY <1>22 DEF SingleResponse, search, Goto, SingleOther
  <2> QED  BY <2>1, <2>2, <2>3, <2>4, <2>5, <2>6
<1>23. CASE SingleIgnore
  <2>1. response' \in BOOLEAN
    BY <1>23 DEF SingleIgnore, Received
  <2>2. rx' \in [data : Frame, complete : BOOLEAN]
    BY <1>23 DEF SingleIgnore, Received, Receive
  <2>3. UNCHANGED <<state, saved_state, is_finished, do_incremental, unmute, mute, discovery, stack, single_device, quick_find, quick_find_discovery, tod, wire>>
    BY <1>23 DEF SingleIgnore, control, search, Stay, SingleOther
  <2> QED  BY <2>1, <2>2, <2>3
<1>24. CASE SingleTimeOut
  <2>1. single_device' \in Counter(Larger(MuteCounter, QuikfindDiscoveryCounter))
    <3>1. single_device \in Counter(Larger(MuteCounter, QuikfindDiscoveryCounter)) /\ single_device.counter \in 0 .. Larger(MuteCounter, QuikfindDiscoveryCounter) /\ Larger(MuteCounter, QuikfindDiscoveryCounter) \in Nat
      BY ConstantsAssumption DEF Counter, Larger
    <3>2. single_device.counter - 1 \in 0 .. Larger(MuteCounter, QuikfindDiscoveryCounter)
      BY <1>24, <3>1 DEF SingleTimeOut
    <3> QED  BY <1>24, <3>1, <3>2 DEF SingleTimeOut, Counter
  <2>2. response' \in BOOLEAN
    BY <1>24 DEF SingleTimeOut, TimedOut
  <2>3. wire' \in Wire
    BY <1>24 DEF SingleTimeOut, Transmit, DiscMute, Wire
  <2>4. UNCHANGED <<state, saved_state, is_finished, do_incremental, unmute, mute, discovery, stack, quick_find, quick_find_discovery, tod, rx>>
    BY <1>24 DEF SingleTimeOut, control, search, Stay, SingleOther, TimedOut
  <2> QED  BY <2>1, <2>2, <2>3, <2>4
<1>25. CASE DubSilent
  <2>1. state' \in States /\ saved_state' \in States \ {"LateResponse"}
    BY <1>25 DEF DubSilent, Goto, NewState, States
  <2>2. UNCHANGED <<is_finished, do_incremental, unmute, mute, discovery, stack, single_device, quick_find, quick_find_discovery, response, tod, wire, rx>>
    BY <1>25 DEF DubSilent, commands, search, port, Goto
  <2> QED  BY <2>1, <2>2
<1>26. CASE DubOneDevice
  <2>1. state' \in States /\ saved_state' \in States \ {"LateResponse"}
    BY <1>26 DEF DubOneDevice, GotoLate, NewState, States
  <2>2. quick_find' \in [counter : 0 .. QuikfindCounter, uid : Uid, running : BOOLEAN]
    BY <1>26 DEF DubOneDevice, Frame
  <2>3. UNCHANGED <<is_finished, do_incremental, unmute, mute, discovery, stack, single_device, quick_find_discovery, response, tod, wire, rx>>
    BY <1>26 DEF DubOneDevice, search, port, GotoLate
  <2> QED  BY <2>1, <2>2, <2>3
<1>27. CASE DubCollision
  <2>1. state' \in States /\ saved_state' \in States \ {"LateResponse"}
    BY <1>27 DEF DubCollision, GotoLate, NewState, States
  <2>2. stack' \in Seq(Branch)
    <3>1. discovery.lb \in Uid /\ discovery.ub \in Uid /\ discovery.lb < discovery.ub
      BY <1>27 DEF DubCollision, BranchesInv, PhaseOK, Splitting, Phase
    <3> QED  BY <1>27, <3>1, StackResults, HalvesAreBranches DEF DubCollision
  <2>3. UNCHANGED <<is_finished, do_incremental, unmute, mute, discovery, single_device, quick_find, quick_find_discovery, response, tod, wire, rx>>
    BY <1>27 DEF DubCollision, commands, port, GotoLate
  <2> QED  BY <2>1, <2>2, <2>3
<1>28. CASE QuickfindGiveUp
  <2>1. state' \in States /\ saved_state' \in States \ {"LateResponse"}
    BY <1>28 DEF QuickfindGiveUp, Goto, NewState, States
  <2>2. quick_find' \in [counter : 0 .. QuikfindCounter, uid : Uid, running : BOOLEAN]
    BY <1>28 DEF QuickfindGiveUp
  <2>3. UNCHANGED <<is_finished, do_incremental, unmute, mute, discovery, stack, single_device, quick_find_discovery, response, tod, wire, rx>>
    BY <1>28 DEF QuickfindGiveUp, search, port, Goto, QuickfindOther
  <2> QED  BY <2>1, <2>2, <2>3
<1>29. CASE QuickfindSend
  <2>1. quick_find' \in [counter : 0 .. QuikfindCounter, uid : Uid, running : BOOLEAN]
    BY <1>29 DEF QuickfindSend
  <2>2. wire' \in Wire
    BY <1>29 DEF QuickfindSend, Transmit, DiscMute, Wire
  <2>3. UNCHANGED <<state, saved_state, is_finished, do_incremental, unmute, mute, discovery, stack, single_device, quick_find_discovery, response, tod, rx>>
    BY <1>29 DEF QuickfindSend, control, search, Stay, QuickfindOther
  <2> QED  BY <2>1, <2>2, <2>3
<1>30. CASE QuickfindInvalid
  <2>1. response' \in BOOLEAN
    BY <1>30 DEF QuickfindInvalid, Received
  <2>2. rx' \in [data : Frame, complete : BOOLEAN]
    BY <1>30 DEF QuickfindInvalid, Received, Receive
  <2>3. UNCHANGED <<state, saved_state, is_finished, do_incremental, unmute, mute, discovery, stack, single_device, quick_find, quick_find_discovery, tod, wire>>
    BY <1>30 DEF QuickfindInvalid, control, search, Stay, QuickfindOther
  <2> QED  BY <2>1, <2>2, <2>3
<1>31. CASE QuickfindResponse
  <2>1. state' \in States /\ saved_state' \in States \ {"LateResponse"}
    BY <1>31 DEF QuickfindResponse, Goto, NewState, States
  <2>2. quick_find' \in [counter : 0 .. QuikfindCounter, uid : Uid, running : BOOLEAN]
    BY <1>31, Numbers DEF QuickfindResponse
  <2>3. response' \in BOOLEAN
    BY <1>31 DEF QuickfindResponse, Received
  <2>4. tod' \in Table!Tod /\ Len(tod'.tod) <= TableSize
    BY <1>31, AddUidType DEF QuickfindResponse, TableOf
  <2>5. rx' \in [data : Frame, complete : BOOLEAN]
    BY <1>31 DEF QuickfindResponse, Received, Receive
  <2>6. UNCHANGED <<is_finished, do_incremental, unmute, mute, discovery, stack, single_device, quick_find_discovery, wire>>
    BY <1>31 DEF QuickfindResponse, search, Goto, QuickfindOther
  <2> QED  BY <2>1, <2>2, <2>3, <2>4, <2>5, <2>6
<1>32. CASE QuickfindTimeOut
  <2>1. quick_find' \in [counter : 0 .. QuikfindCounter, uid : Uid, running : BOOLEAN]
    <3>1. quick_find \in [counter : 0 .. QuikfindCounter, uid : Uid, running : BOOLEAN] /\ quick_find.counter \in 0 .. QuikfindCounter /\ QuikfindCounter \in Nat
      BY ConstantsAssumption DEF Counter, Larger
    <3>2. quick_find.counter - 1 \in 0 .. QuikfindCounter
      BY <1>32, <3>1 DEF QuickfindTimeOut
    <3> QED  BY <1>32, <3>1, <3>2 DEF QuickfindTimeOut
  <2>2. response' \in BOOLEAN
    BY <1>32 DEF QuickfindTimeOut, TimedOut
  <2>3. UNCHANGED <<state, saved_state, is_finished, do_incremental, unmute, mute, discovery, stack, single_device, quick_find_discovery, tod, wire, rx>>
    BY <1>32 DEF QuickfindTimeOut, control, search, Stay, QuickfindOther, TimedOut
  <2> QED  BY <2>1, <2>2, <2>3
<1>33. CASE QfdGiveUp
  <2>1. state' \in States /\ saved_state' \in States \ {"LateResponse"}
    BY <1>33 DEF QfdGiveUp, GotoLate, NewState, States
  <2>2. quick_find_discovery' \in Counter(QuikfindDiscoveryCounter)
    BY <1>33, Numbers DEF QfdGiveUp, NotRunning, Counter
  <2>3. UNCHANGED <<is_finished, do_incremental, unmute, mute, discovery, stack, single_device, quick_find, response, tod, wire, rx>>
    BY <1>33 DEF QfdGiveUp, search, port, GotoLate, QfdOther
  <2> QED  BY <2>1, <2>2, <2>3
<1>34. CASE QfdSend
  <2>1. quick_find_discovery' \in Counter(QuikfindDiscoveryCounter)
    BY <1>34 DEF QfdSend, Counter
  <2>2. wire' \in Wire
    BY <1>34 DEF QfdSend, Transmit, DiscBranch, Wire
  <2>3. UNCHANGED <<state, saved_state, is_finished, do_incremental, unmute, mute, discovery, stack, single_device, quick_find, response, tod, rx>>
    BY <1>34 DEF QfdSend, control, search, Stay, QfdOther
  <2> QED  BY <2>1, <2>2, <2>3
<1>35. CASE QfdOneDevice
  <2>1. state' \in States /\ saved_state' \in States \ {"LateResponse"}
    BY <1>35 DEF QfdOneDevice, GotoLate, NewState, States
  <2>2. quick_find' \in [counter : 0 .. QuikfindCounter, uid : Uid, running : BOOLEAN]
    BY <1>35 DEF QfdOneDevice, Frame
  <2>3. quick_find_discovery' \in Counter(QuikfindDiscoveryCounter)
    BY <1>35, Numbers DEF QfdOneDevice, NotRunning, Counter
  <2>4. response' \in BOOLEAN
    BY <1>35 DEF QfdOneDevice, Received
  <2>5. rx' \in [data : Frame, complete : BOOLEAN]
    BY <1>35 DEF QfdOneDevice, Received, Receive
  <2>6. UNCHANGED <<is_finished, do_incremental, unmute, mute, discovery, stack, single_device, tod, wire>>
    BY <1>35 DEF QfdOneDevice, search, GotoLate, QfdOther
  <2> QED  BY <2>1, <2>2, <2>3, <2>4, <2>5, <2>6
<1>36. CASE QfdCollision
  <2>1. state' \in States /\ saved_state' \in States \ {"LateResponse"}
    BY <1>36 DEF QfdCollision, Goto, NewState, States
  <2>2. quick_find_discovery' \in Counter(QuikfindDiscoveryCounter)
    BY <1>36, Numbers DEF QfdCollision, NotRunning, Counter
  <2>3. response' \in BOOLEAN
    BY <1>36 DEF QfdCollision, Received
  <2>4. rx' \in [data : Frame, complete : BOOLEAN]
    BY <1>36 DEF QfdCollision, Received, Receive
  <2>5. UNCHANGED <<is_finished, do_incremental, unmute, mute, discovery, stack, single_device, quick_find, tod, wire>>
    BY <1>36 DEF QfdCollision, search, Goto, QfdOther
  <2> QED  BY <2>1, <2>2, <2>3, <2>4, <2>5
<1>37. CASE QfdTimeOut
  <2>1. quick_find_discovery' \in Counter(QuikfindDiscoveryCounter)
    BY <1>37, Numbers, SMTT(30) DEF QfdTimeOut, NotRunning, Counter
  <2>2. response' \in BOOLEAN
    BY <1>37 DEF QfdTimeOut, TimedOut
  <2>3. UNCHANGED <<state, saved_state, is_finished, do_incremental, unmute, mute, discovery, stack, single_device, quick_find, tod, wire, rx>>
    BY <1>37 DEF QfdTimeOut, control, search, Stay, QfdOther, TimedOut
  <2> QED  BY <2>1, <2>2, <2>3
<1>38. CASE Finish
  <2>1. state' \in States /\ saved_state' \in States \ {"LateResponse"}
    BY <1>38 DEF Finish, NewState, States
  <2>2. is_finished' \in BOOLEAN /\ do_incremental' \in BOOLEAN
    BY <1>38 DEF Finish
  <2>3. UNCHANGED <<unmute, mute, discovery, stack, single_device, quick_find, quick_find_discovery, response, tod, wire, rx>>
    BY <1>38 DEF Finish, commands, search, port
  <2> QED  BY <2>1, <2>2, <2>3
<1>39. CASE LineStep
  <2>1. wire' \in Wire
    BY <1>39, Numbers DEF LineStep, Wire, Quiet
  <2>2. rx' \in [data : Frame, complete : BOOLEAN]
    <3>1. PICK frame \in Frame : rx' = rx \/ Arrives(frame)
      BY <1>39 DEF LineStep
    <3>2. CASE rx' = rx
      BY <3>2
    <3>3. CASE rx' = [data |-> frame, complete |-> TRUE]
      BY <3>3
    <3> QED  BY <3>1, <3>2, <3>3 DEF Arrives
  <2>3. UNCHANGED <<state, saved_state, is_finished, do_incremental, unmute, mute, discovery, stack, single_device, quick_find, quick_find_discovery, response, tod>>
    BY <1>39 DEF LineStep, control, commands, search
  <2> QED  BY <2>1, <2>2, <2>3
<1>40. CASE UNCHANGED vars
  BY <1>40 DEF vars, control, commands, search, port
<1> QED
  BY <1>1, <1>2, <1>3, <1>4, <1>5, <1>6, <1>7, <1>8, <1>9, <1>10, <1>11, <1>12, <1>13, <1>14,
     <1>15, <1>16, <1>17, <1>18, <1>19, <1>20, <1>21, <1>22, <1>23, <1>24, <1>25, <1>26, <1>27, <1>28,
     <1>29, <1>30, <1>31, <1>32, <1>33, <1>34, <1>35, <1>36, <1>37, <1>38, <1>39, <1>40 DEF Next, Command, Process
-----------------------------------------------------------------------------
\* With the stack and the bounds of the open branch as they were, only the
\* phase can disturb the invariant.
LEMMA KeepsBranches ==
    ASSUME BranchesInv, PhaseOK', BranchOpen' => BranchOpen,
           stack' = stack, discovery'.lb = discovery.lb, discovery'.ub = discovery.ub
    PROVE  BranchesInv'
BY DEF BranchesInv, BranchesDisjoint, BranchesShrink, Size

\* Steps after which the machine is where it was.
LEMMA SamePhase ==
    ASSUME TypeOK', BranchesInv, UNCHANGED search, Phase' = Phase
    PROVE  BranchesInv'
<1>1. PhaseOK' /\ (BranchOpen' => BranchOpen)
  BY DEF TypeOK, BranchesInv, PhaseOK, Splitting, BranchOpen, search
<1> QED  BY <1>1, KeepsBranches DEF search

\* Steps that leave the open branch, or find none open.
LEMMA BranchClosed ==
    ASSUME TypeOK', BranchesInv, UNCHANGED search,
           Phase' \in {"Idle", "Finished"} \/ (Phase' \in {"Mute", "Discovery"} /\ ~discovery.running)
    PROVE  BranchesInv'
<1>1. PhaseOK' /\ (BranchOpen' => BranchOpen)
  BY DEF TypeOK, PhaseOK, Splitting, BranchOpen, search
<1> QED  BY <1>1, KeepsBranches DEF search

Asking == {"Dub", "Quickfind", "QuickfindDiscovery"}

\* Steps that go on asking the devices of the open branch.
LEMMA BranchAsked ==
    ASSUME TypeOK', BranchesInv, UNCHANGED search, Phase \in Asking, Phase' \in Asking
    PROVE  BranchesInv'
<1>1. PhaseOK' /\ (BranchOpen' => BranchOpen)
  BY DEF TypeOK, BranchesInv, PhaseOK, Splitting, BranchOpen, search, Asking
<1> QED  BY <1>1, KeepsBranches DEF search

\* What Halving says of each step of the halving.
LEMMA HalvingFacts ==
    /\ Depth \in Nat /\ 1 <= Depth /\ Depth <= TableSize
    /\ \A k \in 1 .. Depth : Halving[k] \in Nat
    /\ \A k \in 1 .. (Depth - 1) : Halving[k] <= 2 * Halving[k + 1]
    /\ Halving[1] >= MaxUid + 1 /\ Halving[Depth] = 1
BY HalvingAssumption, LenProperties, ElementOfSeq DEF Depth

\* The branch searched next leaves room for the two halves of it.
LEMMA RoomForHalves ==
    ASSUME TypeOK, BranchesInv, Phase \in Asking
    PROVE  /\ Len(stack) \in Nat /\ Len(stack) + 2 <= Depth /\ Depth <= TableSize
           /\ Depth \in Nat /\ \A k \in 1 .. Depth : Halving[k] \in Nat
           /\ Halving[Len(stack) + 1] <= 2 * Halving[Len(stack) + 2]
<1> DEFINE n == Len(stack)
<1>1. n \in Nat /\ Depth \in Nat /\ \A k \in 1 .. Depth : Halving[k] \in Nat
  BY LenProperties, HalvingFacts DEF TypeOK
<1>2. n + 1 <= Depth /\ Size(discovery) <= Halving[n + 1] /\ discovery.lb < discovery.ub
  BY DEF BranchesInv, BranchesShrink, BranchOpen, PhaseOK, Splitting, Asking
<1>3. Size(discovery) \in Int /\ Size(discovery) >= 2
  BY <1>2, SMTT(30) DEF TypeOK, Size, Uid
<1> HIDE DEF n
<1>4. n + 1 # Depth
  <2>1. ASSUME n + 1 = Depth PROVE Halving[n + 1] = 1
    BY <2>1, HalvingFacts
  <2> QED  BY <1>2, <1>3, <2>1
<1>5. Halving[n + 1] <= 2 * Halving[n + 2]
  <2>1. n + 1 \in 1 .. (Depth - 1) /\ n + 2 = (n + 1) + 1
    BY <1>1, <1>2, <1>4
  <2>2. Halving[n + 1] <= 2 * Halving[(n + 1) + 1]
    BY <2>1, HalvingFacts
  <2> QED  BY <2>1, <2>2
<1>6. n + 2 <= Depth
  BY <1>1, <1>2, <1>4
<1> QED  BY <1>1, <1>5, <1>6, HalvingFacts DEF n

\* What is left of the stack when the top is taken off.
LEMMA PopIs ==
    ASSUME TypeOK, stack # << >>, stack' = Pop(stack)
    PROVE  /\ Len(stack) \in Nat /\ Len(stack) >= 1 /\ Len(stack') = Len(stack) - 1
           /\ \A i \in 1 .. Len(stack) - 1 : stack'[i] = stack[i]
<1> DEFINE n == Len(stack)
<1>1. n \in Nat /\ n >= 1
  BY EmptySeq, LenProperties DEF TypeOK
<1>2. stack \in Seq(Branch) /\ stack' = SubSeq(stack, 1, n - 1)
  BY DEF TypeOK, Pop
<1>3. n - 1 \in Int /\ \A i \in 1 .. (n - 1) : stack[i] \in Branch
  BY <1>1, <1>2, ElementOfSeq
<1>4. Len(SubSeq(stack, 1, n - 1)) = IF 1 <= n - 1 THEN (n - 1) - 1 + 1 ELSE 0
  BY <1>3, SubSeqProperties
<1>5. ASSUME NEW i \in 1 .. n - 1  PROVE stack'[i] = stack[i]
  BY <1>1, <1>2
<1> HIDE DEF n
<1>6. Len(stack') = n - 1
  BY <1>1, <1>2, <1>4
<1> QED  BY <1>1, <1>5, <1>6 DEF n

\* After a collision both halves are on the stack, the upper one on top.
LEMMA SplitIs ==
    ASSUME TypeOK, BranchesInv, DubCollision
    PROVE  LET mid == MidPosition(discovery.lb, discovery.ub)
           IN  /\ Len(stack) \in Nat /\ stack' \in Seq(Branch) /\ Len(stack') = Len(stack) + 2
               /\ \A i \in 1 .. Len(stack) : stack'[i] = stack[i]
               /\ stack'[Len(stack) + 1] = [lb |-> discovery.lb, ub |-> mid]
               /\ stack'[Len(stack) + 2] = [lb |-> mid + 1, ub |-> discovery.ub]
               /\ mid \in Nat
<1> DEFINE n     == Len(stack)
           mid   == MidPosition(discovery.lb, discovery.ub)
           lower == [lb |-> discovery.lb, ub |-> mid]
           upper == [lb |-> mid + 1, ub |-> discovery.ub]
<1>1. Phase = "Dub"
  BY DEF DubCollision, Phase
<1>2. n \in Nat /\ n + 2 <= Depth /\ Depth <= TableSize /\ Depth \in Nat
  BY <1>1, RoomForHalves DEF Asking
<1>3. discovery.lb < discovery.ub /\ discovery.lb \in Uid /\ discovery.ub \in Uid
  BY <1>1 DEF TypeOK, BranchesInv, PhaseOK, Splitting
<1>4. lower \in Branch /\ upper \in Branch
  BY <1>3, HalvesAreBranches
<1>5. mid \in Nat
  BY <1>4 DEF Branch, Uid
<1>6. stack' = Push(Push(stack, lower), upper)
  BY DEF DubCollision
<1> HIDE DEF mid, lower, upper
<1>7. Push(stack, lower) = Append(stack, lower)
  BY <1>2, ConstantsAssumption DEF Push
<1>8. Len(Append(stack, lower)) = n + 1 /\ Append(stack, lower) \in Seq(Branch)
  BY <1>4, AppendProperties DEF TypeOK
<1>9. stack' = Append(Append(stack, lower), upper)
  BY <1>2, <1>6, <1>7, <1>8, ConstantsAssumption DEF Push
<1>10. /\ stack' \in Seq(Branch) /\ Len(stack') = n + 2 /\ \A i \in 1 .. n : stack'[i] = stack[i]
       /\ stack'[n + 1] = lower /\ stack'[n + 2] = upper
  BY <1>2, <1>4, <1>8, <1>9, AppendProperties, SMTT(30) DEF TypeOK
<1> QED  BY <1>2, <1>5, <1>10 DEF mid, lower, upper
-----------------------------------------------------------------------------
\* The strengthened invariant holds at first,
LEMMA BranchesInit == Init => BranchesInv
<1> SUFFICES ASSUME Init PROVE BranchesInv
  OBVIOUS
<1>1. stack = << >> /\ Len(stack) = 0 /\ Phase = "Idle" /\ state = "Idle"
  BY DEF Init, Phase
<1>2. PhaseOK /\ ~BranchOpen
  BY <1>1 DEF PhaseOK, Splitting, BranchOpen
<1>3. \A i \in 1 .. Len(stack) : FALSE
  BY <1>1
<1>4. BranchesDisjoint
  BY <1>2, <1>3 DEF BranchesDisjoint
<1>5. BranchesShrink
  BY <1>1, <1>2, <1>3, HalvingFacts DEF BranchesShrink
<1> QED  BY <1>2, <1>4, <1>5 DEF BranchesInv

\* a discovery starts with one branch, all the UIDs,
LEMMA StartBranches ==
    ASSUME TypeOK, BranchesInv, NEW incremental, NEW entries, Start(incremental, entries)
    PROVE  BranchesInv'
<1> DEFINE all == [lb |-> 0, ub |-> MaxUid]
<1>1. stack' = << all >> /\ Len(stack') = 1 /\ stack'[1] = all
  BY ConstantsAssumption DEF Start, Push
<1>2. Phase' = "Unmute" /\ state' = "Unmute" /\ ~discovery'.running
  BY DEF Start, NewState, Phase, TypeOK
<1>3. MaxUid \in Nat /\ Size(all) = MaxUid + 1
  BY ConstantsAssumption DEF MaxUid, Size
<1>4. PhaseOK' /\ ~BranchOpen'
  BY <1>2 DEF PhaseOK, Splitting, BranchOpen
<1>5. BranchesDisjoint'
  BY <1>1, <1>3, <1>4 DEF BranchesDisjoint
<1>6. BranchesShrink'
  BY <1>1, <1>3, <1>4, HalvingFacts DEF BranchesShrink, Size
<1> QED  BY <1>4, <1>5, <1>6 DEF BranchesInv

\* taking a branch off the stack opens it,
LEMMA TakeBranches ==
    ASSUME TypeOK, TypeOK', BranchesInv, stack # << >>, stack' = Pop(stack),
           discovery'.lb = Top.lb, discovery'.ub = Top.ub, PhaseOK'
    PROVE  BranchesInv'
<1> DEFINE n == Len(stack)
<1>1. n \in Nat /\ n >= 1 /\ n <= Depth
  BY EmptySeq, LenProperties DEF TypeOK, BranchesInv, BranchesShrink
<1>2. Len(stack') = n - 1 /\ \A i \in 1 .. (n - 1) : stack'[i] = stack[i]
  BY PopIs
<1>3. discovery'.lb = stack[n].lb /\ discovery'.ub = stack[n].ub
  BY DEF Top
<1> HIDE DEF n
<1>4. /\ \A i \in 1 .. n : stack[i].lb <= stack[i].ub /\ stack[i].ub <= MaxUid
      /\ \A i, j \in 1 .. n : i < j => stack[i].ub < stack[j].lb
      /\ \A i \in 1 .. n : Size(stack[i]) <= Halving[i]
  BY DEF BranchesInv, BranchesDisjoint, BranchesShrink, n
<1>5. BranchesDisjoint'
  BY <1>1, <1>2, <1>3, <1>4 DEF BranchesDisjoint
<1>6. BranchesShrink'
  <2>1. Len(stack') <= Depth /\ Len(stack') + 1 = n /\ n <= Depth
    BY <1>1, <1>2, HalvingFacts
  <2>2. \A i \in 1 .. Len(stack') : Size(stack'[i]) <= Halving[i]
    BY <1>1, <1>2, <1>4
  <2>3. Size(discovery') <= Halving[n]
    BY <1>1, <1>3, <1>4 DEF Size
  <2> QED  BY <2>1, <2>2, <2>3 DEF BranchesShrink, Size
<1> QED  BY <1>5, <1>6 DEF BranchesInv

\* a collision puts both halves of the open branch on the stack, and closes
\* it.
LEMMA SplitBranches ==
    ASSUME TypeOK, TypeOK', BranchesInv, DubCollision
    PROVE  BranchesInv'
<1> DEFINE n     == Len(stack)
           mid   == MidPosition(discovery.lb, discovery.ub)
           lower == [lb |-> discovery.lb, ub |-> mid]
           upper == [lb |-> mid + 1, ub |-> discovery.ub]
<1>1. Phase = "Dub" /\ Phase' = "Discovery" /\ UNCHANGED discovery
  BY DEF DubCollision, GotoLate, NewState, Phase
<1>2. /\ n \in Nat /\ n + 2 <= Depth /\ Depth <= TableSize /\ Depth \in Nat
      /\ Halving[n + 1] \in Nat /\ Halving[n + 2] \in Nat
      /\ Halving[n + 1] <= 2 * Halving[n + 2]
  BY <1>1, RoomForHalves DEF Asking
<1>3. /\ discovery.lb \in Nat /\ discovery.ub \in Nat /\ discovery.lb < discovery.ub
      /\ discovery.ub <= MaxUid /\ ~discovery.running
      /\ discovery.ub - discovery.lb + 1 <= Halving[n + 1]
      /\ \A i \in 1 .. n : stack[i].ub < discovery.lb
  BY <1>1 DEF TypeOK, Uid, BranchesInv, PhaseOK, Splitting, BranchesDisjoint, BranchesShrink, BranchOpen, Size
<1>4. /\ mid \in Nat /\ discovery.lb <= mid /\ mid < discovery.ub
      /\ mid - discovery.lb + 1 <= Halving[n + 2] /\ discovery.ub - mid <= Halving[n + 2]
  <2>1. mid = (discovery.lb + discovery.ub) \div 2
    BY MidPositionIsMiddle DEF TypeOK
  <2> HIDE DEF mid, n
  <2> QED  BY <1>2, <1>3, <2>1
<1>5. /\ stack' \in Seq(Branch) /\ Len(stack') = n + 2
      /\ \A i \in 1 .. n : stack'[i] = stack[i]
      /\ stack'[n + 1] = lower /\ stack'[n + 2] = upper
  BY SplitIs
<1>6. /\ \A i \in 1 .. n : stack[i].lb <= stack[i].ub /\ stack[i].ub <= MaxUid
      /\ \A i, j \in 1 .. n : i < j => stack[i].ub < stack[j].lb
      /\ \A i \in 1 .. n : Size(stack[i]) <= Halving[i]
  BY DEF BranchesInv, BranchesDisjoint, BranchesShrink
<1>7. PhaseOK' /\ ~BranchOpen'
  BY <1>1, <1>3 DEF PhaseOK, Splitting, BranchOpen, TypeOK
<1> HIDE DEF n, mid
<1>8. ASSUME NEW i \in 1 .. n PROVE stack[i].lb \in Nat /\ stack[i].ub \in Nat
  <2>1. stack[i] \in Branch
    BY ElementOfSeq DEF TypeOK, n
  <2> QED  BY <2>1 DEF Branch, Uid
<1>9. \A i \in 1 .. Len(stack') : i \in 1 .. n \/ i = n + 1 \/ i = n + 2
  BY <1>2, <1>5
<1>10. BranchesDisjoint'
  <2>1. /\ stack'[n + 1].lb = discovery.lb /\ stack'[n + 1].ub = mid
        /\ stack'[n + 2].lb = mid + 1 /\ stack'[n + 2].ub = discovery.ub
    BY <1>5
  <2> HIDE DEF lower, upper
  <2>2. ASSUME NEW i \in 1 .. Len(stack')
        PROVE  stack'[i].lb <= stack'[i].ub /\ stack'[i].ub <= MaxUid
    <3>1. CASE i \in 1 .. n
      BY <1>5, <1>6, <3>1
    <3>2. MaxUid \in Nat
      BY ConstantsAssumption DEF MaxUid
    <3>3. CASE i = n + 1
      BY <1>3, <1>4, <2>1, <3>2, <3>3, SMTT(30)
    <3>4. CASE i = n + 2
      BY <1>3, <1>4, <2>1, <3>4
    <3> QED  BY <1>9, <3>1, <3>3, <3>4
  <2>3. ASSUME NEW i \in 1 .. Len(stack'), NEW j \in 1 .. Len(stack'), i < j
        PROVE  stack'[i].ub < stack'[j].lb
    <3>1. CASE j \in 1 .. n
      <4>1. i \in 1 .. n
        BY <1>2, <1>9, <2>3, <3>1
      <4>2. stack'[i] = stack[i] /\ stack'[j] = stack[j]
        BY <1>5, <3>1, <4>1
      <4>3. stack[i].ub < stack[j].lb
        BY <1>6, <2>3, <3>1, <4>1
      <4> QED  BY <4>2, <4>3
    <3>2. CASE i \in 1 .. n /\ j \notin 1 .. n
      <4>1. stack'[i].ub \in Nat /\ stack'[i].ub < discovery.lb
        <5>1. i \in 1 .. n /\ stack'[i] = stack[i]
          BY <1>5, <3>2
        <5> QED  BY <1>3, <1>8, <5>1
      <4>2. stack'[j].lb = discovery.lb \/ stack'[j].lb = mid + 1
        BY <1>9, <2>1, <3>2
      <4>3. discovery.lb \in Nat /\ mid \in Nat /\ discovery.lb < mid + 1
        BY <1>3, <1>4
      <4>4. CASE stack'[j].lb = discovery.lb
        BY <4>1, <4>4
      <4>5. CASE stack'[j].lb = mid + 1
        BY <4>1, <4>3, <4>5
      <4> QED  BY <4>2, <4>4, <4>5
    <3>3. CASE i = n + 1 /\ j = n + 2
      BY <1>4, <2>1, <3>3
    <3> QED  BY <1>2, <1>9, <2>3, <3>1, <3>2, <3>3
  <2> QED  BY <1>7, <2>2, <2>3 DEF BranchesDisjoint
<1>11. BranchesShrink'
  <2>1. Size(lower) <= Halving[n + 1] /\ Size(upper) <= Halving[n + 2]
    BY <1>2, <1>3, <1>4 DEF Size
  <2> HIDE DEF lower, upper
  <2>2. \A i \in 1 .. Len(stack') : Size(stack'[i]) <= Halving[i]
    BY <1>5, <1>6, <1>9, <2>1
  <2> QED  BY <1>2, <1>5, <1>7, <2>2 DEF BranchesShrink, Size
<1> QED  BY <1>7, <1>10, <1>11 DEF BranchesInv

\* and no step disturbs it.
LEMMA BranchesStep == ASSUME TypeOK, BranchesInv, [Next]_vars PROVE BranchesInv'
<1>0. TypeOK'
  BY TypeStep
<1>1. CASE Full
  BY <1>1, StartBranches DEF Full
<1>2. CASE Incremental
  BY <1>2, StartBranches DEF Incremental
<1>3. CASE IsFinished
  <2>1. UNCHANGED search /\ Phase' = Phase
    BY <1>3 DEF IsFinished, search, Phase, TypeOK
  <2> QED  BY <1>0, <2>1, SamePhase
<1>4. CASE Stop
  <2>1. UNCHANGED search /\ Phase' \in {"Idle"}
    BY <1>4 DEF Stop, NewState, search, Phase, BranchesInv, PhaseOK
  <2> QED  BY <1>0, <2>1, BranchClosed
<1>5. CASE LateResponse
  <2>1. UNCHANGED search /\ Phase' = Phase
    BY <1>5 DEF LateResponse, search, Phase, TypeOK
  <2> QED  BY <1>0, <2>1, SamePhase
<1>6. CASE UnmuteDone
  <2>1. UNCHANGED search /\ Phase' \in {"Mute", "Discovery"} /\ ~discovery.running
    BY <1>6 DEF UnmuteDone, Goto, GotoLate, NewState, search, Phase, BranchesInv, PhaseOK
  <2> QED  BY <1>0, <2>1, BranchClosed
<1>7. CASE UnmuteSend
  <2>1. UNCHANGED search /\ Phase' = Phase
    BY <1>7 DEF UnmuteSend, Stay, control, search, Phase, TypeOK
  <2> QED  BY <1>0, <2>1, SamePhase
<1>8. CASE UnmuteReceive
  <2>1. UNCHANGED search /\ Phase' = Phase
    BY <1>8 DEF UnmuteReceive, Stay, control, search, Phase, TypeOK
  <2> QED  BY <1>0, <2>1, SamePhase
<1>9. CASE UnmuteTimeOut
  <2>1. UNCHANGED search /\ Phase' = Phase
    BY <1>9 DEF UnmuteTimeOut, Stay, control, search, Phase, TypeOK
  <2> QED  BY <1>0, <2>1, SamePhase
<1>10. CASE MuteDone
  <2>1. UNCHANGED search /\ Phase' \in {"Mute", "Discovery"} /\ ~discovery.running
    BY <1>10 DEF MuteDone, MuteOther, Goto, GotoLate, NewState, search, Phase, BranchesInv, PhaseOK
  <2> QED  BY <1>0, <2>1, BranchClosed
<1>11. CASE MuteDeviceIsGone
  <2>1. UNCHANGED search /\ Phase' = Phase
    BY <1>11 DEF MuteDeviceIsGone, Stay, control, MuteOther, search, Phase, TypeOK
  <2> QED  BY <1>0, <2>1, SamePhase
<1>12. CASE MuteSend
  <2>1. UNCHANGED search /\ Phase' = Phase
    BY <1>12 DEF MuteSend, Stay, control, MuteOther, search, Phase, TypeOK
  <2> QED  BY <1>0, <2>1, SamePhase
<1>13. CASE MuteResponse
  <2>1. UNCHANGED search /\ Phase' = Phase
    BY <1>13 DEF MuteResponse, Stay, control, MuteOther, search, Phase, TypeOK
  <2> QED  BY <1>0, <2>1, SamePhase
<1>14. CASE MuteTimeOut
  <2>1. UNCHANGED search /\ Phase' = Phase
    BY <1>14 DEF MuteTimeOut, Stay, control, MuteOther, search, Phase, TypeOK
  <2> QED  BY <1>0, <2>1, SamePhase
<1>15. CASE DiscoveryAnswered
  <2>1. /\ Phase = "Discovery" /\ discovery.running /\ Phase' = "Dub" /\ ~discovery'.running
        /\ stack' = stack /\ discovery'.lb = discovery.lb /\ discovery'.ub = discovery.ub
    BY <1>15 DEF DiscoveryAnswered, Goto, NewState, Phase, TypeOK
  <2>2. PhaseOK' /\ (BranchOpen' => BranchOpen)
    BY <1>0, <2>1 DEF BranchesInv, PhaseOK, Splitting, BranchOpen, TypeOK
  <2> QED  BY <2>1, <2>2, KeepsBranches
<1>16. CASE DiscoveryTimeOut
  <2>1. /\ Phase' = Phase /\ Phase = "Discovery" /\ discovery.running /\ discovery'.running
        /\ stack' = stack /\ discovery'.lb = discovery.lb /\ discovery'.ub = discovery.ub
    BY <1>16 DEF DiscoveryTimeOut, Stay, control, Phase, TypeOK
  <2>2. PhaseOK' /\ (BranchOpen' => BranchOpen)
    BY <1>0, <2>1 DEF BranchesInv, PhaseOK, Splitting, BranchOpen, TypeOK
  <2> QED  BY <2>1, <2>2, KeepsBranches
<1>17. CASE DiscoveryNoMore
  <2>1. UNCHANGED search /\ Phase' \in {"Finished"}
    BY <1>17 DEF DiscoveryNoMore, Goto, GotoLate, NewState, search, Phase, BranchesInv, PhaseOK
  <2> QED  BY <1>0, <2>1, BranchClosed
<1>18. CASE DiscoveryTakeSingle
  <2>1. /\ Phase' = "DiscoverySingleDevice" /\ ~discovery'.running /\ stack # << >> /\ stack' = Pop(stack)
        /\ discovery'.lb = Top.lb /\ discovery'.ub = Top.ub /\ Top.lb = Top.ub
    BY <1>18 DEF DiscoveryTakeSingle, GotoLate, NewState, Phase, TypeOK
  <2>2. PhaseOK'
    BY <1>0, <2>1 DEF PhaseOK, Splitting, TypeOK
  <2> QED  BY <1>0, <2>1, <2>2, TakeBranches
<1>19. CASE DiscoveryTakeBranch
  <2>1. /\ Phase' = "Discovery" /\ stack # << >> /\ stack' = Pop(stack)
        /\ discovery'.lb = Top.lb /\ discovery'.ub = Top.ub /\ Top.lb # Top.ub
    BY <1>19 DEF DiscoveryTakeBranch, Stay, control, Phase
  <2>2. Top.lb <= Top.ub /\ Top.lb \in Nat /\ Top.ub \in Nat
    <3>1. Len(stack) \in 1 .. Len(stack)
      BY <2>1, EmptySeq, LenProperties DEF TypeOK
    <3>2. Top \in Branch
      BY <3>1, ElementOfSeq DEF TypeOK, Top
    <3> QED  BY <3>1, <3>2 DEF BranchesInv, BranchesDisjoint, Top, Branch, Uid
  <2>3. PhaseOK'
    BY <1>0, <2>1, <2>2 DEF PhaseOK, Splitting, TypeOK
  <2> QED  BY <1>0, <2>1, <2>3, TakeBranches
<1>20. CASE SingleGiveUp
  <2>1. UNCHANGED search /\ Phase' \in {"Mute", "Discovery"} /\ ~discovery.running
    BY <1>20 DEF SingleGiveUp, SingleOther, Goto, GotoLate, NewState, search, Phase, BranchesInv, PhaseOK
  <2> QED  BY <1>0, <2>1, BranchClosed
<1>21. CASE SingleSend
  <2>1. UNCHANGED search /\ Phase' = Phase
    BY <1>21 DEF SingleSend, Stay, control, SingleOther, search, Phase, TypeOK
  <2> QED  BY <1>0, <2>1, SamePhase
<1>22. CASE SingleResponse
  <2>1. UNCHANGED search /\ Phase' \in {"Mute", "Discovery"} /\ ~discovery.running
    BY <1>22 DEF SingleResponse, SingleOther, Goto, GotoLate, NewState, search, Phase, BranchesInv, PhaseOK
  <2> QED  BY <1>0, <2>1, BranchClosed
<1>23. CASE SingleIgnore
  <2>1. UNCHANGED search /\ Phase' = Phase
    BY <1>23 DEF SingleIgnore, Stay, control, SingleOther, search, Phase, TypeOK
  <2> QED  BY <1>0, <2>1, SamePhase
<1>24. CASE SingleTimeOut
  <2>1. UNCHANGED search /\ Phase' = Phase
    BY <1>24 DEF SingleTimeOut, Stay, control, SingleOther, search, Phase, TypeOK
  <2> QED  BY <1>0, <2>1, SamePhase
<1>25. CASE DubSilent
  <2>1. UNCHANGED search /\ Phase' \in {"Mute", "Discovery"} /\ ~discovery.running
    BY <1>25 DEF DubSilent, Goto, GotoLate, NewState, search, Phase, BranchesInv, PhaseOK
  <2> QED  BY <1>0, <2>1, BranchClosed
<1>26. CASE DubOneDevice
  <2>1. UNCHANGED search /\ Phase \in Asking /\ Phase' \in Asking
    BY <1>26 DEF DubOneDevice, Goto, GotoLate, NewState, search, Phase, Asking
  <2> QED  BY <1>0, <2>1, BranchAsked
<1>27. CASE DubCollision
  BY <1>0, <1>27, SplitBranches
<1>28. CASE QuickfindGiveUp
  <2>1. UNCHANGED search /\ Phase \in Asking /\ Phase' \in Asking
    BY <1>28 DEF QuickfindGiveUp, QuickfindOther, Goto, GotoLate, NewState, search, Phase, Asking
  <2> QED  BY <1>0, <2>1, BranchAsked
<1>29. CASE QuickfindSend
  <2>1. UNCHANGED search /\ Phase' = Phase
    BY <1>29 DEF QuickfindSend, Stay, control, QuickfindOther, search, Phase, TypeOK
  <2> QED  BY <1>0, <2>1, SamePhase
<1>30. CASE QuickfindInvalid
  <2>1. UNCHANGED search /\ Phase' = Phase
    BY <1>30 DEF QuickfindInvalid, Stay, control, QuickfindOther, search, Phase, TypeOK
  <2> QED  BY <1>0, <2>1, SamePhase
<1>31. CASE QuickfindResponse
  <2>1. UNCHANGED search /\ Phase \in Asking /\ Phase' \in Asking
    BY <1>31 DEF QuickfindResponse, QuickfindOther, Goto, GotoLate, NewState, search, Phase, Asking
  <2> QED  BY <1>0, <2>1, BranchAsked
<1>32. CASE QuickfindTimeOut
  <2>1. UNCHANGED search /\ Phase' = Phase
    BY <1>32 DEF QuickfindTimeOut, Stay, control, QuickfindOther, search, Phase, TypeOK
  <2> QED  BY <1>0, <2>1, SamePhase
<1>33. CASE QfdGiveUp
  <2>1. UNCHANGED search /\ Phase' \in {"Mute", "Discovery"} /\ ~discovery.running
    BY <1>33 DEF QfdGiveUp, QfdOther, Goto, GotoLate, NewState, search, Phase, BranchesInv, PhaseOK
  <2> QED  BY <1>0, <2>1, BranchClosed
<1>34. CASE QfdSend
  <2>1. UNCHANGED search /\ Phase' = Phase
    BY <1>34 DEF QfdSend, Stay, control, QfdOther, search, Phase, TypeOK
  <2> QED  BY <1>0, <2>1, SamePhase
<1>35. CASE QfdOneDevice
  <2>1. UNCHANGED search /\ Phase \in Asking /\ Phase' \in Asking
    BY <1>35 DEF QfdOneDevice, QfdOther, Goto, GotoLate, NewState, search, Phase, Asking
  <2> QED  BY <1>0, <2>1, BranchAsked
<1>36. CASE QfdCollision
  <2>1. UNCHANGED search /\ Phase \in Asking /\ Phase' \in Asking
    BY <1>36 DEF QfdCollision, QfdOther, Goto, GotoLate, NewState, search, Phase, Asking
  <2> QED  BY <1>0, <2>1, BranchAsked
<1>37. CASE QfdTimeOut
  <2>1. UNCHANGED search /\ Phase' = Phase
    BY <1>37 DEF QfdTimeOut, Stay, control, QfdOther, search, Phase, TypeOK
  <2> QED  BY <1>0, <2>1, SamePhase
<1>38. CASE Finish
  <2>1. UNCHANGED search /\ Phase' \in {"Idle"}
    BY <1>38 DEF Finish, NewState, search, Phase, BranchesInv, PhaseOK
  <2> QED  BY <1>0, <2>1, BranchClosed
<1>39. CASE LineStep
  <2>1. UNCHANGED search /\ Phase' = Phase
    BY <1>39 DEF LineStep, control, search, Phase, TypeOK
  <2> QED  BY <1>0, <2>1, SamePhase
<1>40. CASE UNCHANGED vars
  <2>1. UNCHANGED search /\ Phase' = Phase
    BY <1>40 DEF vars, control, search, Phase
  <2> QED  BY <1>0, <2>1, SamePhase
<1> QED
  BY <1>1, <1>2, <1>3, <1>4, <1>5, <1>6, <1>7, <1>8, <1>9, <1>10, <1>11, <1>12, <1>13, <1>14,
     <1>15, <1>16, <1>17, <1>18, <1>19, <1>20, <1>21, <1>22, <1>23, <1>24, <1>25, <1>26, <1>27, <1>28,
     <1>29, <1>30, <1>31, <1>32, <1>33, <1>34, <1>35, <1>36, <1>37, <1>38, <1>39, <1>40 DEF Next, Command, Process

\* No step of any line leaves the types or the strengthened invariant.
THEOREM Safety == Spec => [](TypeOK /\ BranchesInv)
<1>1. Init => TypeOK /\ BranchesInv
  BY TypeInit, BranchesInit
<1>2. TypeOK /\ BranchesInv /\ [Next]_vars => TypeOK' /\ BranchesInv'
  BY TypeStep, BranchesStep
<1> QED  BY <1>1, <1>2, PTL DEF Spec
-----------------------------------------------------------------------------
\* No step of any line leaves the types: the counters do not pass zero, the
\* table and the stack do not pass their size.
THEOREM TypeCorrect == Spec => []TypeOK
BY Safety, PTL

\* The assertion "Stack is full." of Push is never reached, whatever arrives.
THEOREM StackNeverFull == Spec => []StackHasRoom
<1>1. ASSUME TypeOK, BranchesInv PROVE StackHasRoom
  <2>1. Len(stack) \in Nat /\ Len(stack) <= Depth
    BY <1>1, LenProperties DEF TypeOK, BranchesInv, BranchesShrink
  <2>2. CASE Phase = "Dub"
    BY <1>1, <2>2, RoomForHalves, HalvingFacts, ConstantsAssumption DEF StackHasRoom, Asking
  <2>3. CASE Phase # "Dub"
    BY <2>1, <2>3, HalvingFacts, ConstantsAssumption DEF StackHasRoom
  <2> QED  BY <2>2, <2>3
<1> QED  BY <1>1, Safety, PTL

\* No UID is in two branches of a search, whatever arrives.
THEOREM SearchedOnce == Spec => []BranchesDisjoint
<1>1. BranchesInv => BranchesDisjoint
  BY DEF BranchesInv
<1> QED  BY <1>1, Safety, PTL
-----------------------------------------------------------------------------
\* A step from one state of a search to another is not seen from outside.
LEMMA SearchGoesOn ==
    ASSUME state \notin {"Idle", "LateResponse"},
           Stay \/ \E s \in States \ {"Idle", "LateResponse"} : Goto(s) \/ GotoLate(s)
    PROVE  UNCHANGED Job!jobVars
BY DEF Stay, control, Goto, GotoLate, NewState, Job!jobVars, JobState, States

\* The state machine implements the discovery job.
LEMMA JobStep == ASSUME TypeOK, [Next]_vars PROVE [Job!JobNext]_(Job!jobVars)
<1>1. CASE Full \/ Incremental
  <2>1. PICK type \in BOOLEAN : \E entries : Start(type, entries)
    BY <1>1 DEF Full, Incremental
  <2>2. Job!Begin(type)
    BY <2>1 DEF Start, NewState, Job!Begin, JobState
  <2> QED  BY <2>2 DEF Job!JobNext
<1>2. CASE IsFinished
  BY <1>2 DEF IsFinished, Job!JobNext, Job!Ask, JobState
<1>3. CASE Stop
  <2>1. Job!Halt
    BY <1>3 DEF Stop, NewState, Job!Halt, JobState
  <2> QED  BY <2>1 DEF Job!JobNext
<1>4. CASE LateResponse
  <2>1. CASE saved_state = "Idle"
    BY <1>4, <2>1 DEF LateResponse, Job!JobNext, Job!Halted, JobState
  <2>2. CASE saved_state # "Idle"
    BY <1>4, <2>2 DEF LateResponse, Job!jobVars, JobState, TypeOK
  <2> QED  BY <2>1, <2>2
<1>5. CASE Finish
  <2>1. Job!Complete
    BY <1>5 DEF Finish, NewState, Job!Complete, JobState
  <2> QED  BY <2>1 DEF Job!JobNext
<1>6. CASE LineStep \/ UNCHANGED vars
  BY <1>6 DEF LineStep, vars, control, Job!jobVars, JobState
<1>7. CASE UnmuteSend \/ UnmuteReceive \/ UnmuteTimeOut \/ MuteDeviceIsGone \/ MuteSend
           \/ MuteResponse \/ MuteTimeOut \/ DiscoveryTimeOut \/ DiscoveryTakeBranch
           \/ SingleSend \/ SingleIgnore \/ SingleTimeOut \/ QuickfindSend
           \/ QuickfindInvalid \/ QuickfindTimeOut \/ QfdSend \/ QfdTimeOut
  <2>1. state \notin {"Idle", "LateResponse"} /\ Stay
    BY <1>7 DEF
       UnmuteSend, UnmuteReceive, UnmuteTimeOut, MuteDeviceIsGone, MuteSend,
       MuteResponse, MuteTimeOut, DiscoveryTimeOut, DiscoveryTakeBranch, SingleSend,
       SingleIgnore, SingleTimeOut, QuickfindSend, QuickfindInvalid, QuickfindTimeOut,
       QfdSend, QfdTimeOut
  <2> QED  BY <2>1, SearchGoesOn
<1>8. CASE UnmuteDone \/ MuteDone \/ DiscoveryAnswered \/ SingleResponse \/ DubSilent
           \/ QuickfindGiveUp \/ QuickfindResponse \/ QfdCollision \/ DiscoveryNoMore
           \/ DiscoveryTakeSingle \/ SingleGiveUp \/ DubOneDevice \/ DubCollision
           \/ QfdGiveUp \/ QfdOneDevice
  <2>1. /\ state \notin {"Idle", "LateResponse"}
        /\ \E s \in States \ {"Idle", "LateResponse"} : Goto(s) \/ GotoLate(s)
    BY <1>8 DEF States,
       UnmuteDone, MuteDone, DiscoveryAnswered, SingleResponse, DubSilent,
       QuickfindGiveUp, QuickfindResponse, QfdCollision, DiscoveryNoMore,
       DiscoveryTakeSingle, SingleGiveUp, DubOneDevice, DubCollision, QfdGiveUp,
       QfdOneDevice
  <2> QED  BY <2>1, SearchGoesOn
<1> QED  BY <1>1, <1>2, <1>3, <1>4, <1>5, <1>6, <1>7, <1>8 DEF Next, Command, Process

\* Seen from outside, a discovery begins only when the machine is idle, is not
\* finished while it runs, and is never reported finished after Stop.
THEOREM ImplementsJob == Spec => ActsAsJob
<1>1. Init => Job!JobInit
  BY DEF Init, Job!JobInit, JobState
<1>2. TypeOK /\ [Next]_vars => [Job!JobNext]_(Job!jobVars)
  BY JobStep
<1> QED  BY <1>1, <1>2, TypeCorrect, PTL DEF Spec, ActsAsJob, Job!JobSpec

-----------------------------------------------------------------------------
(***************************************************************************)
(* The line of RdmLine is one of the lines of RdmDiscovery.                *)
(***************************************************************************)

USE DEF devices

\* What the line needs of its own variables to stay a line of RdmDiscovery.
LineInv ==
    /\ scenario \in Scenarios /\ present \subseteq devices /\ muted \subseteq present
    /\ late \in Frame \cup {NoFrame}

\* The devices have UIDs.
LEMMA DevicesHaveUids == (\A s \in Scenarios : s.devices \subseteq Uid) /\ Garbled \in Frame
BY ScenariosAssumption, Numbers DEF Scenario, Uid, Garbled, Frame

\* What a device sends is a frame, and it is the line that brings it.
LEMMA ReplyIsArrival ==
    ASSUME NEW frame \in Frame, LineInv, Reply(frame) \/ NoReply
    PROVE  /\ rx' = rx \/ Arrives(frame)
           /\ late' \in Frame \cup {NoFrame}
BY DEF LineInv, Reply, NoReply, Lose

\* What the devices do is a step of the line of RdmDiscovery.
LEMMA DevicesStep ==
    ASSUME LineInv, Devices
    PROVE  LineStep /\ LineInv'
<1> USE DEF Answered
<1>1. wire' \in {wire, Quiet} /\ UNCHANGED <<control, commands, search, response, tod, present, scenario>>
  BY DEF Devices, DevicesUnMute, DevicesMute, DevicesBranch
<1>2. CASE DevicesUnMute
  <2>1. UNCHANGED <<rx, late>> /\ muted' \subseteq muted
    BY <1>2 DEF DevicesUnMute
  <2> QED  BY <1>1, <2>1, DevicesHaveUids DEF LineInv, LineStep
<1>3. CASE DevicesMute
  <2>1. CASE wire.lb \notin present
    <3>1. UNCHANGED <<rx, late>> /\ (muted' = present \/ muted' = muted)
      BY <1>3, <2>1 DEF DevicesMute, NoReply
    <3> QED  BY <1>1, <3>1, DevicesHaveUids DEF LineInv, LineStep
  <2>2. CASE wire.lb \in present
    <3>1. MuteAck(wire.lb) \in Frame
      BY <2>2, DevicesHaveUids DEF LineInv, MuteAck, Frame
    <3>2. /\ muted' \subseteq present
          /\ Reply(MuteAck(wire.lb)) \/ UNCHANGED <<rx, late>>
      BY <1>3, <2>2 DEF DevicesMute, NoReply, LineInv
    <3> QED  BY <1>1, <3>1, <3>2, ReplyIsArrival DEF LineInv, LineStep
  <2> QED  BY <2>1, <2>2
<1>4. CASE DevicesBranch
  <2>1. PICK frame \in Frame : Reply(frame) \/ NoReply \/ (Arrives(frame) /\ UNCHANGED late)
    <3>1. \A d \in Responders : BranchAck(d) \in Frame
      BY DevicesHaveUids DEF LineInv, Responders, BranchAck, Frame
    <3> QED  BY <1>4, <3>1, DevicesHaveUids DEF DevicesBranch
  <2>2. rx' = rx \/ Arrives(frame)
    BY <2>1, ReplyIsArrival
  <2>3. late' \in Frame \cup {NoFrame} /\ UNCHANGED muted
    BY <1>4, <2>1, ReplyIsArrival DEF LineInv, DevicesBranch
  <2> QED  BY <1>1, <2>2, <2>3 DEF LineInv, LineStep
<1> QED  BY <1>2, <1>3, <1>4 DEF Devices

\* Every step of RdmLine is a step of RdmDiscovery.
LEMMA LineRefines ==
    ASSUME LineInv, [LineNext]_lineVars
    PROVE  [Next]_vars /\ LineInv'
<1>1. CASE LineFull \/ LineIncremental \/ LineStop \/ LineIsFinished \/ LineProcess
  BY <1>1 DEF LineFull, LineIncremental, LineStop, LineIsFinished, LineProcess, line, LineInv, Next, Command
<1>2. CASE Devices
  BY <1>2, DevicesStep DEF Next
<1>3. CASE LateArrival
  <2>1. late \in Frame /\ Arrives(late) /\ late' = NoFrame
    BY <1>3 DEF LateArrival, LineInv
  <2> QED  BY <1>3, <2>1 DEF LateArrival, LineInv, LineStep, Next
<1>4. CASE Plug
  BY <1>4 DEF Plug, LineInv
<1>5. CASE UNCHANGED lineVars
  BY <1>5 DEF lineVars, line, LineInv
<1> QED  BY <1>1, <1>2, <1>3, <1>4, <1>5 DEF LineNext

\* The line with its devices is one of the lines RdmDiscovery allows.
THEOREM LineIsALine == LineSpec => Spec
<1>1. LineInit => Init /\ LineInv
  BY DevicesHaveUids DEF LineInit, LineInv
<1>2. LineInv /\ [LineNext]_lineVars => [Next]_vars /\ LineInv'
  BY LineRefines
<1> QED  BY <1>1, <1>2, PTL DEF LineSpec, Spec

\* So the stack of a discovery has room and nothing is searched twice,
\* however many devices there are and whatever the line does to their frames.
THEOREM LineIsSearchedOnce == LineSpec => [](StackHasRoom /\ BranchesDisjoint)
BY LineIsALine, StackNeverFull, SearchedOnce, PTL
-----------------------------------------------------------------------------
(***************************************************************************)
(* Every device is found.                                                  *)
(*                                                                         *)
(* SearchInv says, for each phase of the discovery, what is still to come  *)
(* on the line, and keeps the books of the losses: a counter that went     *)
(* down while a device was there to answer was paid for with a lost frame  *)
(* (Paid).  With fewer losses than the smallest counter none of them is    *)
(* ever used up on a device that is on the line.                           *)
(***************************************************************************)
\* A request that nobody answers, a line on which nothing will come, and an
\* exchange whose request or answer was lost.
Ignored ==
    \/ wire = Quiet
    \/ wire.pid = "DISC_MUTE" /\ wire.lb \notin present /\ wire.lb # UidAll
    \/ wire.pid = "DISC_UNIQUE_BRANCH" /\ Responders = {}

Calm   == ~rx.complete /\ Ignored
Missed == wire = Quiet /\ ~rx.complete

\* Each time a counter went down, a frame was lost.
Paid(max, x) == max + (IF x.running /\ Missed THEN 1 ELSE 0) <= x.counter + (scenario.losses - losses)

\* The devices that would answer for the open branch, and such an answer.
Hearing == {d \in present \ muted : discovery.lb <= d /\ d <= discovery.ub}
Heard   == Hearing # {} /\ rx.data.kind \in {"branch", "garbled"} /\ (rx.data.kind = "branch" => rx.data.uid \in Hearing)

TableIsFull == Len(tod.tod) = TableSize
Found       == Table!Entries(tod)

\* What a search begins with.
Unsearched ==
    /\ stack = <<[lb |-> 0, ub |-> MaxUid]>>
    /\ quick_find.counter = QuikfindCounter /\ ~quick_find.running
    /\ single_device = NotRunning(MuteCounter)
    /\ quick_find_discovery = NotRunning(QuikfindDiscoveryCounter)

UnmuteAt ==
    /\ Unsearched
    /\ IF do_incremental
       THEN mute.tod_entries = Len(tod.tod) /\ mute.counter = MuteCounter /\ ~mute.running
       ELSE tod.tod = << >>
    /\ unmute.running => unmute.counter > 0 /\ wire \in {Quiet, DiscUnMute}
    /\ ~unmute.running /\ unmute.counter < UnmuteCounter => Missed
    /\ muted # {} => UnmuteCounter + (IF unmute.running /\ wire = Quiet THEN 1 ELSE 0)
                        <= unmute.counter + (scenario.losses - losses)

\* The entries above the one that is muted are on the line.
MuteAt ==
    /\ Unsearched
    /\ mute.tod_entries <= Len(tod.tod)
    /\ \A i \in mute.tod_entries + 1 .. Len(tod.tod) : tod.tod[i] \in present
    /\ muted \subseteq Found
    /\ IF mute.running
       THEN /\ mute.tod_entries > 0 /\ mute.uid = tod.tod[mute.tod_entries]
            /\ wire \in {Quiet, DiscMute(mute.uid)}
            /\ rx.complete => wire = Quiet /\ mute.uid \in present
            /\ mute.uid \in present => Paid(MuteCounter, mute)
       ELSE Calm /\ Paid(MuteCounter, mute)

\* The open branch was asked, by DISCOVERY or QUICKFIND_DISCOVERY.
Asked(max, x) ==
    /\ wire \in {Quiet, DiscBranch(discovery.lb, discovery.ub)}
    /\ rx.complete => wire = Quiet /\ Heard
    /\ Hearing # {} => Paid(max, x)

DiscoveryAt == IF discovery.running THEN Asked(DiscoveryCounter, discovery) ELSE Calm

DubAt ==
    /\ ~rx.complete
    /\ IF response THEN wire = Quiet /\ Heard ELSE Hearing = {} /\ Ignored

QuickfindAt ==
    /\ quick_find.uid \in present /\ discovery.lb <= quick_find.uid /\ quick_find.uid <= discovery.ub
    /\ wire \in {Quiet, DiscMute(quick_find.uid)} /\ (~quick_find.running => Missed)
    /\ rx.complete => wire = Quiet /\ rx.data = MuteAck(quick_find.uid)

QfdAt ==
    /\ Asked(QuikfindDiscoveryCounter, quick_find_discovery)
    /\ ~quick_find_discovery.running => Missed

SingleAt ==
    /\ IF single_device.running
       THEN /\ wire \in {Quiet, DiscMute(discovery.lb)}
            /\ rx.complete => wire = Quiet /\ rx.data = MuteAck(discovery.lb) /\ discovery.lb \in present
       ELSE Calm
    /\ discovery.lb \in present =>
          Paid(MuteCounter, single_device) \/ Paid(QuikfindDiscoveryCounter, single_device)

\* A device that is muted is in the table, or about to be.
BeingMuted(d) ==
    \/ Phase = "Quickfind" /\ d = quick_find.uid
    \/ Phase = "DiscoverySingleDevice" /\ d = discovery.lb

NothingIsLost ==
    /\ \A d \in muted : d \in Found \/ BeingMuted(d)
    /\ \A d \in present : d \in Found \/ InOpenBranch(d)

SearchAt ==
    /\ Found \subseteq present
    /\ TableIsFull \/ NothingIsLost
    /\ Paid(QuikfindCounter, quick_find) /\ (quick_find.running => Phase = "Quickfind")
    /\ Phase # "DiscoverySingleDevice" =>
          ~single_device.running /\ single_device.counter \in {MuteCounter, QuikfindDiscoveryCounter}
    /\ Phase # "QuickfindDiscovery" => quick_find_discovery = NotRunning(QuikfindDiscoveryCounter)
    /\ Phase = "Finished" => stack = << >>

OnlyOnce(t) == \A i, j \in 1 .. Len(t.tod) : t.tod[i] = t.tod[j] => i = j

LossesOK ==
    /\ losses \in Nat /\ losses <= scenario.losses /\ late = NoFrame /\ lates = 0
    /\ Found \subseteq devices
    /\ OnlyOnce(tod)

SearchInv ==
    /\ LossesOK
    /\ Phase = "Unmute" => UnmuteAt
    /\ Phase = "Mute" => MuteAt
    /\ Phase \notin {"Idle", "Unmute", "Mute"} => SearchAt
    /\ state = "LateResponse" /\ Phase \notin {"Idle", "Finished"} => Calm
    /\ Phase = "Discovery" => DiscoveryAt
    /\ Phase = "Dub" => DubAt
    /\ Phase = "Quickfind" => QuickfindAt
    /\ Phase = "QuickfindDiscovery" => QfdAt
    /\ Phase = "DiscoverySingleDevice" => SingleAt
    /\ is_finished => state = "Idle" /\ (TableIsFull \/ present \subseteq Found)

FoundInv == InTime /\ FewLosses => SearchInv
-----------------------------------------------------------------------------
\* Delete takes the entry out and leaves the others in order.
LEMMA DeleteIs ==
    ASSUME NEW t, TableOf(t), OnlyOnce(t), NEW e \in 1 .. Len(t.tod),
           NEW uid, uid = t.tod[e]
    PROVE  /\ Len(Table!Delete(t, uid).tod) = Len(t.tod) - 1
           /\ \A i \in 1 .. Len(t.tod) - 1 :
                 Table!Delete(t, uid).tod[i] = IF i < e THEN t.tod[i] ELSE t.tod[i + 1]
           /\ Table!Entries(Table!Delete(t, uid)) = Table!Entries(t) \ {uid}
           /\ OnlyOnce(Table!Delete(t, uid))
<1> DEFINE n      == Len(t.tod)
           r      == Table!Delete(t, uid)
           Old(i) == IF i < e THEN i ELSE i + 1
<1>1. t.tod \in Seq(Uid) /\ n \in Nat /\ t.tod[e] \in Uid
  BY ElementOfSeq DEF TableOf, Table!Tod
<1>2. Table!FindIndex(t, t.tod[e]) = e
  <2>1. Table!IsFirst(t, t.tod[e], e)
    BY DEF Table!IsFirst, OnlyOnce
  <2>2. Table!FindIndex(t, t.tod[e]) = CHOOSE i \in 1 .. Len(t.tod) : Table!IsFirst(t, t.tod[e], i)
    BY <2>1 DEF Table!FindIndex
  <2>3. Table!IsFirst(t, t.tod[e], Table!FindIndex(t, t.tod[e]))
    BY <2>1, <2>2
  <2> QED  BY <2>3 DEF Table!IsFirst, OnlyOnce
<1>3. r.tod = [i \in 1 .. (n - 1) |-> t.tod[Old(i)]]
  BY <1>1, <1>2 DEF Table!Delete, Table!NoEntry
<1>4. Len(r.tod) = n - 1
  <2>1. r.tod \in Seq(Uid)
    BY <1>1, DeleteType DEF TableOf, Table!Tod
  <2> QED  BY <1>1, <1>3, <2>1, LenProperties
<1>5. \A i \in 1 .. n - 1 : r.tod[i] = t.tod[Old(i)] /\ Old(i) \in 1 .. n /\ Old(i) # e
  BY <1>1, <1>3
<1>6. \A i \in 1 .. n : i # e => \E j \in 1 .. n - 1 : Old(j) = i
  <2> SUFFICES ASSUME NEW i \in 1 .. n, i # e  PROVE \E j \in 1 .. n - 1 : Old(j) = i
    OBVIOUS
  <2>1. CASE i < e
    BY <1>1, <2>1
  <2>2. CASE i > e
    <3>1. i - 1 \in 1 .. n - 1 /\ Old(i - 1) = i
      BY <1>1, <2>2
    <3> QED  BY <3>1
  <2> QED  BY <1>1, <2>1, <2>2
<1> HIDE DEF n, r
<1>7. ASSUME NEW u  PROVE u \in Table!Entries(r) <=> u \in Table!Entries(t) \ {t.tod[e]}
  <2>1. ASSUME u \in Table!Entries(r)  PROVE u \in Table!Entries(t) \ {t.tod[e]}
    <3>1. PICK i \in 1 .. n - 1 : u = r.tod[i]
      BY <1>4, <2>1 DEF Table!Entries
    <3>2. u = t.tod[Old(i)] /\ Old(i) \in 1 .. n /\ Old(i) # e
      BY <1>5, <3>1
    <3> HIDE DEF Old
    <3> QED  BY <3>2 DEF Table!Entries, OnlyOnce, n
  <2>2. ASSUME u \in Table!Entries(t), u # t.tod[e]  PROVE u \in Table!Entries(r)
    <3>1. PICK i \in 1 .. n : u = t.tod[i] /\ i # e
      BY <2>2 DEF Table!Entries, n
    <3>2. PICK j \in 1 .. n - 1 : Old(j) = i
      BY <1>6, <3>1
    <3>3. u = r.tod[j]
      BY <1>5, <3>1, <3>2
    <3> QED  BY <1>4, <3>3 DEF Table!Entries
  <2> QED  BY <2>1, <2>2
<1>8. OnlyOnce(r)
  <2> SUFFICES ASSUME NEW i \in 1 .. n - 1, NEW j \in 1 .. n - 1, r.tod[i] = r.tod[j]  PROVE i = j
    BY <1>4 DEF OnlyOnce
  <2>1. Old(i) = Old(j)
    <3> HIDE DEF Old
    <3> QED  BY <1>5 DEF OnlyOnce, n
  <2> QED  BY <2>1
<1>9. \A i \in 1 .. n - 1 : r.tod[i] = IF i < e THEN t.tod[i] ELSE t.tod[i + 1]
  BY <1>5
<1> QED  BY <1>4, <1>7, <1>8, <1>9 DEF n, r

\* AddUid adds an entry, unless the table is full or has it.
LEMMA AddIs ==
    ASSUME NEW t, TableOf(t), NEW uid \in Uid
    PROVE  /\ OnlyOnce(t) => OnlyOnce(Table!AddUid(t, uid))
           /\ Len(t.tod) = TableSize => Table!AddUid(t, uid) = t
           /\ Table!Entries(t) \subseteq Table!Entries(Table!AddUid(t, uid))
           /\ Table!Entries(Table!AddUid(t, uid)) \subseteq Table!Entries(t) \cup {uid}
           /\ Len(t.tod) # TableSize => uid \in Table!Entries(Table!AddUid(t, uid))
<1> DEFINE r == Table!AddUid(t, uid)
<1>1. t.tod \in Seq(Uid) /\ Len(t.tod) \in Nat /\ Len(t.tod) <= TableSize
  BY LenProperties DEF TableOf, Table!Tod
<1>2. CASE Table!CanAdd(t, uid)
  <2> DEFINE n == Len(t.tod)
  <2>1. r.tod = Append(t.tod, uid)
    BY <1>2 DEF Table!AddUid, TableOf, Table!Tod
  <2> HIDE DEF r
  <2>2. Len(r.tod) = n + 1 /\ (\A i \in 1 .. n : r.tod[i] = t.tod[i]) /\ r.tod[n + 1] = uid
    BY <1>1, <2>1, AppendProperties
  <2>3. OnlyOnce(t) => \A i \in 1 .. n : t.tod[i] # uid
    <3> SUFFICES ASSUME OnlyOnce(t), NEW i \in 1 .. n, t.tod[i] = uid  PROVE FALSE
      OBVIOUS
    <3>1. Table!IsFirst(t, uid, i)
      BY DEF Table!IsFirst, OnlyOnce
    <3>2. Table!FindIndex(t, uid) = CHOOSE j \in 1 .. Len(t.tod) : Table!IsFirst(t, uid, j)
      BY <3>1 DEF Table!FindIndex
    <3>3. Table!FindIndex(t, uid) \in 1 .. Len(t.tod)
      BY <3>1, <3>2
    <3> QED  BY <1>1, <1>2, <3>3 DEF Table!CanAdd, Table!NoEntry
  <2> HIDE DEF n
  <2>4. n \in Nat /\ \A i \in 1 .. n + 1 : i \in 1 .. n \/ i = n + 1
    BY <1>1 DEF n
  <2>5. OnlyOnce(t) => OnlyOnce(r)
    <3> SUFFICES ASSUME OnlyOnce(t), NEW i \in 1 .. n + 1, NEW j \in 1 .. n + 1, r.tod[i] = r.tod[j]
                 PROVE  i = j
      BY <2>2 DEF OnlyOnce
    <3>1. CASE i \in 1 .. n /\ j \in 1 .. n
      BY <2>2, <3>1 DEF OnlyOnce, n
    <3>2. CASE i = n + 1 \/ j = n + 1
      BY <2>2, <2>3, <2>4, <3>2
    <3> QED  BY <2>4, <3>1, <3>2
  <2>6. Table!Entries(r) = Table!Entries(t) \cup {uid}
    <3>1. Table!Entries(r) = {r.tod[i] : i \in 1 .. n + 1}
      BY <2>2 DEF Table!Entries
    <3>2. Table!Entries(t) = {t.tod[i] : i \in 1 .. n}
      BY DEF Table!Entries, n
    <3>3. \A i \in 1 .. n : i \in 1 .. n + 1
      BY <2>4
    <3>4. n + 1 \in 1 .. n + 1
      BY <2>4
    <3>5. Table!Entries(r) \subseteq Table!Entries(t) \cup {uid}
      BY <2>2, <2>4, <3>1, <3>2
    <3>6. Table!Entries(t) \cup {uid} \subseteq Table!Entries(r)
      BY <2>2, <3>1, <3>2, <3>3, <3>4
    <3> QED  BY <3>5, <3>6
  <2>7. Len(t.tod) # TableSize
    BY <1>1, <1>2, ConstantsAssumption DEF Table!CanAdd
  <2> QED  BY <2>5, <2>6, <2>7 DEF r
<1>3. CASE ~Table!CanAdd(t, uid)
  <2>1. r = t
    BY <1>3 DEF Table!AddUid
  <2>2. ASSUME Len(t.tod) # TableSize  PROVE uid \in Table!Entries(t)
    <3>1. Table!FindIndex(t, uid) # 0
      BY <1>1, <1>3, <2>2, ConstantsAssumption DEF Table!CanAdd, Table!NoEntry
    <3> QED  BY <1>1, <3>1, FindIndexType DEF TableOf, Table!Entries
  <2> QED  BY <1>1, <2>1, <2>2
<1> QED  BY <1>2, <1>3

\* A table in which nothing is twice is full when it has as many UIDs as it can have.
LEMMA FullIs ==
    ASSUME TypeOK, OnlyOnce(tod)
    PROVE  TableFull <=> TableIsFull
<1> DEFINE n == Len(tod.tod)
           f == [i \in 1 .. n |-> tod.tod[i]]
<1>1. n \in Nat
  BY LenProperties DEF TypeOK, Table!Tod
<1>2. f \in Bijection(1 .. n, Table!Entries(tod))
  <2>1. f \in [1 .. n -> Table!Entries(tod)] /\ \A u \in Table!Entries(tod) : \E i \in 1 .. n : f[i] = u
    BY DEF Table!Entries
  <2>2. \A i, j \in 1 .. n : f[i] = f[j] => i = j
    BY DEF OnlyOnce
  <2> HIDE DEF f, n
  <2> QED  BY <2>1, <2>2 DEF Bijection, Injection, Surjection, IsInjective
<1>3. IsFiniteSet(1 .. n) /\ Cardinality(1 .. n) = n
  BY <1>1, FS_Interval
<1>4. Cardinality(Table!Entries(tod)) = n
  BY <1>2, <1>3, FS_Bijection DEF ExistsBijection
<1> QED  BY <1>4 DEF TableFull, TableIsFull
-----------------------------------------------------------------------------
\* Where the steps of Process start from.
Before == TypeOK /\ BranchesInv /\ LineInv /\ InTime /\ FewLosses /\ SearchInv

\* Under FewLosses no counter can be used up by losses alone.
LEMMA FewAre ==
    ASSUME Before
    PROVE  /\ scenario.losses \in Nat /\ losses \in Nat /\ losses <= scenario.losses
           /\ UnmuteCounter \in Nat /\ scenario.losses < UnmuteCounter
           /\ MuteCounter \in Nat /\ scenario.losses < MuteCounter
           /\ DiscoveryCounter \in Nat /\ scenario.losses < DiscoveryCounter
           /\ QuikfindCounter \in Nat /\ scenario.losses < QuikfindCounter
           /\ QuikfindDiscoveryCounter \in Nat /\ scenario.losses < QuikfindDiscoveryCounter
<1>1. scenario \in Scenario
  BY ScenariosAssumption DEF Before, LineInv
<1>2. scenario.losses \in Nat
  BY <1>1 DEF Scenario
<1> QED  BY <1>2, ConstantsAssumption DEF Before, FewLosses, SearchInv, LossesOK

\* What of the line a step of Process leaves alone.
Same == UNCHANGED <<present, muted, late, scenario, losses, lates>>

\* A step that the table does not notice: the discovery runs on.
LEMMA GoesOn ==
    ASSUME Before, Same, state # "Idle", UNCHANGED <<tod, is_finished>>
    PROVE  LossesOK' /\ ~is_finished'
BY DEF Before, SearchInv, LossesOK, OnlyOnce, Same, Found, Table!Entries

\* The first branch is every UID.
LEMMA SearchBegins ==
    ASSUME Before, Same, Phase' = "Discovery", LossesOK', ~is_finished', Unsearched', ~discovery'.running, Calm',
           Found' \subseteq present', muted' \subseteq Found'
    PROVE  SearchInv'
<1>1. DiscoveryAt'
  BY DEF DiscoveryAt
<1>2. ASSUME NEW d \in present'  PROVE InOpenBranch(d)'
  <2>1. d \in 0 .. MaxUid
    BY DevicesHaveUids, ScenariosAssumption DEF Before, LineInv, Same, Scenario
  <2>2. stack'[1].lb <= d /\ d <= stack'[1].ub /\ Len(stack') = 1
    BY <2>1 DEF Unsearched
  <2> QED  BY <2>2 DEF InOpenBranch
<1>3. Paid(QuikfindCounter, quick_find)'
  BY FewAre DEF Unsearched, Paid, Same
<1>4. SearchAt'
  BY <1>2, <1>3 DEF SearchAt, NothingIsLost, Unsearched, NotRunning
<1> QED  BY <1>1, <1>4 DEF SearchInv

\* A branch in which everybody is muted is not answered for.
LEMMA AskedNobody ==
    ASSUME Hearing = {}, wire \in {Quiet, DiscBranch(discovery.lb, discovery.ub)}
    PROVE  Ignored
BY DEF Hearing, Ignored, Responders, DiscBranch

\* UNMUTE: a broadcast that a device missed cost a loss.
LEMMA UnmuteTimeOutFinds ==
    ASSUME Before, Same, UnmuteTimeOut
    PROVE  SearchInv'
<1>1. /\ state = "Unmute" /\ unmute.counter > 0 /\ unmute.running /\ Missed
      /\ unmute' = [counter |-> unmute.counter - 1, running |-> FALSE]
      /\ UNCHANGED <<state, saved_state, is_finished, do_incremental, mute, single_device, quick_find,
                     quick_find_discovery, discovery, stack, response, tod, wire, rx>>
  BY DEF UnmuteTimeOut, Expired, Missed, NotRunning, Stay, control, search, port
<1>2. Phase = "Unmute" /\ Phase' = "Unmute" /\ LossesOK' /\ ~is_finished'
  BY <1>1, GoesOn DEF Phase
<1>3. UnmuteAt
  BY <1>2 DEF Before, SearchInv
<1>4. Unsearched'
  BY <1>1, <1>3 DEF UnmuteAt, Unsearched, NotRunning
<1>5. unmute.counter \in Nat
  BY DEF Before, TypeOK, Counter
<1>6. muted # {} => UnmuteCounter + 1 <= unmute.counter + (scenario.losses - losses)
  BY <1>1, <1>3 DEF UnmuteAt, Missed
<1>7. UnmuteAt'
  <2>1. unmute'.counter = unmute.counter - 1 /\ ~unmute'.running
    BY <1>1
  <2>2. muted' # {} => UnmuteCounter <= unmute'.counter + (scenario'.losses - losses')
    BY <1>5, <1>6, <2>1, FewAre DEF Same
  <2> QED  BY <1>1, <1>3, <1>4, <2>1, <2>2, FewAre DEF UnmuteAt, Missed
<1> QED  BY <1>1, <1>2, <1>7 DEF SearchInv

\* What is received meanwhile changes nothing.
LEMMA UnmuteReceiveFinds ==
    ASSUME Before, Same, UnmuteReceive
    PROVE  SearchInv'
<1>1. /\ state = "Unmute" /\ unmute.counter > 0 /\ unmute.running
      /\ UNCHANGED <<state, saved_state, is_finished, do_incremental, unmute, mute, single_device, quick_find,
                     quick_find_discovery, discovery, stack, response, tod, wire>>
  BY DEF UnmuteReceive, Stay, control, commands, search
<1>2. Phase = "Unmute" /\ Phase' = "Unmute" /\ LossesOK' /\ ~is_finished'
  BY <1>1, GoesOn DEF Phase
<1>3. UnmuteAt
  BY <1>2 DEF Before, SearchInv
<1>4. UnmuteAt'
  BY <1>1, <1>3 DEF UnmuteAt, Unsearched, NotRunning, Missed, Same
<1> QED  BY <1>1, <1>2, <1>4 DEF SearchInv

\* The broadcast goes out.
LEMMA UnmuteSendFinds ==
    ASSUME Before, Same, UnmuteSend
    PROVE  SearchInv'
<1>1. /\ state = "Unmute" /\ unmute.counter > 0 /\ ~unmute.running
      /\ unmute' = [unmute EXCEPT !.running = TRUE] /\ wire' = DiscUnMute
      /\ UNCHANGED <<state, saved_state, is_finished, do_incremental, mute, single_device, quick_find,
                     quick_find_discovery, discovery, stack, response, tod, rx>>
  BY DEF UnmuteSend, Transmit, Stay, control, search
<1>2. Phase = "Unmute" /\ Phase' = "Unmute" /\ LossesOK' /\ ~is_finished'
  BY <1>1, GoesOn DEF Phase
<1>3. UnmuteAt
  BY <1>2 DEF Before, SearchInv
<1>4. unmute'.running /\ unmute'.counter = unmute.counter
  BY <1>1 DEF Before, TypeOK, Counter
<1>5. wire' # Quiet
  BY <1>1 DEF Quiet, DiscUnMute
<1>6. UnmuteAt'
  <2>1. Unsearched'
    BY <1>1, <1>3 DEF UnmuteAt, Unsearched, NotRunning
  <2> QED  BY <1>1, <1>3, <1>4, <1>5, <2>1 DEF UnmuteAt, Same
<1> QED  BY <1>1, <1>2, <1>6 DEF SearchInv

\* Nobody is muted when the devices have been told to unmute often enough.
LEMMA UnmuteDoneFinds ==
    ASSUME Before, Same, UnmuteDone
    PROVE  SearchInv'
<1>1. /\ state = "Unmute" /\ unmute.counter = 0
      /\ state' = (IF do_incremental THEN "Mute" ELSE "Discovery")
      /\ UNCHANGED <<saved_state, is_finished, do_incremental, mute, single_device, quick_find,
                     quick_find_discovery, discovery, stack, response, tod, wire, rx>>
  BY DEF UnmuteDone, Goto, NewState, search, port
<1>2. Phase = "Unmute" /\ Phase' = state' /\ LossesOK' /\ ~is_finished'
  BY <1>1, GoesOn DEF Phase
<1>3. UnmuteAt
  BY <1>2 DEF Before, SearchInv
<1>4. Missed /\ muted = {}
  BY <1>1, <1>3, FewAre DEF UnmuteAt
<1>5. Calm' /\ present' = present /\ muted' = {} /\ losses' = losses /\ scenario' = scenario
  BY <1>1, <1>4 DEF Calm, Ignored, Missed, Same
<1>6. Unsearched' /\ Unsearched
  BY <1>1, <1>3 DEF UnmuteAt, Unsearched, NotRunning
<1>7. CASE do_incremental
  <2>1. Phase' = "Mute" /\ mute'.tod_entries = Len(tod'.tod) /\ mute'.counter = MuteCounter /\ ~mute'.running
    BY <1>1, <1>2, <1>3, <1>7 DEF UnmuteAt
  <2>2. Len(tod'.tod) \in Nat
    BY <1>1 DEF Before, TypeOK, Table!Tod
  <2>3. Paid(MuteCounter, mute)'
    BY <2>1, <1>5, FewAre DEF Paid
  <2>4. MuteAt'
    BY <1>5, <1>6, <2>1, <2>2, <2>3 DEF MuteAt
  <2> QED  BY <1>2, <2>1, <2>4 DEF SearchInv
<1>8. CASE ~do_incremental
  <2>1. Phase' = "Discovery" /\ Len(tod'.tod) = 0
    BY <1>1, <1>2, <1>3, <1>8 DEF UnmuteAt
  <2>2. Found' = {}
    BY <2>1 DEF Found, Table!Entries
  <2>3. ~discovery'.running
    BY <1>1, <1>2 DEF Before, BranchesInv, PhaseOK
  <2> QED  BY <1>2, <1>5, <1>6, <2>1, <2>2, <2>3, SearchBegins
<1> QED  BY <1>7, <1>8
-----------------------------------------------------------------------------
\* MUTE: with every entry muted the search begins.
LEMMA MuteDoneFinds ==
    ASSUME Before, Same, MuteDone
    PROVE  SearchInv'
<1>1. /\ state = "Mute" /\ mute.tod_entries = 0 /\ state' = "Discovery"
      /\ UNCHANGED <<saved_state, is_finished, do_incremental, unmute, single_device, quick_find,
                     quick_find_discovery, discovery, stack, response, tod, wire, rx>>
  BY DEF MuteDone, Goto, NewState, MuteOther, search, port
<1>2. Phase = "Mute" /\ Phase' = "Discovery" /\ LossesOK' /\ ~is_finished'
  BY <1>1, GoesOn DEF Phase
<1>3. MuteAt
  BY <1>2 DEF Before, SearchInv
<1>4. ~mute.running /\ Calm /\ (\A i \in 1 .. Len(tod.tod) : tod.tod[i] \in present) /\ muted \subseteq Found
  BY <1>1, <1>3 DEF MuteAt
<1>5. Calm' /\ Unsearched' /\ Found' = Found
  BY <1>1, <1>3, <1>4 DEF Calm, Ignored, Responders, Same, MuteAt, Unsearched, Found, Table!Entries, NotRunning
<1>6. Found' \subseteq present' /\ muted' \subseteq Found'
  BY <1>4, <1>5 DEF Same, Found, Table!Entries
<1>7. ~discovery'.running
  BY <1>1, <1>2 DEF Before, BranchesInv, PhaseOK
<1> QED  BY <1>2, <1>5, <1>6, <1>7, SearchBegins

\* The entry that is asked is the one tod_entries points at.
LEMMA MuteSendFinds ==
    ASSUME Before, Same, MuteSend
    PROVE  SearchInv'
<1> DEFINE uid == tod.tod[mute.tod_entries]
<1>1. /\ state = "Mute" /\ mute.tod_entries > 0 /\ mute.counter > 0 /\ ~mute.running
      /\ mute' = [mute EXCEPT !.uid = Table!CopyUidEntry(tod, mute.tod_entries, UidAll), !.running = TRUE]
      /\ wire' = DiscMute(Table!CopyUidEntry(tod, mute.tod_entries, UidAll))
      /\ UNCHANGED <<state, saved_state, is_finished, do_incremental, unmute, single_device, quick_find,
                     quick_find_discovery, discovery, stack, response, tod, rx>>
  BY DEF MuteSend, Transmit, Stay, control, MuteOther, search
<1>2. Phase = "Mute" /\ Phase' = "Mute" /\ LossesOK' /\ ~is_finished'
  BY <1>1, GoesOn DEF Phase
<1>3. MuteAt
  BY <1>2 DEF Before, SearchInv
<1>4. Len(tod.tod) \in Nat /\ mute.tod_entries \in Nat /\ mute.tod_entries \in 1 .. Len(tod.tod)
  BY <1>1, <1>3 DEF Before, TypeOK, Table!Tod, MuteAt
<1>5. Table!CopyUidEntry(tod, mute.tod_entries, UidAll) = uid
  BY <1>4 DEF Table!CopyUidEntry
<1>6. mute'.uid = uid /\ mute'.running /\ mute'.tod_entries = mute.tod_entries /\ mute'.counter = mute.counter
  BY <1>1, <1>5 DEF Before, TypeOK
<1>7. wire' = DiscMute(uid) /\ wire' # Quiet /\ ~rx'.complete
  BY <1>1, <1>3, <1>5 DEF DiscMute, Quiet, MuteAt, Calm
<1>8. Paid(MuteCounter, mute)'
  BY <1>1, <1>3, <1>6, <1>7, FewAre DEF MuteAt, Paid, Missed, Same
<1>9. Unsearched' /\ muted' \subseteq Found'
  BY <1>1, <1>3 DEF MuteAt, Unsearched, Same, Found, Table!Entries, NotRunning
<1>10. MuteAt'
  BY <1>1, <1>3, <1>6, <1>7, <1>8, <1>9 DEF MuteAt, Same
<1> QED  BY <1>1, <1>2, <1>10 DEF SearchInv
\* A device that answers is on the line.
LEMMA MuteResponseFinds ==
    ASSUME Before, Same, MuteResponse
    PROVE  SearchInv'
<1>1. /\ state = "Mute" /\ mute.tod_entries > 0 /\ mute.running /\ rx.complete
      /\ mute' = [mute EXCEPT !.tod_entries = mute.tod_entries - 1, !.running = FALSE]
      /\ rx' = [rx EXCEPT !.complete = FALSE]
      /\ UNCHANGED <<state, saved_state, is_finished, do_incremental, unmute, single_device, quick_find,
                     quick_find_discovery, discovery, stack, tod, wire>>
  BY DEF MuteResponse, Received, Receive, Stay, control, MuteOther, search
<1>2. Phase = "Mute" /\ Phase' = "Mute" /\ LossesOK' /\ ~is_finished'
  BY <1>1, GoesOn DEF Phase
<1>3. MuteAt
  BY <1>2 DEF Before, SearchInv
<1>4. wire = Quiet /\ mute.uid \in present /\ mute.uid = tod.tod[mute.tod_entries] /\ Paid(MuteCounter, mute)
  BY <1>1, <1>3 DEF MuteAt
<1>5. mute'.tod_entries = mute.tod_entries - 1 /\ ~mute'.running /\ mute'.counter = mute.counter /\ ~rx'.complete
  BY <1>1 DEF Before, TypeOK
<1>6. mute.tod_entries \in Nat /\ mute.tod_entries <= Len(tod.tod) /\ Len(tod.tod) \in Nat
  BY <1>3 DEF Before, TypeOK, Table!Tod, MuteAt
<1>7. Calm' /\ Unsearched' /\ muted' \subseteq Found'
  BY <1>1, <1>3, <1>4, <1>5 DEF Calm, Ignored, Same, MuteAt, Unsearched, Found, Table!Entries, NotRunning
<1>8. Paid(MuteCounter, mute)'
  BY <1>1, <1>4, <1>5 DEF Paid, Missed, Same
<1>9. \A i \in mute'.tod_entries + 1 .. Len(tod'.tod) : tod'.tod[i] \in present'
  BY <1>1, <1>3, <1>4, <1>5, <1>6 DEF MuteAt, Same
<1>10. MuteAt'
  BY <1>1, <1>5, <1>6, <1>7, <1>8, <1>9 DEF MuteAt
<1> QED  BY <1>1, <1>2, <1>10 DEF SearchInv

\* An exchange that failed was paid for with a loss, if the device is there.
LEMMA MuteTimeOutFinds ==
    ASSUME Before, Same, MuteTimeOut
    PROVE  SearchInv'
<1>1. /\ state = "Mute" /\ mute.tod_entries > 0 /\ mute.running /\ Missed /\ mute.counter > 0
      /\ mute' = [mute EXCEPT !.counter = mute.counter - 1] /\ wire' = DiscMute(mute.uid)
      /\ UNCHANGED <<state, saved_state, is_finished, do_incremental, unmute, single_device, quick_find,
                     quick_find_discovery, discovery, stack, tod, rx>>
  BY DEF MuteTimeOut, TimedOut, Expired, Missed, Transmit, Stay, control, MuteOther, search
<1>2. Phase = "Mute" /\ Phase' = "Mute" /\ LossesOK' /\ ~is_finished'
  BY <1>1, GoesOn DEF Phase
<1>3. MuteAt
  BY <1>2 DEF Before, SearchInv
<1>4. /\ mute'.tod_entries = mute.tod_entries /\ mute'.running /\ mute'.counter = mute.counter - 1
      /\ mute'.uid = mute.uid /\ mute.counter \in Nat
  BY <1>1 DEF Before, TypeOK
<1>5. wire' = DiscMute(mute.uid) /\ wire' # Quiet /\ ~rx'.complete
  BY <1>1 DEF DiscMute, Quiet, Missed
<1>6. Unsearched' /\ muted' \subseteq Found'
  BY <1>1, <1>3 DEF MuteAt, Unsearched, Same, Found, Table!Entries, NotRunning
<1>7. mute.uid \in present => Paid(MuteCounter, mute)'
  <2> SUFFICES ASSUME mute.uid \in present  PROVE Paid(MuteCounter, mute)'
    OBVIOUS
  <2>1. MuteCounter + 1 <= mute.counter + (scenario.losses - losses)
    BY <1>1, <1>3 DEF MuteAt, Paid
  <2>2. ~Missed'
    BY <1>5 DEF Missed
  <2> QED  BY <1>4, <2>1, <2>2, FewAre DEF Paid, Same
<1>8. MuteAt'
  BY <1>1, <1>3, <1>4, <1>5, <1>6, <1>7 DEF MuteAt, Same
<1> QED  BY <1>1, <1>2, <1>8 DEF SearchInv

\* And one that never answers is gone: to be silent that often takes more losses than there are.
LEMMA MuteDeviceIsGoneFinds ==
    ASSUME Before, Same, MuteDeviceIsGone
    PROVE  SearchInv'
<1>1. /\ state = "Mute" /\ mute.tod_entries > 0 /\ mute.counter = 0
      /\ mute' = [mute EXCEPT !.counter = MuteCounter, !.running = FALSE, !.tod_entries = mute.tod_entries - 1]
      /\ tod' = Table!Delete(tod, mute.uid)
      /\ UNCHANGED <<state, saved_state, is_finished, do_incremental, unmute, single_device, quick_find,
                     quick_find_discovery, discovery, stack, response, wire, rx>>
  BY DEF MuteDeviceIsGone, Stay, control, MuteOther, search, port
<1>2. Phase = "Mute" /\ Phase' = "Mute" /\ ~is_finished'
  BY <1>1 DEF Phase, Before, SearchInv
<1>3. MuteAt
  BY <1>2 DEF Before, SearchInv
<1>4. ~Paid(MuteCounter, mute)
  BY <1>1, FewAre DEF Paid
<1>5. mute.running /\ mute.uid \notin present /\ ~rx.complete /\ wire \in {Quiet, DiscMute(mute.uid)}
      /\ mute.uid = tod.tod[mute.tod_entries]
  BY <1>3, <1>4 DEF MuteAt
<1> DEFINE e == mute.tod_entries
           n == Len(tod.tod)
<1>6. e \in 1 .. n /\ n \in Nat /\ e \in Nat /\ TableOf(tod) /\ OnlyOnce(tod)
  BY <1>1, <1>3 DEF Before, TypeOK, Table!Tod, TableOf, MuteAt, SearchInv, LossesOK
<1>7. /\ Len(tod'.tod) = n - 1
      /\ \A i \in 1 .. n - 1 : tod'.tod[i] = IF i < e THEN tod.tod[i] ELSE tod.tod[i + 1]
      /\ Found' = Found \ {mute.uid} /\ OnlyOnce(tod')
  <2> DEFINE r == Table!Delete(tod, mute.uid)
  <2>1. /\ Len(r.tod) = n - 1
        /\ \A i \in 1 .. n - 1 : r.tod[i] = IF i < e THEN tod.tod[i] ELSE tod.tod[i + 1]
        /\ Table!Entries(r) = Table!Entries(tod) \ {mute.uid}
        /\ OnlyOnce(r)
    BY <1>5, <1>6, DeleteIs
  <2>2. tod' = r
    BY <1>1
  <2>3. Found' = Table!Entries(r) /\ Found = Table!Entries(tod)
    BY <2>2 DEF Found, Table!Entries
  <2> HIDE DEF r
  <2>4. OnlyOnce(tod')
    BY <2>1, <2>2 DEF OnlyOnce
  <2> QED  BY <2>1, <2>2, <2>3, <2>4
<1>8. mute'.tod_entries = e - 1 /\ ~mute'.running /\ mute'.counter = MuteCounter
  BY <1>1 DEF Before, TypeOK
<1>9. LossesOK'
  BY <1>7 DEF Before, SearchInv, LossesOK, Same
<1>10. Calm'
  <2>1. mute.uid \in devices
    BY <1>5, <1>6 DEF Before, SearchInv, LossesOK, Found, Table!Entries
  <2>2. mute.uid # UidAll
    BY <2>1, ScenariosAssumption, ConstantsAssumption DEF Before, LineInv, Scenario, MaxUid, UidAll
  <2> QED  BY <1>1, <1>5, <2>2 DEF Calm, Ignored, DiscMute, Same
<1>11. Unsearched' /\ muted' \subseteq Found'
  <2>1. muted \subseteq Found /\ mute.uid \notin muted
    BY <1>3, <1>5 DEF MuteAt, Before, LineInv
  <2> QED  BY <1>1, <1>3, <1>7, <2>1 DEF MuteAt, Unsearched, NotRunning, Same
<1>12. \A i \in mute'.tod_entries + 1 .. Len(tod'.tod) : tod'.tod[i] \in present'
  <2> SUFFICES ASSUME NEW i \in e .. n - 1  PROVE tod'.tod[i] \in present
    BY <1>6, <1>7, <1>8 DEF Same
  <2>1. tod'.tod[i] = tod.tod[i + 1] /\ i + 1 \in e + 1 .. n
    BY <1>6, <1>7
  <2> QED  BY <1>3, <2>1 DEF MuteAt
<1>13. Paid(MuteCounter, mute)'
  BY <1>8, FewAre DEF Paid, Same
<1>14. mute'.tod_entries <= Len(tod'.tod)
  BY <1>6, <1>7, <1>8
<1>15. MuteAt'
  BY <1>8, <1>10, <1>11, <1>12, <1>13, <1>14 DEF MuteAt
<1> QED  BY <1>1, <1>2, <1>9, <1>15 DEF SearchInv
-----------------------------------------------------------------------------
(* The search.                                                             *)
\* What LATE_RESPONSE drops, nobody waits for.
LEMMA LateResponseFinds ==
    ASSUME Before, Same, LateResponse
    PROVE  SearchInv'
<1>1. /\ state = "LateResponse" /\ state' = saved_state
      /\ rx' = [rx EXCEPT !.complete = FALSE]
      /\ UNCHANGED <<saved_state, is_finished, do_incremental, unmute, mute, single_device, quick_find,
                     quick_find_discovery, discovery, stack, response, tod, wire>>
  BY DEF LateResponse, Receive, commands, search
<1>2. saved_state # "LateResponse"
  BY <1>1 DEF Before, BranchesInv, PhaseOK
<1>3. Phase' = Phase /\ state' = Phase /\ state' # "LateResponse" /\ LossesOK' /\ ~is_finished'
  BY <1>1, <1>2, GoesOn DEF Phase
<1>4. CASE Phase \in {"Idle", "Finished"}
  BY <1>1, <1>3, <1>4 DEF Before, SearchInv, SearchAt, NothingIsLost, Paid, Missed, BeingMuted, InOpenBranch, BranchOpen, Found, TableIsFull, Same, Table!Entries, NotRunning
<1>5. CASE Phase \notin {"Idle", "Finished"}
  <2>1. Calm
    BY <1>1, <1>5 DEF Before, SearchInv
  <2>2. rx' = rx
    BY <1>1, <2>1 DEF Before, TypeOK, Calm
  <2>3. UNCHANGED <<Found, TableIsFull, Missed, Ignored, Hearing, Heard>>
    BY <1>1, <2>2 DEF Same, Found, TableIsFull, Missed, Ignored, Responders, Hearing, Heard, Table!Entries
  <2>4. UNCHANGED <<UnmuteAt, MuteAt>>
    BY <1>1, <2>2, <2>3 DEF Same, UnmuteAt, MuteAt, Unsearched, Paid, NotRunning, Calm
  <2>5. UNCHANGED <<DiscoveryAt, DubAt, QuickfindAt, QfdAt, SingleAt>>
    BY <1>1, <2>2, <2>3 DEF Same, DiscoveryAt, DubAt, QuickfindAt, QfdAt, SingleAt, Asked, Paid, Calm
  <2>6. UNCHANGED SearchAt
    BY <1>1, <1>3, <2>3 DEF Same, SearchAt, NothingIsLost, BeingMuted, InOpenBranch, BranchOpen, Paid, NotRunning
  <2> QED  BY <1>1, <1>3, <2>4, <2>5, <2>6 DEF Before, SearchInv
<1> QED  BY <1>4, <1>5

\* DISCOVERY: an answer, or silence after every repeat: then nobody is in the branch.
LEMMA DiscoveryAnsweredFinds ==
    ASSUME Before, Same, DiscoveryAnswered
    PROVE  SearchInv'
<1>1. /\ state = "Discovery" /\ discovery.running /\ (rx.complete \/ discovery.counter = 0) /\ response' = rx.complete
      /\ rx' = [rx EXCEPT !.complete = FALSE] /\ discovery' = [discovery EXCEPT !.running = FALSE] /\ state' = "Dub"
      /\ UNCHANGED <<saved_state, is_finished, do_incremental, unmute, mute, single_device, quick_find,
                     quick_find_discovery, stack, tod, wire>>
  BY DEF DiscoveryAnswered, Receive, Goto, NewState, commands
<1>2. Phase = "Discovery" /\ Phase' = "Dub" /\ state' = "Dub" /\ LossesOK' /\ ~is_finished'
  BY <1>1, GoesOn DEF Phase
<1>3. Asked(DiscoveryCounter, discovery) /\ SearchAt
  BY <1>1, <1>2 DEF Before, SearchInv, DiscoveryAt
<1>4. discovery'.lb = discovery.lb /\ discovery'.ub = discovery.ub /\ rx'.data = rx.data /\ ~rx'.complete
  BY <1>1 DEF Before, TypeOK
<1>5. Hearing' = Hearing /\ (Heard' <=> Heard)
  BY <1>4 DEF Hearing, Heard, Same
<1>9. response' <=> rx.complete
  BY <1>1
<1>6. ASSUME rx.complete  PROVE DubAt'
  <2>1. wire' = Quiet /\ Heard' /\ response'
    BY <1>1, <1>3, <1>5, <1>6, <1>9 DEF Asked
  <2> QED  BY <1>4, <2>1 DEF DubAt
<1>7. ASSUME ~rx.complete  PROVE DubAt'
  <2>1. discovery.counter = 0 /\ ~Paid(DiscoveryCounter, discovery)
    BY <1>1, <1>7, FewAre DEF Paid
  <2>2. Hearing = {} /\ wire \in {Quiet, DiscBranch(discovery.lb, discovery.ub)}
    BY <1>3, <2>1 DEF Asked
  <2>3. Ignored'
    BY <1>1, <2>2, AskedNobody DEF Same, Ignored, Responders
  <2>4. Hearing' = {} /\ ~response'
    BY <1>5, <1>7, <1>9, <2>2
  <2> QED  BY <1>4, <2>3, <2>4 DEF DubAt
<1>8. SearchAt'
  <2>1. \A d : InOpenBranch(d)' <=> InOpenBranch(d)
    BY <1>1, <1>2, <1>4 DEF InOpenBranch, BranchOpen
  <2> QED  BY <1>1, <1>2, <1>3, <1>4, <2>1 DEF SearchAt, NothingIsLost, BeingMuted, Found, TableIsFull, Same, Paid, Missed, Table!Entries, NotRunning
<1> QED  BY <1>1, <1>2, <1>6, <1>7, <1>8 DEF SearchInv
-----------------------------------------------------------------------------

\* What no step of the table or of the stack disturbs.
LEMMA StillSearched ==
    ASSUME SearchAt, Same, tod' = tod,
           \A d \in present : InOpenBranch(d) => InOpenBranch(d)',
           \A d \in muted : BeingMuted(d) => BeingMuted(d)'
    PROVE  Found' \subseteq present' /\ (TableIsFull' \/ NothingIsLost')
<1>1. Found' = Found /\ (TableIsFull' <=> TableIsFull)
  BY DEF Found, TableIsFull, Table!Entries
<1>2. NothingIsLost => NothingIsLost'
  BY <1>1 DEF NothingIsLost, Same
<1> QED  BY <1>1, <1>2 DEF SearchAt, Same

\* The top of the stack is opened: what it covers is still covered.
LEMMA TopIsOpened ==
    ASSUME Before, stack # << >>, stack' = Pop(stack), Phase = "Discovery", ~discovery.running,
           discovery'.lb = Top.lb, discovery'.ub = Top.ub, BranchOpen'
    PROVE  \A d : InOpenBranch(d) => InOpenBranch(d)'
<1> DEFINE n == Len(stack)
<1>1. n \in Nat /\ n >= 1 /\ Len(stack') = n - 1 /\ \A i \in 1 .. n - 1 : stack'[i] = stack[i]
  BY PopIs DEF Before
<1> SUFFICES ASSUME NEW d, InOpenBranch(d)  PROVE InOpenBranch(d)'
  OBVIOUS
<1>2. PICK i \in 1 .. n : stack[i].lb <= d /\ d <= stack[i].ub
  BY DEF InOpenBranch, BranchOpen
<1>3. CASE i = n
  BY <1>2, <1>3 DEF InOpenBranch, Top
<1>4. CASE i # n
  <2>1. i \in 1 .. Len(stack') /\ stack'[i] = stack[i]
    BY <1>1, <1>4
  <2> QED  BY <1>2, <2>1 DEF InOpenBranch
<1> QED  BY <1>3, <1>4

\* Silence, and the branch is asked again.
LEMMA DiscoveryTimeOutFinds ==
    ASSUME Before, Same, DiscoveryTimeOut
    PROVE  SearchInv'
<1>1. /\ state = "Discovery" /\ discovery.running /\ discovery.counter > 0 /\ Missed
      /\ discovery' = [discovery EXCEPT !.counter = discovery.counter - 1]
      /\ wire' = DiscBranch(discovery.lb, discovery.ub)
      /\ UNCHANGED <<state, saved_state, is_finished, do_incremental, unmute, mute, single_device, quick_find,
                     quick_find_discovery, stack, tod, rx>>
  BY DEF DiscoveryTimeOut, TimedOut, Expired, Missed, Transmit, Stay, control, commands
<1>2. Phase = "Discovery" /\ Phase' = "Discovery" /\ LossesOK' /\ ~is_finished'
  BY <1>1, GoesOn DEF Phase
<1>3. Asked(DiscoveryCounter, discovery) /\ SearchAt
  BY <1>1, <1>2 DEF Before, SearchInv, DiscoveryAt
<1>4. /\ discovery'.lb = discovery.lb /\ discovery'.ub = discovery.ub /\ discovery'.running
      /\ discovery'.counter = discovery.counter - 1 /\ discovery.counter \in Nat
  BY <1>1 DEF Before, TypeOK
<1>5. wire' = DiscBranch(discovery'.lb, discovery'.ub) /\ wire' # Quiet /\ ~rx'.complete
  BY <1>1, <1>4 DEF DiscBranch, Quiet, Missed
<1>6. Hearing' = Hearing
  BY <1>4 DEF Hearing, Same
<1>7. Hearing' # {} => Paid(DiscoveryCounter, discovery)'
  BY <1>1, <1>3, <1>4, <1>5, <1>6, FewAre DEF Asked, Paid, Missed, Same
<1>8. DiscoveryAt'
  BY <1>4, <1>5, <1>7 DEF DiscoveryAt, Asked
<1>9. \A d : InOpenBranch(d)' <=> InOpenBranch(d)
  BY <1>1, <1>2, <1>4 DEF InOpenBranch, BranchOpen
<1>10. Found' \subseteq present' /\ (TableIsFull' \/ NothingIsLost')
  BY <1>1, <1>2, <1>3, <1>9, StillSearched DEF BeingMuted
<1>11. SearchAt'
  BY <1>1, <1>2, <1>3, <1>10 DEF SearchAt, Same, Paid, Missed, NotRunning
<1> QED  BY <1>1, <1>2, <1>8, <1>11 DEF SearchInv

\* When nothing is left to search, everything has been.
LEMMA DiscoveryNoMoreFinds ==
    ASSUME Before, Same, DiscoveryNoMore
    PROVE  SearchInv'
<1>1. /\ state = "Discovery" /\ ~discovery.running /\ stack = << >>
      /\ state' = "LateResponse" /\ saved_state' = "Finished"
      /\ UNCHANGED <<is_finished, do_incremental, unmute, mute, single_device, quick_find,
                     quick_find_discovery, discovery, stack, response, tod, wire, rx>>
  BY DEF DiscoveryNoMore, GotoLate, NewState, commands, search, port
<1>2. Phase = "Discovery" /\ Phase' = "Finished" /\ LossesOK' /\ ~is_finished'
  BY <1>1, GoesOn DEF Phase
<1>3. SearchAt
  BY <1>2 DEF Before, SearchInv
<1>4. \A d : InOpenBranch(d)' <=> InOpenBranch(d)
  BY <1>1, <1>2 DEF InOpenBranch, BranchOpen
<1>5. Found' \subseteq present' /\ (TableIsFull' \/ NothingIsLost')
  BY <1>1, <1>2, <1>3, <1>4, StillSearched DEF BeingMuted
<1>6. SearchAt'
  BY <1>1, <1>2, <1>3, <1>5 DEF SearchAt, Same, Paid, Missed, NotRunning
<1> QED  BY <1>1, <1>2, <1>6 DEF SearchInv

\* A branch of one UID is opened.
LEMMA DiscoveryTakeSingleFinds ==
    ASSUME Before, Same, DiscoveryTakeSingle
    PROVE  SearchInv'
<1>1. /\ state = "Discovery" /\ ~discovery.running /\ stack # << >> /\ stack' = Pop(stack)
      /\ discovery' = [discovery EXCEPT !.lb = Top.lb, !.ub = Top.ub]
      /\ quick_find_discovery' = [quick_find_discovery EXCEPT !.running = FALSE]
      /\ state' = "LateResponse" /\ saved_state' = "DiscoverySingleDevice"
      /\ UNCHANGED <<is_finished, do_incremental, unmute, mute, single_device, quick_find, response, tod, wire, rx>>
  BY DEF DiscoveryTakeSingle, GotoLate, NewState, port
<1>2. Phase = "Discovery" /\ Phase' = "DiscoverySingleDevice" /\ LossesOK' /\ ~is_finished'
  BY <1>1, GoesOn DEF Phase
<1>3. Calm /\ SearchAt
  BY <1>1, <1>2 DEF Before, SearchInv, DiscoveryAt
<1>4. Calm'
  BY <1>1, <1>3 DEF Calm, Ignored, Responders, Same
<1>5. ~single_device.running /\ single_device.counter \in {MuteCounter, QuikfindDiscoveryCounter}
  BY <1>2, <1>3 DEF SearchAt
<1>6. Paid(MuteCounter, single_device)' \/ Paid(QuikfindDiscoveryCounter, single_device)'
  BY <1>1, <1>5, FewAre DEF Paid, Same
<1>7. SingleAt'
  BY <1>1, <1>4, <1>5, <1>6 DEF SingleAt
<1>8. discovery'.lb = Top.lb /\ discovery'.ub = Top.ub
  BY <1>1 DEF Before, TypeOK
<1>9. \A d : InOpenBranch(d) => InOpenBranch(d)'
  <2>1. BranchOpen'
    BY <1>2 DEF BranchOpen
  <2> QED  BY <1>1, <1>2, <1>8, <2>1, TopIsOpened
<1>10. Found' \subseteq present' /\ (TableIsFull' \/ NothingIsLost')
  BY <1>1, <1>2, <1>3, <1>9, StillSearched DEF BeingMuted
<1>11. quick_find_discovery' = NotRunning(QuikfindDiscoveryCounter)
  <2>1. quick_find_discovery = [counter |-> QuikfindDiscoveryCounter, running |-> FALSE]
    BY <1>2, <1>3 DEF SearchAt, NotRunning
  <2>2. quick_find_discovery' = [[counter |-> QuikfindDiscoveryCounter, running |-> FALSE] EXCEPT !.running = FALSE]
    BY <1>1, <2>1
  <2> QED  BY <2>2 DEF NotRunning
<1>12. SearchAt'
  BY <1>1, <1>2, <1>3, <1>10, <1>11 DEF SearchAt, Same, Paid, Missed, NotRunning
<1> QED  BY <1>2, <1>4, <1>7, <1>12 DEF SearchInv

\* A larger branch is opened and asked for.
LEMMA DiscoveryTakeBranchFinds ==
    ASSUME Before, Same, DiscoveryTakeBranch
    PROVE  SearchInv'
<1>1. /\ state = "Discovery" /\ ~discovery.running /\ stack # << >> /\ stack' = Pop(stack)
      /\ discovery' = [lb |-> Top.lb, ub |-> Top.ub, counter |-> DiscoveryCounter, running |-> TRUE]
      /\ wire' = DiscBranch(Top.lb, Top.ub)
      /\ UNCHANGED <<state, saved_state, is_finished, do_incremental, unmute, mute, single_device, quick_find,
                     quick_find_discovery, response, tod, rx>>
  BY DEF DiscoveryTakeBranch, Transmit, Stay, control, commands
<1>2. Phase = "Discovery" /\ Phase' = "Discovery" /\ LossesOK' /\ ~is_finished'
  BY <1>1, GoesOn DEF Phase
<1>3. Calm /\ SearchAt
  BY <1>1, <1>2 DEF Before, SearchInv, DiscoveryAt
<1>4. /\ discovery'.lb = Top.lb /\ discovery'.ub = Top.ub /\ discovery'.running
      /\ discovery'.counter = DiscoveryCounter
  BY <1>1
<1>5. wire' = DiscBranch(discovery'.lb, discovery'.ub) /\ wire' # Quiet /\ ~rx'.complete
  BY <1>1, <1>3, <1>4 DEF DiscBranch, Quiet, Calm
<1>6. Paid(DiscoveryCounter, discovery)'
  BY <1>4, <1>5, FewAre DEF Paid, Missed, Same
<1>7. DiscoveryAt'
  BY <1>4, <1>5, <1>6 DEF DiscoveryAt, Asked
<1>8. \A d : InOpenBranch(d) => InOpenBranch(d)'
  <2>1. BranchOpen'
    BY <1>2, <1>4 DEF BranchOpen
  <2> QED  BY <1>1, <1>2, <1>4, <2>1, TopIsOpened
<1>9. Found' \subseteq present' /\ (TableIsFull' \/ NothingIsLost')
  BY <1>1, <1>2, <1>3, <1>8, StillSearched DEF BeingMuted
<1>10. SearchAt'
  BY <1>1, <1>2, <1>3, <1>9 DEF SearchAt, Same, Paid, Missed, NotRunning
<1> QED  BY <1>1, <1>2, <1>7, <1>10 DEF SearchInv
-----------------------------------------------------------------------------
(* A branch of one device.                                                 *)
LEMMA SingleIs ==
    ASSUME Before, state = "DiscoverySingleDevice"
    PROVE  /\ Phase = "DiscoverySingleDevice" /\ SingleAt /\ SearchAt /\ ~discovery.running
           /\ discovery.lb \in 0 .. MaxUid /\ discovery.lb # UidAll
           /\ \A d \in present : discovery.lb <= d /\ d <= discovery.ub => d = discovery.lb
<1>1. Phase = "DiscoverySingleDevice" /\ SingleAt /\ SearchAt
  BY DEF Before, SearchInv, Phase
<1>2. discovery.lb = discovery.ub /\ ~discovery.running /\ BranchOpen
  BY <1>1 DEF Before, BranchesInv, PhaseOK, BranchOpen
<1>3. discovery.lb \in Uid /\ discovery.ub <= MaxUid
  BY <1>2 DEF Before, BranchesInv, BranchesDisjoint, TypeOK
<1>4. \A d \in present : d \in 0 .. MaxUid
  BY DevicesHaveUids, ScenariosAssumption DEF Before, LineInv, Scenario
<1>5. MaxUid \in Nat /\ UidAll = MaxUid + 1
  BY ConstantsAssumption DEF MaxUid, UidAll
<1>6. discovery.lb \in 0 .. MaxUid /\ discovery.lb # UidAll
  BY <1>2, <1>3, <1>5 DEF Uid
<1> QED  BY <1>1, <1>2, <1>4, <1>5, <1>6

\* Given up only when the device is not there.
LEMMA SingleGiveUpFinds ==
    ASSUME Before, Same, SingleGiveUp
    PROVE  SearchInv'
<1>1. /\ state = "DiscoverySingleDevice" /\ single_device.counter = 0
      /\ single_device' = NotRunning(QuikfindDiscoveryCounter)
      /\ state' = "LateResponse" /\ saved_state' = "Discovery"
      /\ UNCHANGED <<is_finished, do_incremental, unmute, mute, quick_find,
                     quick_find_discovery, discovery, stack, response, tod, wire, rx>>
  BY DEF SingleGiveUp, GotoLate, NewState, SingleOther, search, port
<1>2. Phase' = "Discovery" /\ LossesOK' /\ ~is_finished'
  BY <1>1, GoesOn DEF Phase
<1>3. discovery.lb \notin present
  <2>1. ~Paid(MuteCounter, single_device) /\ ~Paid(QuikfindDiscoveryCounter, single_device)
    BY <1>1, FewAre DEF Paid
  <2> QED  BY <1>1, <2>1, SingleIs DEF SingleAt
<1>4. Calm'
  <2>1. ~rx.complete /\ Ignored
    BY <1>1, <1>3, SingleIs DEF SingleAt, Calm, Ignored, DiscMute
  <2> QED  BY <1>1, <2>1 DEF Calm, Ignored, Responders, Same
<1>5. ~discovery'.running
  BY <1>1, SingleIs
<1>6. \A d \in present : InOpenBranch(d) => InOpenBranch(d)'
  BY <1>1, <1>3, SingleIs DEF InOpenBranch
<1>7. \A d \in muted : ~BeingMuted(d)
  BY <1>1, <1>3, SingleIs DEF BeingMuted, Before, LineInv
<1>8. Found' \subseteq present' /\ (TableIsFull' \/ NothingIsLost')
  BY <1>1, <1>6, <1>7, SingleIs, StillSearched
<1>9. single_device'.counter = QuikfindDiscoveryCounter /\ ~single_device'.running
  BY <1>1 DEF NotRunning
<1>10. SearchAt'
  BY <1>1, <1>2, <1>8, <1>9, SingleIs DEF SearchAt, Same, Paid, Missed, NotRunning
<1>11. DiscoveryAt'
  BY <1>4, <1>5 DEF DiscoveryAt
<1> QED  BY <1>2, <1>4, <1>10, <1>11 DEF SearchInv

\* The device is told to mute itself.
LEMMA SingleSendFinds ==
    ASSUME Before, Same, SingleSend
    PROVE  SearchInv'
<1>1. /\ state = "DiscoverySingleDevice" /\ single_device.counter > 0 /\ ~single_device.running
      /\ single_device' = [single_device EXCEPT !.running = TRUE] /\ wire' = DiscMute(discovery.lb)
      /\ UNCHANGED <<state, saved_state, is_finished, do_incremental, unmute, mute, quick_find,
                     quick_find_discovery, discovery, stack, response, tod, rx>>
  BY DEF SingleSend, Transmit, Stay, SingleOther, control, search
<1>2. Phase' = "DiscoverySingleDevice" /\ LossesOK' /\ ~is_finished'
  BY <1>1, GoesOn DEF Phase
<1>3. single_device'.running /\ single_device'.counter = single_device.counter
  BY <1>1 DEF Before, TypeOK, Counter
<1>4. wire' # Quiet /\ ~rx'.complete
  BY <1>1, SingleIs DEF DiscMute, Quiet, SingleAt, Calm
<1>5. discovery'.lb \in present' =>
          Paid(MuteCounter, single_device)' \/ Paid(QuikfindDiscoveryCounter, single_device)'
  BY <1>1, <1>3, <1>4, SingleIs, FewAre DEF SingleAt, Paid, Missed, Same
<1>6. SingleAt'
  BY <1>1, <1>3, <1>4, <1>5 DEF SingleAt
<1>7. \A d : (InOpenBranch(d)' <=> InOpenBranch(d)) /\ (BeingMuted(d)' <=> BeingMuted(d))
  BY <1>1, <1>2, SingleIs DEF InOpenBranch, BranchOpen, BeingMuted
<1>8. Found' \subseteq present' /\ (TableIsFull' \/ NothingIsLost')
  BY <1>1, <1>7, SingleIs, StillSearched
<1>9. SearchAt'
  BY <1>1, <1>2, <1>8, SingleIs DEF SearchAt, Same, Paid, Missed, NotRunning
<1> QED  BY <1>1, <1>2, <1>6, <1>9 DEF SearchInv

\* A DISC_MUTE that was not answered was paid for with a loss.
LEMMA SingleTimeOutFinds ==
    ASSUME Before, Same, SingleTimeOut
    PROVE  SearchInv'
<1>1. /\ state = "DiscoverySingleDevice" /\ single_device.counter > 0 /\ single_device.running /\ Missed
      /\ single_device' = [single_device EXCEPT !.counter = single_device.counter - 1]
      /\ wire' = DiscMute(discovery.lb)
      /\ UNCHANGED <<state, saved_state, is_finished, do_incremental, unmute, mute, quick_find,
                     quick_find_discovery, discovery, stack, tod, rx>>
  BY DEF SingleTimeOut, TimedOut, Expired, Missed, Transmit, Stay, SingleOther, control, search
<1>2. Phase' = "DiscoverySingleDevice" /\ LossesOK' /\ ~is_finished'
  BY <1>1, GoesOn DEF Phase
<1>3. /\ single_device'.running /\ single_device'.counter = single_device.counter - 1
      /\ single_device.counter \in Nat
  BY <1>1 DEF Before, TypeOK, Counter
<1>4. wire' # Quiet /\ ~rx'.complete
  BY <1>1 DEF DiscMute, Quiet, Missed
<1>5. discovery'.lb \in present' =>
          Paid(MuteCounter, single_device)' \/ Paid(QuikfindDiscoveryCounter, single_device)'
  BY <1>1, <1>3, <1>4, SingleIs, FewAre DEF SingleAt, Paid, Missed, Same
<1>6. SingleAt'
  BY <1>1, <1>3, <1>4, <1>5 DEF SingleAt
<1>7. \A d : (InOpenBranch(d)' <=> InOpenBranch(d)) /\ (BeingMuted(d)' <=> BeingMuted(d))
  BY <1>1, <1>2, SingleIs DEF InOpenBranch, BranchOpen, BeingMuted
<1>8. Found' \subseteq present' /\ (TableIsFull' \/ NothingIsLost')
  BY <1>1, <1>7, SingleIs, StillSearched
<1>9. SearchAt'
  BY <1>1, <1>2, <1>8, SingleIs DEF SearchAt, Same, Paid, Missed, NotRunning
<1> QED  BY <1>1, <1>2, <1>6, <1>9 DEF SearchInv

\* The only frame that can come is the acknowledgement of the device.
LEMMA SingleIgnoreNever ==
    ASSUME Before, SingleIgnore
    PROVE  FALSE
<1>1. state = "DiscoverySingleDevice" /\ single_device.running /\ rx.complete /\ ~IsFromSingle
  BY DEF SingleIgnore, Received
<1>2. rx.data = MuteAck(discovery.lb)
  BY <1>1, SingleIs DEF SingleAt
<1> QED  BY <1>1, <1>2 DEF IsFromSingle, MuteAck

\* A device that is added to the table.
LEMMA DeviceIsAdded ==
    ASSUME Before, NEW d \in present, tod' = Table!AddUid(tod, d), UNCHANGED <<present, scenario>>
    PROVE  /\ OnlyOnce(tod') /\ (Found \subseteq present => Found' \subseteq present')
           /\ Found' \subseteq devices'
           /\ Found \subseteq Found' /\ (TableIsFull => TableIsFull') /\ (TableIsFull \/ d \in Found')
<1> DEFINE r == Table!AddUid(tod, d)
<1>1. d \in devices /\ d \in Uid /\ TableOf(tod) /\ OnlyOnce(tod) /\ Found \subseteq devices
  BY DevicesHaveUids DEF Before, LineInv, SearchInv, LossesOK, TypeOK, TableOf
<1>2. /\ OnlyOnce(r) /\ (Len(tod.tod) = TableSize => r = tod)
      /\ Table!Entries(tod) \subseteq Table!Entries(r)
      /\ Table!Entries(r) \subseteq Table!Entries(tod) \cup {d}
      /\ Len(tod.tod) # TableSize => d \in Table!Entries(r)
  BY <1>1, AddIs
<1>3. Found' = Table!Entries(r)
  BY DEF Found, Table!Entries
<1>4. tod' = r
  OBVIOUS
<1> HIDE DEF r
<1>5. OnlyOnce(tod')
  BY <1>2, <1>4 DEF OnlyOnce
<1> QED  BY <1>1, <1>2, <1>3, <1>4, <1>5 DEF Found, TableIsFull

\* The device that acknowledged enters the table.
LEMMA SingleResponseFinds ==
    ASSUME Before, Same, SingleResponse
    PROVE  SearchInv'
<1>1. /\ state = "DiscoverySingleDevice" /\ single_device.running /\ rx.complete
      /\ single_device' = NotRunning(QuikfindDiscoveryCounter) /\ rx' = [rx EXCEPT !.complete = FALSE]
      /\ tod' = Table!AddUid(tod, discovery.lb) /\ state' = "Discovery"
      /\ UNCHANGED <<saved_state, is_finished, do_incremental, unmute, mute, quick_find,
                     quick_find_discovery, discovery, stack, wire>>
  BY DEF SingleResponse, Received, Receive, Goto, NewState, SingleOther, search
<1>2. Phase' = "Discovery" /\ ~is_finished'
  BY <1>1 DEF Phase, Before, SearchInv
<1>3. wire = Quiet /\ discovery.lb \in present
  BY <1>1, SingleIs DEF SingleAt
<1>4. Calm' /\ ~discovery'.running
  BY <1>1, <1>3, SingleIs DEF Calm, Ignored, Before, TypeOK
<1>5. /\ OnlyOnce(tod') /\ Found' \subseteq present' /\ Found' \subseteq devices'
      /\ Found \subseteq Found' /\ (TableIsFull => TableIsFull') /\ (TableIsFull \/ discovery.lb \in Found')
  BY <1>1, <1>3, SingleIs, DeviceIsAdded DEF Same, SearchAt
<1>6. LossesOK'
  BY <1>5 DEF Before, SearchInv, LossesOK, Same
<1>7. ASSUME NothingIsLost, ~TableIsFull  PROVE NothingIsLost'
  <2>1. \A d : BeingMuted(d) => d \in Found'
    BY <1>1, <1>5, <1>7, SingleIs DEF BeingMuted
  <2>2. \A d \in present : InOpenBranch(d) => d \in Found' \/ InOpenBranch(d)'
    BY <1>1, <1>5, <1>7, SingleIs DEF InOpenBranch
  <2> QED  BY <1>5, <1>7, <2>1, <2>2 DEF NothingIsLost, Same
<1>8. single_device'.counter = QuikfindDiscoveryCounter /\ ~single_device'.running
  BY <1>1 DEF NotRunning
<1>9. SearchAt'
  BY <1>1, <1>2, <1>5, <1>7, <1>8, SingleIs DEF SearchAt, Same, Paid, Missed, NotRunning
<1>10. DiscoveryAt'
  BY <1>4 DEF DiscoveryAt
<1> QED  BY <1>1, <1>2, <1>6, <1>9, <1>10 DEF SearchInv
-----------------------------------------------------------------------------
(* What came back on a branch.                                             *)
LEMMA DubIs ==
    ASSUME Before, state = "Dub"
    PROVE  /\ Phase = "Dub" /\ DubAt /\ SearchAt /\ ~discovery.running
           /\ \A d : ~BeingMuted(d)
           /\ ~quick_find.running
BY DEF Before, SearchInv, Phase, BranchesInv, PhaseOK, BeingMuted, SearchAt

\* Nobody is left in the branch when nobody answers for it.
LEMMA BranchIsDone ==
    ASSUME SearchAt, Same, UNCHANGED <<tod, stack>>, Hearing = {}, \A d : ~BeingMuted(d)
    PROVE  Found' \subseteq present' /\ (TableIsFull' \/ NothingIsLost')
<1>1. Found' = Found /\ (TableIsFull' <=> TableIsFull)
  BY DEF Found, TableIsFull, Table!Entries
<1>2. ASSUME NothingIsLost, NEW d \in present  PROVE d \in Found' \/ InOpenBranch(d)'
  <2>1. CASE d \in muted
    BY <1>1, <1>2, <2>1 DEF NothingIsLost
  <2>2. CASE d \notin muted
    BY <1>1, <1>2, <2>2 DEF NothingIsLost, InOpenBranch, Hearing
  <2> QED  BY <2>1, <2>2
<1>3. NothingIsLost => NothingIsLost'
  BY <1>1, <1>2 DEF NothingIsLost, Same
<1> QED  BY <1>1, <1>3 DEF SearchAt, Same

\* Silence: nobody is left in the branch.
LEMMA DubSilentFinds ==
    ASSUME Before, Same, DubSilent
    PROVE  SearchInv'
<1>1. /\ state = "Dub" /\ ~response /\ state' = "Discovery"
      /\ UNCHANGED <<saved_state, is_finished, do_incremental, unmute, mute, single_device, quick_find,
                     quick_find_discovery, discovery, stack, response, tod, wire, rx>>
  BY DEF DubSilent, Goto, NewState, commands, search, port
<1>2. Phase' = "Discovery" /\ LossesOK' /\ ~is_finished'
  BY <1>1, GoesOn DEF Phase
<1>3. Hearing = {} /\ Ignored /\ ~rx.complete
  BY <1>1, DubIs DEF DubAt
<1>4. Calm' /\ ~discovery'.running
  BY <1>1, <1>3, DubIs DEF Calm, Ignored, Responders, Same
<1>5. Found' \subseteq present' /\ (TableIsFull' \/ NothingIsLost')
  BY <1>1, <1>3, DubIs, BranchIsDone
<1>6. SearchAt'
  BY <1>1, <1>2, <1>5, DubIs DEF SearchAt, Same, Paid, Missed, NotRunning
<1>7. DiscoveryAt'
  BY <1>4 DEF DiscoveryAt
<1> QED  BY <1>1, <1>2, <1>6, <1>7 DEF SearchInv

\* One device was heard: it is in the branch and not muted.
LEMMA DubOneDeviceFinds ==
    ASSUME Before, Same, DubOneDevice
    PROVE  SearchInv'
<1>1. /\ state = "Dub" /\ response /\ rx.data.kind = "branch"
      /\ quick_find' = [quick_find EXCEPT !.uid = rx.data.uid]
      /\ state' = "LateResponse" /\ saved_state' = "Quickfind"
      /\ UNCHANGED <<is_finished, do_incremental, unmute, mute, single_device,
                     quick_find_discovery, discovery, stack, response, tod, wire, rx>>
  BY DEF DubOneDevice, GotoLate, NewState, search, port
<1>2. Phase' = "Quickfind" /\ LossesOK' /\ ~is_finished'
  BY <1>1, GoesOn DEF Phase
<1>3. wire = Quiet /\ rx.data.uid \in Hearing /\ ~rx.complete
  BY <1>1, DubIs DEF DubAt, Heard
<1>4. quick_find'.uid = rx.data.uid /\ ~quick_find'.running /\ quick_find'.counter = quick_find.counter
  BY <1>1, DubIs DEF Before, TypeOK
<1>5. Calm' /\ Missed'
  BY <1>1, <1>3 DEF Calm, Ignored, Missed
<1>6. QuickfindAt'
  <2>1. quick_find'.uid \in present' /\ discovery'.lb <= quick_find'.uid /\ quick_find'.uid <= discovery'.ub
    BY <1>1, <1>3, <1>4 DEF Hearing, Same
  <2> QED  BY <1>5, <2>1 DEF QuickfindAt, Missed
<1>7. \A d : InOpenBranch(d)' <=> InOpenBranch(d)
  BY <1>1, <1>2, DubIs DEF InOpenBranch, BranchOpen
<1>8. Found' \subseteq present' /\ (TableIsFull' \/ NothingIsLost')
  BY <1>1, <1>7, DubIs, StillSearched
<1>9. Paid(QuikfindCounter, quick_find)'
  BY <1>1, <1>4, DubIs DEF SearchAt, Paid, Same
<1>10. SearchAt'
  BY <1>1, <1>2, <1>4, <1>8, <1>9, DubIs DEF SearchAt, Same, NotRunning
<1> QED  BY <1>2, <1>5, <1>6, <1>10 DEF SearchInv

\* A collision: whoever was in the branch is in one of the halves.
LEMMA DubCollisionFinds ==
    ASSUME Before, Same, DubCollision
    PROVE  SearchInv'
<1> DEFINE n   == Len(stack)
           mid == MidPosition(discovery.lb, discovery.ub)
<1>1. /\ state = "Dub" /\ response /\ state' = "LateResponse" /\ saved_state' = "Discovery"
      /\ UNCHANGED <<is_finished, do_incremental, unmute, mute, single_device, quick_find,
                     quick_find_discovery, discovery, response, tod, wire, rx>>
  BY DEF DubCollision, GotoLate, NewState, commands, port
<1>2. Phase' = "Discovery" /\ LossesOK' /\ ~is_finished'
  BY <1>1, GoesOn DEF Phase
<1>3. wire = Quiet /\ ~rx.complete
  BY <1>1, DubIs DEF DubAt
<1>4. Calm' /\ ~discovery'.running
  BY <1>1, <1>3, DubIs DEF Calm, Ignored
<1>5. /\ n \in Nat /\ Len(stack') = n + 2 /\ \A i \in 1 .. n : stack'[i] = stack[i]
      /\ stack'[n + 1].lb = discovery.lb /\ stack'[n + 1].ub = mid
      /\ stack'[n + 2].lb = mid + 1 /\ stack'[n + 2].ub = discovery.ub
      /\ mid \in Nat
  BY SplitIs DEF Before
<1> HIDE DEF n, mid
<1>6. ASSUME NEW d \in present, InOpenBranch(d)  PROVE InOpenBranch(d)'
  <2>1. d \in Nat
    BY DevicesHaveUids DEF Before, LineInv, Uid
  <2>2. CASE \E i \in 1 .. n : stack[i].lb <= d /\ d <= stack[i].ub
    <3>1. \E i \in 1 .. Len(stack') : stack'[i].lb <= d /\ d <= stack'[i].ub
      BY <1>5, <2>2
    <3> QED  BY <3>1 DEF InOpenBranch
  <2>3. CASE discovery.lb <= d /\ d <= discovery.ub
    <3>1. n + 1 \in 1 .. Len(stack') /\ n + 2 \in 1 .. Len(stack')
      BY <1>5
    <3>2. d <= mid \/ mid + 1 <= d
      BY <1>5, <2>1
    <3>3. \E i \in 1 .. Len(stack') : stack'[i].lb <= d /\ d <= stack'[i].ub
      BY <1>5, <2>3, <3>1, <3>2
    <3> QED  BY <3>3 DEF InOpenBranch
  <2> QED  BY <1>6, <2>2, <2>3 DEF InOpenBranch, n
<1>7. Found' \subseteq present' /\ (TableIsFull' \/ NothingIsLost')
  BY <1>1, <1>6, DubIs, StillSearched
<1>8. SearchAt'
  BY <1>1, <1>2, <1>7, DubIs DEF SearchAt, Same, Paid, Missed, NotRunning
<1>9. DiscoveryAt'
  BY <1>4 DEF DiscoveryAt
<1> QED  BY <1>2, <1>4, <1>8, <1>9 DEF SearchInv
-----------------------------------------------------------------------------
(* The one device that was heard is muted.                                 *)
LEMMA QuickfindIs ==
    ASSUME Before, state = "Quickfind"
    PROVE  /\ Phase = "Quickfind" /\ QuickfindAt /\ SearchAt /\ ~discovery.running /\ BranchOpen
           /\ quick_find.counter \in Nat /\ quick_find.counter > 0
<1>1. Phase = "Quickfind" /\ QuickfindAt /\ SearchAt /\ ~discovery.running
  BY DEF Before, SearchInv, Phase, BranchesInv, PhaseOK
<1>2. quick_find.counter \in Nat
  BY DEF Before, TypeOK
<1>3. quick_find.counter # 0
  BY <1>1, FewAre DEF SearchAt, Paid
<1> QED  BY <1>1, <1>2, <1>3 DEF BranchOpen

\* It is not given up, and nothing else answers.
LEMMA QuickfindNeverFails ==
    ASSUME Before, QuickfindGiveUp \/ QuickfindInvalid
    PROVE  FALSE
<1>1. CASE QuickfindGiveUp
  BY <1>1, QuickfindIs DEF QuickfindGiveUp
<1>2. CASE QuickfindInvalid
  <2>1. state = "Quickfind" /\ rx.complete /\ rx.data.kind # "mute"
    BY <1>2 DEF QuickfindInvalid, Received
  <2> QED  BY <2>1, QuickfindIs DEF QuickfindAt, MuteAck
<1> QED  BY <1>1, <1>2

\* The device is told to mute itself.
LEMMA QuickfindSendFinds ==
    ASSUME Before, Same, QuickfindSend
    PROVE  SearchInv'
<1>1. /\ state = "Quickfind" /\ ~quick_find.running
      /\ quick_find' = [quick_find EXCEPT !.running = TRUE] /\ wire' = DiscMute(quick_find.uid)
      /\ UNCHANGED <<state, saved_state, is_finished, do_incremental, unmute, mute, single_device,
                     quick_find_discovery, discovery, stack, response, tod, rx>>
  BY DEF QuickfindSend, Transmit, Stay, QuickfindOther, control, search
<1>2. Phase' = "Quickfind" /\ LossesOK' /\ ~is_finished'
  BY <1>1, GoesOn DEF Phase
<1>3. quick_find'.running /\ quick_find'.uid = quick_find.uid /\ quick_find'.counter = quick_find.counter
  BY <1>1 DEF Before, TypeOK
<1>4. wire' # Quiet /\ ~rx'.complete
  BY <1>1, QuickfindIs DEF DiscMute, Quiet, QuickfindAt, Missed
<1>5. QuickfindAt'
  BY <1>1, <1>3, <1>4, QuickfindIs DEF QuickfindAt, Same
<1>6. Paid(QuikfindCounter, quick_find)'
  BY <1>1, <1>3, <1>4, QuickfindIs DEF SearchAt, Paid, Missed, Same
<1>7. \A d : (InOpenBranch(d)' <=> InOpenBranch(d)) /\ (BeingMuted(d)' <=> BeingMuted(d))
  BY <1>1, <1>2, <1>3, QuickfindIs DEF InOpenBranch, BranchOpen, BeingMuted
<1>8. Found' \subseteq present' /\ (TableIsFull' \/ NothingIsLost')
  BY <1>1, <1>7, QuickfindIs, StillSearched
<1>9. SearchAt'
  BY <1>1, <1>2, <1>6, <1>8, QuickfindIs DEF SearchAt, Same, NotRunning
<1> QED  BY <1>1, <1>2, <1>5, <1>9 DEF SearchInv

\* A DISC_MUTE that was not answered was paid for with a loss.
LEMMA QuickfindTimeOutFinds ==
    ASSUME Before, Same, QuickfindTimeOut
    PROVE  SearchInv'
<1>1. /\ state = "Quickfind" /\ quick_find.running /\ Missed
      /\ quick_find' = [quick_find EXCEPT !.counter = quick_find.counter - 1, !.running = FALSE]
      /\ UNCHANGED <<state, saved_state, is_finished, do_incremental, unmute, mute, single_device,
                     quick_find_discovery, discovery, stack, tod, wire, rx>>
  BY DEF QuickfindTimeOut, TimedOut, Expired, Missed, Stay, QuickfindOther, control, search
<1>2. Phase' = "Quickfind" /\ LossesOK' /\ ~is_finished'
  BY <1>1, GoesOn DEF Phase
<1>3. ~quick_find'.running /\ quick_find'.uid = quick_find.uid /\ quick_find'.counter = quick_find.counter - 1
  BY <1>1 DEF Before, TypeOK
<1>4. QuickfindAt'
  BY <1>1, <1>3, QuickfindIs DEF QuickfindAt, Same, Missed
<1>5. Paid(QuikfindCounter, quick_find)'
  BY <1>1, <1>3, QuickfindIs, FewAre DEF SearchAt, Paid, Same
<1>6. \A d : (InOpenBranch(d)' <=> InOpenBranch(d)) /\ (BeingMuted(d)' <=> BeingMuted(d))
  BY <1>1, <1>2, <1>3, QuickfindIs DEF InOpenBranch, BranchOpen, BeingMuted
<1>7. Found' \subseteq present' /\ (TableIsFull' \/ NothingIsLost')
  BY <1>1, <1>6, QuickfindIs, StillSearched
<1>8. SearchAt'
  BY <1>1, <1>2, <1>3, <1>5, <1>7, QuickfindIs DEF SearchAt, Same, NotRunning
<1> QED  BY <1>1, <1>2, <1>4, <1>8 DEF SearchInv

\* The device that acknowledged enters the table.
LEMMA QuickfindResponseFinds ==
    ASSUME Before, Same, QuickfindResponse
    PROVE  SearchInv'
<1>1. /\ state = "Quickfind" /\ quick_find.running /\ rx.complete
      /\ quick_find' = [quick_find EXCEPT !.counter = QuikfindCounter, !.running = FALSE]
      /\ tod' = (IF rx.data.uid = quick_find.uid THEN Table!AddUid(tod, quick_find.uid) ELSE tod)
      /\ rx' = [rx EXCEPT !.complete = FALSE] /\ state' = "QuickfindDiscovery"
      /\ UNCHANGED <<saved_state, is_finished, do_incremental, unmute, mute, single_device,
                     quick_find_discovery, discovery, stack, wire>>
  BY DEF QuickfindResponse, Received, Receive, Goto, NewState, QuickfindOther, search
<1>2. Phase' = "QuickfindDiscovery" /\ ~is_finished'
  BY <1>1 DEF Phase, Before, SearchInv
<1>3. wire = Quiet /\ quick_find.uid \in present /\ rx.data = MuteAck(quick_find.uid)
  BY <1>1, QuickfindIs DEF QuickfindAt
<1>4. tod' = Table!AddUid(tod, quick_find.uid)
  BY <1>1, <1>3 DEF MuteAck
<1>5. /\ OnlyOnce(tod') /\ Found' \subseteq present' /\ Found' \subseteq devices'
      /\ Found \subseteq Found' /\ (TableIsFull => TableIsFull') /\ (TableIsFull \/ quick_find.uid \in Found')
  BY <1>1, <1>3, <1>4, QuickfindIs, DeviceIsAdded DEF Same, SearchAt
<1>6. LossesOK'
  BY <1>5 DEF Before, SearchInv, LossesOK, Same
<1>7. ~quick_find'.running /\ quick_find'.counter = QuikfindCounter /\ ~rx'.complete
  BY <1>1 DEF Before, TypeOK
<1>8. quick_find_discovery' = NotRunning(QuikfindDiscoveryCounter)
  BY <1>1, QuickfindIs DEF SearchAt, NotRunning
<1>9. Missed'
  BY <1>1, <1>3, <1>7 DEF Missed
<1>10. QfdAt'
  <2>1. quick_find_discovery'.counter = QuikfindDiscoveryCounter /\ ~quick_find_discovery'.running
    BY <1>8 DEF NotRunning
  <2>2. Paid(QuikfindDiscoveryCounter, quick_find_discovery)'
    BY <2>1, FewAre DEF Paid, Same
  <2> QED  BY <1>9, <2>2 DEF QfdAt, Asked, Missed
<1>11. ASSUME NothingIsLost, ~TableIsFull  PROVE NothingIsLost'
  <2>1. \A d : BeingMuted(d) => d \in Found'
    BY <1>5, <1>11, QuickfindIs, <1>1 DEF BeingMuted
  <2>2. \A d \in present : InOpenBranch(d) => InOpenBranch(d)'
    BY <1>1, <1>2, QuickfindIs DEF InOpenBranch, BranchOpen
  <2> QED  BY <1>5, <1>11, <2>1, <2>2 DEF NothingIsLost, Same
<1>12. Paid(QuikfindCounter, quick_find)'
  BY <1>7, FewAre DEF Paid, Same
<1>13. SearchAt'
  BY <1>1, <1>2, <1>5, <1>7, <1>8, <1>11, <1>12, QuickfindIs DEF SearchAt, Same, NotRunning
<1> QED  BY <1>1, <1>2, <1>6, <1>10, <1>13 DEF SearchInv
-----------------------------------------------------------------------------
(* The branch is asked again.                                              *)
LEMMA QfdIs ==
    ASSUME Before, state = "QuickfindDiscovery"
    PROVE  /\ Phase = "QuickfindDiscovery" /\ QfdAt /\ SearchAt /\ ~discovery.running /\ BranchOpen
           /\ quick_find_discovery.counter \in Nat
           /\ \A d : ~BeingMuted(d)
           /\ ~quick_find.running
<1>1. Phase = "QuickfindDiscovery" /\ QfdAt /\ SearchAt /\ ~discovery.running
  BY DEF Before, SearchInv, Phase, BranchesInv, PhaseOK
<1>2. quick_find_discovery.counter \in Nat
  BY DEF Before, TypeOK, Counter
<1> QED  BY <1>1, <1>2 DEF BranchOpen, BeingMuted, SearchAt

\* Given up only when nobody is left in the branch.
LEMMA QfdGiveUpFinds ==
    ASSUME Before, Same, QfdGiveUp
    PROVE  SearchInv'
<1>1. /\ state = "QuickfindDiscovery" /\ quick_find_discovery.counter = 0
      /\ quick_find_discovery' = NotRunning(QuikfindDiscoveryCounter)
      /\ state' = "LateResponse" /\ saved_state' = "Discovery"
      /\ UNCHANGED <<is_finished, do_incremental, unmute, mute, single_device, quick_find,
                     discovery, stack, response, tod, wire, rx>>
  BY DEF QfdGiveUp, GotoLate, NewState, QfdOther, search, port
<1>2. Phase' = "Discovery" /\ LossesOK' /\ ~is_finished'
  BY <1>1, GoesOn DEF Phase
<1>3. Hearing = {}
  <2>1. ~Paid(QuikfindDiscoveryCounter, quick_find_discovery)
    BY <1>1, FewAre DEF Paid
  <2> QED  BY <1>1, <2>1, QfdIs DEF QfdAt, Asked
<1>4. Ignored /\ ~rx.complete
  <2>1. wire \in {Quiet, DiscBranch(discovery.lb, discovery.ub)} /\ (rx.complete => Heard)
    BY <1>1, QfdIs DEF QfdAt, Asked
  <2> QED  BY <1>3, <2>1, AskedNobody DEF Heard
<1>5. Calm' /\ ~discovery'.running
  BY <1>1, <1>4, QfdIs DEF Calm, Ignored, Responders, Same
<1>6. Found' \subseteq present' /\ (TableIsFull' \/ NothingIsLost')
  BY <1>1, <1>3, QfdIs, BranchIsDone
<1>7. SearchAt'
  BY <1>1, <1>2, <1>6, QfdIs DEF SearchAt, Same, Paid, Missed
<1>8. DiscoveryAt'
  BY <1>5 DEF DiscoveryAt
<1> QED  BY <1>2, <1>5, <1>7, <1>8 DEF SearchInv

\* The request goes out.
LEMMA QfdSendFinds ==
    ASSUME Before, Same, QfdSend
    PROVE  SearchInv'
<1>1. /\ state = "QuickfindDiscovery" /\ ~quick_find_discovery.running
      /\ quick_find_discovery' = [quick_find_discovery EXCEPT !.running = TRUE]
      /\ wire' = DiscBranch(discovery.lb, discovery.ub)
      /\ UNCHANGED <<state, saved_state, is_finished, do_incremental, unmute, mute, single_device, quick_find,
                     discovery, stack, response, tod, rx>>
  BY DEF QfdSend, Transmit, Stay, QfdOther, control, search
<1>2. Phase' = "QuickfindDiscovery" /\ LossesOK' /\ ~is_finished'
  BY <1>1, GoesOn DEF Phase
<1>3. quick_find_discovery'.running /\ quick_find_discovery'.counter = quick_find_discovery.counter
  BY <1>1 DEF Before, TypeOK, Counter
<1>4. wire' = DiscBranch(discovery'.lb, discovery'.ub) /\ wire' # Quiet /\ ~rx'.complete
  BY <1>1, QfdIs DEF DiscBranch, Quiet, QfdAt, Missed
<1>5. Hearing' = Hearing
  BY <1>1 DEF Hearing, Same
<1>6. Hearing' # {} => Paid(QuikfindDiscoveryCounter, quick_find_discovery)'
  BY <1>1, <1>3, <1>4, <1>5, QfdIs DEF QfdAt, Asked, Paid, Missed, Same
<1>7. QfdAt'
  BY <1>3, <1>4, <1>6 DEF QfdAt, Asked
<1>8. \A d : InOpenBranch(d)' <=> InOpenBranch(d)
  BY <1>1, <1>2, QfdIs DEF InOpenBranch, BranchOpen
<1>9. Found' \subseteq present' /\ (TableIsFull' \/ NothingIsLost')
  BY <1>1, <1>8, QfdIs, StillSearched
<1>10. SearchAt'
  BY <1>1, <1>2, <1>9, QfdIs DEF SearchAt, Same, Paid
<1> QED  BY <1>1, <1>2, <1>7, <1>10 DEF SearchInv

\* Silence of a branch with a device in it was paid for with a loss.
LEMMA QfdTimeOutFinds ==
    ASSUME Before, Same, QfdTimeOut
    PROVE  SearchInv'
<1>1. /\ state = "QuickfindDiscovery" /\ quick_find_discovery.running /\ Missed
      /\ quick_find_discovery' = NotRunning(quick_find_discovery.counter - 1)
      /\ UNCHANGED <<state, saved_state, is_finished, do_incremental, unmute, mute, single_device, quick_find,
                     discovery, stack, tod, wire, rx>>
  BY DEF QfdTimeOut, TimedOut, Expired, Missed, Stay, QfdOther, control, search
<1>2. Phase' = "QuickfindDiscovery" /\ LossesOK' /\ ~is_finished'
  BY <1>1, GoesOn DEF Phase
<1>3. ~quick_find_discovery'.running /\ quick_find_discovery'.counter = quick_find_discovery.counter - 1
  BY <1>1 DEF NotRunning
<1>4. Missed' /\ Hearing' = Hearing
  BY <1>1 DEF Missed, Hearing, Same
<1>5. Hearing' # {} => Paid(QuikfindDiscoveryCounter, quick_find_discovery)'
  BY <1>1, <1>3, <1>4, QfdIs, FewAre DEF QfdAt, Asked, Paid, Same
<1>6. QfdAt'
  BY <1>4, <1>5 DEF QfdAt, Asked, Missed
<1>7. \A d : InOpenBranch(d)' <=> InOpenBranch(d)
  BY <1>1, <1>2, QfdIs DEF InOpenBranch, BranchOpen
<1>8. Found' \subseteq present' /\ (TableIsFull' \/ NothingIsLost')
  BY <1>1, <1>7, QfdIs, StillSearched
<1>9. SearchAt'
  BY <1>1, <1>2, <1>8, QfdIs DEF SearchAt, Same, Paid
<1> QED  BY <1>1, <1>2, <1>6, <1>9 DEF SearchInv

\* Another device was heard in the branch.
LEMMA QfdOneDeviceFinds ==
    ASSUME Before, Same, QfdOneDevice
    PROVE  SearchInv'
<1>1. /\ state = "QuickfindDiscovery" /\ rx.complete /\ rx.data.kind = "branch"
      /\ quick_find' = [quick_find EXCEPT !.uid = rx.data.uid]
      /\ quick_find_discovery' = NotRunning(QuikfindDiscoveryCounter)
      /\ rx' = [rx EXCEPT !.complete = FALSE]
      /\ state' = "LateResponse" /\ saved_state' = "Quickfind"
      /\ UNCHANGED <<is_finished, do_incremental, unmute, mute, single_device,
                     discovery, stack, tod, wire>>
  BY DEF QfdOneDevice, Received, Receive, GotoLate, NewState, QfdOther, search
<1>2. Phase' = "Quickfind" /\ LossesOK' /\ ~is_finished'
  BY <1>1, GoesOn DEF Phase
<1>3. wire = Quiet /\ rx.data.uid \in Hearing
  BY <1>1, QfdIs DEF QfdAt, Asked, Heard
<1>4. quick_find'.uid = rx.data.uid /\ ~quick_find'.running /\ quick_find'.counter = quick_find.counter
      /\ ~rx'.complete
  BY <1>1, QfdIs DEF Before, TypeOK
<1>5. Calm' /\ Missed'
  BY <1>1, <1>3, <1>4 DEF Calm, Ignored, Missed
<1>6. QuickfindAt'
  <2>1. quick_find'.uid \in present' /\ discovery'.lb <= quick_find'.uid /\ quick_find'.uid <= discovery'.ub
    BY <1>1, <1>3, <1>4 DEF Hearing, Same
  <2> QED  BY <1>5, <2>1 DEF QuickfindAt, Missed
<1>7. \A d : InOpenBranch(d)' <=> InOpenBranch(d)
  BY <1>1, <1>2, QfdIs DEF InOpenBranch, BranchOpen
<1>8. Found' \subseteq present' /\ (TableIsFull' \/ NothingIsLost')
  BY <1>1, <1>7, QfdIs, StillSearched
<1>9. Paid(QuikfindCounter, quick_find)'
  BY <1>1, <1>4, QfdIs DEF SearchAt, Paid, Same
<1>10. SearchAt'
  BY <1>1, <1>2, <1>4, <1>8, <1>9, QfdIs DEF SearchAt, Same
<1> QED  BY <1>2, <1>5, <1>6, <1>10 DEF SearchInv

\* Several answered: DUB will split the branch.
LEMMA QfdCollisionFinds ==
    ASSUME Before, Same, QfdCollision
    PROVE  SearchInv'
<1>1. /\ state = "QuickfindDiscovery" /\ rx.complete /\ response' = TRUE
      /\ quick_find_discovery' = NotRunning(QuikfindDiscoveryCounter)
      /\ rx' = [rx EXCEPT !.complete = FALSE] /\ state' = "Dub"
      /\ UNCHANGED <<saved_state, is_finished, do_incremental, unmute, mute, single_device, quick_find,
                     discovery, stack, tod, wire>>
  BY DEF QfdCollision, Received, Receive, Goto, NewState, QfdOther, search
<1>2. Phase' = "Dub" /\ LossesOK' /\ ~is_finished'
  BY <1>1, GoesOn DEF Phase
<1>3. wire = Quiet /\ Heard
  BY <1>1, QfdIs DEF QfdAt, Asked
<1>4. rx'.data = rx.data /\ ~rx'.complete /\ Hearing' = Hearing
  BY <1>1 DEF Before, TypeOK, Hearing, Same
<1>5. Heard'
  BY <1>3, <1>4 DEF Heard
<1>6. DubAt'
  BY <1>1, <1>3, <1>4, <1>5 DEF DubAt
<1>7. \A d : InOpenBranch(d)' <=> InOpenBranch(d)
  BY <1>1, <1>2, QfdIs DEF InOpenBranch, BranchOpen
<1>8. Found' \subseteq present' /\ (TableIsFull' \/ NothingIsLost')
  BY <1>1, <1>7, QfdIs, StillSearched
<1>9. SearchAt'
  BY <1>1, <1>2, <1>8, QfdIs DEF SearchAt, Same, Paid, Missed
<1> QED  BY <1>1, <1>2, <1>6, <1>9 DEF SearchInv

\* A discovery that ends by itself leaves no device out.
LEMMA FinishFinds ==
    ASSUME Before, Same, Finish
    PROVE  SearchInv'
<1>1. /\ state = "Finished" /\ state' = "Idle"
      /\ UNCHANGED <<stack, tod>>
  BY DEF Finish, NewState, search
<1>2. Phase = "Finished" /\ Phase' = "Idle" /\ SearchAt /\ stack = << >>
  BY <1>1 DEF Phase, Before, SearchInv, SearchAt
<1>3. LossesOK'
  BY <1>1 DEF Before, SearchInv, LossesOK, OnlyOnce, Same, Found, Table!Entries
<1>4. Len(stack) = 0 /\ ~BranchOpen
  BY <1>2 DEF BranchOpen
<1>5. \A d : ~InOpenBranch(d)
  BY <1>4 DEF InOpenBranch
<1>6. TableIsFull \/ present \subseteq Found
  BY <1>2, <1>5 DEF SearchAt, NothingIsLost
<1>7. Found' = Found /\ (TableIsFull' <=> TableIsFull) /\ present' = present
  BY <1>1 DEF Found, TableIsFull, Table!Entries, Same
<1> QED  BY <1>1, <1>2, <1>3, <1>6, <1>7 DEF SearchInv

\* No step of the state machine loses a device.
LEMMA ProcessFinds ==
    ASSUME Before, Same, Process
    PROVE  SearchInv'
BY LateResponseFinds, UnmuteDoneFinds, UnmuteSendFinds, UnmuteReceiveFinds, UnmuteTimeOutFinds,
   MuteDoneFinds, MuteDeviceIsGoneFinds, MuteSendFinds, MuteResponseFinds, MuteTimeOutFinds,
   DiscoveryAnsweredFinds, DiscoveryTimeOutFinds, DiscoveryNoMoreFinds, DiscoveryTakeSingleFinds,
   DiscoveryTakeBranchFinds, SingleGiveUpFinds, SingleSendFinds, SingleResponseFinds, SingleIgnoreNever,
   SingleTimeOutFinds, DubSilentFinds, DubOneDeviceFinds, DubCollisionFinds, QuickfindNeverFails,
   QuickfindSendFinds, QuickfindResponseFinds, QuickfindTimeOutFinds, QfdGiveUpFinds, QfdSendFinds,
   QfdOneDeviceFinds, QfdCollisionFinds, QfdTimeOutFinds, FinishFinds
   DEF Process
-----------------------------------------------------------------------------
(* What the devices do.                                                    *)
\* Whoever is muted can be counted.
LEMMA FewAreMuted ==
    ASSUME LineInv, NEW m \in SUBSET muted
    PROVE  Cardinality(m) \in Nat /\ (Cardinality(m) = 0 => m = {})
<1>1. MaxUid \in Nat
  BY ConstantsAssumption DEF MaxUid
<1>2. m \in SUBSET (0 .. MaxUid)
  BY DevicesHaveUids, ScenariosAssumption DEF LineInv, Scenario
<1>3. IsFiniteSet(0 .. MaxUid)
  BY <1>1, FS_Interval
<1>4. IsFiniteSet(m)
  BY <1>2, <1>3, FS_Subset
<1> QED  BY <1>4, FS_CardinalityType, FS_EmptySet

\* They touch nothing but the line.
LEMMA DevicesKeep ==
    ASSUME Before, Devices
    PROVE  /\ UNCHANGED <<state, saved_state, is_finished, do_incremental, unmute, mute, single_device, quick_find,
                          quick_find_discovery, discovery, stack, response, tod, present, scenario, late, lates>>
           /\ wire # Quiet /\ wire' = Quiet
           /\ losses \in Nat /\ losses' \in Nat /\ losses' <= losses
<1>1. lates = 0 /\ losses \in Nat
  BY DEF Before, SearchInv, LossesOK
<1>2. UNCHANGED <<control, commands, search, response, tod, present, scenario>> /\ wire' = Quiet
  BY DEF Devices, DevicesUnMute, DevicesMute, DevicesBranch, Answered
<1>3. wire # Quiet
  BY DEF Devices, DevicesUnMute, DevicesMute, DevicesBranch, DiscUnMute, Quiet
<1>4. ASSUME NEW frame, Reply(frame)  PROVE UNCHANGED <<late, lates>> /\ losses' \in Nat /\ losses' <= losses
  BY <1>1, <1>4 DEF Reply, Lose
<1>5. UNCHANGED <<late, lates>> /\ losses' \in Nat /\ losses' <= losses
  <2>1. CASE DevicesUnMute
    <3>1. Cardinality(muted') \in Nat
      BY <2>1, FewAreMuted DEF DevicesUnMute, Before
    <3> QED  BY <1>1, <2>1, <3>1 DEF DevicesUnMute, Lose
  <2>2. CASE DevicesMute
    BY <1>1, <1>4, <2>2 DEF DevicesMute, NoReply, Lose
  <2>3. CASE DevicesBranch
    BY <1>1, <1>4, <2>3 DEF DevicesBranch, NoReply, Lose
  <2> QED  BY <2>1, <2>2, <2>3 DEF Devices
<1> QED  BY <1>1, <1>2, <1>3, <1>5 DEF control, commands, search

\* A request nobody has to answer costs nothing and changes nothing.
LEMMA NobodyAnswers ==
    ASSUME Before, Devices, Ignored
    PROVE  UNCHANGED <<muted, rx, losses>>
<1>1. wire # Quiet
  BY DevicesKeep
<1>2. CASE wire.pid = "DISC_MUTE" /\ wire.lb \notin present /\ wire.lb # UidAll
  BY <1>2 DEF Devices, DevicesUnMute, DevicesMute, DevicesBranch, DiscUnMute, NoReply
<1>3. CASE wire.pid = "DISC_UNIQUE_BRANCH" /\ Responders = {}
  <2>1. Cardinality(Responders) = 0
    BY <1>3, FS_EmptySet
  <2> QED  BY <1>3, <2>1 DEF Devices, DevicesUnMute, DevicesMute, DevicesBranch, DiscUnMute, NoReply
<1> QED  BY <1>1, <1>2, <1>3 DEF Ignored

\* A calm line stays calm.
LEMMA CalmStays ==
    ASSUME Before, Devices, Calm
    PROVE  Calm'
BY DevicesKeep, NobodyAnswers DEF Calm, Ignored

\* A DISC_MUTE is acknowledged, or a frame is lost.
LEMMA DeviceAnswersMute ==
    ASSUME Before, Devices, NEW u, wire = DiscMute(u), u # UidAll
    PROVE  /\ u \notin present => UNCHANGED <<muted, rx, losses>>
           /\ u \in present => \/ rx' = [data |-> MuteAck(u), complete |-> TRUE] /\ losses' = losses
                               \/ rx' = rx /\ losses' = losses - 1
           /\ muted' \in {muted, muted \cup {u}}
<1>1. wire.pid = "DISC_MUTE" /\ wire.lb = u
  BY DEF DiscMute
<1>2. DevicesMute /\ lates = 0
  BY <1>1 DEF Devices, DevicesUnMute, DevicesBranch, DiscUnMute, Before, SearchInv, LossesOK
<1>3. CASE u \notin present
  BY <1>1, <1>2, <1>3 DEF DevicesMute, NoReply
<1>4. CASE u \in present
  BY <1>1, <1>2, <1>4 DEF DevicesMute, Reply, Lose, Arrives
<1> QED  BY <1>3, <1>4

\* A DISC_UNIQUE_BRANCH is answered by whoever hears it, or a frame is lost.
LEMMA DevicesAnswerBranch ==
    ASSUME Before, Devices, wire = DiscBranch(discovery.lb, discovery.ub)
    PROVE  /\ muted' = muted /\ Hearing' = Hearing
           /\ Hearing = {} => UNCHANGED <<rx, losses>>
           /\ \/ rx'.complete /\ Heard'
              \/ rx' = rx /\ losses' = losses - 1
              \/ Hearing = {}
<1>1. wire.pid = "DISC_UNIQUE_BRANCH" /\ Responders = Hearing
  BY DEF DiscBranch, Responders, Hearing
<1>2. DevicesBranch /\ lates = 0
  BY <1>1 DEF Devices, DevicesUnMute, DevicesMute, DiscUnMute, Before, SearchInv, LossesOK
<1>3. muted' = muted /\ Hearing' = Hearing
  BY <1>2, DevicesKeep DEF DevicesBranch, Hearing
<1>4. Hearing = {} => UNCHANGED <<rx, losses>>
  BY <1>1, NobodyAnswers DEF Ignored
<1>5. ASSUME NEW d \in Hearing, Reply(BranchAck(d))
      PROVE  (rx'.complete /\ Heard') \/ (rx' = rx /\ losses' = losses - 1)
  BY <1>2, <1>3, <1>5 DEF Reply, Lose, Arrives, Heard, BranchAck
<1>6. ASSUME Hearing # {}, Reply(Garbled) \/ Arrives(Garbled)
      PROVE  (rx'.complete /\ Heard') \/ (rx' = rx /\ losses' = losses - 1)
  BY <1>2, <1>3, <1>6 DEF Reply, Lose, Arrives, Heard, Garbled
<1> QED  BY <1>1, <1>2, <1>3, <1>4, <1>5, <1>6 DEF DevicesBranch

\* A device that stays muted missed the broadcast.
LEMMA DevicesAtUnmute ==
    ASSUME Before, Devices, Phase = "Unmute"
    PROVE  UnmuteAt'
<1>1. UnmuteAt /\ unmute.counter \in Nat
  BY DEF Before, SearchInv, TypeOK, Counter
<1>2. Unsearched'
  BY <1>1, DevicesKeep DEF UnmuteAt, Unsearched, NotRunning
<1>3. CASE unmute.running
  <2>1. DevicesUnMute
    BY <1>1, <1>3, DevicesKeep DEF UnmuteAt, Devices, DevicesMute, DevicesBranch, DiscUnMute
  <2>2. muted' # {} => losses' <= losses - 1
    <3>1. Cardinality(muted') \in Nat /\ (Cardinality(muted') = 0 => muted' = {})
      BY <2>1, FewAreMuted DEF DevicesUnMute, Before
    <3> QED  BY <2>1, <3>1, DevicesKeep DEF DevicesUnMute, Lose
  <2>3. muted' # {} => muted # {}
    BY <2>1 DEF DevicesUnMute
  <2>4. wire # Quiet /\ wire' = Quiet
    BY DevicesKeep
  <2>5. muted' # {} => UnmuteCounter + 1 <= unmute'.counter + (scenario'.losses - losses')
    <3>1. muted # {} => UnmuteCounter <= unmute.counter + (scenario.losses - losses)
      BY <1>1, <2>4, FewAre DEF UnmuteAt
    <3>2. unmute' = unmute /\ scenario' = scenario /\ losses' \in Nat
      BY DevicesKeep
    <3> QED  BY <1>1, <2>2, <2>3, <3>1, <3>2, FewAre
  <2> QED  BY <1>1, <1>2, <1>3, <2>4, <2>5, DevicesKeep DEF UnmuteAt
<1>4. CASE ~unmute.running
  <2>1. unmute.counter = UnmuteCounter
    BY <1>1, <1>4, DevicesKeep, FewAre DEF UnmuteAt, Missed, Before, TypeOK, Counter
  <2>2. UnmuteCounter <= unmute'.counter + (scenario'.losses - losses')
    BY <2>1, FewAre, DevicesKeep
  <2>3. ~unmute'.running /\ unmute'.counter = UnmuteCounter
    BY <1>4, <2>1, DevicesKeep
  <2>4. UnmuteCounter + (IF unmute'.running /\ wire' = Quiet THEN 1 ELSE 0) = UnmuteCounter
    BY <2>3, FewAre
  <2>5. ~(unmute'.counter < UnmuteCounter)
    BY <2>3, FewAre
  <2> QED  BY <1>1, <1>2, <2>2, <2>3, <2>4, <2>5, DevicesKeep DEF UnmuteAt
<1> QED  BY <1>3, <1>4

\* In MUTE only the device that is asked can become muted.
LEMMA DevicesAtMute ==
    ASSUME Before, Devices, Phase = "Mute"
    PROVE  MuteAt'
<1>1. MuteAt
  BY DEF Before, SearchInv
<1>2. Unsearched' /\ Found' = Found
  BY <1>1, DevicesKeep DEF MuteAt, Unsearched, NotRunning, Found, Table!Entries
<1>3. CASE ~mute.running
  <2>1. Calm
    BY <1>1, <1>3 DEF MuteAt
  <2>2. Calm' /\ UNCHANGED <<muted, rx, losses>>
    BY <2>1, CalmStays, NobodyAnswers DEF Calm
  <2>3. Paid(MuteCounter, mute)'
    BY <1>1, <1>3, <2>2, DevicesKeep DEF MuteAt, Paid
  <2> QED  BY <1>1, <1>2, <1>3, <2>2, <2>3, DevicesKeep DEF MuteAt
<1>4. CASE mute.running
  <2>1. wire = DiscMute(mute.uid) /\ ~rx.complete /\ mute.uid \in Found /\ mute.uid # UidAll
    <3>1. wire = DiscMute(mute.uid) /\ ~rx.complete
      BY <1>1, <1>4, DevicesKeep DEF MuteAt
    <3>2. mute.uid \in Found
      BY <1>1, <1>4 DEF MuteAt, Found, Table!Entries, Before, TypeOK
    <3>3. mute.uid \in devices
      BY <3>2 DEF Before, SearchInv, LossesOK
    <3>4. mute.uid # UidAll
      BY <3>3, ScenariosAssumption, ConstantsAssumption DEF Before, LineInv, Scenario, MaxUid, UidAll
    <3> QED  BY <3>1, <3>2, <3>4
  <2>2. muted' \subseteq Found'
    BY <1>1, <1>2, <2>1, DeviceAnswersMute DEF MuteAt
  <2>3. rx'.complete => wire' = Quiet /\ mute'.uid \in present'
    BY <2>1, DeviceAnswersMute, DevicesKeep
  <2>4. ASSUME mute.uid \in present  PROVE Paid(MuteCounter, mute)'
    <3>1. Paid(MuteCounter, mute) /\ ~Missed
      BY <1>1, <1>4, <2>4, DevicesKeep DEF MuteAt, Missed
    <3>2. MuteCounter <= mute.counter + (scenario.losses - losses)
      BY <3>1, FewAre DEF Paid
    <3>3. (~Missed' /\ losses' = losses) \/ losses' = losses - 1
      BY <2>1, <2>4, DeviceAnswersMute DEF Missed
    <3>4. mute.counter \in Nat
      BY DEF Before, TypeOK
    <3> QED  BY <3>2, <3>3, <3>4, FewAre, DevicesKeep DEF Paid
  <2> QED  BY <1>1, <1>2, <1>4, <2>2, <2>3, <2>4, DevicesKeep DEF MuteAt
<1> QED  BY <1>3, <1>4

\* What they do to the branch that is asked.
LEMMA DevicesAsked ==
    ASSUME Before, Devices, Asked(DiscoveryCounter, discovery), discovery.running
    PROVE  Asked(DiscoveryCounter, discovery)' /\ muted' = muted
<1>1. wire = DiscBranch(discovery.lb, discovery.ub) /\ ~rx.complete
  BY DevicesKeep DEF Asked
<1>2. ~Missed
  BY DevicesKeep DEF Missed
<1>3. discovery.counter \in Nat
  BY DEF Before, TypeOK
<1>4. ASSUME Hearing # {}  PROVE DiscoveryCounter <= discovery.counter + (scenario.losses - losses)
  BY <1>2, <1>4, FewAre DEF Asked, Paid
<1>5. rx'.complete => wire' = Quiet /\ Heard'
  BY <1>1, DevicesAnswerBranch, DevicesKeep
<1>6. ASSUME Hearing' # {}  PROVE Paid(DiscoveryCounter, discovery)'
  <2>1. DiscoveryCounter <= discovery.counter + (scenario.losses - losses)
    BY <1>1, <1>4, <1>6, DevicesAnswerBranch
  <2>2. ~Missed' \/ losses' = losses - 1
    BY <1>1, <1>6, DevicesAnswerBranch DEF Missed
  <2>3. losses' <= losses /\ discovery' = discovery /\ scenario' = scenario
    BY DevicesKeep
  <2> QED  BY <1>3, <2>1, <2>2, <2>3, FewAre, DevicesKeep DEF Paid
<1> QED  BY <1>1, <1>5, <1>6, DevicesAnswerBranch, DevicesKeep DEF Asked

\* And to the branch that is asked again.
LEMMA DevicesAskedAgain ==
    ASSUME Before, Devices, Phase = "QuickfindDiscovery"
    PROVE  QfdAt' /\ muted' = muted
<1>1. QfdAt /\ wire # Quiet
  BY DevicesKeep DEF Before, SearchInv
<1>2. wire = DiscBranch(discovery.lb, discovery.ub) /\ ~rx.complete /\ quick_find_discovery.running /\ ~Missed
  BY <1>1 DEF QfdAt, Asked, Missed
<1>3. quick_find_discovery.counter \in Nat
  BY DEF Before, TypeOK, Counter
<1>4. ASSUME Hearing # {}
      PROVE  QuikfindDiscoveryCounter <= quick_find_discovery.counter + (scenario.losses - losses)
  BY <1>1, <1>2, <1>4, FewAre DEF QfdAt, Asked, Paid
<1>5. rx'.complete => wire' = Quiet /\ Heard'
  BY <1>2, DevicesAnswerBranch, DevicesKeep
<1>6. ASSUME Hearing' # {}  PROVE Paid(QuikfindDiscoveryCounter, quick_find_discovery)'
  <2>1. QuikfindDiscoveryCounter <= quick_find_discovery.counter + (scenario.losses - losses)
    BY <1>2, <1>4, <1>6, DevicesAnswerBranch
  <2>2. ~Missed' \/ losses' = losses - 1
    BY <1>2, <1>6, DevicesAnswerBranch DEF Missed
  <2>3. losses' <= losses /\ quick_find_discovery' = quick_find_discovery /\ scenario' = scenario
    BY DevicesKeep
  <2> QED  BY <1>3, <2>1, <2>2, <2>3, FewAre, DevicesKeep DEF Paid
<1>7. quick_find_discovery'.running
  BY <1>2, DevicesKeep
<1> QED  BY <1>2, <1>5, <1>6, <1>7, DevicesAnswerBranch, DevicesKeep DEF QfdAt, Asked

\* In DISCOVERY nobody becomes muted,
LEMMA DevicesAtDiscovery ==
    ASSUME Before, Devices, Phase = "Discovery"
    PROVE  DiscoveryAt' /\ muted' = muted
<1>1. DiscoveryAt
  BY DEF Before, SearchInv
<1>2. CASE discovery.running
  <2>1. Asked(DiscoveryCounter, discovery)
    BY <1>1, <1>2 DEF DiscoveryAt
  <2> QED  BY <1>2, <2>1, DevicesAsked, DevicesKeep DEF DiscoveryAt
<1>3. CASE ~discovery.running
  <2>1. Calm
    BY <1>1, <1>3 DEF DiscoveryAt
  <2>2. Calm' /\ muted' = muted
    BY <2>1, CalmStays, NobodyAnswers DEF Calm
  <2> QED  BY <1>3, <2>2, DevicesKeep DEF DiscoveryAt
<1> QED  BY <1>2, <1>3

\* nor in DUB,
LEMMA DevicesAtDub ==
    ASSUME Before, Devices, Phase = "Dub"
    PROVE  DubAt' /\ muted' = muted
<1>1. DubAt /\ wire # Quiet
  BY DevicesKeep DEF Before, SearchInv
<1>2. ~response /\ Hearing = {} /\ Ignored /\ ~rx.complete
  BY <1>1 DEF DubAt
<1>3. UNCHANGED <<muted, rx, Hearing, response>> /\ wire' = Quiet
  BY <1>2, NobodyAnswers, DevicesKeep DEF Hearing
<1> QED  BY <1>2, <1>3 DEF DubAt, Ignored

\* in QUICKFIND only the device that was heard,
LEMMA DevicesAtQuickfind ==
    ASSUME Before, Devices, Phase = "Quickfind"
    PROVE  /\ QuickfindAt' /\ muted' \subseteq muted \cup {quick_find.uid}
           /\ Paid(QuikfindCounter, quick_find)'
<1>1. QuickfindAt /\ Paid(QuikfindCounter, quick_find)
  BY DEF Before, SearchInv, SearchAt
<1>2. wire = DiscMute(quick_find.uid) /\ quick_find.running /\ ~rx.complete /\ ~Missed /\ quick_find.uid \in present
  BY <1>1, DevicesKeep DEF QuickfindAt, Missed
<1>3. quick_find.uid # UidAll
  BY <1>2, ScenariosAssumption, ConstantsAssumption DEF Before, LineInv, Scenario, MaxUid, UidAll
<1>4. /\ \/ rx' = [data |-> MuteAck(quick_find.uid), complete |-> TRUE] /\ losses' = losses
         \/ rx' = rx /\ losses' = losses - 1
      /\ muted' \subseteq muted \cup {quick_find.uid}
  BY <1>2, <1>3, DeviceAnswersMute
<1>5. QuickfindAt'
  BY <1>1, <1>2, <1>4, DevicesKeep DEF QuickfindAt
<1>6. QuikfindCounter <= quick_find.counter + (scenario.losses - losses) /\ quick_find.counter \in Nat
  BY <1>1, <1>2, FewAre DEF Paid, Before, TypeOK
<1>7. ~Missed' \/ losses' = losses - 1
  BY <1>4 DEF Missed
<1>8. Paid(QuikfindCounter, quick_find)'
  BY <1>6, <1>7, FewAre, DevicesKeep DEF Paid
<1> QED  BY <1>4, <1>5, <1>8

\* and in DISCOVERY_SINGLE_DEVICE only the one that is looked for.
LEMMA DevicesAtSingle ==
    ASSUME Before, Devices, Phase = "DiscoverySingleDevice"
    PROVE  SingleAt' /\ muted' \subseteq muted \cup {discovery.lb}
<1>1. SingleAt /\ single_device.counter \in Nat
  BY DEF Before, SearchInv, TypeOK, Counter
<1>2. CASE ~single_device.running
  <2>1. Calm' /\ UNCHANGED <<muted, rx, losses>>
    BY <1>1, <1>2, CalmStays, NobodyAnswers DEF SingleAt, Calm
  <2> QED  BY <1>1, <1>2, <2>1, DevicesKeep DEF SingleAt, Paid
<1>3. CASE single_device.running
  <2>1. wire = DiscMute(discovery.lb) /\ ~rx.complete /\ ~Missed
    BY <1>1, <1>3, DevicesKeep DEF SingleAt, Missed
  <2>2. discovery.lb # UidAll
    <3>1. BranchOpen /\ discovery.lb = discovery.ub
      BY DEF BranchOpen, Before, BranchesInv, PhaseOK
    <3> QED  BY <3>1, ConstantsAssumption DEF Before, BranchesInv, BranchesDisjoint, MaxUid, UidAll
  <2>3. /\ discovery.lb \notin present => UNCHANGED <<rx, losses>>
        /\ discovery.lb \in present =>
               \/ rx' = [data |-> MuteAck(discovery.lb), complete |-> TRUE] /\ losses' = losses
               \/ rx' = rx /\ losses' = losses - 1
        /\ muted' \subseteq muted \cup {discovery.lb}
    BY <2>1, <2>2, DeviceAnswersMute
  <2>4. rx'.complete => wire' = Quiet /\ rx'.data = MuteAck(discovery.lb) /\ discovery.lb \in present
    BY <2>1, <2>3, DevicesKeep
  <2>5. ASSUME discovery.lb \in present
        PROVE  Paid(MuteCounter, single_device)' \/ Paid(QuikfindDiscoveryCounter, single_device)'
    <3>1. \/ MuteCounter <= single_device.counter + (scenario.losses - losses)
          \/ QuikfindDiscoveryCounter <= single_device.counter + (scenario.losses - losses)
      BY <1>1, <2>1, <2>5, FewAre DEF SingleAt, Paid
    <3>2. (~Missed' /\ losses' = losses) \/ losses' = losses - 1
      BY <2>3, <2>5 DEF Missed
    <3> QED  BY <1>1, <3>1, <3>2, FewAre, DevicesKeep DEF Paid
  <2> QED  BY <1>3, <2>3, <2>4, <2>5, DevicesKeep DEF SingleAt
<1> QED  BY <1>2, <1>3

\* No device that answers, or fails to, is lost.
LEMMA DevicesFind ==
    ASSUME Before, Devices
    PROVE  SearchInv'
<1>1. Phase' = Phase /\ LossesOK' /\ UNCHANGED <<Found, TableIsFull, present>>
  <2>1. Phase' = Phase /\ UNCHANGED <<Found, TableIsFull, present>>
    BY DevicesKeep DEF Phase, Found, TableIsFull, Table!Entries
  <2>2. OnlyOnce(tod)' /\ Found' \subseteq devices'
    BY <2>1, DevicesKeep DEF Before, SearchInv, LossesOK, OnlyOnce
  <2>3. losses' \in Nat /\ losses' <= scenario'.losses /\ late' = NoFrame /\ lates' = 0
    BY DevicesKeep, FewAre DEF Before, SearchInv, LossesOK, NoFrame
  <2> QED  BY <2>1, <2>2, <2>3 DEF LossesOK
<1>2. is_finished' => state' = "Idle" /\ (TableIsFull' \/ present' \subseteq Found')
  BY <1>1, DevicesKeep DEF Before, SearchInv
<1>3. ASSUME Phase \notin {"Idle", "Unmute", "Mute"}  PROVE SearchAt'
  <2>1. SearchAt
    BY <1>3 DEF Before, SearchInv
  <2>2. Paid(QuikfindCounter, quick_find)'
    <3>1. CASE Phase = "Quickfind"
      BY <3>1, DevicesAtQuickfind
    <3>2. CASE Phase # "Quickfind"
      <4>1. ~quick_find.running /\ quick_find.counter \in Nat
        BY <2>1, <3>2 DEF SearchAt, Before, TypeOK
      <4>2. QuikfindCounter <= quick_find.counter + (scenario.losses - losses)
        BY <2>1, <4>1, FewAre DEF SearchAt, Paid
      <4>3. QuikfindCounter <= quick_find'.counter + (scenario'.losses - losses')
        BY <4>1, <4>2, FewAre, DevicesKeep
      <4>4. ~quick_find'.running
        BY <4>1, DevicesKeep
      <4> QED  BY <4>3, <4>4, FewAre DEF Paid
    <3> QED  BY <3>1, <3>2
  <2>3. \A d : (BeingMuted(d)' <=> BeingMuted(d)) /\ (InOpenBranch(d)' <=> InOpenBranch(d))
    BY <1>1, DevicesKeep DEF BeingMuted, InOpenBranch, BranchOpen
  <2>4. ASSUME NothingIsLost, ~TableIsFull  PROVE NothingIsLost'
    <3>1. ASSUME NEW d \in muted'  PROVE d \in Found \/ BeingMuted(d)
      <4>1. CASE Phase = "Finished"
        <5>1. stack = << >> /\ Len(stack) = 0 /\ ~BranchOpen
          BY <2>1, <4>1 DEF SearchAt, BranchOpen
        <5>2. d \in present
          BY DevicesStep, <1>1 DEF LineInv, Before
        <5> QED  BY <2>4, <5>1, <5>2 DEF NothingIsLost, InOpenBranch
      <4>2. CASE Phase = "Quickfind"
        BY <2>4, <3>1, <4>2, DevicesAtQuickfind DEF NothingIsLost, BeingMuted
      <4>3. CASE Phase = "DiscoverySingleDevice"
        BY <2>4, <3>1, <4>3, DevicesAtSingle DEF NothingIsLost, BeingMuted
      <4>4. CASE Phase \in {"Discovery", "Dub", "QuickfindDiscovery"}
        BY <2>4, <3>1, <4>4, DevicesAtDiscovery, DevicesAtDub, DevicesAskedAgain DEF NothingIsLost
      <4>5. Phase \in {"Finished", "Quickfind", "DiscoverySingleDevice", "Discovery", "Dub", "QuickfindDiscovery"}
        BY <1>3 DEF Phase, Before, TypeOK, States
      <4> QED  BY <4>1, <4>2, <4>3, <4>4, <4>5
    <3> QED  BY <1>1, <2>3, <2>4, <3>1 DEF NothingIsLost
  <2>5. TableIsFull' \/ NothingIsLost'
    BY <1>1, <2>1, <2>4 DEF SearchAt
  <2> QED  BY <1>1, <2>1, <2>2, <2>5, DevicesKeep DEF SearchAt, NotRunning
<1>4. state' = "LateResponse" /\ Phase' \notin {"Idle", "Finished"} => Calm'
  BY <1>1, CalmStays, DevicesKeep DEF Before, SearchInv
<1> QED  BY <1>1, <1>2, <1>3, <1>4, DevicesAtUnmute, DevicesAtMute, DevicesAtDiscovery, DevicesAtDub,
            DevicesAtQuickfind, DevicesAskedAgain, DevicesAtSingle DEF SearchInv
-----------------------------------------------------------------------------
\* A discovery starts with an empty table, or with the one the last discovery
\* left.
LEMMA StartFinds ==
    ASSUME Before, LineFull \/ LineIncremental
    PROVE  SearchInv'
<1>1. /\ state = "Idle" /\ state' = "Unmute" /\ ~is_finished'
      /\ unmute' = NotRunning(UnmuteCounter) /\ single_device' = NotRunning(MuteCounter)
      /\ quick_find' = [quick_find EXCEPT !.counter = QuikfindCounter, !.running = FALSE]
      /\ quick_find_discovery' = NotRunning(QuikfindDiscoveryCounter)
      /\ stack' = Push(<< >>, [lb |-> 0, ub |-> MaxUid])
      /\ UNCHANGED <<scenario, losses, late, lates>>
  BY DEF LineFull, LineIncremental, Full, Incremental, Start, NewState
<1>2. stack' = <<[lb |-> 0, ub |-> MaxUid]>>
  BY <1>1, ConstantsAssumption DEF Push
<1>3. Phase' = "Unmute" /\ unmute'.counter = UnmuteCounter /\ ~unmute'.running
  BY <1>1 DEF Phase, NotRunning
<1>4. Unsearched'
  BY <1>1, <1>2 DEF Unsearched, Before, TypeOK
<1>5. \/ do_incremental' = FALSE /\ tod' = Table!Reset
      \/ /\ do_incremental' = TRUE /\ tod' = tod
         /\ mute' = [mute EXCEPT !.tod_entries = Len(tod.tod), !.counter = MuteCounter, !.running = FALSE]
  BY DEF LineFull, LineIncremental, Full, Incremental, Start, Table!UidCount
<1>6. IF do_incremental'
      THEN mute'.tod_entries = Len(tod'.tod) /\ mute'.counter = MuteCounter /\ ~mute'.running
      ELSE tod'.tod = << >>
  <2>1. CASE do_incremental' = FALSE /\ tod' = Table!Reset
    BY <2>1 DEF Table!Reset
  <2>2. CASE /\ do_incremental' = TRUE /\ tod' = tod
             /\ mute' = [mute EXCEPT !.tod_entries = Len(tod.tod), !.counter = MuteCounter, !.running = FALSE]
    <3>1. mute'.tod_entries = Len(tod.tod) /\ mute'.counter = MuteCounter /\ ~mute'.running
      BY <2>2 DEF Before, TypeOK
    <3> QED  BY <2>2, <3>1
  <2> QED  BY <1>5, <2>1, <2>2
<1>7. UnmuteCounter + (IF unmute'.running /\ wire' = Quiet THEN 1 ELSE 0) = UnmuteCounter
  BY <1>3, FewAre
<1>8. UnmuteCounter <= unmute'.counter + (scenario'.losses - losses') /\ ~(unmute'.counter < UnmuteCounter)
  BY <1>1, <1>3, FewAre
<1>9. UnmuteAt'
  BY <1>3, <1>4, <1>6, <1>7, <1>8 DEF UnmuteAt
<1>10. OnlyOnce(tod)' /\ Found' \subseteq devices'
  <2>1. CASE tod' = tod
    BY <1>1, <2>1 DEF Before, SearchInv, LossesOK, OnlyOnce, Found, Table!Entries
  <2>2. CASE tod' = Table!Reset
    <3>1. Len(tod'.tod) = 0
      BY <2>2 DEF Table!Reset
    <3> QED  BY <3>1 DEF OnlyOnce, Found, Table!Entries
  <2> QED  BY <1>5, <2>1, <2>2
<1>11. LossesOK'
  BY <1>1, <1>10 DEF Before, SearchInv, LossesOK, NoFrame
<1> QED  BY <1>1, <1>3, <1>9, <1>11 DEF SearchInv

\* The table is what it was when a discovery is stopped, and when nothing runs.
LEMMA IdleFinds ==
    ASSUME Before, LineStop \/ LineIsFinished \/ Plug
    PROVE  SearchInv'
<1>1. UNCHANGED <<tod, scenario, losses, late, lates>> /\ is_finished' = FALSE
  <2>1. CASE LineStop
    BY <2>1 DEF LineStop, Stop
  <2>2. CASE LineIsFinished
    BY <2>2 DEF LineIsFinished, IsFinished, line, budgets
  <2>3. CASE Plug
    BY <2>3 DEF Plug, vars, control, Before, TypeOK
  <2> QED  BY <2>1, <2>2, <2>3
<1>2. LossesOK'
  BY <1>1 DEF Before, SearchInv, LossesOK, NoFrame, OnlyOnce, Found, Table!Entries
<1>3. Phase' = "Idle"
  <2>1. CASE LineStop
    BY <2>1 DEF LineStop, Stop, NewState, Phase, Before, TypeOK
  <2>2. CASE LineIsFinished
    BY <2>2 DEF LineIsFinished, IsFinished, Phase, Before, SearchInv
  <2>3. CASE Plug
    BY <2>3 DEF Plug, vars, control, Phase
  <2> QED  BY <2>1, <2>2, <2>3
<1> QED  BY <1>1, <1>2, <1>3 DEF SearchInv

\* The invariant is inductive,
LEMMA FoundStep ==
    ASSUME TypeOK, BranchesInv, LineInv, FoundInv, [LineNext]_lineVars
    PROVE  FoundInv'
<1>1. UNCHANGED scenario
  BY DEF LineNext, LineFull, LineIncremental, LineStop, LineProcess, LineIsFinished, Devices, DevicesUnMute,
         DevicesMute, DevicesBranch, Answered, LateArrival, Plug, lineVars, line
<1> SUFFICES ASSUME InTime', FewLosses'  PROVE SearchInv'
  BY DEF FoundInv
<1>2. Before
  BY <1>1 DEF FoundInv, InTime, FewLosses, Before
<1>3. CASE LineProcess
  BY <1>2, <1>3, ProcessFinds DEF LineProcess, Same, line, budgets
<1>4. CASE LateArrival
  BY <1>2, <1>4 DEF LateArrival, Before, SearchInv, LossesOK
<1>5. CASE UNCHANGED lineVars
  <2>1. UNCHANGED <<state, saved_state, is_finished, do_incremental, unmute, mute, single_device, quick_find,
                    quick_find_discovery, discovery, stack, response, tod, wire, rx, present, muted, late, scenario,
                    losses, lates>>
    BY <1>5 DEF lineVars, vars, control, commands, search, port, line, budgets
  <2>2. UNCHANGED <<Found, TableIsFull, Missed, Ignored, Hearing, Heard, Phase>>
    BY <2>1 DEF Found, TableIsFull, Missed, Ignored, Responders, Hearing, Heard, Table!Entries, Phase
  <2>3. UNCHANGED <<UnmuteAt, MuteAt>>
    BY <2>1, <2>2 DEF UnmuteAt, MuteAt, Unsearched, Paid, NotRunning, Calm
  <2>4. UNCHANGED <<DiscoveryAt, DubAt, QuickfindAt, QfdAt, SingleAt>>
    BY <2>1, <2>2 DEF DiscoveryAt, DubAt, QuickfindAt, QfdAt, SingleAt, Asked, Paid, Calm
  <2>5. UNCHANGED SearchAt
    BY <2>1, <2>2 DEF SearchAt, NothingIsLost, BeingMuted, InOpenBranch, BranchOpen, Paid, NotRunning
  <2>6. UNCHANGED <<LossesOK, Calm>>
    BY <2>1, <2>2 DEF LossesOK, OnlyOnce, NoFrame, Calm
  <2> QED  BY <1>2, <2>1, <2>2, <2>3, <2>4, <2>5, <2>6 DEF Before, SearchInv
<1> QED  BY <1>2, <1>3, <1>4, <1>5, StartFinds, IdleFinds, DevicesFind DEF LineNext

\* and holds at first.
LEMMA FoundInit ==
    ASSUME LineInit
    PROVE  FoundInv
<1>1. scenario \in Scenario
  BY ScenariosAssumption DEF LineInit
<1>2. losses = scenario.losses /\ losses \in Nat /\ lates = scenario.lates /\ late = NoFrame
  BY <1>1 DEF LineInit, Scenario
<1>3. tod = Table!Reset /\ state = "Idle" /\ ~is_finished
  BY DEF LineInit, Init
<1>4. Len(tod.tod) = 0 /\ Phase = "Idle"
  BY <1>3 DEF Table!Reset, Phase
<1>5. Found = {} /\ OnlyOnce(tod)
  BY <1>4 DEF Found, Table!Entries, OnlyOnce
<1> QED  BY <1>2, <1>3, <1>4, <1>5 DEF FoundInv, SearchInv, LossesOK, InTime
-----------------------------------------------------------------------------
\* Who is never plugged in or out stays: nobody else gets into the table, late
\* or lost as the frames may be.
OnTheLine(frame) == frame.kind # "unmute" /\ (frame.kind = "mute" => frame.uid \in present)

StaysInv ==
    scenario.changes = 0 =>
        changes = 0 /\ Table!Entries(tod) \subseteq present /\ OnTheLine(rx.data) /\ OnTheLine(late)

\* Delete adds no entry, found or not.
LEMMA DeleteAddsNobody ==
    ASSUME NEW t, TableOf(t), NEW uid \in Uid
    PROVE  Table!Entries(Table!Delete(t, uid)) \subseteq Table!Entries(t)
<1> DEFINE n == Len(t.tod)
           e == Table!FindIndex(t, uid)
           r == Table!Delete(t, uid)
           Old(i) == IF i < e THEN i ELSE i + 1
<1>1. CASE e = 0
  BY <1>1 DEF Table!Delete, Table!NoEntry
<1>2. CASE e # 0
  <2>1. r.tod = [i \in 1 .. (n - 1) |-> t.tod[Old(i)]]
    BY <1>2 DEF Table!Delete, Table!NoEntry
  <2>2. n \in Nat /\ e \in 0 .. n
    BY FindIndexType, LenProperties DEF TableOf, Table!Tod
  <2>3. r.tod \in Seq(Uid)
    BY DeleteType DEF TableOf, Table!Tod
  <2>4. n - 1 \in Nat /\ Len(r.tod) = n - 1
    BY <1>2, <2>1, <2>2, <2>3, LenProperties
  <2>5. \A i \in 1 .. n - 1 : r.tod[i] = t.tod[Old(i)] /\ Old(i) \in 1 .. n
    BY <1>2, <2>1, <2>2
  <2> HIDE DEF Old, r
  <2>6. Table!Entries(r) \subseteq Table!Entries(t)
    BY <2>4, <2>5 DEF Table!Entries
  <2> QED  BY <2>6 DEF r
<1> QED  BY <1>1, <1>2

\* The state machine adds only UIDs it has read in a response.
LEMMA ProcessAdds ==
    ASSUME TypeOK, Process
    PROVE  /\ rx'.data = rx.data
           /\ \/ tod' = tod
              \/ tod' = Table!Delete(tod, mute.uid)
              \/ tod' = Table!AddUid(tod, rx.data.uid) /\ rx.data.kind \in {"mute", "unmute"}
<1>1. UNCHANGED rx \/ Receive
  BY DEF Process, LateResponse, UnmuteDone, UnmuteSend, UnmuteReceive, UnmuteTimeOut, MuteDone, MuteDeviceIsGone,
         MuteSend, MuteResponse, MuteTimeOut, DiscoveryAnswered, DiscoveryTimeOut, DiscoveryNoMore,
         DiscoveryTakeSingle, DiscoveryTakeBranch, SingleGiveUp, SingleSend, SingleResponse, SingleIgnore,
         SingleTimeOut, DubSilent, DubOneDevice, DubCollision, QuickfindGiveUp, QuickfindSend, QuickfindInvalid,
         QuickfindResponse, QuickfindTimeOut, QfdGiveUp, QfdSend, QfdOneDevice, QfdCollision, QfdTimeOut, Finish,
         port, Received, TimedOut
<1>2. rx'.data = rx.data
  BY <1>1 DEF Receive, TypeOK
<1>3. CASE SingleResponse
  BY <1>2, <1>3 DEF SingleResponse, IsFromSingle
<1>4. CASE QuickfindResponse
  BY <1>2, <1>4 DEF QuickfindResponse
<1>5. CASE MuteDeviceIsGone
  BY <1>2, <1>5 DEF MuteDeviceIsGone
<1>6. CASE ~(SingleResponse \/ QuickfindResponse \/ MuteDeviceIsGone)
  <2>1. tod' = tod
    BY <1>6 DEF Process, LateResponse, UnmuteDone, UnmuteSend, UnmuteReceive, UnmuteTimeOut, MuteDone,
         MuteSend, MuteResponse, MuteTimeOut, DiscoveryAnswered, DiscoveryTimeOut, DiscoveryNoMore,
         DiscoveryTakeSingle, DiscoveryTakeBranch, SingleGiveUp, SingleSend, SingleIgnore,
         SingleTimeOut, DubSilent, DubOneDevice, DubCollision, QuickfindGiveUp, QuickfindSend, QuickfindInvalid,
         QuickfindTimeOut, QfdGiveUp, QfdSend, QfdOneDevice, QfdCollision, QfdTimeOut, Finish
  <2> QED  BY <1>2, <2>1
<1> QED  BY <1>3, <1>4, <1>5, <1>6

\* The table keeps to the devices on the line,
LEMMA StaysStep ==
    ASSUME TypeOK, LineInv, StaysInv, [LineNext]_lineVars
    PROVE  StaysInv'
<1>1. UNCHANGED scenario
  BY DEF LineNext, LineFull, LineIncremental, LineStop, LineProcess, LineIsFinished, Devices, DevicesUnMute,
         DevicesMute, DevicesBranch, Answered, LateArrival, Plug, lineVars, line
<1> SUFFICES ASSUME scenario.changes = 0
             PROVE  changes' = 0 /\ Table!Entries(tod') \subseteq present' /\ OnTheLine(rx.data)' /\ OnTheLine(late)'
  BY <1>1 DEF StaysInv, Table!Entries
<1>2. changes = 0 /\ Table!Entries(tod) \subseteq present /\ OnTheLine(rx.data) /\ OnTheLine(late)
  BY DEF StaysInv
<1>3. UNCHANGED <<changes, present>>
  BY <1>2 DEF LineNext, LineFull, LineIncremental, LineStop, LineProcess, LineIsFinished, Devices, DevicesUnMute,
         DevicesMute, DevicesBranch, Answered, LateArrival, Plug, lineVars, line, budgets
<1>4. ASSUME LineProcess
      PROVE  Table!Entries(tod') \subseteq present /\ rx'.data = rx.data /\ late' = late
  <2>1. rx'.data = rx.data /\ late' = late
    BY <1>4, ProcessAdds DEF LineProcess, line
  <2>2. TableOf(tod) /\ mute.uid \in Uid /\ rx.data.uid \in Uid
    BY DEF TypeOK, TableOf, Frame
  <2>3. CASE tod' = Table!Delete(tod, mute.uid)
    BY <1>2, <2>1, <2>2, <2>3, DeleteAddsNobody
  <2>4. CASE tod' = Table!AddUid(tod, rx.data.uid) /\ rx.data.kind \in {"mute", "unmute"}
    <3>1. rx.data.uid \in present
      BY <1>2, <2>4 DEF OnTheLine
    <3>2. Table!Entries(Table!AddUid(tod, rx.data.uid)) \subseteq Table!Entries(tod) \cup {rx.data.uid}
      BY <2>2, AddIs
    <3> QED  BY <1>2, <2>1, <2>4, <3>1, <3>2
  <2> QED  BY <1>2, <1>4, <2>1, <2>3, <2>4, ProcessAdds DEF LineProcess
<1>5. ASSUME Devices
      PROVE  tod' = tod /\ OnTheLine(rx.data)' /\ OnTheLine(late)'
  <2>1. tod' = tod
    BY <1>5 DEF Devices, DevicesUnMute, DevicesMute, DevicesBranch, Answered
  <2>2. \E frame : /\ frame.kind # "unmute" /\ (frame.kind = "mute" => frame.uid \in present)
                   /\ rx' = rx \/ rx' = [data |-> frame, complete |-> TRUE]
                   /\ late' = late \/ late' = frame
    <3>1. CASE DevicesUnMute
      <4>1. UNCHANGED <<rx, late>>
        BY <3>1 DEF DevicesUnMute
      <4> QED  BY <1>2, <4>1 DEF OnTheLine
    <3>2. CASE DevicesMute
      <4>1. MuteAck(wire.lb).kind = "mute" /\ MuteAck(wire.lb).uid = wire.lb
        BY DEF MuteAck
      <4>2. UNCHANGED <<rx, late>> \/ (Reply(MuteAck(wire.lb)) /\ wire.lb \in present)
        BY <3>2 DEF DevicesMute, NoReply
      <4> QED  BY <1>2, <4>1, <4>2 DEF Reply, Arrives, OnTheLine
    <3>3. CASE DevicesBranch
      <4>1. PICK frame : /\ frame.kind \in {"branch", "garbled"}
                         /\ Reply(frame) \/ NoReply \/ (Arrives(frame) /\ UNCHANGED late)
        <5>1. Garbled.kind = "garbled" /\ \A d : BranchAck(d).kind = "branch"
          BY DEF Garbled, BranchAck
        <5> QED  BY <3>3, <5>1 DEF DevicesBranch
      <4> QED  BY <4>1 DEF Reply, NoReply, Arrives
    <3> QED  BY <1>5, <3>1, <3>2, <3>3 DEF Devices
  <2> QED  BY <1>2, <1>3, <2>1, <2>2 DEF OnTheLine
<1>6. ASSUME LateArrival
      PROVE  tod' = tod /\ OnTheLine(rx.data)' /\ OnTheLine(late)'
  BY <1>2, <1>3, <1>6 DEF LateArrival, Arrives, OnTheLine, NoFrame
<1>7. ASSUME LineFull
      PROVE  Table!Entries(tod') = {} /\ rx'.data = rx.data /\ late' = late
  BY <1>7 DEF LineFull, Full, Start, port, Table!Reset, Table!Entries
<1>8. ASSUME LineIncremental \/ LineStop \/ LineIsFinished \/ Plug \/ UNCHANGED lineVars
      PROVE  tod' = tod /\ rx'.data = rx.data /\ late' = late
  BY <1>8 DEF LineIncremental, Incremental, Start, LineStop, Stop, LineIsFinished, IsFinished, Plug, lineVars, vars, line, port
<1>9. ASSUME rx'.data = rx.data /\ late' = late
      PROVE  OnTheLine(rx.data)' /\ OnTheLine(late)'
  BY <1>2, <1>3, <1>9 DEF OnTheLine
<1> QED  BY <1>2, <1>3, <1>4, <1>5, <1>6, <1>7, <1>8, <1>9 DEF LineNext, Table!Entries

\* and does so at first.
LEMMA StaysInit ==
    ASSUME LineInit
    PROVE  StaysInv
<1>1. scenario.changes = changes /\ tod = Table!Reset /\ rx.data = Garbled /\ late = NoFrame
  BY DEF LineInit, Init
<1>2. Len(tod.tod) = 0
  BY <1>1 DEF Table!Reset
<1> QED  BY <1>1, <1>2 DEF StaysInv, Table!Entries, OnTheLine, Garbled, NoFrame
-----------------------------------------------------------------------------
\* What holds of every state of the line.
LEMMA LineSafety == LineSpec => [](TypeOK /\ BranchesInv /\ LineInv /\ FoundInv /\ StaysInv)
<1>1. LineInit => LineInv /\ FoundInv /\ StaysInv
  BY DevicesHaveUids, FoundInit, StaysInit DEF LineInit, LineInv
<1>2. TypeOK /\ BranchesInv /\ LineInv /\ FoundInv /\ StaysInv /\ [LineNext]_lineVars => LineInv' /\ FoundInv' /\ StaysInv'
  BY LineRefines, FoundStep, StaysStep
<1> QED  BY <1>1, <1>2, LineIsALine, Safety, PTL DEF LineSpec

\* No device falls out of the search, whatever the devices and their UIDs, the
\* size of the table and the counters, as long as no answer is late and fewer
\* frames are lost than the smallest counter: a discovery that ends by itself
\* has every device on the line in the table, or the table is full.
THEOREM EveryDeviceIsFound == LineSpec => []NoDeviceLost
<1>1. TypeOK /\ BranchesInv /\ LineInv /\ FoundInv => NoDeviceLost
  <2> SUFFICES ASSUME TypeOK, BranchesInv, LineInv, SearchInv, Phase # "Idle" \/ is_finished, NEW d \in present
               PROVE  TableFull \/ d \in Table!Entries(tod) \/ InOpenBranch(d)
    BY DEF FoundInv, NoDeviceLost
  <2>1. TableFull <=> TableIsFull
    BY FullIs DEF SearchInv, LossesOK
  <2>2. CASE is_finished
    BY <2>1, <2>2 DEF SearchInv, Found
  <2>3. CASE Phase \in {"Unmute", "Mute"}
    <3>1. stack = <<[lb |-> 0, ub |-> MaxUid]>>
      BY <2>3 DEF SearchInv, UnmuteAt, MuteAt, Unsearched
    <3>2. d \in 0 .. MaxUid
      BY DevicesHaveUids, ScenariosAssumption DEF LineInv, Scenario
    <3>3. stack[1].lb <= d /\ d <= stack[1].ub /\ Len(stack) = 1
      BY <3>1, <3>2
    <3> QED  BY <3>3 DEF InOpenBranch
  <2>4. CASE Phase \notin {"Idle", "Unmute", "Mute"}
    BY <2>1, <2>4 DEF SearchInv, SearchAt, NothingIsLost, Found
  <2> QED  BY <2>2, <2>3, <2>4
<1> QED  BY <1>1, LineSafety, PTL

\* Nothing gets into the table that is not on the line, and what has gone does
\* not stay in it.
THEOREM NothingIsInvented == LineSpec => []NoDeviceInvented
<1>1. FoundInv /\ StaysInv => NoDeviceInvented
  BY DEF FoundInv, StaysInv, SearchInv, SearchAt, Found, NoDeviceInvented
<1> QED  BY <1>1, LineSafety, PTL

\* No device is muted and then forgotten.
THEOREM NobodyIsSilenced == LineSpec => []NoDeviceSilenced
<1>1. TypeOK /\ FoundInv => NoDeviceSilenced
  <2> SUFFICES ASSUME TypeOK, SearchInv, Phase = "Discovery", ~TableFull
               PROVE  muted \subseteq Table!Entries(tod)
    BY DEF FoundInv, NoDeviceSilenced
  <2>1. ~TableIsFull
    BY FullIs DEF SearchInv, LossesOK
  <2>2. NothingIsLost
    BY <2>1 DEF SearchInv, SearchAt
  <2> QED  BY <2>2 DEF NothingIsLost, BeingMuted, Found
<1> QED  BY <1>1, LineSafety, PTL
-----------------------------------------------------------------------------
(***************************************************************************)
(* RdmProxy: the table of the gateway, and how it serves a request.        *)
(***************************************************************************)
\* The number of UIDs in the table of the gateway, and those not muted.
Stood   == Cardinality(Proxied)
Unheard == (1 .. Stood) \ gateway.mutes

\* How many branches the round robin answers before it comes to position i.
Ahead(i) == IF gateway.saved_index < i THEN i - gateway.saved_index
                                       ELSE Stood - gateway.saved_index + i

\* The gateway's table does not change, its saved position and mutes do.
GatewayOK ==
    /\ gateway \in [tod : [1 .. Stood -> Proxied], saved_index : 0 .. Stood, mutes : SUBSET (1 .. Stood)]
    /\ \A u \in Proxied : \E i \in 1 .. Stood : gateway.tod[i] = u
    /\ \A i, j \in 1 .. Stood : gateway.tod[i] = gateway.tod[j] => i = j
    /\ lost \in 0 .. LossBudget

\* The position the round robin comes to next.
Following == IF gateway.saved_index = 0 \/ gateway.saved_index >= Stood THEN 1 ELSE gateway.saved_index + 1

Served == Proxy!RdmReceive(gateway, MessageOf(wire))

\* There are finitely many, and the table has room for them.
LEMMA StoodIs == Stood \in Nat /\ Stood <= TableSize /\ IsFiniteSet(Proxied) /\ (Proxied # {} <=> Stood > 0)
<1>1. IsFiniteSet(0 .. MaxUid)
  BY FS_Interval, ConstantsAssumption DEF MaxUid
<1>2. IsFiniteSet(Proxied)
  BY <1>1, ProxiedAssumption, FS_Subset
<1> QED  BY <1>2, ProxiedAssumption, FS_CardinalityType, FS_EmptySet DEF Stood

\* The UIDs it stands in for are UIDs.
LEMMA ProxiedAreUids == \A u \in Proxied : u \in Uid /\ u # UidAll /\ 0 <= u /\ u <= MaxUid
BY ProxiedAssumption, ConstantsAssumption DEF Uid, UidAll, MaxUid

\* The table of the gateway holds each of them once.
LEMMA TableLength ==
    ASSUME GatewayOK
    PROVE  Len(gateway.tod) = Stood
BY StoodIs DEF GatewayOK

\* Next moves the saved position, and nothing else.
LEMMA RoundRobin ==
    ASSUME GatewayOK
    PROVE  /\ Proxy!Table!Next(gateway) = [gateway EXCEPT !.saved_index = IF Stood = 0 THEN 0 ELSE Following]
           /\ Proxy!Table!Next(gateway) \in [tod : {gateway.tod}, saved_index : 0 .. Stood, mutes : {gateway.mutes}]
           /\ Following \in 1 .. Stood \/ Stood = 0
           /\ Proxy!Table!IsSaved(Proxy!Table!Next(gateway)) <=> Stood > 0
<1> DEFINE k == IF Stood = 0 THEN 0 ELSE Following
           s == Proxy!Table!Next(gateway)
<1>1. Len(gateway.tod) = Stood /\ Stood \in Nat /\ gateway.saved_index \in 0 .. Stood
  BY TableLength, StoodIs DEF GatewayOK
<1>2. s = [gateway EXCEPT !.saved_index = k]
  BY <1>1 DEF Proxy!Table!Next, Proxy!Table!NoEntry, Following
<1>3. k \in 0 .. Stood /\ (Stood > 0 => k \in 1 .. Stood)
  BY <1>1 DEF Following
<1>5. gateway \in [tod : {gateway.tod}, saved_index : 0 .. Stood, mutes : {gateway.mutes}]
  BY DEF GatewayOK
<1> HIDE DEF k, s
<1>4. s \in [tod : {gateway.tod}, saved_index : 0 .. Stood, mutes : {gateway.mutes}] /\ s.saved_index = k
  BY <1>2, <1>3, <1>5
<1>6. Len(s.tod) = Stood
  BY <1>1, <1>4
<1> QED  BY <1>1, <1>2, <1>3, <1>4, <1>6 DEF Proxy!Table!IsSaved, k, s

\* A broadcast DISC_UN_MUTE unmutes every entry.
LEMMA ServesUnMute ==
    ASSUME GatewayOK, wire = DiscUnMute
    PROVE  /\ Served.answer.kind = "none"
           /\ Served.tod \in [tod : {gateway.tod}, saved_index : 0 .. Stood, mutes : {{}}]
<1> DEFINE s == Proxy!Table!Next(gateway)
           m == MessageOf(wire)
<1>1. m.dst = UidAll /\ m.pid = "DISC_UN_MUTE" /\ m.empty
  BY DEF MessageOf, DiscUnMute
<1>2. Proxy!Addressed(gateway, m) = s
  BY <1>1 DEF Proxy!Addressed
<1>3. s \in [tod : {gateway.tod}, saved_index : 0 .. Stood, mutes : {gateway.mutes}]
  BY RoundRobin
<1>4. Proxy!Table!IsSaved(s) <=> Stood > 0
  BY RoundRobin
<1> HIDE DEF s, m
<1>5. CASE ~Proxy!Table!IsSaved(s)
  <2>1. Served = [tod |-> s, answer |-> Proxy!Silent]
    BY <1>1, <1>2, <1>5 DEF Served, Proxy!RdmReceive, m
  <2>2. gateway.mutes = {}
    BY <1>4, <1>5, StoodIs DEF GatewayOK
  <2> QED  BY <1>3, <2>1, <2>2 DEF Proxy!Silent
<1>6. CASE Proxy!Table!IsSaved(s)
  <2>1. Served = [tod |-> Proxy!Table!UnMuteAll(s), answer |-> Proxy!Silent]
    BY <1>1, <1>2, <1>6 DEF Served, Proxy!RdmReceive, m
  <2> QED  BY <1>3, <2>1 DEF Proxy!Silent, Proxy!Table!UnMuteAll
<1> QED  BY <1>5, <1>6

\* A DISC_MUTE of an entry mutes it and moves the saved position to it.
LEMMA ServesMute ==
    ASSUME GatewayOK, NEW i \in 1 .. Stood, wire = DiscMute(gateway.tod[i])
    PROVE  /\ Served.answer = MuteAck(gateway.tod[i])
           /\ Served.tod = [tod |-> gateway.tod, saved_index |-> i, mutes |-> gateway.mutes \cup {i}]
<1> DEFINE u == gateway.tod[i]
           s == Proxy!Table!Exist(gateway, u)
           m == MessageOf(wire)
<1>1. u \in Proxied /\ u # UidAll
  BY ProxiedAreUids DEF GatewayOK
<1>2. m.dst = u /\ m.pid = "DISC_MUTE" /\ m.empty
  BY DEF MessageOf, DiscMute
<1>3. Proxy!Addressed(gateway, m) = s
  BY <1>1, <1>2 DEF Proxy!Addressed
<1>4. Proxy!Table!FindIndex(gateway, u) = i
  <2>1. Len(gateway.tod) = Stood /\ Stood \in Nat
    BY TableLength, StoodIs
  <2>2. \A j \in 1 .. Stood : gateway.tod[j] = u => j = i
    BY DEF GatewayOK
  <2>3. \A j : Proxy!Table!IsFirst(gateway, u, j) <=> j = i
    BY <2>1, <2>2 DEF Proxy!Table!IsFirst
  <2> QED  BY <2>1, <2>3 DEF Proxy!Table!FindIndex
<1>5. s = [tod |-> gateway.tod, saved_index |-> i, mutes |-> gateway.mutes]
  BY <1>4 DEF Proxy!Table!Exist, GatewayOK
<1>6. Proxy!Table!IsSaved(s) /\ s.saved_index # Proxy!Table!NoEntry
  BY <1>5, TableLength, StoodIs DEF Proxy!Table!IsSaved, Proxy!Table!NoEntry
<1> HIDE DEF s, m
<1>7. Served = [tod |-> Proxy!Table!Mute(s), answer |-> Proxy!MuteAck(m.dst)]
  BY <1>1, <1>2, <1>3, <1>6 DEF Served, Proxy!RdmReceive, m
<1> QED  BY <1>2, <1>5, <1>6, <1>7 DEF Proxy!Table!Mute, Proxy!MuteAck, MuteAck

\* A branch that holds every UID is answered by the next one, unless it is muted.
LEMMA ServesBranch ==
    ASSUME GatewayOK, Proxied # {}, wire = DiscBranch(0, MaxUid)
    PROVE  /\ Following \in 1 .. Stood
           /\ Served.tod = [gateway EXCEPT !.saved_index = Following]
           /\ Following \in Unheard => Served.answer = BranchAck(gateway.tod[Following])
           /\ Following \notin Unheard => Served.answer.kind = "none"
<1> DEFINE s == Proxy!Table!Next(gateway)
           m == MessageOf(wire)
<1>1. m.dst = UidAll /\ m.pid = "DISC_UNIQUE_BRANCH" /\ m.lb = 0 /\ m.ub = MaxUid
  BY DEF MessageOf, DiscBranch
<1>2. Proxy!Addressed(gateway, m) = s
  BY <1>1 DEF Proxy!Addressed
<1>3. Stood > 0 /\ Stood \in Nat
  BY StoodIs
<1>4. Following \in 1 .. Stood /\ s = [gateway EXCEPT !.saved_index = Following] /\ Proxy!Table!IsSaved(s)
  BY <1>3, RoundRobin
<1> HIDE DEF s, m
<1>5. s.saved_index = Following /\ s.tod = gateway.tod /\ s.mutes = gateway.mutes
  BY <1>4 DEF GatewayOK
<1>6. /\ (Proxy!Table!IsMuted(s) <=> Following \notin Unheard)
      /\ Proxy!SavedUid(s) = gateway.tod[Following]
  BY <1>4, <1>5 DEF Proxy!Table!IsMuted, Unheard, Proxy!SavedUid
<1>7. 0 <= Proxy!SavedUid(s) /\ Proxy!SavedUid(s) <= MaxUid
  <2>1. gateway.tod[Following] \in Proxied
    BY <1>4 DEF GatewayOK
  <2> QED  BY <1>6, <2>1, ProxiedAreUids
<1>8. Served = [tod |-> s, answer |-> IF ~Proxy!Table!IsMuted(s) THEN Proxy!BranchAck(Proxy!SavedUid(s)) ELSE Proxy!Silent]
  BY <1>1, <1>2, <1>4, <1>7 DEF Served, Proxy!RdmReceive, m
<1> QED  BY <1>4, <1>6, <1>8 DEF Proxy!BranchAck, BranchAck, Proxy!Silent

\* Whatever it is asked, the gateway's table stays as it is, and what it
\* answers with is a frame.
LEMMA ServesAny ==
    ASSUME GatewayOK, wire \in Wire
    PROVE  /\ Served.tod \in [tod : {gateway.tod}, saved_index : 0 .. Stood, mutes : SUBSET (1 .. Stood)]
           /\ Served.answer.kind = "none" \/ FrameOf(Served.answer) \in Frame
<1> DEFINE m == MessageOf(wire)
           s == Proxy!Addressed(gateway, m)
<1>1. m.dst \in Uid /\ m.pid # "GET_SET"
  BY Numbers DEF MessageOf, Wire
<1>2. s \in [tod : {gateway.tod}, saved_index : 0 .. Stood, mutes : {gateway.mutes}]
  <2>1. CASE m.dst = UidAll
    BY <2>1, RoundRobin DEF Proxy!Addressed
  <2>2. CASE m.dst # UidAll
    <3>1. s = Proxy!Table!Exist(gateway, m.dst)
      BY <2>2 DEF Proxy!Addressed
    <3>2. Proxy!Table!FindIndex(gateway, m.dst) \in 0 .. Stood
      <4>1. CASE \E i \in 1 .. Len(gateway.tod) : Proxy!Table!IsFirst(gateway, m.dst, i)
        <5>1. Proxy!Table!FindIndex(gateway, m.dst) \in 1 .. Len(gateway.tod)
          BY <4>1 DEF Proxy!Table!FindIndex
        <5> QED  BY <5>1, TableLength, StoodIs
      <4>2. CASE ~ \E i \in 1 .. Len(gateway.tod) : Proxy!Table!IsFirst(gateway, m.dst, i)
        BY <4>2, StoodIs DEF Proxy!Table!FindIndex, Proxy!Table!NoEntry
      <4> QED  BY <4>1, <4>2
    <3>3. gateway \in [tod : {gateway.tod}, saved_index : 0 .. Stood, mutes : {gateway.mutes}]
      BY DEF GatewayOK
    <3> QED  BY <3>1, <3>2, <3>3 DEF Proxy!Table!Exist
  <2> QED  BY <2>1, <2>2
<1>3. gateway.mutes \subseteq 1 .. Stood /\ Len(gateway.tod) = Stood
  BY TableLength DEF GatewayOK
<1> HIDE DEF s
<1>4. s.tod = gateway.tod /\ s.mutes = gateway.mutes /\ s.saved_index \in 0 .. Stood
  BY <1>2
<1>5. ASSUME Proxy!Table!IsSaved(s)  PROVE s.saved_index \in 1 .. Stood /\ Proxy!SavedUid(s) \in Uid
  <2>1. s.saved_index \in 1 .. Stood
    BY <1>3, <1>4, <1>5 DEF Proxy!Table!IsSaved
  <2>2. gateway.tod[s.saved_index] \in Proxied
    BY <2>1 DEF GatewayOK
  <2> QED  BY <1>4, <2>1, <2>2, ProxiedAreUids DEF Proxy!SavedUid
<1> HIDE DEF m
<1>6. \/ Served = [tod |-> s, answer |-> Proxy!Silent]
      \/ Proxy!Table!IsSaved(s) /\ Served = [tod |-> s, answer |-> Proxy!BranchAck(Proxy!SavedUid(s))]
      \/ Served = [tod |-> Proxy!Table!UnMuteAll(s), answer |-> Proxy!Silent]
      \/ Served = [tod |-> Proxy!Table!UnMute(s), answer |-> Proxy!UnMuteAck(m.dst)]
      \/ Proxy!Table!IsSaved(s) /\ Served = [tod |-> Proxy!Table!Mute(s), answer |-> Proxy!MuteAck(m.dst)]
  BY <1>1 DEF Served, Proxy!RdmReceive, m, s
<1>7. /\ Proxy!Table!UnMuteAll(s) \in [tod : {gateway.tod}, saved_index : 0 .. Stood, mutes : SUBSET (1 .. Stood)]
      /\ Proxy!Table!UnMute(s) \in [tod : {gateway.tod}, saved_index : 0 .. Stood, mutes : SUBSET (1 .. Stood)]
      /\ Proxy!Table!IsSaved(s) =>
            Proxy!Table!Mute(s) \in [tod : {gateway.tod}, saved_index : 0 .. Stood, mutes : SUBSET (1 .. Stood)]
  BY <1>2, <1>3, <1>5 DEF Proxy!Table!UnMuteAll, Proxy!Table!UnMute, Proxy!Table!Mute
<1>8. \A a : FrameOf(a) = [kind |-> a.kind, uid |-> a.uid]
  BY DEF FrameOf
<1> QED
  BY <1>1, <1>2, <1>3, <1>5, <1>6, <1>7, <1>8 DEF Proxy!Silent, Proxy!BranchAck, Proxy!UnMuteAck, Proxy!MuteAck, Frame

\* What the gateway does is a step of the line of RdmDiscovery.
LEMMA GatewayStep ==
    ASSUME GatewayOK, wire \in Wire, GatewayAnswers
    PROVE  LineStep /\ GatewayOK'
<1>1. /\ wire' = Quiet /\ UNCHANGED <<control, commands, search, response, tod>>
      /\ \/ gateway' = Served.tod /\ Served.answer.kind = "none" /\ UNCHANGED <<rx, lost>>
         \/ gateway' = Served.tod /\ Served.answer.kind # "none" /\ Arrives(FrameOf(Served.answer)) /\ UNCHANGED lost
         \/ gateway' = Served.tod /\ Served.answer.kind # "none" /\ FrameLost /\ UNCHANGED rx
         \/ FrameLost /\ UNCHANGED <<rx, gateway>>
  BY DEF GatewayAnswers, Served
<1>2. lost' \in 0 .. LossBudget
  BY <1>1, ProxiedAssumption DEF FrameLost, GatewayOK
<1>3. GatewayOK'
  <2>1. gateway' = gateway \/ gateway' \in [tod : {gateway.tod}, saved_index : 0 .. Stood, mutes : SUBSET (1 .. Stood)]
    BY <1>1, ServesAny
  <2> QED  BY <1>2, <2>1 DEF GatewayOK
<1>4. Garbled \in Frame
  BY DevicesHaveUids
<1> QED  BY <1>1, <1>3, <1>4, ServesAny DEF LineStep

\* Every step of RdmProxy is a step of RdmDiscovery.
LEMMA ProxyRefines ==
    ASSUME GatewayOK, TypeOK, [ProxyNext]_proxyVars
    PROVE  [Next]_vars /\ GatewayOK'
<1>1. CASE ProxyFull \/ ProxyProcess
  BY <1>1 DEF ProxyFull, ProxyProcess, GatewayOK, Next, Command
<1>2. CASE GatewayAnswers
  BY <1>2, GatewayStep DEF Next, TypeOK
<1>3. CASE UNCHANGED proxyVars
  BY <1>3 DEF proxyVars, GatewayOK
<1> QED  BY <1>1, <1>2, <1>3 DEF ProxyNext

\* The gateway may start with any order of its table.
LEMMA ProxyStarts ==
    ASSUME ProxyInit
    PROVE  Init /\ GatewayOK
<1>1. /\ Init /\ lost = 0
      /\ gateway \in [tod : [1 .. Stood -> Proxied], saved_index : 0 .. Stood, mutes : SUBSET (1 .. Stood)]
      /\ \A i, j \in 1 .. Stood : gateway.tod[i] = gateway.tod[j] => i = j
  BY DEF ProxyInit, Stood
<1>2. \A u \in Proxied : \E i \in 1 .. Stood : gateway.tod[i] = u
  <2> DEFINE R == {gateway.tod[i] : i \in 1 .. Stood}
  <2>1. gateway.tod \in Bijection(1 .. Stood, R)
    BY <1>1 DEF Bijection, Injection, Surjection, IsInjective
  <2>2. IsFiniteSet(1 .. Stood) /\ Cardinality(1 .. Stood) = Stood
    BY StoodIs, FS_Interval
  <2>3. Cardinality(R) = Stood
    BY <2>1, <2>2, FS_Bijection DEF ExistsBijection
  <2>4. R \subseteq Proxied
    <3>1. gateway.tod \in [1 .. Stood -> Proxied]
      BY <1>1
    <3> QED  BY <3>1
  <2>5. R = Proxied
    <3>1. R \in SUBSET Proxied /\ Cardinality(Proxied) = Cardinality(R)
      BY <2>3, <2>4 DEF Stood
    <3> HIDE DEF R
    <3> QED  BY <3>1, StoodIs, FS_Subset
  <2> QED  BY <2>5
<1> QED  BY <1>1, <1>2, ProxiedAssumption DEF GatewayOK

\* A discovery through a gateway is one of the discoveries RdmDiscovery allows.
THEOREM ProxyIsALine == ProxySpec => Spec
<1>1. ProxyInit => Init /\ GatewayOK
  BY ProxyStarts
<1>2. Init => TypeOK /\ BranchesInv
  BY TypeInit, BranchesInit
<1>3. GatewayOK /\ TypeOK /\ BranchesInv /\ [ProxyNext]_proxyVars => [Next]_vars /\ GatewayOK' /\ TypeOK' /\ BranchesInv'
  BY ProxyRefines, TypeStep, BranchesStep
<1> QED  BY <1>1, <1>2, <1>3, PTL DEF ProxySpec, Spec
-----------------------------------------------------------------------------
(* A gateway without an entry never answers.                               *)
EmptyInv == Proxied = {} => ~rx.complete /\ tod.tod = << >> /\ ~do_incremental /\ Phase # "Mute"

\* Nothing is received, so that nothing is added to the table.
LEMMA EmptyProcess ==
    ASSUME Process, TypeOK, ~rx.complete, tod.tod = << >>, ~do_incremental, Phase # "Mute"
    PROVE  ~rx'.complete /\ tod'.tod = << >> /\ ~do_incremental' /\ Phase' # "Mute"
<1> USE DEF Phase, Goto, GotoLate, NewState, Stay, control, port, Receive, Received, TimedOut, Transmit
<1>0. [rx EXCEPT !.complete = FALSE].complete = FALSE
  BY DEF TypeOK
<1>1. CASE LateResponse
  BY <1>0, <1>1 DEF LateResponse
<1>2. CASE UnmuteDone \/ UnmuteSend \/ UnmuteReceive \/ UnmuteTimeOut
  BY <1>0, <1>2 DEF UnmuteDone, UnmuteSend, UnmuteReceive, UnmuteTimeOut
<1>3. CASE MuteDone \/ MuteDeviceIsGone \/ MuteSend \/ MuteResponse \/ MuteTimeOut
  <2>1. state = "Mute"
    BY <1>3 DEF MuteDone, MuteDeviceIsGone, MuteSend, MuteResponse, MuteTimeOut
  <2> QED  BY <2>1
<1>4. CASE DiscoveryAnswered
  BY <1>0, <1>4 DEF DiscoveryAnswered
<1>5. CASE DiscoveryTimeOut \/ DiscoveryNoMore \/ DiscoveryTakeSingle \/ DiscoveryTakeBranch
  BY <1>5 DEF DiscoveryTimeOut, DiscoveryNoMore, DiscoveryTakeSingle, DiscoveryTakeBranch
<1>6. CASE SingleGiveUp \/ SingleSend \/ SingleResponse \/ SingleIgnore \/ SingleTimeOut
  BY <1>6 DEF SingleGiveUp, SingleSend, SingleResponse, SingleIgnore, SingleTimeOut
<1>7. CASE DubSilent \/ DubOneDevice \/ DubCollision
  BY <1>7 DEF DubSilent, DubOneDevice, DubCollision
<1>8. CASE QuickfindGiveUp \/ QuickfindSend \/ QuickfindInvalid \/ QuickfindResponse \/ QuickfindTimeOut
  BY <1>8 DEF QuickfindGiveUp, QuickfindSend, QuickfindInvalid, QuickfindResponse, QuickfindTimeOut
<1>9. CASE QfdGiveUp \/ QfdSend \/ QfdOneDevice \/ QfdCollision \/ QfdTimeOut
  BY <1>9 DEF QfdGiveUp, QfdSend, QfdOneDevice, QfdCollision, QfdTimeOut
<1>10. CASE Finish
  BY <1>10 DEF Finish
<1> QED  BY <1>1, <1>2, <1>3, <1>4, <1>6, <1>7, <1>8, <1>9, <1>10, <1>5 DEF Process

\* An empty table answers nothing.
LEMMA EmptyServes ==
    ASSUME GatewayOK, Proxied = {}, wire \in Wire
    PROVE  Served.answer.kind = "none"
<1> DEFINE m == MessageOf(wire)
           s == Proxy!Addressed(gateway, m)
<1>1. m.pid # "GET_SET"
  BY DEF MessageOf, Wire
<1>2. Len(gateway.tod) = 0
  BY TableLength, StoodIs
<1>3. ~Proxy!Table!IsSaved(s)
  <2>1. s = [gateway EXCEPT !.saved_index = s.saved_index]
    BY DEF Proxy!Addressed, Proxy!Table!Next, Proxy!Table!Exist, GatewayOK
  <2>2. Len(s.tod) = 0
    BY <1>2, <2>1 DEF GatewayOK
  <2> QED  BY <2>2 DEF Proxy!Table!IsSaved
<1> HIDE DEF m
<1>4. Served = [tod |-> s, answer |-> Proxy!Silent]
  BY <1>1, <1>3 DEF Served, Proxy!RdmReceive, m
<1> QED  BY <1>4 DEF Proxy!Silent

\* It stays so,
LEMMA EmptyStep ==
    ASSUME GatewayOK, TypeOK, EmptyInv, [ProxyNext]_proxyVars
    PROVE  EmptyInv'
<1> SUFFICES ASSUME Proxied = {}
             PROVE  (~rx.complete /\ tod.tod = << >> /\ ~do_incremental /\ Phase # "Mute")'
  BY DEF EmptyInv
<1>0. ~rx.complete /\ tod.tod = << >> /\ ~do_incremental /\ Phase # "Mute"
  BY DEF EmptyInv
<1>1. CASE ProxyFull
  BY <1>0, <1>1 DEF ProxyFull, Full, Start, NewState, port, Table!Reset, Phase
<1>2. CASE ProxyProcess
  BY <1>0, <1>2, EmptyProcess DEF ProxyProcess
<1>3. CASE GatewayAnswers
  <2>1. UNCHANGED <<rx, tod, do_incremental, state, saved_state>>
    BY <1>3, EmptyServes DEF GatewayAnswers, Served, TypeOK, control
  <2> QED  BY <1>0, <2>1 DEF Phase
<1>4. CASE UNCHANGED proxyVars
  BY <1>0, <1>4 DEF proxyVars, vars, control, port, Phase
<1> QED  BY <1>1, <1>2, <1>3, <1>4 DEF ProxyNext
-----------------------------------------------------------------------------
(***************************************************************************)
(* A table that is not empty is found.  ProxyAt says for each phase what   *)
(* is under way.  As no two UIDs ever answer at once the search stays with *)
(* the one branch that holds them all, and ends when that branch has been  *)
(* silent QuikfindDiscoveryCounter times.  The round robin has then passed *)
(* every position that is not muted, since each lost frame costs it one    *)
(* round at most (Awaited), and without a loss it finds them in order      *)
(* (InOrder).                                                              *)
(***************************************************************************)
MutedEntries == {gateway.tod[i] : i \in gateway.mutes}

Ready == /\ quick_find.counter = QuikfindCounter /\ ~quick_find.running
         /\ quick_find_discovery = NotRunning(QuikfindDiscoveryCounter)

Fresh  == stack = <<[lb |-> 0, ub |-> MaxUid]>> /\ ~discovery.running /\ Ready /\ tod.tod = << >>
Whole  == stack = << >> /\ discovery.lb = 0 /\ discovery.ub = MaxUid
AskAll == DiscBranch(0, MaxUid)

\* The answer in the receive buffer is that of the saved position.
Replied == gateway.saved_index \in Unheard /\ rx.data = BranchAck(gateway.tod[gateway.saved_index])

\* The positions that are not muted come before all the others.
InOrder == \A i, k \in 1 .. Stood :
              i \in Unheard /\ i # gateway.saved_index /\ Ahead(k) < Ahead(i) => k \in Unheard

\* There are enough questions left to come to one of them, whatever is lost.
Questions == quick_find_discovery.counter - (IF quick_find_discovery.running /\ Missed THEN 1 ELSE 0)
Awaited   == \E i \in Unheard : Stood * (LossBudget - lost) + Ahead(i) <= Questions

UnmutePhase ==
    /\ Fresh /\ ~rx.complete
    /\ IF unmute.running THEN unmute.counter > 0 /\ wire \in {Quiet, DiscUnMute} ELSE wire = Quiet
    /\ gateway.mutes # {} => UnmuteCounter + (IF unmute.running /\ wire = Quiet THEN 1 ELSE 0) <= unmute.counter + lost

DiscoveryPhase ==
    IF discovery.running
    THEN /\ Whole /\ Ready /\ tod.tod = << >> /\ gateway.mutes = {}
         /\ wire \in {Quiet, AskAll} /\ (rx.complete => wire = Quiet /\ Replied)
         /\ DiscoveryCounter + (IF Missed THEN 1 ELSE 0) <= discovery.counter + lost
    ELSE Missed /\ ((Fresh /\ gateway.mutes = {}) \/ (stack = << >> /\ Found = Proxied))

DubPhase ==
    /\ Whole /\ ~discovery.running /\ Ready /\ tod.tod = << >> /\ gateway.mutes = {}
    /\ Missed /\ response /\ Replied

QuickfindPhase ==
    /\ Whole /\ ~discovery.running /\ quick_find_discovery = NotRunning(QuikfindDiscoveryCounter)
    /\ gateway.saved_index # 0 /\ quick_find.uid = gateway.tod[gateway.saved_index]
    /\ Found = MutedEntries \ {quick_find.uid}
    /\ lost = 0 => InOrder
    /\ IF quick_find.running
       THEN /\ wire \in {Quiet, DiscMute(quick_find.uid)}
            /\ rx.complete => wire = Quiet /\ gateway.saved_index \in gateway.mutes /\ rx.data = MuteAck(quick_find.uid)
       ELSE Missed
    /\ QuikfindCounter + (IF quick_find.running /\ Missed THEN 1 ELSE 0) <= quick_find.counter + lost

QfdPhase ==
    /\ Whole /\ ~discovery.running /\ quick_find.counter = QuikfindCounter /\ ~quick_find.running
    /\ Found = MutedEntries
    /\ lost = 0 => InOrder /\ (rx.complete \/ gateway.saved_index \in gateway.mutes)
    /\ IF quick_find_discovery.running
       THEN quick_find_discovery.counter > 0 /\ wire \in {Quiet, AskAll} /\ (rx.complete => wire = Quiet /\ Replied)
       ELSE Missed
    /\ ~rx.complete /\ Unheard # {} => Awaited

ProxyAt ==
    /\ OnlyOnce(tod)
    /\ state = "LateResponse" => Missed
    /\ Phase \in {"Idle", "Unmute", "Discovery", "Dub", "Quickfind", "QuickfindDiscovery", "Finished"}
    /\ Phase = "Idle" => Missed /\ IF is_finished THEN Found = Proxied ELSE tod.tod = << >>
    /\ Phase # "Idle" => ~is_finished /\ ~do_incremental
    /\ Phase = "Unmute" => UnmutePhase
    /\ Phase = "Discovery" => DiscoveryPhase
    /\ Phase = "Dub" => DubPhase
    /\ Phase = "Quickfind" => QuickfindPhase
    /\ Phase = "QuickfindDiscovery" => QfdPhase
    /\ Phase = "Finished" => Missed /\ Found = Proxied

ProxyInv == EnoughRetries /\ Proxied # {} => ProxyAt

\* Where the steps start from, and what Process leaves alone.
ProxyBefore == TypeOK /\ GatewayOK /\ EnoughRetries /\ Proxied # {} /\ ProxyAt
ProxySame   == UNCHANGED <<gateway, lost>>

\* The premises in numbers.
LEMMA Budget ==
    ASSUME ProxyBefore
    PROVE  /\ LossBudget \in Nat /\ lost \in Nat /\ lost <= LossBudget /\ Stood \in Nat /\ Stood > 0
           /\ UnmuteCounter \in Nat /\ LossBudget < UnmuteCounter
           /\ DiscoveryCounter \in Nat /\ LossBudget < DiscoveryCounter
           /\ QuikfindCounter \in Nat /\ LossBudget < QuikfindCounter
           /\ QuikfindDiscoveryCounter \in Nat /\ Stood * LossBudget < QuikfindDiscoveryCounter
<1>1. LossBudget \in Nat /\ lost \in 0 .. LossBudget
  BY ProxiedAssumption DEF ProxyBefore, GatewayOK
<1>2. Stood \in Nat /\ Stood > 0
  BY StoodIs DEF ProxyBefore
<1>3. Stood * LossBudget < QuikfindDiscoveryCounter
  BY <1>1, <1>2 DEF ProxyBefore, EnoughRetries, Stood
<1> QED  BY <1>1, <1>2, <1>3, ConstantsAssumption DEF ProxyBefore, EnoughRetries

\* What a lost frame costs, and what is left after the first.
LEMMA Rounds ==
    ASSUME ProxyBefore
    PROVE  /\ Stood * (LossBudget - lost) \in Nat
           /\ lost < LossBudget => Stood * (LossBudget - (lost + 1)) = Stood * (LossBudget - lost) - Stood
           /\ lost > 0 => Stood * (LossBudget - lost) + Stood <= Stood * LossBudget
<1>1. \A a, b \in Nat : a * b \in Nat /\ a * (b + 1) = a * b + a
  OBVIOUS
<1>2. LossBudget \in Nat /\ lost \in Nat /\ lost <= LossBudget /\ Stood \in Nat
  BY Budget
<1>3. PICK r \in Nat : LossBudget = lost + r
  <2>1. LossBudget - lost \in Nat /\ LossBudget = lost + (LossBudget - lost)
    BY <1>2
  <2> QED  BY <2>1
<1>4. LossBudget - lost = r
  BY <1>2, <1>3
<1>5. Stood * r \in Nat
  BY <1>1, <1>2
<1>6. ASSUME lost < LossBudget  PROVE Stood * (LossBudget - (lost + 1)) = Stood * (LossBudget - lost) - Stood
  <2>1. r - 1 \in Nat /\ LossBudget - (lost + 1) = r - 1 /\ r = (r - 1) + 1
    BY <1>2, <1>3, <1>6
  <2>2. Stood * r = Stood * (r - 1) + Stood /\ Stood * (r - 1) \in Nat
    BY <1>1, <1>2, <2>1
  <2> QED  BY <1>2, <1>4, <1>5, <2>1, <2>2
<1>7. ASSUME lost > 0  PROVE Stood * (LossBudget - lost) + Stood <= Stood * LossBudget
  <2>1. PICK q \in Nat : lost = q + 1
    <3>1. lost - 1 \in Nat /\ lost = (lost - 1) + 1
      BY <1>2, <1>7
    <3> QED  BY <3>1
  <2>2. LossBudget = (r + q) + 1 /\ r + q \in Nat
    BY <1>3, <2>1
  <2>3. Stood * LossBudget = Stood * (r + q) + Stood
    BY <1>1, <1>2, <2>2
  <2>4. Stood * (r + q) = Stood * r + Stood * q /\ Stood * q \in Nat
    BY <1>1, <1>2, <2>1
  <2> QED  BY <1>2, <1>4, <1>5, <2>3, <2>4
<1> QED  BY <1>4, <1>5, <1>6, <1>7
-----------------------------------------------------------------------------
\* A discovery begins with an empty table and nothing on the line.
LEMMA FullServes ==
    ASSUME ProxyBefore, ProxyFull
    PROVE  ProxyAt'
<1>1. /\ state = "Idle" /\ ~is_finished /\ state' = "Unmute" /\ ~is_finished' /\ ~do_incremental'
      /\ unmute' = NotRunning(UnmuteCounter)
      /\ stack' = Push(<< >>, [lb |-> 0, ub |-> MaxUid])
      /\ discovery' = [discovery EXCEPT !.counter = DiscoveryCounter, !.running = FALSE]
      /\ quick_find' = [quick_find EXCEPT !.counter = QuikfindCounter, !.running = FALSE]
      /\ quick_find_discovery' = NotRunning(QuikfindDiscoveryCounter)
      /\ tod' = Table!Reset /\ UNCHANGED <<wire, rx, gateway, lost>>
  BY DEF ProxyFull, Full, Start, NewState, port
<1>2. Missed
  BY <1>1 DEF ProxyBefore, ProxyAt, Phase
<1>3. stack' = <<[lb |-> 0, ub |-> MaxUid]>>
  <2>1. << >> \in Seq({}) /\ Len(<< >>) = 0 /\ Append(<< >>, [lb |-> 0, ub |-> MaxUid]) = <<[lb |-> 0, ub |-> MaxUid]>>
    OBVIOUS
  <2> QED  BY <1>1, <2>1, Numbers DEF Push
<1>4. ~discovery'.running /\ quick_find'.counter = QuikfindCounter /\ ~quick_find'.running
  BY <1>1 DEF ProxyBefore, TypeOK
<1>5. tod'.tod = << >> /\ OnlyOnce(tod')
  BY <1>1 DEF Table!Reset, OnlyOnce
<1>6. UnmutePhase'
  BY <1>1, <1>2, <1>3, <1>4, <1>5, Budget DEF UnmutePhase, Fresh, Ready, NotRunning, Missed
<1> QED  BY <1>1, <1>5, <1>6 DEF ProxyAt, Phase

\* What comes while late responses are waited for is nothing.
LEMMA LateServes ==
    ASSUME ProxyBefore, ProxySame, LateResponse
    PROVE  ProxyAt'
<1>1. /\ state = "LateResponse" /\ state' = saved_state
      /\ UNCHANGED <<saved_state, is_finished, do_incremental, unmute, mute, single_device, quick_find,
                     quick_find_discovery, discovery, stack, response, tod, wire>>
      /\ rx' = [rx EXCEPT !.complete = FALSE]
  BY DEF LateResponse, Receive, commands, search
<1>2. rx' = rx
  BY <1>1 DEF ProxyBefore, ProxyAt, Missed, TypeOK
<1>3. Phase' = Phase
  BY <1>1 DEF Phase, ProxyBefore, TypeOK
<1>4. Missed'
  BY <1>1, <1>2 DEF ProxyBefore, ProxyAt, Missed
<1>5. UNCHANGED <<Found, Unheard, MutedEntries, Replied, Fresh, Whole, Missed, InOrder, Awaited>>
  BY <1>1, <1>2 DEF Found, Unheard, MutedEntries, Replied, Fresh, Ready, Whole, Missed, InOrder, Awaited,
                    ProxySame, Table!Entries, Questions, Ahead
<1>6. UNCHANGED <<UnmutePhase, DiscoveryPhase, DubPhase, QuickfindPhase, QfdPhase>>
  BY <1>1, <1>2, <1>5 DEF UnmutePhase, DiscoveryPhase, DubPhase, QuickfindPhase, QfdPhase, Ready, ProxySame
<1> QED  BY <1>1, <1>3, <1>4, <1>5, <1>6 DEF ProxyBefore, ProxyAt, OnlyOnce
-----------------------------------------------------------------------------
\* When all the unmutes have been sent nobody is muted: they were not all lost.
LEMMA UnmuteDoneServes ==
    ASSUME ProxyBefore, ProxySame, UnmuteDone
    PROVE  ProxyAt'
<1>1. /\ state = "Unmute" /\ unmute.counter = 0 /\ state' = IF do_incremental THEN "Mute" ELSE "Discovery"
      /\ UNCHANGED <<saved_state, is_finished, do_incremental, mute, single_device, quick_find,
                     quick_find_discovery, discovery, stack, response, tod, wire, rx>>
  BY DEF UnmuteDone, Goto, NewState, search, port
<1>2. Phase = "Unmute" /\ UnmutePhase /\ ~is_finished /\ ~do_incremental /\ OnlyOnce(tod)
  BY <1>1 DEF ProxyBefore, ProxyAt, Phase
<1>3. state' = "Discovery" /\ Phase' = "Discovery"
  BY <1>1, <1>2 DEF Phase
<1>4. Missed' /\ Fresh'
  BY <1>1, <1>2 DEF UnmutePhase, Missed, Fresh, Ready
<1>5. gateway'.mutes = {}
  BY <1>1, <1>2, Budget DEF UnmutePhase, ProxySame
<1>6. DiscoveryPhase'
  BY <1>4, <1>5 DEF DiscoveryPhase, Fresh
<1> QED  BY <1>1, <1>2, <1>3, <1>6 DEF ProxyAt, OnlyOnce

\* An unmute is sent,
LEMMA UnmuteSendServes ==
    ASSUME ProxyBefore, ProxySame, UnmuteSend
    PROVE  ProxyAt'
<1>1. /\ state = "Unmute" /\ unmute.counter > 0 /\ ~unmute.running
      /\ unmute' = [unmute EXCEPT !.running = TRUE] /\ wire' = DiscUnMute
      /\ UNCHANGED <<state, saved_state, is_finished, do_incremental, mute, single_device, quick_find,
                     quick_find_discovery, discovery, stack, response, tod, rx>>
  BY DEF UnmuteSend, Transmit, Stay, control, search
<1>2. Phase = "Unmute" /\ UnmutePhase /\ ~is_finished /\ ~do_incremental /\ OnlyOnce(tod)
  BY <1>1 DEF ProxyBefore, ProxyAt, Phase
<1>3. unmute'.running /\ unmute'.counter = unmute.counter
  BY <1>1 DEF ProxyBefore, TypeOK
<1>4. wire' # Quiet
  BY <1>1 DEF DiscUnMute, Quiet
<1>5. UnmutePhase'
  BY <1>1, <1>2, <1>3, <1>4 DEF UnmutePhase, Fresh, Ready, ProxySame
<1> QED  BY <1>1, <1>2, <1>5 DEF ProxyAt, Phase, OnlyOnce

\* and the next one when the line has dealt with it.
LEMMA UnmuteTimeOutServes ==
    ASSUME ProxyBefore, ProxySame, UnmuteTimeOut
    PROVE  ProxyAt'
<1>1. /\ state = "Unmute" /\ unmute.counter > 0 /\ unmute.running /\ wire = Quiet
      /\ unmute' = NotRunning(unmute.counter - 1)
      /\ UNCHANGED <<state, saved_state, is_finished, do_incremental, mute, single_device, quick_find,
                     quick_find_discovery, discovery, stack, response, tod, wire, rx>>
  BY DEF UnmuteTimeOut, Expired, Stay, control, search, port
<1>2. Phase = "Unmute" /\ UnmutePhase /\ ~is_finished /\ ~do_incremental /\ OnlyOnce(tod)
  BY <1>1 DEF ProxyBefore, ProxyAt, Phase
<1>3. ~unmute'.running /\ unmute'.counter = unmute.counter - 1 /\ unmute.counter \in Nat
  BY <1>1 DEF ProxyBefore, TypeOK, NotRunning, Counter
<1>4. UnmutePhase'
  BY <1>1, <1>2, <1>3, Budget DEF UnmutePhase, Fresh, Ready, ProxySame
<1> QED  BY <1>1, <1>2, <1>4 DEF ProxyAt, Phase, OnlyOnce
-----------------------------------------------------------------------------
\* The branch is asked for until somebody answers, and somebody does.
LEMMA DiscoveryAnsweredServes ==
    ASSUME ProxyBefore, ProxySame, DiscoveryAnswered
    PROVE  ProxyAt'
<1>1. /\ state = "Discovery" /\ discovery.running /\ (rx.complete \/ discovery.counter = 0) /\ response' = rx.complete
      /\ rx' = [rx EXCEPT !.complete = FALSE] /\ discovery' = [discovery EXCEPT !.running = FALSE] /\ state' = "Dub"
      /\ UNCHANGED <<saved_state, is_finished, do_incremental, unmute, mute, single_device, quick_find,
                     quick_find_discovery, stack, tod, wire>>
  BY DEF DiscoveryAnswered, Receive, Goto, NewState, commands
<1>2. DiscoveryPhase /\ ~is_finished /\ ~do_incremental /\ OnlyOnce(tod)
  BY <1>1 DEF ProxyBefore, ProxyAt, Phase
<1>3. rx.complete
  BY <1>1, <1>2, Budget DEF DiscoveryPhase, Missed
<1>4. /\ ~rx'.complete /\ rx'.data = rx.data /\ ~discovery'.running
      /\ discovery'.lb = discovery.lb /\ discovery'.ub = discovery.ub
  BY <1>1 DEF ProxyBefore, TypeOK
<1>5. DubPhase'
  BY <1>1, <1>2, <1>3, <1>4 DEF DiscoveryPhase, DubPhase, Whole, Ready, Missed, Replied, Unheard, ProxySame
<1> QED  BY <1>1, <1>2, <1>5 DEF ProxyAt, Phase, OnlyOnce

\* Silence: a frame was lost, and the branch is asked again.
LEMMA DiscoveryTimeOutServes ==
    ASSUME ProxyBefore, ProxySame, DiscoveryTimeOut
    PROVE  ProxyAt'
<1>1. /\ state = "Discovery" /\ discovery.running /\ discovery.counter > 0 /\ Missed
      /\ discovery' = [discovery EXCEPT !.counter = discovery.counter - 1]
      /\ wire' = DiscBranch(discovery.lb, discovery.ub)
      /\ UNCHANGED <<state, saved_state, is_finished, do_incremental, unmute, mute, single_device, quick_find,
                     quick_find_discovery, stack, tod, rx>>
  BY DEF DiscoveryTimeOut, TimedOut, Expired, Missed, Transmit, Stay, control, commands
<1>2. DiscoveryPhase /\ ~is_finished /\ ~do_incremental /\ OnlyOnce(tod)
  BY <1>1 DEF ProxyBefore, ProxyAt, Phase
<1>3. /\ discovery'.running /\ discovery'.counter = discovery.counter - 1 /\ discovery.counter \in Nat
      /\ discovery'.lb = discovery.lb /\ discovery'.ub = discovery.ub
  BY <1>1 DEF ProxyBefore, TypeOK
<1>4. wire' = AskAll /\ wire' # Quiet
  BY <1>1, <1>2 DEF DiscoveryPhase, Whole, AskAll, DiscBranch, Quiet
<1>5. DiscoveryPhase'
  BY <1>1, <1>2, <1>3, <1>4, Budget DEF DiscoveryPhase, Whole, Ready, Missed, ProxySame, AskAll
<1> QED  BY <1>1, <1>2, <1>5 DEF ProxyAt, Phase, OnlyOnce

\* When no branch is left the whole table has been found.
LEMMA DiscoveryNoMoreServes ==
    ASSUME ProxyBefore, ProxySame, DiscoveryNoMore
    PROVE  ProxyAt'
<1>1. /\ state = "Discovery" /\ ~discovery.running /\ stack = << >>
      /\ state' = "LateResponse" /\ saved_state' = "Finished"
      /\ UNCHANGED <<is_finished, do_incremental, unmute, mute, single_device, quick_find,
                     quick_find_discovery, discovery, stack, response, tod, wire, rx>>
  BY DEF DiscoveryNoMore, GotoLate, NewState, commands, search, port
<1>2. DiscoveryPhase /\ ~is_finished /\ ~do_incremental /\ OnlyOnce(tod)
  BY <1>1 DEF ProxyBefore, ProxyAt, Phase
<1>3. Missed /\ Found = Proxied
  BY <1>1, <1>2 DEF DiscoveryPhase, Fresh
<1> QED  BY <1>1, <1>2, <1>3 DEF ProxyAt, Phase, OnlyOnce, Missed, Found, Table!Entries

\* The first branch is the only one: all the UIDs there are.
LEMMA TopIsWhole ==
    ASSUME ProxyBefore, state = "Discovery", ~discovery.running, stack # << >>
    PROVE  /\ DiscoveryPhase /\ ~is_finished /\ ~do_incremental /\ OnlyOnce(tod) /\ Missed /\ Ready
           /\ tod.tod = << >> /\ gateway.mutes = {}
           /\ Top.lb = 0 /\ Top.ub = MaxUid /\ Top.lb # Top.ub /\ Pop(stack) = << >>
<1>1. DiscoveryPhase /\ ~is_finished /\ ~do_incremental /\ OnlyOnce(tod)
  BY DEF ProxyBefore, ProxyAt, Phase
<1>2. Missed /\ Fresh /\ gateway.mutes = {}
  BY <1>1 DEF DiscoveryPhase
<1>3. stack = <<[lb |-> 0, ub |-> MaxUid]>>
  BY <1>2 DEF Fresh
<1>4. Top = [lb |-> 0, ub |-> MaxUid] /\ Pop(stack) = << >>
  BY <1>3 DEF Top, Pop
<1>5. MaxUid # 0
  BY ConstantsAssumption DEF MaxUid
<1> QED  BY <1>1, <1>2, <1>4, <1>5 DEF Fresh

\* It is opened.
LEMMA DiscoveryTakeBranchServes ==
    ASSUME ProxyBefore, ProxySame, DiscoveryTakeBranch
    PROVE  ProxyAt'
<1>1. /\ state = "Discovery" /\ ~discovery.running /\ stack # << >> /\ stack' = Pop(stack)
      /\ discovery' = [lb |-> Top.lb, ub |-> Top.ub, counter |-> DiscoveryCounter, running |-> TRUE]
      /\ wire' = DiscBranch(Top.lb, Top.ub)
      /\ UNCHANGED <<state, saved_state, is_finished, do_incremental, unmute, mute, single_device, quick_find,
                     quick_find_discovery, response, tod, rx>>
  BY DEF DiscoveryTakeBranch, Transmit, Stay, control, commands
<1>2. wire' = AskAll /\ wire' # Quiet /\ stack' = << >>
  BY <1>1, TopIsWhole DEF AskAll, DiscBranch, Quiet
<1>3. DiscoveryPhase'
  BY <1>1, <1>2, TopIsWhole, Budget DEF DiscoveryPhase, Whole, Ready, Missed, ProxySame
<1> QED  BY <1>1, <1>3, TopIsWhole DEF ProxyAt, Phase, OnlyOnce
-----------------------------------------------------------------------------
\* The answer is read: one UID, which is muted next.
LEMMA DubOneDeviceServes ==
    ASSUME ProxyBefore, ProxySame, DubOneDevice
    PROVE  ProxyAt'
<1>1. /\ state = "Dub" /\ quick_find' = [quick_find EXCEPT !.uid = rx.data.uid]
      /\ state' = "LateResponse" /\ saved_state' = "Quickfind"
      /\ UNCHANGED <<is_finished, do_incremental, unmute, mute, single_device, quick_find_discovery, discovery,
                     stack, response, tod, wire, rx>>
  BY DEF DubOneDevice, GotoLate, NewState, search, port
<1>2. DubPhase /\ ~is_finished /\ ~do_incremental /\ OnlyOnce(tod)
  BY <1>1 DEF ProxyBefore, ProxyAt, Phase
<1>3. /\ quick_find'.uid = rx.data.uid /\ quick_find'.counter = quick_find.counter
      /\ quick_find'.running = quick_find.running
  BY <1>1 DEF ProxyBefore, TypeOK
<1>4. rx.data.uid = gateway.tod[gateway.saved_index] /\ gateway.saved_index # 0
  BY <1>2 DEF DubPhase, Replied, BranchAck, Unheard
<1>5. Found' = {} /\ MutedEntries' = {}
  BY <1>1, <1>2 DEF DubPhase, Found, MutedEntries, Table!Entries, ProxySame
<1>6. InOrder'
  BY <1>2 DEF DubPhase, InOrder, Unheard, ProxySame
<1>7. QuickfindPhase'
  BY <1>1, <1>2, <1>3, <1>4, <1>5, <1>6, Budget DEF DubPhase, QuickfindPhase, Whole, Ready, Missed, ProxySame
<1> QED  BY <1>1, <1>2, <1>7 DEF ProxyAt, Phase, OnlyOnce, DubPhase, Missed

\* There is an answer, and only one UID ever gives it.
LEMMA DubNeverCollides ==
    ASSUME ProxyBefore, DubSilent \/ DubCollision
    PROVE  FALSE
<1>1. state = "Dub" /\ (~response \/ rx.data.kind # "branch")
  BY DEF DubSilent, DubCollision
<1>2. response /\ Replied
  BY <1>1 DEF ProxyBefore, ProxyAt, Phase, DubPhase
<1> QED  BY <1>1, <1>2 DEF Replied, BranchAck
-----------------------------------------------------------------------------
\* What is known in QUICKFIND.
LEMMA QuickfindServed ==
    ASSUME ProxyBefore, state = "Quickfind"
    PROVE  /\ QuickfindPhase /\ ~is_finished /\ ~do_incremental /\ OnlyOnce(tod)
           /\ quick_find.counter \in Nat /\ quick_find.counter > 0
<1>1. QuickfindPhase /\ ~is_finished /\ ~do_incremental /\ OnlyOnce(tod)
  BY DEF ProxyBefore, ProxyAt, Phase
<1>2. quick_find.counter \in Nat
  BY DEF ProxyBefore, TypeOK
<1> QED  BY <1>1, <1>2, Budget DEF QuickfindPhase

\* QUICKFIND is not given up, and nothing else answers.
LEMMA QuickfindNeverGivesUp ==
    ASSUME ProxyBefore, QuickfindGiveUp \/ QuickfindInvalid
    PROVE  FALSE
<1>1. CASE QuickfindGiveUp
  BY <1>1, QuickfindServed DEF QuickfindGiveUp
<1>2. CASE QuickfindInvalid
  <2>1. state = "Quickfind" /\ rx.complete /\ quick_find.running /\ rx.data.kind # "mute"
    BY <1>2 DEF QuickfindInvalid, Received
  <2> QED  BY <2>1, QuickfindServed DEF QuickfindPhase, MuteAck
<1> QED  BY <1>1, <1>2

\* The UID is told to mute itself.
LEMMA QuickfindSendServes ==
    ASSUME ProxyBefore, ProxySame, QuickfindSend
    PROVE  ProxyAt'
<1>1. /\ state = "Quickfind" /\ ~quick_find.running
      /\ quick_find' = [quick_find EXCEPT !.running = TRUE] /\ wire' = DiscMute(quick_find.uid)
      /\ UNCHANGED <<state, saved_state, is_finished, do_incremental, unmute, mute, single_device,
                     quick_find_discovery, discovery, stack, response, tod, rx>>
  BY DEF QuickfindSend, Transmit, Stay, QuickfindOther, control, search
<1>2. quick_find'.running /\ quick_find'.uid = quick_find.uid /\ quick_find'.counter = quick_find.counter
  BY <1>1 DEF ProxyBefore, TypeOK
<1>3. wire' # Quiet /\ ~rx'.complete
  BY <1>1, QuickfindServed DEF DiscMute, Quiet, QuickfindPhase, Missed
<1>4. UNCHANGED <<Found, MutedEntries, InOrder>>
  BY <1>1 DEF Found, MutedEntries, InOrder, Unheard, Ahead, Table!Entries, ProxySame
<1>5. QuickfindPhase'
  BY <1>1, <1>2, <1>3, <1>4, QuickfindServed DEF QuickfindPhase, Whole, Missed, ProxySame
<1> QED  BY <1>1, <1>5, QuickfindServed DEF ProxyAt, Phase, OnlyOnce

\* A DISC_MUTE that was not answered was paid for with a lost frame.
LEMMA QuickfindTimeOutServes ==
    ASSUME ProxyBefore, ProxySame, QuickfindTimeOut
    PROVE  ProxyAt'
<1>1. /\ state = "Quickfind" /\ quick_find.running /\ Missed
      /\ quick_find' = [quick_find EXCEPT !.counter = quick_find.counter - 1, !.running = FALSE]
      /\ UNCHANGED <<state, saved_state, is_finished, do_incremental, unmute, mute, single_device,
                     quick_find_discovery, discovery, stack, tod, wire, rx>>
  BY DEF QuickfindTimeOut, TimedOut, Expired, Missed, Stay, QuickfindOther, control, search
<1>2. ~quick_find'.running /\ quick_find'.uid = quick_find.uid /\ quick_find'.counter = quick_find.counter - 1
  BY <1>1 DEF ProxyBefore, TypeOK
<1>3. UNCHANGED <<Found, MutedEntries, InOrder>>
  BY <1>1 DEF Found, MutedEntries, InOrder, Unheard, Ahead, Table!Entries, ProxySame
<1>4. QuickfindPhase'
  BY <1>1, <1>2, <1>3, QuickfindServed, Budget DEF QuickfindPhase, Whole, Missed, ProxySame
<1> QED  BY <1>1, <1>4, QuickfindServed DEF ProxyAt, Phase, OnlyOnce

-----------------------------------------------------------------------------
\* The round robin comes to every position within one round.
LEMMA AheadIs ==
    ASSUME GatewayOK, Proxied # {}
    PROVE  /\ \A i \in 1 .. Stood : Ahead(i) \in 1 .. Stood
           /\ Following \in 1 .. Stood /\ Ahead(Following) = 1
           /\ \A i \in 1 .. Stood : Ahead(i) = 1 => i = Following
           /\ gateway.saved_index # 0 => Ahead(gateway.saved_index) = Stood
<1>1. Stood \in Nat /\ Stood > 0 /\ gateway.saved_index \in 0 .. Stood
  BY StoodIs DEF GatewayOK
<1> QED  BY <1>1 DEF Ahead, Following

\* A branch moves every position one nearer, and the one it came to to the end.
LEMMA AheadAfter ==
    ASSUME GatewayOK, Proxied # {}, gateway'.saved_index = Following
    PROVE  \A i \in 1 .. Stood : Ahead(i)' = IF i = Following THEN Stood ELSE Ahead(i) - 1
<1>1. Stood \in Nat /\ Stood > 0 /\ gateway.saved_index \in 0 .. Stood
  BY StoodIs DEF GatewayOK
<1>2. gateway'.saved_index = IF gateway.saved_index = 0 \/ gateway.saved_index >= Stood THEN 1
                             ELSE gateway.saved_index + 1
  BY DEF Following
<1> QED  BY <1>1, <1>2 DEF Ahead, Following

\* With all the questions still to be asked, the round robin comes to a
\* position that is not muted in time.
LEMMA AllQuestions ==
    ASSUME ProxyBefore, Unheard # {}, lost = 0 => InOrder /\ gateway.saved_index \in gateway.mutes
    PROVE  \E i \in Unheard : Stood * (LossBudget - lost) + Ahead(i) <= QuikfindDiscoveryCounter
<1>1. GatewayOK /\ Proxied # {}
  BY DEF ProxyBefore
<1>2. PICK i \in Unheard : TRUE
  OBVIOUS
<1>3. i \in 1 .. Stood /\ i \notin gateway.mutes
  BY <1>2 DEF Unheard
<1>4. CASE lost = 0
  <2>1. Following \in Unheard
    <3>1. CASE i = Following
      BY <1>2, <3>1
    <3>2. CASE i # Following
      <4>1. Ahead(Following) < Ahead(i) /\ Following \in 1 .. Stood
        BY <1>1, <1>3, <3>2, AheadIs, StoodIs
      <4> QED  BY <1>2, <1>3, <1>4, <4>1 DEF InOrder
    <3> QED  BY <3>1, <3>2
  <2>2. Stood * (LossBudget - lost) = Stood * LossBudget /\ Stood * LossBudget \in Nat
    BY <1>4, Rounds, Budget
  <2> QED  BY <1>1, <2>1, <2>2, AheadIs, Budget
<1>5. CASE lost > 0
  <2>1. Ahead(i) \in 1 .. Stood
    BY <1>1, <1>3, AheadIs
  <2> HIDE DEF Ahead
  <2>2. Stood * (LossBudget - lost) + Stood <= Stood * LossBudget /\ Stood * (LossBudget - lost) \in Nat
    BY <1>5, Rounds
  <2>3. Stood * (LossBudget - lost) + Ahead(i) <= QuikfindDiscoveryCounter
    <3> DEFINE a == Stood * (LossBudget - lost)
               b == Stood * LossBudget
    <3>1. a \in Nat /\ a + Stood <= b /\ b < QuikfindDiscoveryCounter /\ b \in Nat /\ QuikfindDiscoveryCounter \in Nat
      <4>1. \A x, y \in Nat : x * y \in Nat
        OBVIOUS
      <4> QED  BY <2>2, <4>1, Budget
    <3> HIDE DEF a, b
    <3>2. a + Ahead(i) <= QuikfindDiscoveryCounter
      BY <2>1, <3>1, Budget
    <3> QED  BY <3>2 DEF a
  <2> QED  BY <1>2, <2>3
<1> QED  BY <1>4, <1>5, Budget

\* A UID that answers is added: it is not in the table, so the table has room.
LEMMA UidIsAdded ==
    ASSUME ProxyBefore, state = "Quickfind", rx.complete, quick_find.running,
           tod' = Table!AddUid(tod, quick_find.uid)
    PROVE  OnlyOnce(tod') /\ Found' = MutedEntries
<1> DEFINE u == quick_find.uid
<1>1. /\ Found = MutedEntries \ {u} /\ gateway.saved_index \in gateway.mutes
      /\ u = gateway.tod[gateway.saved_index] /\ OnlyOnce(tod)
  BY QuickfindServed DEF QuickfindPhase
<1>2. MutedEntries \subseteq Proxied /\ u \in MutedEntries
  <2>1. gateway.tod \in [1 .. Stood -> Proxied] /\ gateway.mutes \subseteq 1 .. Stood
    BY DEF ProxyBefore, GatewayOK
  <2>2. \A i \in gateway.mutes : gateway.tod[i] \in Proxied
    BY <2>1
  <2>3. u \in MutedEntries
    BY <1>1 DEF MutedEntries
  <2> QED  BY <2>2, <2>3 DEF MutedEntries
<1>3. u \in Uid
  BY DEF ProxyBefore, TypeOK
<1>4. Cardinality(Found) < Stood
  <2>1. IsFiniteSet(Proxied) /\ u \in Proxied
    BY <1>2, StoodIs
  <2>2. IsFiniteSet(Proxied \ {u}) /\ Cardinality(Proxied \ {u}) = Stood - 1
    BY <2>1, FS_RemoveElement DEF Stood
  <2>3. Found \subseteq Proxied \ {u}
    BY <1>1, <1>2
  <2>4. Cardinality(Found) <= Cardinality(Proxied \ {u}) /\ Cardinality(Found) \in Nat
    BY <2>2, <2>3, FS_Subset, FS_CardinalityType
  <2> QED  BY <2>2, <2>4, StoodIs
<1>5. Len(tod.tod) # TableSize
  <2>1. ~TableFull
    BY <1>4, StoodIs, ConstantsAssumption, FS_CardinalityType DEF TableFull, Found
  <2> QED  BY <1>1, <2>1, FullIs DEF ProxyBefore, TableIsFull
<1>6. TableOf(tod)
  BY DEF ProxyBefore, TypeOK, TableOf
<1>7. /\ OnlyOnce(tod') /\ Table!Entries(tod) \subseteq Table!Entries(tod')
      /\ Table!Entries(tod') \subseteq Table!Entries(tod) \cup {u} /\ u \in Table!Entries(tod')
  BY <1>1, <1>3, <1>5, <1>6, AddIs
<1> QED  BY <1>1, <1>2, <1>7 DEF Found

\* The UID that was muted answers, and is added.
LEMMA QuickfindResponseServes ==
    ASSUME ProxyBefore, ProxySame, QuickfindResponse
    PROVE  ProxyAt'
<1>1. /\ state = "Quickfind" /\ rx.complete /\ quick_find.running /\ state' = "QuickfindDiscovery"
      /\ rx' = [rx EXCEPT !.complete = FALSE]
      /\ tod' = IF rx.data.uid = quick_find.uid THEN Table!AddUid(tod, quick_find.uid) ELSE tod
      /\ quick_find' = [quick_find EXCEPT !.counter = QuikfindCounter, !.running = FALSE]
      /\ UNCHANGED <<saved_state, is_finished, do_incremental, unmute, mute, single_device,
                     quick_find_discovery, discovery, stack, wire>>
  BY DEF QuickfindResponse, Received, Receive, Goto, NewState, QuickfindOther, search
<1>2. wire = Quiet /\ gateway.saved_index \in gateway.mutes /\ rx.data = MuteAck(quick_find.uid)
  BY <1>1, QuickfindServed DEF QuickfindPhase
<1>3. tod' = Table!AddUid(tod, quick_find.uid)
  BY <1>1, <1>2 DEF MuteAck
<1>4. OnlyOnce(tod') /\ Found' = MutedEntries /\ MutedEntries' = MutedEntries
  BY <1>1, <1>3, UidIsAdded DEF MutedEntries, ProxySame
<1>5. ~rx'.complete /\ ~quick_find'.running /\ quick_find'.counter = QuikfindCounter
  BY <1>1 DEF ProxyBefore, TypeOK
<1>6. /\ Whole /\ ~discovery.running /\ quick_find_discovery = NotRunning(QuikfindDiscoveryCounter)
      /\ lost = 0 => InOrder
  BY <1>1, QuickfindServed DEF QuickfindPhase
<1>7. UNCHANGED <<InOrder, Unheard>> /\ \A i : Ahead(i)' = Ahead(i)
  BY DEF InOrder, Unheard, Ahead, ProxySame
<1>8. Questions' = QuikfindDiscoveryCounter
  BY <1>1, <1>6, Budget DEF Questions, NotRunning
<1>9. Unheard' # {} => Awaited'
  <2> SUFFICES ASSUME Unheard # {}  PROVE Awaited'
    BY <1>7
  <2>1. PICK i \in Unheard : Stood * (LossBudget - lost) + Ahead(i) <= QuikfindDiscoveryCounter
    BY <1>2, <1>6, AllQuestions
  <2>2. i \in Unheard' /\ Stood * (LossBudget - lost') + Ahead(i)' <= Questions'
    BY <1>7, <1>8, <2>1 DEF ProxySame
  <2> QED  BY <2>2 DEF Awaited
<1>10. QfdPhase'
  BY <1>1, <1>2, <1>4, <1>5, <1>6, <1>7, <1>9 DEF QfdPhase, Whole, Missed, NotRunning, ProxySame
<1> QED  BY <1>1, <1>4, <1>10, QuickfindServed DEF ProxyAt, Phase
-----------------------------------------------------------------------------
\* What is known in QUICKFIND_DISCOVERY.
LEMMA QfdServed ==
    ASSUME ProxyBefore, state = "QuickfindDiscovery"
    PROVE  /\ QfdPhase /\ ~is_finished /\ ~do_incremental /\ OnlyOnce(tod)
           /\ quick_find_discovery.counter \in Nat
<1>1. QfdPhase /\ ~is_finished /\ ~do_incremental /\ OnlyOnce(tod)
  BY DEF ProxyBefore, ProxyAt, Phase
<1>2. quick_find_discovery.counter \in Nat
  BY DEF ProxyBefore, TypeOK, Counter
<1> QED  BY <1>1, <1>2

\* The branch has been silent so often that every position has been passed.
LEMMA QfdGiveUpServes ==
    ASSUME ProxyBefore, ProxySame, QfdGiveUp
    PROVE  ProxyAt'
<1>1. /\ state = "QuickfindDiscovery" /\ quick_find_discovery.counter = 0
      /\ state' = "LateResponse" /\ saved_state' = "Discovery"
      /\ UNCHANGED <<is_finished, do_incremental, unmute, mute, single_device, quick_find, discovery,
                     stack, response, tod, wire, rx>>
  BY DEF QfdGiveUp, GotoLate, NewState, QfdOther, search, port
<1>2. Missed /\ stack = << >> /\ ~discovery.running /\ Found = MutedEntries
  BY <1>1, QfdServed DEF QfdPhase, Whole
<1>3. Unheard = {}
  <2> SUFFICES ASSUME Unheard # {}  PROVE FALSE
    OBVIOUS
  <2>1. Awaited
    BY <1>1, <1>2, QfdServed DEF QfdPhase, Missed
  <2>2. PICK i \in Unheard : Stood * (LossBudget - lost) + Ahead(i) <= Questions
    BY <2>1 DEF Awaited
  <2>3. Questions = 0
    <3>1. ~quick_find_discovery.running
      BY <1>1, QfdServed DEF QfdPhase
    <3>2. Questions = quick_find_discovery.counter - 0
      BY <3>1 DEF Questions
    <3> QED  BY <1>1, <3>2
  <2>4. Ahead(i) \in 1 .. Stood
    BY AheadIs DEF ProxyBefore, Unheard
  <2> HIDE DEF Ahead
  <2>5. Stood * (LossBudget - lost) \in Nat
    BY Rounds
  <2> QED  BY <2>2, <2>3, <2>4, <2>5, Budget
<1>4. MutedEntries = Proxied
  <2>1. gateway.mutes = 1 .. Stood
    BY <1>3 DEF Unheard, ProxyBefore, GatewayOK
  <2>2. gateway.tod \in [1 .. Stood -> Proxied] /\ \A u \in Proxied : \E i \in 1 .. Stood : gateway.tod[i] = u
    BY DEF ProxyBefore, GatewayOK
  <2>3. \A i \in 1 .. Stood : gateway.tod[i] \in Proxied
    BY <2>2
  <2>4. MutedEntries \subseteq Proxied
    BY <2>1, <2>3 DEF MutedEntries
  <2>5. Proxied \subseteq MutedEntries
    <3> SUFFICES ASSUME NEW u \in Proxied  PROVE u \in MutedEntries
      OBVIOUS
    <3>1. PICK i \in 1 .. Stood : gateway.tod[i] = u
      BY <2>2
    <3>2. i \in gateway.mutes
      BY <2>1
    <3> QED  BY <3>1, <3>2 DEF MutedEntries
  <2> QED  BY <2>4, <2>5
<1>5. DiscoveryPhase'
  BY <1>1, <1>2, <1>4 DEF DiscoveryPhase, Missed, Found, Table!Entries
<1> QED  BY <1>1, <1>2, <1>5, QfdServed DEF ProxyAt, Phase, OnlyOnce, Missed

\* The branch is asked again,
LEMMA QfdSendServes ==
    ASSUME ProxyBefore, ProxySame, QfdSend
    PROVE  ProxyAt'
<1>1. /\ state = "QuickfindDiscovery" /\ quick_find_discovery.counter > 0 /\ ~quick_find_discovery.running
      /\ quick_find_discovery' = [quick_find_discovery EXCEPT !.running = TRUE]
      /\ wire' = DiscBranch(discovery.lb, discovery.ub)
      /\ UNCHANGED <<state, saved_state, is_finished, do_incremental, unmute, mute, single_device, quick_find,
                     discovery, stack, response, tod, rx>>
  BY DEF QfdSend, Transmit, Stay, QfdOther, control, search
<1>2. quick_find_discovery'.running /\ quick_find_discovery'.counter = quick_find_discovery.counter
  BY <1>1 DEF ProxyBefore, TypeOK
<1>3. wire' = AskAll /\ wire' # Quiet /\ ~rx.complete
  BY <1>1, QfdServed DEF QfdPhase, Whole, AskAll, DiscBranch, Quiet, Missed
<1>4. UNCHANGED <<Found, MutedEntries, InOrder, Unheard>> /\ \A i : Ahead(i)' = Ahead(i)
  BY <1>1 DEF Found, MutedEntries, InOrder, Unheard, Ahead, Table!Entries, ProxySame
<1>5. Questions' = Questions
  BY <1>1, <1>2, <1>3, QfdServed DEF Questions, Missed
<1>6. Awaited' <=> Awaited
  BY <1>4, <1>5 DEF Awaited, ProxySame
<1>7. QfdPhase'
  BY <1>1, <1>2, <1>3, <1>4, <1>6, QfdServed DEF QfdPhase, Whole, Missed, ProxySame
<1> QED  BY <1>1, <1>7, QfdServed DEF ProxyAt, Phase, OnlyOnce

\* and silence is counted.
LEMMA QfdTimeOutServes ==
    ASSUME ProxyBefore, ProxySame, QfdTimeOut
    PROVE  ProxyAt'
<1>1. /\ state = "QuickfindDiscovery" /\ quick_find_discovery.counter > 0 /\ quick_find_discovery.running /\ Missed
      /\ quick_find_discovery' = NotRunning(quick_find_discovery.counter - 1)
      /\ UNCHANGED <<state, saved_state, is_finished, do_incremental, unmute, mute, single_device, quick_find,
                     discovery, stack, tod, wire, rx>>
  BY DEF QfdTimeOut, TimedOut, Expired, Missed, Stay, QfdOther, control, search
<1>2. ~quick_find_discovery'.running /\ quick_find_discovery'.counter = quick_find_discovery.counter - 1
  BY <1>1 DEF NotRunning
<1>4. UNCHANGED <<Found, MutedEntries, InOrder, Unheard>> /\ \A i : Ahead(i)' = Ahead(i)
  BY <1>1 DEF Found, MutedEntries, InOrder, Unheard, Ahead, Table!Entries, ProxySame
<1>5. Questions' = Questions
  BY <1>1, <1>2, QfdServed DEF Questions
<1>6. Awaited' <=> Awaited
  BY <1>4, <1>5 DEF Awaited, ProxySame
<1>7. QfdPhase'
  BY <1>1, <1>2, <1>4, <1>6, QfdServed DEF QfdPhase, Whole, Missed, ProxySame
<1> QED  BY <1>1, <1>7, QfdServed DEF ProxyAt, Phase, OnlyOnce

\* Another UID has answered, which is not in the table yet.
LEMMA QfdOneDeviceServes ==
    ASSUME ProxyBefore, ProxySame, QfdOneDevice
    PROVE  ProxyAt'
<1>1. /\ state = "QuickfindDiscovery" /\ quick_find_discovery.running /\ rx.complete
      /\ rx' = [rx EXCEPT !.complete = FALSE] /\ quick_find' = [quick_find EXCEPT !.uid = rx.data.uid]
      /\ quick_find_discovery' = NotRunning(QuikfindDiscoveryCounter)
      /\ state' = "LateResponse" /\ saved_state' = "Quickfind"
      /\ UNCHANGED <<is_finished, do_incremental, unmute, mute, single_device, discovery, stack, tod, wire>>
  BY DEF QfdOneDevice, Received, Receive, GotoLate, NewState, QfdOther, search
<1>2. wire = Quiet /\ Replied
  BY <1>1, QfdServed DEF QfdPhase
<1>3. /\ ~rx'.complete /\ quick_find'.uid = rx.data.uid /\ quick_find'.counter = quick_find.counter
      /\ quick_find'.running = quick_find.running
  BY <1>1 DEF ProxyBefore, TypeOK
<1>4. /\ rx.data.uid = gateway.tod[gateway.saved_index] /\ gateway.saved_index \in 1 .. Stood
      /\ gateway.saved_index \notin gateway.mutes
  BY <1>2 DEF Replied, BranchAck, Unheard
<1>5. rx.data.uid \notin MutedEntries
  <2> SUFFICES ASSUME NEW i \in gateway.mutes, gateway.tod[i] = rx.data.uid  PROVE FALSE
    BY DEF MutedEntries
  <2>1. i \in 1 .. Stood
    BY DEF ProxyBefore, GatewayOK
  <2> QED  BY <1>4, <2>1 DEF ProxyBefore, GatewayOK
<1>6. UNCHANGED <<Found, MutedEntries, InOrder>>
  BY <1>1 DEF Found, MutedEntries, InOrder, Unheard, Ahead, Table!Entries, ProxySame
<1>7. QuickfindPhase'
  BY <1>1, <1>2, <1>3, <1>4, <1>5, <1>6, QfdServed, Budget
  DEF QfdPhase, QuickfindPhase, Whole, Missed, ProxySame
<1> QED  BY <1>1, <1>2, <1>3, <1>7, QfdServed DEF ProxyAt, Phase, OnlyOnce, Missed

-----------------------------------------------------------------------------
\* The discovery has ended, and the scheduler reads it.
LEMMA FinishServes ==
    ASSUME ProxyBefore, ProxySame, Finish
    PROVE  ProxyAt'
<1>1. /\ state = "Finished" /\ is_finished' = TRUE /\ state' = "Idle"
      /\ UNCHANGED <<tod, wire, rx>>
  BY DEF Finish, NewState, port
<1>2. Missed /\ Found = Proxied /\ OnlyOnce(tod)
  BY <1>1 DEF ProxyBefore, ProxyAt, Phase
<1> QED  BY <1>1, <1>2 DEF ProxyAt, Phase, OnlyOnce, Missed, Found, Table!Entries

\* No other device is asked, none collides, nothing is received while unmuting.
LEMMA NeverServes ==
    ASSUME ProxyBefore,
           \/ UnmuteReceive \/ DiscoveryTakeSingle \/ QfdCollision
           \/ MuteDone \/ MuteDeviceIsGone \/ MuteSend \/ MuteResponse \/ MuteTimeOut
           \/ SingleGiveUp \/ SingleSend \/ SingleResponse \/ SingleIgnore \/ SingleTimeOut
    PROVE  FALSE
<1>1. Phase \notin {"Mute", "DiscoverySingleDevice"}
  BY DEF ProxyBefore, ProxyAt
<1>2. CASE UnmuteReceive
  <2>1. state = "Unmute" /\ rx.complete
    BY <1>2 DEF UnmuteReceive
  <2> QED  BY <2>1 DEF ProxyBefore, ProxyAt, Phase, UnmutePhase
<1>3. CASE DiscoveryTakeSingle
  <2>1. state = "Discovery" /\ ~discovery.running /\ stack # << >> /\ Top.lb = Top.ub
    BY <1>3 DEF DiscoveryTakeSingle
  <2> QED  BY <2>1, TopIsWhole
<1>4. CASE QfdCollision
  <2>1. state = "QuickfindDiscovery" /\ quick_find_discovery.running /\ rx.complete /\ rx.data.kind # "branch"
    BY <1>4 DEF QfdCollision, Received
  <2>2. Replied
    BY <2>1, QfdServed DEF QfdPhase
  <2> QED  BY <2>1, <2>2 DEF Replied, BranchAck
<1>5. CASE MuteDone \/ MuteDeviceIsGone \/ MuteSend \/ MuteResponse \/ MuteTimeOut
  BY <1>1, <1>5 DEF MuteDone, MuteDeviceIsGone, MuteSend, MuteResponse, MuteTimeOut, Phase
<1>6. CASE SingleGiveUp \/ SingleSend \/ SingleResponse \/ SingleIgnore \/ SingleTimeOut
  BY <1>1, <1>6 DEF SingleGiveUp, SingleSend, SingleResponse, SingleIgnore, SingleTimeOut, Phase
<1> QED  BY <1>2, <1>3, <1>4, <1>5, <1>6

\* Every call of Process keeps what is known of the discovery.
LEMMA ProcessServes ==
    ASSUME ProxyBefore, ProxySame, Process
    PROVE  ProxyAt'
<1>1. CASE LateResponse \/ UnmuteDone \/ UnmuteSend \/ UnmuteTimeOut
  BY <1>1, LateServes, UnmuteDoneServes, UnmuteSendServes, UnmuteTimeOutServes
<1>2. CASE DiscoveryAnswered \/ DiscoveryTimeOut \/ DiscoveryNoMore \/ DiscoveryTakeBranch
  BY <1>2, DiscoveryAnsweredServes, DiscoveryTimeOutServes, DiscoveryNoMoreServes, DiscoveryTakeBranchServes
<1>3. CASE DubSilent \/ DubOneDevice \/ DubCollision
  BY <1>3, DubOneDeviceServes, DubNeverCollides
<1>4. CASE QuickfindGiveUp \/ QuickfindSend \/ QuickfindInvalid \/ QuickfindResponse \/ QuickfindTimeOut
  BY <1>4, QuickfindNeverGivesUp, QuickfindSendServes, QuickfindResponseServes, QuickfindTimeOutServes
<1>5. CASE QfdGiveUp \/ QfdSend \/ QfdOneDevice \/ QfdTimeOut
  BY <1>5, QfdGiveUpServes, QfdSendServes, QfdOneDeviceServes, QfdTimeOutServes
<1>6. CASE Finish
  BY <1>6, FinishServes
<1> QED  BY <1>1, <1>2, <1>3, <1>4, <1>5, <1>6, NeverServes DEF Process

-----------------------------------------------------------------------------
(* What the line does: a request is served, or one of two frames is lost.  *)
ServedSilent == gateway' = Served.tod /\ Served.answer.kind = "none" /\ UNCHANGED <<rx, lost>>
ServedHeard  == gateway' = Served.tod /\ rx' = [data |-> FrameOf(Served.answer), complete |-> TRUE] /\ lost' = lost
                  /\ Served.answer.kind # "none"
ServedLost   == gateway' = Served.tod /\ lost' = lost + 1 /\ lost < LossBudget /\ UNCHANGED rx
                  /\ Served.answer.kind # "none"
NotServed    == lost' = lost + 1 /\ lost < LossBudget /\ UNCHANGED <<rx, gateway>>

\* Only the state that asked waits for an answer.
LEMMA LineIs ==
    ASSUME ProxyBefore, GatewayAnswers
    PROVE  /\ wire # Quiet /\ wire' = Quiet /\ ~Missed
           /\ UNCHANGED <<state, saved_state, is_finished, do_incremental, unmute, mute, single_device, quick_find,
                          quick_find_discovery, discovery, stack, response, tod>>
           /\ ServedSilent \/ ServedHeard \/ ServedLost \/ NotServed
           /\ state \in {"Unmute", "Discovery", "Quickfind", "QuickfindDiscovery"} /\ Phase = state
           /\ ~is_finished /\ ~do_incremental /\ OnlyOnce(tod)
<1>1. /\ wire # Quiet /\ wire' = Quiet
      /\ UNCHANGED <<state, saved_state, is_finished, do_incremental, unmute, mute, single_device, quick_find,
                     quick_find_discovery, discovery, stack, response, tod>>
      /\ ServedSilent \/ ServedHeard \/ ServedLost \/ NotServed
  BY DEF GatewayAnswers, Arrives, FrameLost, Served, ServedSilent, ServedHeard, ServedLost, NotServed,
         control, commands, search
<1>2. ~Missed
  BY <1>1 DEF Missed
<1>3. /\ state # "LateResponse"
      /\ Phase \in {"Unmute", "Discovery", "Quickfind", "QuickfindDiscovery"}
      /\ ~is_finished /\ ~do_incremental /\ OnlyOnce(tod)
  BY <1>2 DEF ProxyBefore, ProxyAt, DubPhase
<1> QED  BY <1>1, <1>2, <1>3 DEF Phase

\* An unmute reaches the gateway, or it is lost.
LEMMA UnmuteIsServed ==
    ASSUME ProxyBefore, GatewayAnswers, state = "Unmute"
    PROVE  ProxyAt'
<1>1. UnmutePhase /\ Phase = "Unmute"
  BY LineIs DEF ProxyBefore, ProxyAt
<1>2. wire = DiscUnMute /\ unmute.running
  BY <1>1, LineIs DEF UnmutePhase
<1>3. Fresh' /\ OnlyOnce(tod)' /\ unmute' = unmute /\ Phase' = "Unmute"
  BY <1>1, LineIs DEF UnmutePhase, Fresh, Ready, OnlyOnce, Phase
<1>4. Served.answer.kind = "none" /\ Served.tod.mutes = {}
  BY <1>2, ServesUnMute DEF ProxyBefore
<1>5. unmute.counter \in Nat
  BY DEF ProxyBefore, TypeOK, Counter
<1>6. CASE ServedSilent
  <2>1. ~rx'.complete /\ gateway'.mutes = {}
    BY <1>1, <1>4, <1>6 DEF ServedSilent, UnmutePhase
  <2> QED  BY <1>1, <1>2, <1>3, <2>1, LineIs DEF UnmutePhase, ProxyAt
<1>7. CASE NotServed
  <2>1. ~rx'.complete /\ gateway' = gateway /\ lost' = lost + 1
    BY <1>1, <1>7 DEF NotServed, UnmutePhase
  <2>2. gateway.mutes # {} => UnmuteCounter + 1 <= unmute.counter + lost'
    BY <1>1, <1>2, <1>5, <2>1, LineIs, Budget DEF UnmutePhase
  <2> QED  BY <1>1, <1>2, <1>3, <2>1, <2>2, LineIs DEF UnmutePhase, ProxyAt
<1> QED  BY <1>4, <1>6, <1>7, LineIs DEF ServedHeard, ServedLost

\* The first branch: nobody is muted, so the next UID answers.
LEMMA DiscoveryIsServed ==
    ASSUME ProxyBefore, GatewayAnswers, state = "Discovery"
    PROVE  ProxyAt'
<1>1. DiscoveryPhase /\ Phase = "Discovery"
  BY LineIs DEF ProxyBefore, ProxyAt
<1>2. discovery.running
  BY <1>1, LineIs DEF DiscoveryPhase
<1>3. /\ Whole /\ Ready /\ tod.tod = << >> /\ gateway.mutes = {} /\ wire = AskAll /\ ~rx.complete
      /\ DiscoveryCounter <= discovery.counter + lost
  BY <1>1, <1>2, LineIs, Budget DEF DiscoveryPhase
<1>4. Whole' /\ Ready' /\ tod'.tod = << >> /\ discovery' = discovery /\ Phase' = "Discovery" /\ OnlyOnce(tod)'
  BY <1>1, <1>3, LineIs DEF Whole, Ready, OnlyOnce, Phase
<1>5. /\ Following \in Unheard /\ Served.tod = [gateway EXCEPT !.saved_index = Following]
      /\ Served.answer = BranchAck(gateway.tod[Following])
  BY <1>3, ServesBranch DEF ProxyBefore, AskAll, Unheard
<1>6. discovery.counter \in Nat
  BY DEF ProxyBefore, TypeOK
<1>7. gateway' = gateway \/ gateway' = [gateway EXCEPT !.saved_index = Following]
  BY <1>5, LineIs DEF ServedSilent, ServedHeard, ServedLost, NotServed
<1>8. gateway'.mutes = {} /\ gateway'.tod = gateway.tod
  BY <1>3, <1>7 DEF ProxyBefore, GatewayOK
<1>9. CASE ServedHeard
  <2>1. gateway'.saved_index = Following
    BY <1>5, <1>9 DEF ServedHeard, ProxyBefore, GatewayOK
  <2>2. rx'.data = BranchAck(gateway.tod[Following]) /\ rx'.complete /\ lost' = lost
    BY <1>5, <1>9 DEF ServedHeard, FrameOf, BranchAck
  <2>3. Unheard' = Unheard
    BY <1>3, <1>8 DEF Unheard
  <2>4. Replied' /\ ~Missed'
    BY <1>5, <1>8, <2>1, <2>2, <2>3 DEF Replied, Missed
  <2> QED  BY <1>2, <1>3, <1>4, <1>6, <1>8, <2>2, <2>4, LineIs, Budget DEF DiscoveryPhase, ProxyAt
<1>10. CASE ServedLost \/ NotServed
  <2>1. lost' = lost + 1 /\ rx' = rx /\ Missed'
    BY <1>3, <1>10, LineIs DEF ServedLost, NotServed, Missed
  <2> QED  BY <1>2, <1>3, <1>4, <1>6, <1>8, <2>1, LineIs, Budget DEF DiscoveryPhase, ProxyAt
<1> QED  BY <1>5, <1>9, <1>10, LineIs DEF ServedSilent, BranchAck

\* A DISC_MUTE mutes the UID whether its acknowledgement is heard or not.
LEMMA QuickfindIsServed ==
    ASSUME ProxyBefore, GatewayAnswers, state = "Quickfind"
    PROVE  ProxyAt'
<1> DEFINE s == gateway.saved_index
           u == quick_find.uid
<1>1. QuickfindPhase /\ Phase = "Quickfind"
  BY LineIs DEF ProxyBefore, ProxyAt
<1>2. /\ quick_find.running /\ wire = DiscMute(u) /\ ~rx.complete /\ s # 0 /\ u = gateway.tod[s]
      /\ Whole /\ ~discovery.running /\ quick_find_discovery = NotRunning(QuikfindDiscoveryCounter)
      /\ Found = MutedEntries \ {u} /\ (lost = 0 => InOrder) /\ QuikfindCounter <= quick_find.counter + lost
  BY <1>1, LineIs, Budget DEF QuickfindPhase
<1>3. s \in 1 .. Stood /\ gateway.mutes \subseteq 1 .. Stood
  BY <1>2 DEF ProxyBefore, GatewayOK
<1>4. Served.answer = MuteAck(u) /\ Served.tod = [tod |-> gateway.tod, saved_index |-> s, mutes |-> gateway.mutes \cup {s}]
  BY <1>2, <1>3, ServesMute DEF ProxyBefore
<1>5. /\ Whole' /\ ~discovery'.running /\ quick_find_discovery' = NotRunning(QuikfindDiscoveryCounter)
      /\ quick_find' = quick_find /\ Phase' = "Quickfind" /\ OnlyOnce(tod)' /\ Found' = Found
  BY <1>1, <1>2, LineIs DEF Whole, OnlyOnce, Phase, Found, Table!Entries
<1>6. /\ gateway'.tod = gateway.tod /\ gateway'.saved_index = s
      /\ gateway'.mutes = gateway.mutes \/ gateway'.mutes = gateway.mutes \cup {s}
  BY <1>4, LineIs DEF ServedSilent, ServedHeard, ServedLost, NotServed
<1>7. Found' = MutedEntries' \ {u}
  <2>1. MutedEntries' \ {u} = MutedEntries \ {u}
    BY <1>2, <1>6 DEF MutedEntries
  <2> QED  BY <1>2, <1>5, <2>1
<1>8. quick_find.counter \in Nat
  BY DEF ProxyBefore, TypeOK
<1> HIDE DEF u
<1>9. CASE ServedHeard
  <2>1. rx'.data = MuteAck(u) /\ rx'.complete /\ lost' = lost /\ gateway'.mutes = gateway.mutes \cup {s}
    BY <1>4, <1>9 DEF ServedHeard, FrameOf, MuteAck
  <2>2. lost = 0 => InOrder'
    <3> SUFFICES ASSUME lost = 0, NEW i \in 1 .. Stood, NEW k \in 1 .. Stood,
                        i \in Unheard', i # s, Ahead(k)' < Ahead(i)'
                 PROVE  k \in Unheard'
      BY <1>6 DEF InOrder
    <3>1. \A j : Ahead(j)' = Ahead(j)
      BY <1>6 DEF Ahead
    <3>2. Unheard' = Unheard \ {s}
      BY <2>1 DEF Unheard
    <3>3. k \in Unheard
      BY <1>2, <3>1, <3>2 DEF InOrder
    <3>4. k # s
      <4>1. Ahead(s) = Stood /\ Ahead(i) \in 1 .. Stood
        BY <1>2, AheadIs DEF ProxyBefore
      <4> QED  BY <3>1, <4>1, Budget
    <3> QED  BY <3>2, <3>3, <3>4
  <2>3. ~Missed' /\ s \in gateway'.mutes
    BY <2>1 DEF Missed
  <2> QED  BY <1>2, <1>5, <1>6, <1>7, <1>8, <2>1, <2>2, <2>3, LineIs, Budget DEF QuickfindPhase, ProxyAt, u
<1>10. CASE ServedLost \/ NotServed
  <2>1. lost' = lost + 1 /\ rx' = rx /\ Missed'
    BY <1>2, <1>10, LineIs DEF ServedLost, NotServed, Missed
  <2>2. lost' # 0
    BY <2>1, Budget
  <2> QED  BY <1>2, <1>5, <1>6, <1>7, <1>8, <2>1, <2>2, LineIs, Budget DEF QuickfindPhase, ProxyAt, u
<1> QED  BY <1>4, <1>9, <1>10, LineIs DEF ServedSilent, MuteAck

\* The branch is asked again: the round robin goes on by one, and those that
\* are not muted stay in order as long as nothing was lost.
LEMMA OrderIsKept ==
    ASSUME ProxyBefore, InOrder, gateway.saved_index \in gateway.mutes,
           gateway' = [gateway EXCEPT !.saved_index = Following]
    PROVE  InOrder'
<1>1. gateway'.saved_index = Following /\ gateway'.mutes = gateway.mutes
  BY DEF ProxyBefore, GatewayOK
<1>2. Unheard' = Unheard
  BY <1>1 DEF Unheard
<1>3. GatewayOK /\ Proxied # {}
  BY DEF ProxyBefore
<1>4. /\ \A i \in 1 .. Stood : Ahead(i)' = IF i = Following THEN Stood ELSE Ahead(i) - 1
      /\ \A i \in 1 .. Stood : Ahead(i) \in 1 .. Stood
  BY <1>1, <1>3, AheadIs, AheadAfter
<1> SUFFICES ASSUME NEW i \in 1 .. Stood, NEW k \in 1 .. Stood,
                    i \in Unheard, i # Following, Ahead(k)' < Ahead(i)'
             PROVE  k \in Unheard
  BY <1>1, <1>2 DEF InOrder
<1>5. i # gateway.saved_index
  BY DEF Unheard
<1>6. Ahead(k) < Ahead(i)
  BY <1>4, Budget
<1> QED  BY <1>5, <1>6 DEF InOrder

\* Each silence, each lost answer and each lost request is accounted for.
LEMMA QfdIsServed ==
    ASSUME ProxyBefore, GatewayAnswers, state = "QuickfindDiscovery"
    PROVE  ProxyAt'
<1> DEFINE c == quick_find_discovery.counter
           a == Stood * (LossBudget - lost)
<1>1. QfdPhase /\ Phase = "QuickfindDiscovery"
  BY LineIs DEF ProxyBefore, ProxyAt
<1>2. /\ quick_find_discovery.running /\ wire = AskAll /\ ~rx.complete /\ c > 0
      /\ Whole /\ ~discovery.running /\ quick_find.counter = QuikfindCounter /\ ~quick_find.running
      /\ Found = MutedEntries /\ (lost = 0 => InOrder /\ gateway.saved_index \in gateway.mutes)
      /\ Unheard # {} => Awaited
  BY <1>1, LineIs DEF QfdPhase
<1>3. /\ Following \in 1 .. Stood /\ Served.tod = [gateway EXCEPT !.saved_index = Following]
      /\ Following \in Unheard => Served.answer = BranchAck(gateway.tod[Following])
      /\ Following \notin Unheard => Served.answer.kind = "none"
  BY <1>2, ServesBranch DEF ProxyBefore, AskAll
<1>4. gateway' = gateway \/ gateway' = [gateway EXCEPT !.saved_index = Following]
  BY <1>3, LineIs DEF ServedSilent, ServedHeard, ServedLost, NotServed
<1>5. gateway'.tod = gateway.tod /\ gateway'.mutes = gateway.mutes
  BY <1>4 DEF ProxyBefore, GatewayOK
<1>6. /\ Whole' /\ ~discovery'.running /\ quick_find' = quick_find /\ quick_find_discovery' = quick_find_discovery
      /\ Phase' = "QuickfindDiscovery" /\ OnlyOnce(tod)' /\ Found' = MutedEntries' /\ Unheard' = Unheard
  <2>1. Whole' /\ OnlyOnce(tod)' /\ Phase' = "QuickfindDiscovery"
    BY <1>1, <1>2, LineIs DEF Whole, OnlyOnce, Phase
  <2>2. Found' = Found /\ MutedEntries' = MutedEntries /\ Unheard' = Unheard
    BY <1>5, LineIs DEF Found, Table!Entries, MutedEntries, Unheard
  <2> QED  BY <1>2, <2>1, <2>2, LineIs
<1>7. c \in Nat /\ a \in Nat /\ Stood \in Nat /\ Stood > 0
  BY Rounds, Budget DEF ProxyBefore, TypeOK, Counter
<1>8. \A i \in Unheard : Ahead(i) \in 1 .. Stood
  BY AheadIs DEF ProxyBefore, Unheard
<1>9. Unheard # {} => \E i \in Unheard : a + Ahead(i) <= c
  <2>1. Questions = c - 0
    BY LineIs DEF Questions
  <2> QED  BY <1>2, <1>7, <2>1 DEF Awaited
<1> HIDE DEF Ahead
<1>10. CASE ServedHeard
  <2>1. Following \in Unheard /\ gateway' = [gateway EXCEPT !.saved_index = Following]
    BY <1>3, <1>10 DEF ServedHeard
  <2>2. gateway'.saved_index = Following
    BY <2>1 DEF ProxyBefore, GatewayOK
  <2>3. rx'.data = BranchAck(gateway.tod[Following]) /\ rx'.complete /\ lost' = lost
    BY <1>3, <1>10, <2>1 DEF ServedHeard, FrameOf, BranchAck
  <2>4. Replied'
    BY <1>5, <1>6, <2>1, <2>2, <2>3 DEF Replied
  <2>5. lost = 0 => InOrder'
    BY <1>2, <2>1, OrderIsKept
  <2> QED  BY <1>2, <1>6, <2>3, <2>4, <2>5, LineIs DEF QfdPhase, ProxyAt
<1>11. CASE ~ServedHeard
  <2>1. rx' = rx /\ Missed' /\ ~rx'.complete
    BY <1>2, <1>11, LineIs DEF ServedSilent, ServedLost, NotServed, Missed
  <2>2. Questions' = c - 1
    BY <1>2, <1>6, <2>1 DEF Questions
  <2>3. ASSUME Unheard # {}  PROVE Awaited'
    <3>1. PICK i \in Unheard : a + Ahead(i) <= c
      BY <1>9, <2>3
    <3>2. i \in 1 .. Stood /\ Ahead(i) \in 1 .. Stood
      BY <1>8 DEF Unheard
    <3>3. CASE ServedSilent
      <4>1. Following \notin Unheard /\ lost' = lost /\ gateway'.saved_index = Following
        BY <1>3, <3>3 DEF ServedSilent, BranchAck, ProxyBefore, GatewayOK
      <4>2. Ahead(i)' = Ahead(i) - 1
        BY <3>2, <4>1, AheadAfter DEF ProxyBefore
      <4>3. a + Ahead(i)' <= Questions' /\ i \in Unheard'
        BY <1>6, <1>7, <2>2, <3>1, <3>2, <4>2
      <4> QED  BY <4>1, <4>3 DEF Awaited
    <3>4. CASE ServedLost
      <4> DEFINE f == Following
      <4>1. f \in Unheard /\ lost' = lost + 1 /\ lost < LossBudget /\ gateway'.saved_index = f /\ f \in 1 .. Stood
        BY <1>3, <3>4 DEF ServedLost, ProxyBefore, GatewayOK
      <4>2. PICK j \in 1 .. Stood : j = f
        BY <4>1
      <4>3. Ahead(j)' = Stood
        BY <4>1, <4>2, AheadAfter DEF ProxyBefore
      <4>4. Stood * (LossBudget - lost') = a - Stood
        BY <4>1, Rounds
      <4>5. (a - Stood) + Ahead(j)' <= Questions' /\ j \in Unheard'
        BY <1>6, <1>7, <2>2, <3>1, <3>2, <4>1, <4>2, <4>3
      <4> QED  BY <4>4, <4>5 DEF Awaited
    <3>5. CASE NotServed
      <4>1. lost' = lost + 1 /\ lost < LossBudget /\ gateway' = gateway
        BY <3>5 DEF NotServed
      <4>2. Ahead(i)' = Ahead(i)
        BY <4>1 DEF Ahead
      <4>3. Stood * (LossBudget - lost') = a - Stood
        BY <4>1, Rounds
      <4>4. (a - Stood) + Ahead(i)' <= Questions' /\ i \in Unheard'
        BY <1>6, <1>7, <2>2, <3>1, <3>2, <4>2
      <4> QED  BY <4>3, <4>4 DEF Awaited
    <3> QED  BY <1>11, <3>3, <3>4, <3>5, LineIs
  <2>4. lost' = 0 => InOrder' /\ gateway'.saved_index \in gateway'.mutes
    <3>1. CASE ServedSilent
      <4>1. Following \notin Unheard /\ lost' = lost /\ gateway' = [gateway EXCEPT !.saved_index = Following]
        BY <1>3, <3>1 DEF ServedSilent, BranchAck
      <4>2. gateway'.saved_index = Following /\ Following \in gateway'.mutes
        BY <1>3, <1>5, <4>1 DEF Unheard, ProxyBefore, GatewayOK
      <4> QED  BY <1>2, <4>1, <4>2, OrderIsKept
    <3>2. CASE ServedLost \/ NotServed
      BY <3>2, Budget DEF ServedLost, NotServed
    <3> QED  BY <1>11, <3>1, <3>2, LineIs
  <2> QED  BY <1>2, <1>6, <2>1, <2>3, <2>4, LineIs DEF QfdPhase, ProxyAt
<1> QED  BY <1>10, <1>11
-----------------------------------------------------------------------------
\* At the start nothing has been found and nothing is under way.
LEMMA ProxyAtStart ==
    ASSUME ProxyInit
    PROVE  EmptyInv /\ ProxyInv
<1>1. state = "Idle" /\ ~is_finished /\ ~do_incremental /\ tod.tod = << >> /\ wire = Quiet /\ ~rx.complete
  BY DEF ProxyInit, Init, Table!Reset
<1> QED  BY <1>1 DEF EmptyInv, ProxyInv, ProxyAt, OnlyOnce, Phase, Missed

\* Every step keeps what is known of the discovery.
LEMMA ProxyStep ==
    ASSUME TypeOK, GatewayOK, ProxyInv, [ProxyNext]_proxyVars
    PROVE  ProxyInv'
<1> SUFFICES ASSUME EnoughRetries, Proxied # {}  PROVE ProxyAt'
  BY DEF ProxyInv
<1>1. ProxyBefore
  BY DEF ProxyBefore, ProxyInv
<1>2. CASE ProxyFull
  BY <1>1, <1>2, FullServes
<1>3. CASE ProxyProcess
  BY <1>1, <1>3, ProcessServes DEF ProxyProcess, ProxySame
<1>4. CASE GatewayAnswers
  BY <1>1, <1>4, LineIs, UnmuteIsServed, DiscoveryIsServed, QuickfindIsServed, QfdIsServed
<1>5. CASE UNCHANGED proxyVars
  <2>1. UNCHANGED <<state, saved_state, is_finished, do_incremental, unmute, quick_find, quick_find_discovery,
                    discovery, stack, response, tod, wire, rx, gateway, lost>>
    BY <1>5 DEF proxyVars, vars, control, commands, search, port
  <2>2. UNCHANGED <<Found, Unheard, MutedEntries, Replied, Fresh, Ready, Whole, Missed, InOrder, Awaited, Phase>>
    BY <2>1 DEF Found, Unheard, MutedEntries, Replied, Fresh, Ready, Whole, Missed, InOrder, Awaited,
                Table!Entries, Questions, Ahead, Phase
  <2>3. UNCHANGED <<UnmutePhase, DiscoveryPhase, DubPhase, QuickfindPhase, QfdPhase>>
    BY <2>1, <2>2 DEF UnmutePhase, DiscoveryPhase, DubPhase, QuickfindPhase, QfdPhase
  <2> QED  BY <1>1, <2>1, <2>2, <2>3 DEF ProxyBefore, ProxyAt, OnlyOnce
<1> QED  BY <1>2, <1>3, <1>4, <1>5 DEF ProxyNext

\* What is known of a discovery that has ended.
LEMMA EndsWithAll ==
    ASSUME TypeOK, EmptyInv, ProxyInv
    PROVE  ProxiedAllFound
<1> SUFFICES ASSUME EnoughRetries, is_finished  PROVE Table!Entries(tod) = Proxied
  BY DEF ProxiedAllFound
<1>1. CASE Proxied = {}
  <2>1. Len(tod.tod) = 0
    BY <1>1 DEF EmptyInv
  <2> QED  BY <1>1, <2>1 DEF Table!Entries
<1>2. CASE Proxied # {}
  BY <1>2 DEF ProxyInv, ProxyAt, Found
<1> QED  BY <1>1, <1>2

\* Every UID a gateway stands in for is in the table when a discovery through
\* it has ended: for every table of the gateway, whatever its order, its saved
\* position and its mutes, every value of the counters and every number of
\* lost frames for which EnoughRetries holds.
THEOREM GatewayIsFound == ProxySpec => []ProxiedAllFound
<1> DEFINE I == TypeOK /\ BranchesInv /\ GatewayOK /\ EmptyInv /\ ProxyInv
<1>1. ProxyInit => I
  BY ProxyStarts, ProxyAtStart, TypeInit, BranchesInit
<1>2. I /\ [ProxyNext]_proxyVars => I'
  BY ProxyRefines, EmptyStep, ProxyStep, TypeStep, BranchesStep
<1>3. I => ProxiedAllFound
  BY EndsWithAll
<1> QED  BY <1>1, <1>2, <1>3, PTL DEF ProxySpec
=============================================================================

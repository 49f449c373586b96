------------------------ MODULE ConfigStore_proofs --------------------------
(***************************************************************************)
(* Theorems of ConfigStore, for a store and a firmware of any size and any *)
(* number of updates, installations and failures of the power.  StoreInv   *)
(* is the inductive invariant: for whom the driver is at work and how far  *)
(* it is (Driver); then, until a write is taken for an erase, what the     *)
(* page of the store holds whoever called the driver (StoreHolds), what it *)
(* holds when no chunk of firmware came while it was written (Undisturbed) *)
(* and what the page of the firmware holds when the driver did nothing for *)
(* the store in its place (Unspoilt).                                      *)
(***************************************************************************)
EXTENDS ConfigStore, TLAPS, SequenceTheorems

Value == {Magic, Erased, Garbage} \cup Nat
Page  == StorePage \cup ImagePage
N     == Len(Firmware)

FmcTypes ==
    /\ fmc = [state |-> fmc.state, at |-> fmc.at, left |-> fmc.left]
    /\ fmc.at \in Nat /\ fmc.left \in Nat

Types ==
    /\ store \in [Word -> Value] /\ taken \in [Word -> Value] /\ flash \in [Page -> Value]
    /\ state \in {"Idle", "Changed", "ChangedWaiting", "Erasing", "ErasedWaiting", "Erased", "Writing"}
    /\ cpu \in {"loop", "reboot", "erase", "write"}
    /\ FmcTypes
    /\ updates \in Nat /\ sized \in BOOLEAN /\ disturbed \in BOOLEAN /\ spoilt \in BOOLEAN /\ misled \in BOOLEAN
    /\ written \in 0 .. N /\ chunk \in Nat
    /\ cpu = "erase" => written = 0
    /\ cpu = "write" => sized /\ chunk > 0 /\ written + chunk <= N

\* The driver is writing the store, or the firmware.
WritesStore    == fmc.state \in Writing /\ fmc.at <= Words
WritesFirmware == fmc.state \in Writing /\ fmc.at > Words
Blank(page)    == \A a \in page : flash[a] = Erased
PageOf(a)      == IF a \in StorePage THEN StorePage ELSE ImagePage
Programming    == IF fmc.state = "WriteProgram" THEN 1 ELSE 0

\* An erase, of a driver that has not been misled.  Only the installation,
\* which has the processor until it is done, leaves the driver in the page of
\* the firmware.
Erasure ==
    /\ fmc.state # "Astray"
    /\ fmc.state \in Erasing =>
          /\ fmc.at \in {0, Words + 1} /\ (fmc.at = Words + 1 => cpu = "erase")
          /\ fmc.left \in {0, 1}
          /\ fmc.state = "EraseBusy" /\ fmc.left = 0 => Blank(PageOf(fmc.at))

\* Where the driver is.
Driver ==
    /\ fmc.state \in {"Idle", "Astray"} \cup Erasing \cup Writing
    /\ fmc.state = "WriteProgram" => fmc.left > 0
    /\ WritesStore => fmc.at + fmc.left = Words + Programming /\ fmc.at >= Programming
    /\ WritesFirmware => /\ cpu = "write" /\ fmc.at > Words + written + Programming
                         /\ fmc.at + fmc.left = Words + 1 + written + chunk + Programming
    /\ ~misled => Erasure

\* What the page of the store holds, in the states of ConfigStore.
StoreHolds ==
    /\ state \in {"ErasedWaiting", "Erased"} => ~WritesStore /\ \A w \in Word : flash[w + 1] = Erased
    /\ state = "Writing" =>
          \A w \in Word : /\ flash[w + 1] \in {Erased, store[w]}
                          /\ WritesStore /\ w + fmc.left < Words => flash[w + 1] = store[w]
    /\ state = "Idle" =>
          /\ ~WritesStore /\ (fmc.state \in Erasing => fmc.at # 0)
          /\ \A w \in Word : flash[w + 1] = store[w]

\* What it holds when no chunk found the store being written.
Undisturbed ==
    /\ \A w \in Word : flash[w + 1] \in {Erased, taken[w]}
    /\ state = "Writing" /\ WritesStore => \A w \in Word : taken[w] = store[w]
    /\ cpu = "write" => ~WritesStore

\* What is in the page of the firmware at the word of number i, the first left
\* out.
ImageHolds(i) ==
    /\ flash[Words + 1 + i] \in {Erased, Firmware[i]}
    /\ i <= written => flash[Words + 1 + i] = Firmware[i]
    /\ WritesFirmware /\ i + fmc.left <= written + chunk => flash[Words + 1 + i] = Firmware[i]

\* What the page of the firmware holds when the driver did nothing else in its
\* place.
Unspoilt ==
    /\ cpu = "erase" => (fmc.state \in Erasing => fmc.at = Words + 1)
    /\ cpu = "write" => ~WritesStore
    /\ sized /\ cpu # "erase" => \A i \in 1 .. N : ImageHolds(i)

Contents == StoreHolds /\ (~disturbed => Undisturbed) /\ (~spoilt => Unspoilt)
Good     == Types /\ Driver /\ (~misled => Contents)
StoreInv == failures \in Nat /\ Good
-----------------------------------------------------------------------------
\* The two pages.
LEMMA Pages ==
    /\ Words \in Nat /\ Words > 0 /\ N \in Nat /\ N > 0
    /\ 0 \in StorePage /\ Words + 1 \notin StorePage /\ Words + 1 # 0
    /\ \A w \in Word : w \in Nat /\ w + 1 \in StorePage /\ w + 1 \in Page /\ w + 1 <= Words
    /\ \A i \in 1 .. N : Words + 1 + i \in ImagePage /\ Words + 1 + i \notin StorePage /\ Words + 1 + i \in Page
    /\ \A i \in 1 .. N : Firmware[i] \in Nat
    /\ \A a \in Page : a \in Nat /\ (a \in StorePage <=> a <= Words) /\ (a \in ImagePage <=> a > Words)
    /\ StorePage \subseteq Page /\ ImagePage \subseteq Page
<1>1. Words \in Nat /\ Words > 0 /\ Firmware \in Seq(Nat)
  BY StoreAssumption
<1>2. N \in Nat /\ N > 0 /\ \A i \in 1 .. N : Firmware[i] \in Nat
  BY <1>1, StoreAssumption, LenProperties, EmptySeq, ElementOfSeq DEF N
<1> QED  BY <1>1, <1>2 DEF Word, StorePage, ImagePage, Page, N

\* One call of the erasure.
Erases(a) ==
    \/ /\ fmc.state \in {"Idle"} \cup Writing /\ fmc'.state = "EraseBusy" /\ fmc'.at = a /\ fmc'.left = 1
       /\ flash' = flash /\ misled' = misled
    \/ fmc.state = "EraseBusy" /\ fmc.left = 0 /\ fmc'.state = "Idle" /\ flash' = flash /\ misled' = misled
    \/ /\ fmc.state = "EraseBusy" /\ fmc.left # 0 /\ fmc'.state = "EraseProgram"
       /\ fmc'.at = fmc.at /\ fmc'.left = fmc.left /\ flash' = flash /\ misled' = misled
    \/ /\ fmc.state = "EraseProgram" /\ fmc'.state = "EraseBusy" /\ fmc'.at = fmc.at /\ fmc'.left = 0
       /\ flash' = [b \in Page |-> IF b \in PageOf(fmc.at) THEN Erased ELSE flash[b]] /\ misled' = misled
    \/ fmc'.state \in {"Idle", "EraseBusy", "Astray"} /\ misled' = TRUE
    \/ fmc.state = "Astray" /\ fmc'.state = "Astray" /\ misled' = misled

LEMMA ErasedPage ==
    ASSUME Types, NEW a
    PROVE  /\ PageErased(a) = [b \in Page |-> IF b \in PageOf(a) THEN Erased ELSE flash[b]]
           /\ PageErased(a) \in [Page -> Value]
<1>1. DOMAIN flash = Page
  BY DEF Types
<1> QED  BY <1>1 DEF PageErased, PageOf, Types, Value

LEMMA EraseEffect ==
    ASSUME Types, NEW a \in Nat, EraseCall(a)
    PROVE  Erases(a) /\ FmcTypes' /\ flash' \in [Page -> Value] /\ misled' \in BOOLEAN
<1>1. FmcTypes /\ flash \in [Page -> Value] /\ misled \in BOOLEAN
  BY DEF Types
<1>2. /\ EraseBegun(a) = [state |-> "EraseBusy", at |-> a, left |-> 1]
      /\ EraseOver = [state |-> "EraseBusy", at |-> fmc.at, left |-> 0]
      /\ Quiet = [state |-> "Idle", at |-> 0, left |-> 0]
  BY DEF EraseBegun, EraseOver, Quiet
<1>3. CASE fmc.state = "Idle" /\ fmc' = EraseBegun(a) /\ UNCHANGED <<flash, misled>>
  BY <1>1, <1>2, <1>3 DEF Erases, FmcTypes
<1>4. CASE /\ fmc.state = "EraseBusy" /\ UNCHANGED <<flash, misled>>
           /\ fmc' = IF fmc.left = 0 THEN Quiet ELSE [fmc EXCEPT !.state = "EraseProgram"]
  <2>1. [fmc EXCEPT !.state = "EraseProgram"] = [state |-> "EraseProgram", at |-> fmc.at, left |-> fmc.left]
    BY <1>1 DEF FmcTypes
  <2>2. CASE fmc.left = 0
    BY <1>1, <1>2, <1>4, <2>2 DEF Erases, FmcTypes
  <2>3. CASE fmc.left # 0
    BY <1>1, <1>4, <2>1, <2>3 DEF Erases, FmcTypes
  <2> QED  BY <2>2, <2>3
<1>5. CASE fmc.state = "EraseProgram" /\ fmc' = EraseOver /\ flash' = PageErased(fmc.at) /\ UNCHANGED misled
  BY <1>1, <1>2, <1>5, ErasedPage DEF Erases, FmcTypes
<1>6. CASE EraseUnreachable(a)
  <2>1. CASE fmc' = EraseBegun(a) /\ UNCHANGED <<flash, misled>>
    BY <1>1, <1>2, <1>6, <2>1 DEF EraseUnreachable, Erases, FmcTypes
  <2>2. CASE fmc' \in {Quiet, EraseOver} /\ misled' = TRUE /\ UNCHANGED flash
    <3>1. FmcTypes' /\ fmc'.state \in {"Idle", "EraseBusy"}
      <4>1. CASE fmc' = Quiet
        BY <1>2, <4>1 DEF FmcTypes
      <4>2. CASE fmc' = EraseOver
        BY <1>1, <1>2, <4>2 DEF FmcTypes
      <4> QED  BY <2>2, <4>1, <4>2
    <3> QED  BY <1>1, <2>2, <3>1 DEF Erases
  <2>3. CASE fmc' = [fmc EXCEPT !.state = "Astray"] /\ misled' = TRUE /\ UNCHANGED flash
    <3>1. [fmc EXCEPT !.state = "Astray"] = [state |-> "Astray", at |-> fmc.at, left |-> fmc.left]
      BY <1>1 DEF FmcTypes
    <3> QED  BY <1>1, <2>3, <3>1 DEF Erases, FmcTypes
  <2> QED  BY <1>6, <2>1, <2>2, <2>3 DEF EraseUnreachable
<1>7. CASE EraseAstray
  BY <1>1, <1>7, ErasedPage DEF EraseAstray, Erases, FmcTypes
<1> QED  BY <1>3, <1>4, <1>5, <1>6, <1>7 DEF EraseCall

\* One call of the programming.  The word is the next of the store, as it is
\* now, or of the firmware.
Programs(word) == flash' = [flash EXCEPT ![fmc.at] = IF @ \in {Erased, word} THEN word ELSE Garbage]

Writes(a, size) ==
    \/ /\ fmc.state = "Idle" /\ fmc'.state = "WriteBusy" /\ fmc'.at = a /\ fmc'.left = size
       /\ flash' = flash
    \/ fmc.state = "WriteBusy" /\ fmc.left = 0 /\ fmc'.state = "Idle" /\ flash' = flash
    \/ /\ fmc.state = "WriteBusy" /\ fmc.left # 0 /\ fmc'.state = "WriteProgram"
       /\ fmc'.at = fmc.at + 1 /\ fmc'.left = fmc.left /\ flash' = flash
    \/ /\ fmc.state = "WriteProgram" /\ fmc'.state = "WriteBusy" /\ fmc'.at = fmc.at
       /\ fmc'.left = fmc.left - 1 /\ Programs(Source(fmc.at))
    \/ fmc.state \in Erasing \cup {"Astray"} /\ fmc'.state = "Idle" /\ flash' = flash

\* The word that is programmed next.
LEMMA NextWord ==
    ASSUME Types, Driver, fmc.state = "WriteProgram"
    PROVE  /\ fmc.at \in Nat /\ fmc.left \in Nat /\ fmc.left > 0
           /\ WritesStore \/ WritesFirmware
           /\ WritesStore => /\ fmc.at - 1 \in Word /\ Source(fmc.at) = store[fmc.at - 1]
                             /\ fmc.at + fmc.left = Words + 1
           /\ WritesFirmware =>
                 /\ fmc.at - (Words + 1) \in 1 .. N /\ Source(fmc.at) = Firmware[fmc.at - (Words + 1)]
                 /\ fmc.at + fmc.left = Words + 1 + written + chunk + 1
                 /\ fmc.at > Words + written + 1
           /\ Source(fmc.at) \in Value
<1>1. fmc.at \in Nat /\ fmc.left \in Nat /\ fmc.left > 0 /\ fmc.state \in Writing
  BY DEF Types, FmcTypes, Driver, Writing
<1>2. WritesStore \/ WritesFirmware
  BY <1>1, Pages DEF WritesStore, WritesFirmware
<1>3. ASSUME WritesStore
      PROVE  /\ fmc.at - 1 \in Word /\ Source(fmc.at) = store[fmc.at - 1]
             /\ fmc.at + fmc.left = Words + 1 /\ store[fmc.at - 1] \in Value
  <2>1. fmc.at + fmc.left = Words + 1 /\ fmc.at <= Words /\ fmc.at >= 1
    BY <1>3 DEF Driver, Programming, WritesStore
  <2>2. fmc.at \in StorePage
    BY <1>1, <2>1, Pages DEF StorePage
  <2>3. fmc.at - 1 \in Word
    BY <1>1, <1>3, <2>1, Pages DEF Word
  <2> QED  BY <2>1, <2>2, <2>3 DEF Source, Types
<1>4. ASSUME WritesFirmware
      PROVE  /\ fmc.at - (Words + 1) \in 1 .. N /\ Source(fmc.at) = Firmware[fmc.at - (Words + 1)]
             /\ fmc.at + fmc.left = Words + 1 + written + chunk + 1
             /\ fmc.at > Words + written + 1
  <2>1. /\ fmc.at + fmc.left = Words + 1 + written + chunk + 1 /\ cpu = "write"
        /\ fmc.at > Words + written + 1
    BY <1>4 DEF Driver, Programming
  <2>2. written + chunk <= N /\ written \in Nat /\ chunk \in Nat
    BY <2>1, Pages DEF Types
  <2>3. fmc.at \notin StorePage
    BY <1>1, <2>1, <2>2, Pages DEF StorePage
  <2>4. fmc.at - (Words + 1) \in 1 .. N
    BY <1>1, <2>1, <2>2, Pages
  <2> QED  BY <2>1, <2>3, <2>4 DEF Source
<1> QED  BY <1>1, <1>2, <1>3, <1>4, Pages DEF Value

LEMMA WriteEffect ==
    ASSUME Types, Driver, NEW a \in Nat, NEW size \in Nat, WriteCall(a, size)
    PROVE  Writes(a, size) /\ FmcTypes' /\ flash' \in [Page -> Value]
<1>1. FmcTypes /\ flash \in [Page -> Value]
  BY DEF Types
<1>2. Quiet = [state |-> "Idle", at |-> 0, left |-> 0]
  BY DEF Quiet
<1>3. CASE fmc.state = "Idle" /\ fmc' = [state |-> "WriteBusy", at |-> a, left |-> size] /\ UNCHANGED flash
  BY <1>1, <1>3 DEF Writes, FmcTypes
<1>4. CASE /\ fmc.state = "WriteBusy" /\ UNCHANGED flash
           /\ fmc' = IF fmc.left = 0 THEN Quiet ELSE [fmc EXCEPT !.state = "WriteProgram", !.at = @ + 1]
  <2>1. CASE fmc.left = 0
    BY <1>1, <1>2, <1>4, <2>1 DEF Writes, FmcTypes
  <2>2. CASE fmc.left # 0
    <3>1. fmc' = [state |-> "WriteProgram", at |-> fmc.at + 1, left |-> fmc.left]
      BY <1>1, <1>4, <2>2 DEF FmcTypes
    <3>2. fmc'.state = "WriteProgram" /\ fmc'.at = fmc.at + 1 /\ fmc'.left = fmc.left /\ FmcTypes'
      BY <1>1, <3>1 DEF FmcTypes
    <3> QED  BY <1>1, <1>4, <2>2, <3>2 DEF Writes
  <2> QED  BY <2>1, <2>2
<1>5. CASE /\ fmc.state = "WriteProgram" /\ fmc' = [fmc EXCEPT !.state = "WriteBusy", !.left = @ - 1]
           /\ Programs(Source(fmc.at))
  <2>1. fmc.left > 0 /\ Source(fmc.at) \in Value
    BY <1>5, NextWord
  <2>2. fmc' = [state |-> "WriteBusy", at |-> fmc.at, left |-> fmc.left - 1]
    BY <1>1, <1>5 DEF FmcTypes
  <2>3. flash' \in [Page -> Value]
    BY <1>1, <1>5, <2>1 DEF Programs, Value
  <2>4. fmc'.state = "WriteBusy" /\ fmc'.at = fmc.at /\ fmc'.left = fmc.left - 1 /\ FmcTypes'
    BY <1>1, <2>1, <2>2 DEF FmcTypes
  <2> QED  BY <1>5, <2>3, <2>4 DEF Writes
<1>6. CASE fmc.state \in Erasing \cup {"Astray"} /\ fmc' = Quiet /\ UNCHANGED flash
  BY <1>1, <1>2, <1>6 DEF Writes, FmcTypes
<1> QED  BY <1>3, <1>4, <1>5, <1>6 DEF WriteCall, Programs
-----------------------------------------------------------------------------
\* An update changes the store in RAM, and what is written is not written on.
LEMMA StoredStep ==
    ASSUME Good, Stored, store' \in [Word -> Value]
    PROVE  Good'
<1>1. /\ state' = "Changed" /\ updates' \in Nat
      /\ UNCHANGED <<flash, fmc, cpu, install, taken, disturbed, misled>>
      /\ UNCHANGED <<sized, written, chunk, spoilt>> /\ cpu = "loop"
  BY DEF Stored, SetStatusChanged, Good, Types, install
<1>2. Types'
  BY <1>1 DEF Good, Types, FmcTypes
<1>3. Driver' /\ WritesStore' = WritesStore /\ WritesFirmware' = WritesFirmware
  BY <1>1 DEF Good, Driver, Erasure, WritesStore, WritesFirmware, Blank, Programming
<1>4. ASSUME ~misled  PROVE  Contents'
  BY <1>1, <1>3, <1>4 DEF Good, Contents, StoreHolds, Undisturbed, Unspoilt, ImageHolds
<1> QED  BY <1>1, <1>2, <1>3, <1>4 DEF Good

\* Booting begins anew, the driver being quiet and the store changed.
LEMMA BootStep ==
    ASSUME Good, Boot, UNCHANGED flash, updates' = updates
    PROVE  Good'
<1>1. /\ store' = Default /\ state' = "Changed" /\ cpu' = "loop"
      /\ fmc' = [state |-> "Idle", at |-> 0, left |-> 0]
      /\ sized' = FALSE /\ written' = 0 /\ chunk' = 0 /\ spoilt' = FALSE
      /\ taken' = [w \in Word |-> flash[w + 1]] /\ disturbed' = FALSE /\ misled' = FALSE /\ flash' = flash
  BY DEF Boot, Quiet, Saved
<1>2. taken' \in [Word -> Value] /\ Default \in [Word -> Value]
  BY <1>1, Pages DEF Good, Types, Default, Value
<1>3. FmcTypes' /\ fmc'.state = "Idle"
  BY <1>1 DEF FmcTypes
<1>4. Types'
  <2>1. written' \in 0 .. N
    BY <1>1, Pages
  <2> QED  BY <1>1, <1>2, <1>3, <2>1 DEF Good, Types
<1>5. ~WritesStore' /\ ~WritesFirmware' /\ Driver'
  BY <1>3 DEF WritesStore, WritesFirmware, Driver, Erasure, Writing, Erasing
<1>6. Contents'
  BY <1>1, <1>3, <1>5 DEF Contents, StoreHolds, Undisturbed, Unspoilt
<1> QED  BY <1>4, <1>5, <1>6 DEF Good

\* The calls of Flash in which nothing is done but waiting.
LEMMA WaitStep ==
    ASSUME Good, NEW wait \in FlashWaits, state = wait.from, state' = wait.to,
           UNCHANGED <<store, flash, fmc, cpu, sized, written, chunk, spoilt, taken, disturbed, misled, updates>>
    PROVE  Good'
<1>1. \/ state = "Changed" /\ state' = "ChangedWaiting"
      \/ state = "ChangedWaiting" /\ state' = "Erasing"
      \/ state = "ErasedWaiting" /\ state' = "Erased"
      \/ state = "Erased" /\ state' = "Writing"
  BY DEF FlashWaits
<1>2. Types'
  BY <1>1 DEF Good, Types, FmcTypes
<1>3. Driver' /\ WritesStore' = WritesStore /\ WritesFirmware' = WritesFirmware
  BY DEF Good, Driver, Erasure, WritesStore, WritesFirmware, Blank, Programming
<1>4. ASSUME ~misled  PROVE  Contents'
  <2>1. StoreHolds'
    BY <1>1, <1>3, <1>4 DEF Good, Contents, StoreHolds
  <2>2. ~disturbed => Undisturbed'
    BY <1>1, <1>3, <1>4 DEF Good, Contents, StoreHolds, Undisturbed
  <2>3. ~spoilt => Unspoilt'
    BY <1>3, <1>4 DEF Good, Contents, Unspoilt, ImageHolds
  <2> QED  BY <2>1, <2>2, <2>3 DEF Contents
<1> QED  BY <1>2, <1>3, <1>4 DEF Good

\* A call of the erasure leaves the driver where Driver says, and erases pages.
LEMMA EraseDriver ==
    ASSUME Good, NEW a \in {0, Words + 1}, Erases(a), misled' \in BOOLEAN,
           a = Words + 1 => cpu = "erase", fmc'.state # "Idle" => cpu' = cpu
    PROVE  /\ Driver' /\ ~WritesStore' /\ ~WritesFirmware'
           /\ ~misled' => ~misled /\ fmc'.state \in {"Idle"} \cup Erasing
<1>1. fmc'.state \in {"Idle", "Astray"} \cup Erasing
  BY DEF Erases, Erasing
<1>2. ~WritesStore' /\ ~WritesFirmware' /\ fmc'.state # "WriteProgram"
  BY <1>1 DEF WritesStore, WritesFirmware, Writing, Erasing
<1>3. ASSUME ~misled'  PROVE  ~misled /\ Erasure' /\ fmc'.state \in {"Idle"} \cup Erasing
  <2>1. ~misled
    BY <1>3 DEF Erases
  <2>2. Erasure
    BY <2>1 DEF Good, Driver
  <2>3. CASE fmc'.state = "Idle"
    BY <2>1, <2>3 DEF Erasure, Erasing
  <2>4. CASE fmc.state \in {"Idle"} \cup Writing /\ fmc'.state # "Idle"
    <3>1. fmc'.state = "EraseBusy" /\ fmc'.at = a /\ fmc'.left = 1 /\ cpu' = cpu
      BY <1>3, <2>4 DEF Erases, Writing
    <3> QED  BY <2>1, <3>1 DEF Erasure, Erasing
  <2>5. CASE fmc.state = "EraseBusy" /\ fmc'.state # "Idle"
    <3>1. fmc'.state = "EraseProgram" /\ fmc'.at = fmc.at /\ fmc'.left = fmc.left /\ cpu' = cpu
      BY <1>3, <2>5 DEF Erases, Writing
    <3> QED  BY <2>1, <2>2, <2>5, <3>1 DEF Erasure, Erasing
  <2>6. CASE fmc.state = "EraseProgram"
    <3>1. /\ fmc'.state = "EraseBusy" /\ fmc'.at = fmc.at /\ fmc'.left = 0 /\ cpu' = cpu
          /\ flash' = [b \in Page |-> IF b \in PageOf(fmc.at) THEN Erased ELSE flash[b]]
      BY <1>3, <2>6 DEF Erases, Writing
    <3>2. \A b \in PageOf(fmc.at) : flash'[b] = Erased
      BY <3>1, Pages DEF PageOf
    <3> QED  BY <2>1, <2>2, <2>6, <3>1, <3>2 DEF Erasure, Erasing, Blank, PageOf
  <2>7. fmc.state \in {"Idle", "EraseBusy", "EraseProgram"} \cup Writing
    BY <2>2 DEF Good, Driver, Erasure, Erasing
  <2> QED  BY <2>3, <2>4, <2>5, <2>6, <2>7
<1> QED  BY <1>1, <1>2, <1>3 DEF Driver

\* What the erasure does to the two pages, in a driver that is not misled.
LEMMA EraseContents ==
    ASSUME Good, NEW a \in {0, Words + 1}, Erases(a), ~misled', ~misled
    PROVE  /\ \A w \in Word : flash'[w + 1] \in {Erased, flash[w + 1]}
           /\ ~(fmc.state \in Erasing /\ fmc.at = 0) => \A w \in Word : flash'[w + 1] = flash[w + 1]
           /\ ~(fmc.state \in Erasing /\ fmc.at = Words + 1) => \A b \in ImagePage : flash'[b] = flash[b]
           /\ fmc'.state = "Idle" =>
                 /\ fmc.state \in Erasing /\ flash' = flash
                 /\ fmc.at = 0 => \A w \in Word : flash'[w + 1] = Erased
                 /\ fmc.at = Words + 1 => \A i \in 1 .. N : flash'[Words + 1 + i] = Erased
<1>1. Erasure
  BY DEF Good, Driver
<1>2. CASE fmc.state = "EraseProgram"
  <2>1. fmc'.state = "EraseBusy" /\ flash' = [b \in Page |-> IF b \in PageOf(fmc.at) THEN Erased ELSE flash[b]]
    BY <1>2 DEF Erases, Writing
  <2>2. fmc.at \in {0, Words + 1} /\ fmc.state \in Erasing
    BY <1>1, <1>2 DEF Erasure, Erasing
  <2>3. \A b \in ImagePage : b \notin StorePage /\ b \in Page
    BY Pages
  <2>4. \A w \in Word : w + 1 \in StorePage /\ w + 1 \notin ImagePage /\ w + 1 \in Page
    BY Pages
  <2>5. CASE fmc.at = 0
    BY <2>1, <2>2, <2>3, <2>4, <2>5, Pages DEF PageOf
  <2>6. CASE fmc.at = Words + 1
    BY <2>1, <2>2, <2>3, <2>4, <2>6, Pages DEF PageOf
  <2> QED  BY <2>2, <2>5, <2>6
<1>3. CASE fmc.state # "EraseProgram"
  <2>1. flash' = flash
    BY <1>1, <1>3 DEF Erases, Erasure
  <2>2. ASSUME fmc'.state = "Idle"
        PROVE  /\ fmc.state \in Erasing
               /\ fmc.at = 0 => \A w \in Word : flash[w + 1] = Erased
               /\ fmc.at = Words + 1 => \A i \in 1 .. N : flash[Words + 1 + i] = Erased
    <3>1. fmc.state = "EraseBusy" /\ fmc.left = 0
      BY <1>1, <1>3, <2>2 DEF Erases, Erasure
    <3>2. Blank(PageOf(fmc.at))
      BY <1>1, <3>1 DEF Erasure, Erasing
    <3> QED  BY <3>1, <3>2, Pages DEF Blank, PageOf, Erasing
  <2> QED  BY <2>1, <2>2
<1> QED  BY <1>2, <1>3

\* The store is erased, by its timer or when the processor reboots.
LEMMA StoreEraseStep ==
    ASSUME Good, state = "Erasing", cpu \in {"loop", "reboot"}, EraseCall(0),
           state' = IF EraseDone THEN "ErasedWaiting" ELSE state,
           UNCHANGED <<store, cpu, sized, written, chunk, spoilt, taken, disturbed, updates>>
    PROVE  Good'
<1>1. Erases(0) /\ FmcTypes' /\ flash' \in [Page -> Value] /\ misled' \in BOOLEAN
  BY EraseEffect DEF Good
<1>2. Types'
  BY <1>1 DEF Good, Types
<1>3. /\ Driver' /\ ~WritesStore' /\ ~WritesFirmware'
      /\ ~misled' => ~misled /\ fmc'.state \in {"Idle"} \cup Erasing
  BY <1>1, Pages, EraseDriver
<1>4. ASSUME ~misled'  PROVE  Contents'
  <2>1. ~misled /\ Contents /\ (fmc.state \in Erasing => fmc.at = 0) /\ Words + 1 # 0
    BY <1>3, <1>4, Pages DEF Good, Driver, Erasure
  <2>2. /\ \A w \in Word : flash'[w + 1] \in {Erased, flash[w + 1]}
        /\ \A b \in ImagePage : flash'[b] = flash[b]
        /\ fmc'.state = "Idle" => \A w \in Word : flash'[w + 1] = Erased
    BY <1>1, <1>4, <2>1, EraseContents
  <2>3. StoreHolds'
    BY <1>3, <2>2 DEF StoreHolds, EraseDone
  <2>4. ASSUME ~disturbed  PROVE  Undisturbed'
    <3>1. \A w \in Word : flash[w + 1] \in {Erased, taken[w]}
      BY <2>1, <2>4 DEF Contents, Undisturbed
    <3> QED  BY <1>3, <2>2, <3>1 DEF Undisturbed
  <2>5. ASSUME ~spoilt  PROVE  Unspoilt'
    <3>1. sized => \A i \in 1 .. N : ImageHolds(i)
      BY <2>1, <2>5 DEF Contents, Unspoilt
    <3>2. \A i \in 1 .. N : flash'[Words + 1 + i] = flash[Words + 1 + i]
      BY <2>2, Pages
    <3>3. sized => \A i \in 1 .. N : ImageHolds(i)'
      BY <1>3, <3>1, <3>2 DEF ImageHolds
    <3> QED  BY <1>3, <3>3 DEF Unspoilt
  <2> QED  BY <2>3, <2>4, <2>5 DEF Contents
<1> QED  BY <1>2, <1>3, <1>4 DEF Good

\* The installation erases.  A driver it found at work goes on in the page of
\* the store, or is quiet.
LEMMA InstallEraseStep ==
    ASSUME Good, InstallErase
    PROVE  Good'
<1>1. /\ cpu = "erase" /\ EraseCall(Words + 1) /\ cpu' = IF EraseDone THEN "loop" ELSE cpu
      /\ UNCHANGED <<store, state, sized, written, chunk, spoilt, taken, disturbed, updates>>
  BY DEF InstallErase, install, counters
<1>2. Erases(Words + 1) /\ FmcTypes' /\ flash' \in [Page -> Value] /\ misled' \in BOOLEAN
  BY <1>1, Pages, EraseEffect DEF Good
<1>3. Types'
  BY <1>1, <1>2 DEF Good, Types
<1>4. /\ Driver' /\ ~WritesStore' /\ ~WritesFirmware'
      /\ ~misled' => ~misled /\ fmc'.state \in {"Idle"} \cup Erasing
  BY <1>1, <1>2, EraseDriver DEF EraseDone
<1>5. ASSUME ~misled'  PROVE  Contents'
  <2>1. ~misled /\ Contents /\ Erasure /\ Words + 1 # 0
    BY <1>4, <1>5, Pages DEF Good, Driver
  <2>2. /\ \A w \in Word : flash'[w + 1] \in {Erased, flash[w + 1]}
        /\ ~(fmc.state \in Erasing /\ fmc.at = 0) => \A w \in Word : flash'[w + 1] = flash[w + 1]
        /\ fmc'.state = "Idle" /\ fmc.at = Words + 1 =>
              fmc.state \in Erasing /\ \A i \in 1 .. N : flash'[Words + 1 + i] = Erased
        /\ fmc'.state = "Idle" => fmc.state \in Erasing
    BY <1>2, <1>5, <2>1, EraseContents
  <2>3. fmc'.state \in Erasing => fmc'.at = Words + 1 \/ (fmc.state \in Erasing /\ fmc'.at = fmc.at)
    BY <1>2, <1>5, <2>1 DEF Erases, Erasing, Erasure
  <2>4. StoreHolds'
    <3>1. CASE state = "Idle"
      <4>1. (fmc.state \in Erasing => fmc.at # 0) /\ \A w \in Word : flash[w + 1] = store[w]
        BY <2>1, <3>1 DEF Contents, StoreHolds
      <4> QED  BY <1>1, <1>4, <2>1, <2>2, <2>3, <3>1, <4>1 DEF StoreHolds
    <3>2. CASE state \in {"ErasedWaiting", "Erased"}
      <4>1. \A w \in Word : flash[w + 1] = Erased
        BY <2>1, <3>2 DEF Contents, StoreHolds
      <4> QED  BY <1>1, <1>4, <2>2, <3>2, <4>1 DEF StoreHolds
    <3>3. CASE state = "Writing"
      <4>1. \A w \in Word : flash[w + 1] \in {Erased, store[w]}
        BY <2>1, <3>3 DEF Contents, StoreHolds
      <4>2. \A w \in Word : flash'[w + 1] \in {Erased, store'[w]}
        BY <1>1, <2>2, <4>1
      <4> QED  BY <1>1, <1>4, <3>3, <4>2 DEF StoreHolds
    <3> QED  BY <1>1, <3>1, <3>2, <3>3 DEF StoreHolds
  <2>5. ASSUME ~disturbed  PROVE  Undisturbed'
    <3>1. \A w \in Word : flash[w + 1] \in {Erased, taken[w]}
      BY <2>1, <2>5 DEF Contents, Undisturbed
    <3> QED  BY <1>1, <1>4, <2>2, <3>1 DEF Undisturbed
  <2>6. ASSUME ~spoilt  PROVE  Unspoilt'
    <3>1. (fmc.state \in Erasing => fmc.at = Words + 1) /\ written = 0
      BY <1>1, <2>1, <2>6 DEF Contents, Unspoilt, Good, Types
    <3>2. CASE EraseDone
      <4>1. \A i \in 1 .. N : flash'[Words + 1 + i] = Erased
        BY <2>2, <3>1, <3>2 DEF EraseDone
      <4>2. \A i \in 1 .. N : ImageHolds(i)'
        BY <1>1, <1>4, <3>1, <4>1 DEF ImageHolds
      <4> QED  BY <1>1, <1>4, <3>2, <4>2 DEF Unspoilt
    <3>3. CASE ~EraseDone
      BY <1>1, <1>4, <2>3, <3>1, <3>3 DEF Unspoilt
    <3> QED  BY <3>2, <3>3
  <2> QED  BY <1>1, <2>4, <2>5, <2>6 DEF Contents
<1> QED  BY <1>3, <1>4, <1>5 DEF Good

\* A call of the programming leaves the driver where Driver says.
LEMMA WriteDriver ==
    ASSUME Good, NEW a, NEW size, Writes(a, size), FmcTypes', misled' = misled,
           \/ a = 0 /\ size = Words
           \/ a = Words + 1 + written /\ size = chunk /\ cpu = "write",
           fmc'.state # "Idle" => UNCHANGED <<cpu, written, chunk>>
    PROVE  /\ Driver' /\ fmc'.state \in {"Idle"} \cup Writing
           /\ WritesStore' => WritesStore \/ (fmc.state = "Idle" /\ a = 0)
           /\ WritesFirmware' => WritesFirmware \/ (fmc.state = "Idle" /\ a # 0)
           /\ fmc.state \in Writing /\ fmc'.state \in Writing =>
                 (WritesStore' <=> WritesStore) /\ (WritesFirmware' <=> WritesFirmware)
           /\ fmc.state = "Idle" => IF a = 0 THEN WritesStore' ELSE WritesFirmware'
<1>1. /\ Words \in Nat /\ Words > 0 /\ written \in Nat /\ chunk \in Nat
      /\ fmc.at \in Nat /\ fmc.left \in Nat /\ fmc'.at \in Nat /\ fmc'.left \in Nat
  BY Pages DEF Good, Types, FmcTypes
<1>2. fmc'.state \in {"Idle", "WriteBusy", "WriteProgram"}
  BY DEF Writes
<1>3. CASE fmc'.state = "Idle"
  <2>1. ~WritesStore' /\ ~WritesFirmware' /\ fmc.state # "Idle"
    BY <1>3 DEF WritesStore, WritesFirmware, Writing, Writes, Erasing
  <2> QED  BY <1>3, <2>1 DEF Driver, Erasure, Erasing, Writing
<1>4. CASE fmc'.state # "Idle" /\ fmc.state = "Idle"
  <2>1. fmc'.state = "WriteBusy" /\ fmc'.at = a /\ fmc'.left = size /\ UNCHANGED <<cpu, written, chunk>>
    BY <1>4 DEF Writes, Erasing
  <2>2. /\ WritesStore' <=> a <= Words
        /\ WritesFirmware' <=> a > Words
    BY <2>1 DEF WritesStore, WritesFirmware, Writing
  <2>3. CASE a = 0 /\ size = Words
    BY <1>1, <1>4, <2>1, <2>2, <2>3 DEF Driver, Programming, Erasure, Erasing, Writing
  <2>4. CASE a = Words + 1 + written /\ size = chunk /\ cpu = "write"
    BY <1>1, <1>4, <2>1, <2>2, <2>4 DEF Driver, Programming, Erasure, Erasing, Writing
  <2> QED  BY <2>3, <2>4
<1>5. CASE fmc'.state # "Idle" /\ fmc.state # "Idle"
  <2>1. /\ \/ /\ fmc.state = "WriteBusy" /\ fmc.left # 0 /\ fmc'.state = "WriteProgram"
              /\ fmc'.at = fmc.at + 1 /\ fmc'.left = fmc.left
           \/ /\ fmc.state = "WriteProgram" /\ fmc'.state = "WriteBusy" /\ fmc'.at = fmc.at
              /\ fmc'.left = fmc.left - 1
        /\ UNCHANGED <<cpu, written, chunk>>
    BY <1>5 DEF Writes
  <2>2. /\ fmc.state \in Writing /\ fmc'.state \in Writing
        /\ fmc.state = "WriteProgram" => fmc.left > 0
        /\ WritesStore => fmc.at + fmc.left = Words + Programming /\ fmc.at >= Programming
        /\ WritesFirmware => /\ cpu = "write" /\ fmc.at > Words + written + Programming
                             /\ fmc.at + fmc.left = Words + 1 + written + chunk + Programming
    BY <2>1 DEF Good, Driver, Writing
  <2>3. WritesStore \/ WritesFirmware
    BY <1>1, <2>2 DEF WritesStore, WritesFirmware
  <2>4. CASE WritesStore
    <3>1. /\ fmc'.at <= Words /\ fmc'.at + fmc'.left = Words + Programming' /\ fmc'.at >= Programming'
          /\ fmc'.state = "WriteProgram" => fmc'.left > 0
      BY <1>1, <2>1, <2>2, <2>4 DEF Programming, WritesStore
    <3>2. WritesStore' /\ ~WritesFirmware' /\ ~WritesFirmware
      BY <1>1, <2>2, <2>4, <3>1 DEF WritesStore, WritesFirmware
    <3>3. Driver'
      BY <2>2, <3>1, <3>2 DEF Driver, Erasure, Erasing, Writing
    <3> QED  BY <1>5, <2>2, <2>4, <3>2, <3>3
  <2>5. CASE WritesFirmware
    <3>1. /\ fmc'.at > Words /\ fmc'.at > Words + written + Programming'
          /\ fmc'.at + fmc'.left = Words + 1 + written + chunk + Programming'
          /\ fmc'.state = "WriteProgram" => fmc'.left > 0
      BY <1>1, <2>1, <2>2, <2>5 DEF Programming, WritesFirmware
    <3>2. WritesFirmware' /\ ~WritesStore' /\ ~WritesStore
      BY <1>1, <2>2, <2>5, <3>1 DEF WritesStore, WritesFirmware
    <3>3. Driver'
      BY <2>1, <2>2, <2>5, <3>1, <3>2 DEF Driver, Erasure, Erasing, Writing
    <3> QED  BY <1>5, <2>2, <2>5, <3>2, <3>3
  <2> QED  BY <2>3, <2>4, <2>5
<1> QED  BY <1>3, <1>4, <1>5

\* The page of the store is left alone unless the store is written.
LEMMA StoreWords ==
    ASSUME Good, NEW a, NEW size, Writes(a, size), ~WritesStore
    PROVE  \A w \in Word : flash'[w + 1] = flash[w + 1]
<1>1. CASE fmc.state # "WriteProgram"
  BY <1>1 DEF Writes
<1>2. CASE fmc.state = "WriteProgram"
  <2>1. Programs(Source(fmc.at)) /\ fmc.at > Words /\ fmc.at \in Nat
    BY <1>2, NextWord DEF Good, Writes, WritesFirmware, Erasing
  <2>2. \A w \in Word : w + 1 # fmc.at /\ w + 1 \in DOMAIN flash
    BY <2>1, Pages DEF Good, Types
  <2> QED  BY <2>1, <2>2 DEF Programs
<1> QED  BY <1>1, <1>2

\* The page of the firmware is left alone unless the firmware is written.
LEMMA ImageKept ==
    ASSUME Good, NEW a, NEW size, Writes(a, size), ~WritesFirmware
    PROVE  \A b \in ImagePage : flash'[b] = flash[b]
<1>1. CASE fmc.state # "WriteProgram"
  BY <1>1 DEF Writes
<1>2. CASE fmc.state = "WriteProgram"
  <2>1. Programs(Source(fmc.at)) /\ fmc.at <= Words /\ fmc.at \in Nat
    BY <1>2, NextWord DEF Good, Writes, WritesStore, Erasing
  <2>2. \A b \in ImagePage : b # fmc.at /\ b \in DOMAIN flash
    BY <2>1, Pages DEF Good, Types
  <2> QED  BY <2>1, <2>2 DEF Programs
<1> QED  BY <1>1, <1>2

\* While the store is written, what is programmed is the store as it is now.
LEMMA StoreWritten ==
    ASSUME Good, Contents, NEW a, NEW size, Writes(a, size), FmcTypes', WritesStore, state = "Writing",
           store' = store
    PROVE  \A w \in Word : /\ flash'[w + 1] \in {Erased, store'[w]}
                           /\ flash'[w + 1] \in {flash[w + 1], store[w]}
                           /\ WritesStore' /\ w + fmc'.left < Words => flash'[w + 1] = store'[w]
<1>1. /\ \A w \in Word : /\ flash[w + 1] \in {Erased, store[w]}
                         /\ w + fmc.left < Words => flash[w + 1] = store[w]
      /\ fmc.state \in Writing
  BY DEF Contents, StoreHolds, WritesStore
<1>2. CASE fmc.state = "WriteBusy"
  <2>1. flash' = flash /\ (WritesStore' => fmc'.left = fmc.left)
    BY <1>2 DEF Writes, Erasing, WritesStore, Writing
  <2> SUFFICES ASSUME NEW w \in Word
               PROVE  /\ flash[w + 1] \in {Erased, store[w]}
                      /\ WritesStore' /\ w + fmc'.left < Words => flash[w + 1] = store[w]
    BY <2>1
  <2>2. flash[w + 1] \in {Erased, store[w]} /\ (w + fmc.left < Words => flash[w + 1] = store[w])
    BY <1>1
  <2>3. WritesStore' /\ w + fmc'.left < Words => w + fmc.left < Words
    BY <2>1
  <2> QED  BY <2>2, <2>3
<1>3. CASE fmc.state = "WriteProgram"
  <2>1. Programs(Source(fmc.at)) /\ fmc'.left = fmc.left - 1
    BY <1>3 DEF Writes, Erasing
  <2>2. /\ fmc.at \in Nat /\ fmc.left \in Nat /\ fmc.left > 0 /\ fmc.at - 1 \in Word
        /\ Source(fmc.at) = store[fmc.at - 1] /\ fmc.at + fmc.left = Words + 1
    BY <1>3, NextWord DEF Good
  <2> SUFFICES ASSUME NEW w \in Word
               PROVE  /\ flash'[w + 1] \in {Erased, store[w]}
                      /\ flash'[w + 1] \in {flash[w + 1], store[w]}
                      /\ w + fmc'.left < Words => flash'[w + 1] = store[w]
    OBVIOUS
  <2>3. flash[w + 1] \in {Erased, store[w]} /\ (w + fmc.left < Words => flash[w + 1] = store[w])
    BY <1>1
  <2>4. w \in Nat /\ w + 1 \in DOMAIN flash /\ Words \in Nat
    BY Pages DEF Good, Types
  <2>5. CASE w + 1 = fmc.at
    <3>1. w = fmc.at - 1 /\ Source(fmc.at) = store[w]
      BY <2>2, <2>4, <2>5
    <3>2. flash'[w + 1] = store[w]
      BY <2>1, <2>3, <2>4, <2>5, <3>1 DEF Programs
    <3> QED  BY <2>3, <3>2
  <2>6. CASE w + 1 # fmc.at
    <3>1. flash'[w + 1] = flash[w + 1]
      BY <2>1, <2>4, <2>6 DEF Programs
    <3>2. w + fmc'.left < Words => w + fmc.left < Words
      BY <2>1, <2>2, <2>4, <2>6
    <3> QED  BY <2>3, <3>1, <3>2
  <2> QED  BY <2>5, <2>6
<1> QED  BY <1>1, <1>2, <1>3 DEF Writing

\* The store is written, by its timer or when the processor reboots.
LEMMA StoreWriteStep ==
    ASSUME Good, state = "Writing", cpu \in {"loop", "reboot"}, WriteCall(0, Words),
           state' = IF WriteDone THEN "Idle" ELSE state,
           taken' = IF fmc.state = "Idle" THEN store ELSE taken,
           UNCHANGED <<store, cpu, sized, written, chunk, spoilt, disturbed, misled, updates>>
    PROVE  Good'
<1>1. Writes(0, Words) /\ FmcTypes' /\ flash' \in [Page -> Value]
  BY WriteEffect, Pages DEF Good
<1>2. Types'
  BY <1>1 DEF Good, Types
<1>3. ~WritesFirmware
  BY DEF Good, Driver
<1>4. /\ Driver' /\ fmc'.state \in {"Idle"} \cup Writing /\ ~WritesFirmware'
      /\ WritesStore' => WritesStore \/ fmc.state = "Idle"
      /\ fmc.state = "Idle" => WritesStore'
  BY <1>1, <1>3, WriteDriver
<1>5. \A b \in ImagePage : flash'[b] = flash[b]
  BY <1>1, <1>3, ImageKept
<1>6. ASSUME ~misled  PROVE  Contents'
  <2>1. Contents /\ fmc'.state \notin Erasing
    BY <1>4, <1>6 DEF Good, Erasing, Writing
  <2>2. ASSUME ~spoilt  PROVE  Unspoilt'
    <3>1. sized => \A i \in 1 .. N : ImageHolds(i)
      BY <2>1, <2>2 DEF Contents, Unspoilt
    <3>2. \A i \in 1 .. N : flash'[Words + 1 + i] = flash[Words + 1 + i]
      BY <1>5, Pages
    <3>3. sized => \A i \in 1 .. N : ImageHolds(i)'
      BY <1>4, <3>1, <3>2 DEF ImageHolds
    <3> QED  BY <3>3 DEF Unspoilt
  <2>3. CASE WriteDone
    <3>1. /\ fmc.state \in Writing /\ fmc.left = 0 /\ flash' = flash /\ fmc'.state = "Idle" /\ taken' = taken
          /\ state' = "Idle"
      BY <1>1, <2>3 DEF WriteDone, Writes, Writing, Erasing
    <3>2. WritesStore /\ ~WritesStore'
      BY <1>3, <3>1, Pages DEF Good, Types, FmcTypes, WritesStore, WritesFirmware, Writing
    <3>3. \A w \in Word : w + fmc.left < Words
      BY <3>1, Pages DEF Word
    <3>4. \A w \in Word : flash[w + 1] = store[w]
      BY <2>1, <3>2, <3>3 DEF Contents, StoreHolds
    <3>5. StoreHolds'
      BY <2>1, <3>1, <3>2, <3>4 DEF StoreHolds
    <3>6. ~disturbed => Undisturbed'
      BY <2>1, <3>1 DEF Contents, Undisturbed
    <3> QED  BY <2>2, <3>5, <3>6 DEF Contents
  <2>4. CASE ~WriteDone /\ WritesStore
    <3>1. \A w \in Word : /\ flash'[w + 1] \in {Erased, store'[w]}
                          /\ flash'[w + 1] \in {flash[w + 1], store[w]}
                          /\ WritesStore' /\ w + fmc'.left < Words => flash'[w + 1] = store'[w]
      BY <1>1, <2>1, <2>4, StoreWritten
    <3>2. taken' = taken /\ state' = "Writing"
      BY <2>4 DEF WritesStore, Writing
    <3>3. StoreHolds'
      BY <3>1, <3>2 DEF StoreHolds
    <3>4. ASSUME ~disturbed  PROVE  Undisturbed'
      <4>1. \A w \in Word : taken[w] = store[w] /\ flash[w + 1] \in {Erased, taken[w]}
        BY <2>1, <2>4, <3>4 DEF Contents, Undisturbed
      <4>2. \A w \in Word : flash'[w + 1] \in {Erased, taken'[w]} /\ taken'[w] = store'[w]
        BY <3>1, <3>2, <4>1
      <4> QED  BY <4>2 DEF Undisturbed
    <3> QED  BY <2>2, <3>3, <3>4 DEF Contents
  <2>5. CASE ~WriteDone /\ ~WritesStore
    <3>1. /\ \A w \in Word : flash'[w + 1] = flash[w + 1]
          /\ state' = "Writing"
      BY <1>1, <2>5, StoreWords
    <3>2. \A w \in Word : flash[w + 1] \in {Erased, store[w]}
      BY <2>1 DEF Contents, StoreHolds
    <3>3. WritesStore' => fmc.state = "Idle" /\ fmc'.left = Words /\ taken' = store
      BY <1>1, <1>4, <2>5 DEF Writes, Erasing
    <3>4. WritesStore' => \A w \in Word : ~(w + fmc'.left < Words)
      BY <3>3, Pages DEF Word
    <3>5. StoreHolds'
      BY <3>1, <3>2, <3>4 DEF StoreHolds
    <3>6. ASSUME ~disturbed  PROVE  Undisturbed'
      <4>1. \A w \in Word : flash[w + 1] \in {Erased, taken[w]}
        BY <2>1, <3>6 DEF Contents, Undisturbed
      <4>2. \A w \in Word : flash'[w + 1] \in {Erased, taken'[w]}
        BY <3>1, <3>2, <4>1
      <4> QED  BY <3>3, <4>2 DEF Undisturbed
    <3> QED  BY <2>2, <3>5, <3>6 DEF Contents
  <2> QED  BY <2>3, <2>4, <2>5
<1> QED  BY <1>2, <1>4, <1>6 DEF Good

\* While a chunk is written, nothing else is programmed into the page of the
\* firmware.
LEMMA FirmwareWritten ==
    ASSUME Good, NEW a, NEW size, Writes(a, size), FmcTypes', WritesFirmware,
           NEW i \in 1 .. N, ImageHolds(i)
    PROVE  /\ flash'[Words + 1 + i] \in {Erased, Firmware[i]}
           /\ i <= written => flash'[Words + 1 + i] = Firmware[i]
           /\ fmc'.state # "Idle" /\ i + fmc'.left <= written + chunk => flash'[Words + 1 + i] = Firmware[i]
<1>1. /\ flash[Words + 1 + i] \in {Erased, Firmware[i]}
      /\ i <= written => flash[Words + 1 + i] = Firmware[i]
      /\ i + fmc.left <= written + chunk => flash[Words + 1 + i] = Firmware[i]
  BY DEF ImageHolds
<1>2. CASE fmc.state = "WriteBusy"
  <2>1. flash' = flash /\ (fmc'.state # "Idle" => fmc'.left = fmc.left)
    BY <1>2 DEF Writes, Erasing
  <2> QED  BY <1>1, <2>1
<1>3. CASE fmc.state = "WriteProgram"
  <2>1. Programs(Source(fmc.at)) /\ fmc'.left = fmc.left - 1
    BY <1>3 DEF Writes, Erasing
  <2>2. /\ fmc.at \in Nat /\ fmc.left \in Nat /\ fmc.left > 0
        /\ fmc.at - (Words + 1) \in 1 .. N /\ Source(fmc.at) = Firmware[fmc.at - (Words + 1)]
        /\ fmc.at + fmc.left = Words + 1 + written + chunk + 1
    BY <1>3, NextWord DEF Good
  <2>3. Words \in Nat /\ written \in Nat /\ chunk \in Nat /\ Words + 1 + i \in DOMAIN flash
    BY Pages DEF Good, Types
  <2>4. CASE Words + 1 + i = fmc.at
    <3>1. i = fmc.at - (Words + 1)
      BY <2>2, <2>3, <2>4
    <3>2. Source(fmc.at) = Firmware[i]
      BY <2>2, <3>1
    <3>3. flash'[Words + 1 + i] = Firmware[i]
      BY <1>1, <2>1, <2>3, <2>4, <3>2 DEF Programs
    <3> QED  BY <3>3
  <2>5. CASE Words + 1 + i # fmc.at
    <3>1. flash'[Words + 1 + i] = flash[Words + 1 + i]
      BY <2>1, <2>3, <2>5 DEF Programs
    <3>2. i + fmc'.left <= written + chunk => i + fmc.left <= written + chunk
      BY <2>1, <2>2, <2>3, <2>5
    <3> QED  BY <1>1, <3>1, <3>2
  <2> QED  BY <2>4, <2>5
<1> QED  BY <1>2, <1>3 DEF WritesFirmware, Writing

\* The installation writes.  A driver it found at work finishes the store.
LEMMA InstallWriteStep ==
    ASSUME Good, InstallWrite
    PROVE  Good'
<1>1. /\ cpu = "write" /\ WriteCall(Words + 1 + written, chunk)
      /\ UNCHANGED <<store, state, sized, spoilt, taken, disturbed, misled, updates>>
      /\ WriteDone => cpu' = "loop" /\ written' = written + chunk /\ chunk' = 0
      /\ ~WriteDone => UNCHANGED <<cpu, written, chunk>>
  BY DEF InstallWrite, counters
<1>2. Words \in Nat /\ N \in Nat /\ written \in Nat /\ chunk \in Nat /\ sized /\ written + chunk <= N
  BY <1>1, Pages DEF Good, Types
<1>3. Writes(Words + 1 + written, chunk) /\ FmcTypes' /\ flash' \in [Page -> Value]
  BY <1>1, <1>2, WriteEffect DEF Good
<1>4. Types'
  <2>1. CASE WriteDone
    <3>1. written' \in 0 .. N /\ chunk' \in Nat /\ cpu' = "loop"
      BY <1>1, <1>2, <2>1
    <3> QED  BY <1>1, <1>3, <3>1 DEF Good, Types
  <2>2. CASE ~WriteDone
    BY <1>1, <1>3, <2>2 DEF Good, Types
  <2> QED  BY <2>1, <2>2
<1>5. fmc'.state # "Idle" => ~WriteDone
  BY <1>3 DEF Writes, WriteDone, Erasing
<1>6. Words + 1 + written # 0
  BY <1>2
<1>7. /\ Driver' /\ fmc'.state \in {"Idle"} \cup Writing
      /\ WritesStore' => WritesStore
      /\ WritesFirmware' => WritesFirmware \/ fmc.state = "Idle"
      /\ fmc.state \in Writing /\ fmc'.state \in Writing => (WritesFirmware' <=> WritesFirmware)
      /\ fmc.state = "Idle" => WritesFirmware'
  BY <1>1, <1>3, <1>5, <1>6, WriteDriver
<1>8. ~WritesStore => \A w \in Word : flash'[w + 1] = flash[w + 1]
  BY <1>3, StoreWords
<1>9. ASSUME ~misled  PROVE  Contents'
  <2>1. Contents /\ fmc'.state \notin Erasing
    BY <1>7, <1>9 DEF Good, Erasing, Writing
  <2>2. StoreHolds'
    <3>1. CASE state = "Idle"
      <4>1. ~WritesStore /\ \A w \in Word : flash[w + 1] = store[w]
        BY <2>1, <3>1 DEF Contents, StoreHolds
      <4> QED  BY <1>1, <1>7, <1>8, <2>1, <3>1, <4>1 DEF StoreHolds
    <3>2. CASE state \in {"ErasedWaiting", "Erased"}
      <4>1. ~WritesStore /\ \A w \in Word : flash[w + 1] = Erased
        BY <2>1, <3>2 DEF Contents, StoreHolds
      <4> QED  BY <1>1, <1>7, <1>8, <3>2, <4>1 DEF StoreHolds
    <3>3. CASE state = "Writing" /\ WritesStore
      <4>1. \A w \in Word : /\ flash'[w + 1] \in {Erased, store'[w]}
                            /\ WritesStore' /\ w + fmc'.left < Words => flash'[w + 1] = store'[w]
        BY <1>1, <1>3, <2>1, <3>3, StoreWritten
      <4> QED  BY <1>1, <3>3, <4>1 DEF StoreHolds
    <3>4. CASE state = "Writing" /\ ~WritesStore
      <4>1. \A w \in Word : flash[w + 1] \in {Erased, store[w]}
        BY <2>1, <3>4 DEF Contents, StoreHolds
      <4>2. \A w \in Word : flash'[w + 1] \in {Erased, store'[w]}
        BY <1>1, <1>8, <3>4, <4>1
      <4> QED  BY <1>1, <1>7, <3>4, <4>2 DEF StoreHolds
    <3> QED  BY <1>1, <3>1, <3>2, <3>3, <3>4 DEF StoreHolds
  <2>3. ASSUME ~disturbed  PROVE  Undisturbed'
    <3>1. ~WritesStore /\ \A w \in Word : flash[w + 1] \in {Erased, taken[w]}
      BY <1>1, <2>1, <2>3 DEF Contents, Undisturbed
    <3>2. ~WritesStore' /\ \A w \in Word : flash'[w + 1] \in {Erased, taken'[w]}
      BY <1>1, <1>7, <1>8, <3>1
    <3> QED  BY <3>2 DEF Undisturbed
  <2>4. ASSUME ~spoilt  PROVE  Unspoilt'
    <3>1. ~WritesStore /\ ~WritesStore' /\ \A i \in 1 .. N : ImageHolds(i)
      BY <1>1, <1>2, <1>7, <2>1, <2>4 DEF Contents, Unspoilt
    <3>2. CASE WriteDone
      <4>1. fmc.state \in Writing /\ fmc.left = 0 /\ flash' = flash /\ fmc'.state = "Idle"
        BY <1>3, <3>2 DEF WriteDone, Writes, Writing, Erasing
      <4>2. WritesFirmware /\ ~WritesFirmware'
        BY <3>1, <4>1, Pages DEF Good, Types, FmcTypes, WritesStore, WritesFirmware, Writing
      <4>3. ASSUME NEW i \in 1 .. N  PROVE  ImageHolds(i)'
        <5>1. /\ flash[Words + 1 + i] \in {Erased, Firmware[i]}
              /\ i <= written + chunk => flash[Words + 1 + i] = Firmware[i]
          BY <3>1, <4>1, <4>2 DEF ImageHolds
        <5> QED  BY <1>1, <3>2, <4>1, <4>2, <5>1 DEF ImageHolds
      <4> QED  BY <1>1, <3>1, <3>2, <4>3 DEF Unspoilt
    <3>3. CASE ~WriteDone /\ WritesFirmware
      <4>1. ASSUME NEW i \in 1 .. N  PROVE  ImageHolds(i)'
        <5>1. /\ flash'[Words + 1 + i] \in {Erased, Firmware[i]}
              /\ i <= written => flash'[Words + 1 + i] = Firmware[i]
              /\ fmc'.state # "Idle" /\ i + fmc'.left <= written + chunk => flash'[Words + 1 + i] = Firmware[i]
          BY <1>3, <3>1, <3>3, FirmwareWritten
        <5>2. WritesFirmware' => fmc'.state # "Idle"
          BY DEF WritesFirmware, Writing
        <5> QED  BY <1>1, <3>3, <5>1, <5>2 DEF ImageHolds
      <4> QED  BY <1>1, <3>1, <3>3, <4>1 DEF Unspoilt
    <3>4. CASE ~WriteDone /\ ~WritesFirmware
      <4>1. \A i \in 1 .. N : flash'[Words + 1 + i] = flash[Words + 1 + i]
        BY <1>3, <3>4, ImageKept, Pages
      <4>2. WritesFirmware' => fmc'.left = chunk
        BY <1>3, <1>7, <3>4 DEF Writes, Erasing
      <4>3. ASSUME NEW i \in 1 .. N  PROVE  ImageHolds(i)'
        <5>1. /\ flash[Words + 1 + i] \in {Erased, Firmware[i]}
              /\ i <= written => flash[Words + 1 + i] = Firmware[i]
          BY <3>1 DEF ImageHolds
        <5>2. WritesFirmware' /\ i + fmc'.left <= written + chunk => i <= written
          BY <1>2, <4>2
        <5> QED  BY <1>1, <3>4, <4>1, <5>1, <5>2 DEF ImageHolds
      <4> QED  BY <1>1, <3>1, <3>4, <4>3 DEF Unspoilt
    <3> QED  BY <3>2, <3>3, <3>4
  <2> QED  BY <1>1, <2>2, <2>3, <2>4 DEF Contents
<1> QED  BY <1>1, <1>4, <1>7, <1>9 DEF Good

\* The installation erases again, and notes whether it found the store being
\* erased.
LEMMA EraseBeginsStep ==
    ASSUME Good, InstallEraseBegins
    PROVE  Good'
<1>1. /\ cpu = "loop" /\ cpu' = "erase" /\ sized' = TRUE /\ written' = 0
      /\ UNCHANGED <<store, state, flash, fmc, chunk, taken, disturbed, misled, updates>>
      /\ spoilt' = (fmc.state \in Erasing)
  BY DEF InstallEraseBegins, EraseBegins
<1>2. Types'
  <2>1. written' \in 0 .. N /\ spoilt' \in BOOLEAN
    BY <1>1, Pages
  <2> QED  BY <1>1, <2>1 DEF Good, Types, FmcTypes
<1>3. ~WritesFirmware /\ WritesStore' = WritesStore /\ ~WritesFirmware'
  BY <1>1 DEF Good, Driver, WritesStore, WritesFirmware
<1>4. Driver'
  BY <1>1, <1>3 DEF Good, Driver, Erasure, Blank, Programming
<1>5. ASSUME ~misled  PROVE  Contents'
  <2>1. StoreHolds' /\ (~disturbed => Undisturbed')
    BY <1>1, <1>3, <1>5 DEF Good, Contents, StoreHolds, Undisturbed
  <2>2. ~spoilt' => Unspoilt'
    BY <1>1 DEF Unspoilt
  <2> QED  BY <1>1, <2>1, <2>2 DEF Contents
<1> QED  BY <1>1, <1>2, <1>4, <1>5 DEF Good

\* A chunk comes, and the installation notes whether it found the store being
\* written.
LEMMA ChunkBeginsStep ==
    ASSUME Good, NEW size \in 1 .. N, WriteChunkBegins(size)
    PROVE  Good'
<1>1. /\ cpu = "loop" /\ sized /\ written + size <= N /\ cpu' = "write" /\ chunk' = size
      /\ UNCHANGED <<store, state, flash, fmc, sized, written, taken, misled, updates>>
      /\ disturbed' = (disturbed \/ fmc.state \in Writing)
      /\ spoilt' = (spoilt \/ fmc.state \in Writing)
  BY DEF WriteChunkBegins, counters, N
<1>2. Types'
  <2>1. chunk' \in Nat /\ chunk' > 0 /\ written' + chunk' <= N /\ disturbed' \in BOOLEAN /\ spoilt' \in BOOLEAN
    BY <1>1, Pages
  <2> QED  BY <1>1, <2>1 DEF Good, Types, FmcTypes
<1>3. ~WritesFirmware /\ WritesStore' = WritesStore /\ ~WritesFirmware'
  BY <1>1 DEF Good, Driver, WritesStore, WritesFirmware
<1>4. Driver'
  BY <1>1, <1>3, Pages DEF Good, Driver, Erasure, Blank, Programming
<1>5. ASSUME ~misled  PROVE  Contents'
  <2>1. StoreHolds'
    BY <1>1, <1>3, <1>5 DEF Good, Contents, StoreHolds
  <2>2. ASSUME ~disturbed'  PROVE  Undisturbed'
    <3>1. ~disturbed /\ ~WritesStore
      BY <1>1, <2>2 DEF WritesStore, Good, Types
    <3> QED  BY <1>1, <1>3, <1>5, <3>1 DEF Good, Contents, Undisturbed
  <2>3. ASSUME ~spoilt'  PROVE  Unspoilt'
    <3>1. ~spoilt /\ ~WritesStore
      BY <1>1, <2>3 DEF WritesStore, Good, Types
    <3>2. \A i \in 1 .. N : ImageHolds(i)
      BY <1>1, <1>5, <3>1 DEF Good, Contents, Unspoilt
    <3>3. \A i \in 1 .. N : ImageHolds(i)'
      BY <1>1, <1>3, <3>2 DEF ImageHolds
    <3> QED  BY <1>1, <1>3, <3>1, <3>3 DEF Unspoilt
  <2> QED  BY <1>1, <2>1, <2>2, <2>3 DEF Contents
<1> QED  BY <1>1, <1>2, <1>4, <1>5 DEF Good

\* The installation is ended: a chunk that still comes is written from the start.
LEMMA CompleteStep ==
    ASSUME Good, WriteChunkComplete
    PROVE  Good'
<1>1. /\ cpu = "loop" /\ written' = 0
      /\ UNCHANGED <<store, state, flash, fmc, cpu, sized, chunk, spoilt, taken, disturbed, misled, updates>>
  BY DEF WriteChunkComplete
<1>2. Types'
  <2>1. written' \in 0 .. N
    BY <1>1, Pages
  <2> QED  BY <1>1, <2>1 DEF Good, Types, FmcTypes
<1>3. ~WritesFirmware /\ WritesStore' = WritesStore /\ ~WritesFirmware'
  BY <1>1 DEF Good, Driver, WritesStore, WritesFirmware
<1>4. Driver'
  BY <1>1, <1>3 DEF Good, Driver, Erasure, Blank, Programming
<1>5. ASSUME ~misled  PROVE  Contents'
  <2>1. StoreHolds' /\ (~disturbed => Undisturbed')
    BY <1>1, <1>3, <1>5 DEF Good, Contents, StoreHolds, Undisturbed
  <2>2. ASSUME ~spoilt  PROVE  Unspoilt'
    <3>1. sized => \A i \in 1 .. N : ImageHolds(i)
      BY <1>1, <1>5, <2>2 DEF Good, Contents, Unspoilt
    <3>2. sized => \A i \in 1 .. N : ImageHolds(i)'
      <4>1. \A i \in 1 .. N : ~(i <= written')
        BY <1>1
      <4> QED  BY <1>1, <1>3, <3>1, <4>1 DEF ImageHolds
    <3> QED  BY <1>1, <3>2 DEF Unspoilt
  <2> QED  BY <1>1, <2>1, <2>2 DEF Contents
<1> QED  BY <1>1, <1>2, <1>4, <1>5 DEF Good

\* What changes neither the store nor the driver nor the installation.
LEMMA RebootStep ==
    ASSUME Good, cpu' = cpu \/ (cpu = "loop" /\ cpu' = "reboot"),
           UNCHANGED <<store, state, flash, fmc, sized, written, chunk, spoilt, taken, disturbed, misled, updates>>
    PROVE  Good'
<1>1. Types'
  BY DEF Good, Types, FmcTypes
<1>2. Driver' /\ WritesStore' = WritesStore /\ WritesFirmware' = WritesFirmware
  BY DEF Good, Driver, Erasure, WritesStore, WritesFirmware, Blank, Programming
<1>3. ASSUME ~misled  PROVE  Contents'
  BY <1>2, <1>3 DEF Good, Contents, StoreHolds, Undisturbed, Unspoilt, ImageHolds
<1> QED  BY <1>1, <1>2, <1>3 DEF Good

\* ConfigStore::Flash, called by the timer or by the reboot.
LEMMA FlashStep ==
    ASSUME Good, cpu \in {"loop", "reboot"}, Flash,
           UNCHANGED <<store, cpu, sized, written, chunk, spoilt, disturbed, updates>>
    PROVE  Good'
<1>1. CASE state = "Idle" /\ UNCHANGED <<state, flash, fmc, taken, misled>>
  BY <1>1, RebootStep
<1>2. CASE \E wait \in FlashWaits : state = wait.from /\ state' = wait.to /\ UNCHANGED <<flash, fmc, taken, misled>>
  BY <1>2, WaitStep
<1>3. CASE /\ state = "Erasing" /\ EraseCall(0) /\ UNCHANGED taken
           /\ state' = IF EraseDone THEN "ErasedWaiting" ELSE state
  BY <1>3, StoreEraseStep
<1>4. CASE /\ state = "Writing" /\ WriteCall(0, Words) /\ UNCHANGED misled
           /\ state' = IF WriteDone THEN "Idle" ELSE state
           /\ taken' = IF fmc.state = "Idle" THEN store ELSE taken
  BY <1>4, StoreWriteStep
<1> QED  BY <1>1, <1>2, <1>3, <1>4 DEF Flash
-----------------------------------------------------------------------------
LEMMA StoreStart == Init => StoreInv
<1>0. Init => failures \in Nat
  BY DEF Init
<1> SUFFICES ASSUME Init  PROVE  Good
  BY <1>0 DEF StoreInv
<1>1. /\ flash = [a \in Page |-> IF a \in StorePage THEN Erased ELSE Garbage]
      /\ store = Default /\ taken = [w \in Word |-> flash[w + 1]]
      /\ fmc = [state |-> "Idle", at |-> 0, left |-> 0]
      /\ state = "Changed" /\ cpu = "loop" /\ sized = FALSE /\ written = 0 /\ chunk = 0
      /\ disturbed = FALSE /\ spoilt = FALSE /\ misled = FALSE /\ updates = 0
  BY DEF Init, Quiet, Page, Saved
<1>2. flash \in [Page -> Value] /\ Default \in [Word -> Value] /\ 0 \in 0 .. N
  BY <1>1, Pages DEF Default, Value
<1>3. taken \in [Word -> Value] /\ \A w \in Word : taken[w] = flash[w + 1]
  BY <1>1, <1>2, Pages
<1>4. Types
  BY <1>1, <1>2, <1>3 DEF Types, FmcTypes
<1>5. fmc.state = "Idle" /\ ~WritesStore /\ ~WritesFirmware /\ Driver /\ StoreHolds
  BY <1>1 DEF WritesStore, WritesFirmware, Driver, Erasure, StoreHolds, Writing, Erasing
<1>6. Undisturbed /\ Unspoilt
  BY <1>1, <1>3, <1>5 DEF Undisturbed, Unspoilt
<1> QED  BY <1>4, <1>5, <1>6 DEF Good, Contents

\* Every step keeps the invariant.
LEMMA StoreStep == StoreInv /\ [Next]_vars => StoreInv'
<1>1. [Next]_vars => failures' = failures \/ failures' = failures + 1
  BY DEF vars, counters, Next, Stored, Update, Reset, Timer, Reboot, ConfigstoreCommit, Restart, PowerFails,
         InstallEraseBegins, WriteChunkBegins, WriteChunkComplete, Install, InstallErase, InstallWrite
<1>2. ASSUME Good, Next  PROVE  Good'
  <2>1. CASE \E w \in Word \ {0} : Update(w)
    <3>1. PICK w \in Word \ {0} : Stored /\ store' = [store EXCEPT ![w] = updates + 1]
      BY <2>1 DEF Update
    <3>2. store' \in [Word -> Value]
      BY <1>2, <3>1 DEF Good, Types, Value
    <3> QED  BY <1>2, <3>1, <3>2, StoredStep
  <2>2. CASE Reset
    <3>1. Stored /\ store' \in [Word -> Value]
      BY <2>2 DEF Reset, Value
    <3> QED  BY <1>2, <3>1, StoredStep
  <2>3. CASE Timer
    BY <1>2, <2>3, FlashStep DEF Timer, counters, install
  <2>4. CASE ConfigstoreCommit
    BY <1>2, <2>4, FlashStep DEF ConfigstoreCommit, counters, install
  <2>5. CASE Restart \/ PowerFails
    BY <1>2, <2>5, BootStep DEF Restart, PowerFails, counters
  <2>6. CASE Reboot
    BY <1>2, <2>6, RebootStep DEF Reboot, counters, install
  <2>7. CASE InstallEraseBegins \/ WriteChunkComplete
    BY <1>2, <2>7, EraseBeginsStep, CompleteStep
  <2>8. CASE \E size \in 1 .. Len(Firmware) : WriteChunkBegins(size)
    BY <1>2, <2>8, ChunkBeginsStep DEF N
  <2>9. CASE Install
    BY <1>2, <2>9, InstallEraseStep, InstallWriteStep DEF Install
  <2> QED  BY <1>2, <2>1, <2>2, <2>3, <2>4, <2>5, <2>6, <2>7, <2>8, <2>9 DEF Next
<1>3. ASSUME Good, UNCHANGED vars  PROVE  Good'
  BY <1>3, RebootStep DEF vars, counters, install
<1> QED  BY <1>1, <1>2, <1>3 DEF StoreInv

THEOREM StoreSafety == Spec => []StoreInv
BY StoreStart, StoreStep, PTL DEF Spec

\* The words that are saved are those of the store.
LEMMA SavedWords ==
    ASSUME Types, \A w \in Word : flash[w + 1] = store[w]
    PROVE  Saved = store
BY DEF Types, Saved

\* When ConfigStore is idle the flash memory holds the configuration that is in
\* RAM, whatever was updated, installed or interrupted on the way, as long as
\* fmc::Erase has not taken a write under way for an erase.
THEOREM IdleMeansSaved == Spec => []IdleIsSaved
<1>1. StoreInv => IdleIsSaved
  BY SavedWords DEF StoreInv, Good, Contents, StoreHolds, IdleIsSaved
<1> QED  BY <1>1, StoreSafety, PTL

\* The flash memory never mixes two configurations, as ConfigStore::Flash
\* erases again what it was writing when an update came; with the same premise,
\* and for the words written when no chunk of firmware came in the middle.
THEOREM NeverMixed == Spec => []OneConfiguration
<1>1. StoreInv => OneConfiguration
  <2> SUFFICES ASSUME StoreInv, ~misled
               PROVE  /\ state \in {"ErasedWaiting", "Erased", "Writing", "Idle"} =>
                            \A w \in Word : Saved[w] \in {Erased, store[w]}
                      /\ ~disturbed => \A w \in Word : Saved[w] \in {Erased, taken[w]}
    BY DEF OneConfiguration
  <2>1. \A w \in Word : Saved[w] = flash[w + 1]
    BY DEF Saved
  <2>2. state \in {"ErasedWaiting", "Erased", "Writing", "Idle"} =>
            \A w \in Word : flash[w + 1] \in {Erased, store[w]}
    BY DEF StoreInv, Good, Contents, StoreHolds
  <2>3. ~disturbed => \A w \in Word : flash[w + 1] \in {Erased, taken[w]}
    BY DEF StoreInv, Good, Contents, Undisturbed
  <2> QED  BY <2>1, <2>2, <2>3
<1> QED  BY <1>1, StoreSafety, PTL

\* When FlashCodeInstall has counted as many words as the firmware has, they are
\* the firmware, however many chunks and installations it took and whatever the
\* store did, unless the driver did that in its place.
THEOREM InstalledWhole == Spec => []FirmwareWhole
<1>1. StoreInv => FirmwareWhole
  <2> SUFFICES ASSUME StoreInv, sized, written = Len(Firmware), ~spoilt, ~misled, NEW i \in 1 .. Len(Firmware)
               PROVE  flash[Words + 1 + i] = Firmware[i]
    BY DEF FirmwareWhole
  <2>1. cpu # "erase" /\ i \in 1 .. N /\ i <= written
    BY Pages DEF StoreInv, Good, Types, N
  <2>2. ImageHolds(i)
    BY <2>1 DEF StoreInv, Good, Contents, Unspoilt
  <2> QED  BY <2>1, <2>2 DEF ImageHolds
<1> QED  BY <1>1, StoreSafety, PTL

\* board::Reboot leaves the configuration that is in RAM in the flash memory,
\* also when the store was being erased or written.
THEOREM RebootSavesStore == Spec => RebootSaves
<1>1. StoreInv /\ [Next]_vars =>
        [cpu = "reboot" /\ cpu' = "loop" /\ failures' = failures /\ ~misled => Saved = store]_vars
  <2> SUFFICES ASSUME StoreInv, Next, cpu = "reboot", cpu' = "loop", failures' = failures, ~misled
               PROVE  Saved = store
    OBVIOUS
  <2>1. ~PowerFails
    BY DEF PowerFails, StoreInv
  <2>2. Restart
    BY <2>1 DEF Next, Update, Reset, Stored, Timer, Reboot, ConfigstoreCommit, InstallEraseBegins,
                WriteChunkBegins, WriteChunkComplete, Install, InstallErase, InstallWrite
  <2>3. state = "Idle"
    BY <2>2 DEF Restart, MustCommit
  <2> QED  BY <2>3, SavedWords DEF StoreInv, Good, Contents, StoreHolds
<1> QED  BY <1>1, StoreSafety, PTL DEF Spec, RebootSaves
=============================================================================

----------------------------- MODULE ConfigStore ----------------------------
(***************************************************************************)
(* The configuration store, in RAM and in the flash memory of the micro-   *)
(* controller (CONFIG_STORE_USE_ROM): ConfigStore is moved on by a soft-   *)
(* ware timer, one call of the driver gd32::fmc (src/h) at a time, while   *)
(* updates come.  The installation of new firmware uses the same driver,   *)
(* whose state machine does not know who calls it.  The power may fail at  *)
(* any moment.                                                             *)
(*                                                                         *)
(* The driver moves on before it writes the first word: everything is      *)
(* written one word further than it was to be, and the first word of a     *)
(* page stays erased.  The flash memory is as many words as it takes; one  *)
(* page is erased for the store and one for the firmware.                  *)
(***************************************************************************)
EXTENDS Naturals, Sequences

CONSTANTS
    Magic, Erased, Garbage,     \* contents of words: a valid header, 0xFFFFFFFF,
                                \* and what a word holds that was programmed twice
    Words,                      \* of the store; the first holds its magic number and version
    Firmware,                   \* the words of the new firmware
    MaxUpdates, MaxInstalls, MaxFailures    \* bounds: updates of the store, requests
                                \* to erase for the firmware or to end its installation,
                                \* and failures of the power

ASSUME StoreAssumption ==
    /\ Words \in Nat \ {0} /\ Firmware \in Seq(Nat) /\ Firmware # << >>
    /\ {MaxUpdates, MaxInstalls, MaxFailures} \subseteq Nat

VARIABLES
    store,          \* s_store
    state, armed,   \* s_state; whether the timer of the store is running
    flash,          \* words by address: the page of the store, then that of the firmware
    fmc,            \* the statics of gd32_fmc.cpp, in words
    cpu,            \* what the main loop is doing: "loop", "reboot", "erase" or "write"
    sized,          \* whether firmware_size_ is set
    written, chunk, \* write_count_, and the size of the chunk being written, in words
    taken,          \* history: the store when it began to be written
    disturbed,      \* history: a chunk found the store being written
    spoilt,         \* history: the installation found the driver doing for the store
                    \* what it was to do for the firmware
    misled,         \* history: an erase took a write under way for an erase
    updates, installs, failures

install  == <<sized, written, chunk, spoilt>>
counters == <<updates, installs, failures>>
vars     == <<store, state, armed, flash, fmc, cpu, install, taken, disturbed, misled, counters>>

\* One word more than the data has room in each page.
StorePage == 0 .. Words
ImagePage == Words + 1 .. Words + 1 + Len(Firmware)

Word    == 0 .. Words - 1
Default == [w \in Word |-> IF w = 0 THEN Magic ELSE 0]

Quiet == [state |-> "Idle", at |-> 0, left |-> 0]

\* What is kept in the flash memory, as far as the driver writes it.
Saved == [w \in Word |-> flash[w + 1]]

\* The constructor.  The store is the last sector of the flash memory, which
\* Read refuses, as it ends one byte after what kEndAddress allows: the zeros
\* left in s_store are no valid store, and the default is saved.
Boot ==
    /\ store' = Default /\ state' = "Changed" /\ armed' = TRUE
    /\ fmc' = Quiet /\ cpu' = "loop" /\ sized' = FALSE /\ written' = 0 /\ chunk' = 0 /\ spoilt' = FALSE
    /\ taken' = Saved /\ disturbed' = FALSE /\ misled' = FALSE

\* A new board, with firmware to be replaced.
Init ==
    /\ flash = [a \in StorePage \cup ImagePage |-> IF a \in StorePage THEN Erased ELSE Garbage]
    /\ store = Default /\ state = "Changed" /\ armed = TRUE
    /\ fmc = Quiet /\ cpu = "loop" /\ sized = FALSE /\ written = 0 /\ chunk = 0 /\ spoilt = FALSE
    /\ taken = Saved /\ disturbed = FALSE /\ misled = FALSE
    /\ updates = 0 /\ installs = 0 /\ failures = 0
-----------------------------------------------------------------------------
(* One call of the driver: the next state of fmc, and of flash.            *)
Erasing == {"EraseBusy", "EraseProgram"}
Writing == {"WriteBusy", "WriteProgram"}

PageErased(a) == [b \in DOMAIN flash |->
                    IF b \in (IF a \in StorePage THEN StorePage ELSE ImagePage)
                    THEN Erased ELSE flash[b]]

\* An erase that begins at the page of address a; one that has no more to erase.
EraseBegun(a) == [state |-> "EraseBusy", at |-> a, left |-> 1]
EraseOver     == [state |-> "EraseBusy", at |-> fmc.at, left |-> 0]

\* Erase finds a write under way: assert(0), and with NDEBUG a statement that
\* the compiler takes to be out of reach, so that one of the other cases is
\* carried out.  As s_length then is no number of pages unless the write was
\* over, it never becomes 0: the erase runs astray, over page after page.
EraseUnreachable(a) ==
    /\ fmc.state \in Writing
    /\ \/ fmc' = EraseBegun(a) /\ UNCHANGED <<flash, misled>>
       \/ fmc.left = 0 /\ fmc' \in {Quiet, EraseOver} /\ misled' = TRUE /\ UNCHANGED flash
       \/ fmc.left > 0 /\ fmc' = [fmc EXCEPT !.state = "Astray"] /\ misled' = TRUE /\ UNCHANGED flash

EraseAstray ==
    /\ fmc.state = "Astray" /\ UNCHANGED <<fmc, misled>>
    /\ flash' \in {PageErased(0), PageErased(Words + 1), flash}

EraseCall(a) ==
    \/ /\ fmc.state = "Idle" /\ fmc' = EraseBegun(a)
       /\ UNCHANGED <<flash, misled>>
    \/ /\ fmc.state = "EraseBusy"
       /\ fmc' = IF fmc.left = 0 THEN Quiet ELSE [fmc EXCEPT !.state = "EraseProgram"]
       /\ UNCHANGED <<flash, misled>>
    \/ /\ fmc.state = "EraseProgram" /\ fmc' = EraseOver
       /\ flash' = PageErased(fmc.at)
       /\ UNCHANGED misled
    \/ EraseUnreachable(a) \/ EraseAstray

\* The data is read when it is programmed, through a pointer into the store or
\* into the packet that is moved on with the address.
Source(a) == IF a \in StorePage THEN store[a - 1] ELSE Firmware[a - (Words + 1)]

WriteCall(a, size) ==
    \/ /\ fmc.state = "Idle"
       /\ fmc' = [state |-> "WriteBusy", at |-> a, left |-> size]
       /\ UNCHANGED flash
    \/ /\ fmc.state = "WriteBusy"
       /\ fmc' = IF fmc.left = 0 THEN Quiet ELSE [fmc EXCEPT !.state = "WriteProgram", !.at = @ + 1]
       /\ UNCHANGED flash
    \/ /\ fmc.state = "WriteProgram"
       /\ fmc' = [fmc EXCEPT !.state = "WriteBusy", !.left = @ - 1]
       /\ flash' = [flash EXCEPT ![fmc.at] = IF @ \in {Erased, Source(fmc.at)} THEN Source(fmc.at) ELSE Garbage]
    \/ /\ fmc.state \in Erasing \cup {"Astray"}
       /\ fmc' = Quiet /\ UNCHANGED flash

\* The call that ends the state machine returns true.
EraseDone == fmc'.state = "Idle"
WriteDone == fmc.state = "WriteBusy" /\ fmc.left = 0
-----------------------------------------------------------------------------
(* ConfigStore.                                                            *)
\* Mutant: the store is not saved again when it is being written.
SetStatusChangedLate == state' = (IF state = "Writing" THEN state ELSE "Changed") /\ armed' = TRUE

\* Mutant: the timer is not started again.
SetStatusChangedUnarmed == state' = "Changed" /\ UNCHANGED armed

SetStatusChanged == state' = "Changed" /\ armed' = TRUE

Stored ==
    /\ cpu = "loop" /\ updates < MaxUpdates /\ updates' = updates + 1
    /\ SetStatusChanged
    /\ UNCHANGED <<flash, fmc, cpu, install, taken, disturbed, misled, installs, failures>>

Update(w) == Stored /\ store' = [store EXCEPT ![w] = updates + 1]

Reset == Stored /\ store' = [w \in Word |-> 0]

\* Mutant: an erased store is not written.
FlashErasedOnly ==
    [from : {"Changed"}, to : {"ChangedWaiting"}] \cup [from : {"ChangedWaiting"}, to : {"Erasing"}]
      \cup [from : {"ErasedWaiting"}, to : {"Idle"}]

\* The calls of Flash in which nothing is done but waiting.
FlashWaits ==
    [from : {"Changed"}, to : {"ChangedWaiting"}] \cup [from : {"ChangedWaiting"}, to : {"Erasing"}]
      \cup [from : {"ErasedWaiting"}, to : {"Erased"}] \cup [from : {"Erased"}, to : {"Writing"}]

Flash ==
    \/ state = "Idle" /\ UNCHANGED <<state, flash, fmc, taken, misled>>
    \/ \E wait \in FlashWaits :
         state = wait.from /\ state' = wait.to /\ UNCHANGED <<flash, fmc, taken, misled>>
    \/ /\ state = "Erasing" /\ EraseCall(0)
       /\ state' = IF EraseDone THEN "ErasedWaiting" ELSE state
       /\ UNCHANGED taken
    \/ /\ state = "Writing" /\ WriteCall(0, Words)
       /\ state' = IF WriteDone THEN "Idle" ELSE state
       /\ taken' = IF fmc.state = "Idle" THEN store ELSE taken
       /\ UNCHANGED misled

\* The callback of the timer stops it when there is no more to do.
Timer ==
    /\ cpu = "loop" /\ armed /\ Flash
    /\ armed' = (state' # "Idle")
    /\ UNCHANGED <<store, cpu, install, disturbed, counters>>

\* board::Reboot: ConfigstoreCommit has the processor until nothing is left.
Reboot ==
    /\ cpu = "loop" /\ cpu' = "reboot"
    /\ UNCHANGED <<store, state, armed, flash, fmc, install, taken, disturbed, misled, counters>>

\* Mutant: what is being erased or written is not waited for.
MustCommitChanged == state \in {"Changed", "ChangedWaiting"}

MustCommit == state # "Idle"

ConfigstoreCommit ==
    /\ cpu = "reboot" /\ MustCommit /\ Flash
    /\ UNCHANGED <<store, armed, cpu, install, disturbed, counters>>

Restart == cpu = "reboot" /\ ~MustCommit /\ Boot /\ UNCHANGED <<flash, counters>>

PowerFails ==
    /\ failures < MaxFailures /\ failures' = failures + 1
    /\ Boot /\ UNCHANGED <<flash, updates, installs>>
-----------------------------------------------------------------------------
(* FlashCodeInstall: Erase and WriteChunk have the processor until they    *)
(* are done; between them the main loop runs.  The requests come from the  *)
(* network, in any order.                                                  *)
\* Mutant: the count of what was written is kept.
EraseBeginsKeepingCount == cpu' = "erase" /\ sized' = TRUE /\ UNCHANGED <<written, chunk>>

EraseBegins == cpu' = "erase" /\ sized' = TRUE /\ written' = 0 /\ UNCHANGED chunk

InstallEraseBegins ==
    /\ cpu = "loop" /\ installs < MaxInstalls /\ installs' = installs + 1
    /\ EraseBegins /\ spoilt' = (fmc.state \in Erasing)
    /\ UNCHANGED <<store, state, armed, flash, fmc, taken, disturbed, misled, updates, failures>>

\* A chunk that would go beyond the size is refused.
WriteChunkBegins(size) ==
    /\ cpu = "loop" /\ sized /\ written + size <= Len(Firmware)
    /\ cpu' = "write" /\ chunk' = size
    /\ disturbed' = (disturbed \/ fmc.state \in Writing)
    /\ spoilt' = (spoilt \/ fmc.state \in Writing)
    /\ UNCHANGED <<store, state, armed, flash, fmc, sized, written, taken, misled, counters>>

InstallErase ==
    /\ cpu = "erase" /\ EraseCall(Words + 1)
    /\ cpu' = IF EraseDone THEN "loop" ELSE cpu
    /\ UNCHANGED <<store, state, armed, install, taken, disturbed, counters>>

InstallWrite ==
    /\ cpu = "write" /\ WriteCall(Words + 1 + written, chunk)
    /\ IF WriteDone THEN cpu' = "loop" /\ written' = written + chunk /\ chunk' = 0
                    ELSE UNCHANGED <<cpu, written, chunk>>
    /\ UNCHANGED <<store, state, armed, sized, spoilt, taken, disturbed, misled, counters>>

Install == InstallErase \/ InstallWrite

WriteChunkComplete ==
    /\ cpu = "loop" /\ installs < MaxInstalls /\ installs' = installs + 1
    /\ written' = 0
    /\ UNCHANGED <<store, state, armed, flash, fmc, cpu, sized, chunk, spoilt, taken, disturbed, misled, updates, failures>>

Next ==
    \/ (\E w \in Word \ {0} : Update(w)) \/ Reset
    \/ Timer \/ Reboot \/ ConfigstoreCommit \/ Restart \/ PowerFails
    \/ InstallEraseBegins \/ (\E size \in 1 .. Len(Firmware) : WriteChunkBegins(size))
    \/ Install \/ WriteChunkComplete

\* The super loop serves the timers, and what has the processor goes on.
Spec ==
    /\ Init /\ [][Next]_vars
    /\ WF_vars(Timer) /\ WF_vars(ConfigstoreCommit \/ Restart) /\ WF_vars(Install)
-----------------------------------------------------------------------------
(* Properties.  All but SavingEnds are premised on ~misled: once the       *)
(* assertion of fmc::Erase has failed and a write been taken for an erase, *)
(* nothing is promised until the next restart.                             *)

\* When the store is idle the flash memory holds what the RAM holds, one word
\* further than the page begins, whatever was updated or installed while it was
\* written.
IdleIsSaved == state = "Idle" /\ ~misled => Saved = store

\* The flash memory never holds words of two configurations: from the erase to
\* the end of the writing it holds words of the store alone, and a store that
\* was updated while it was written is not written on.  (A chunk of firmware does
\* write it on, when it comes while the store is written.)
OneConfiguration ==
    ~misled =>
        /\ state \in {"ErasedWaiting", "Erased", "Writing", "Idle"} =>
               \A w \in Word : Saved[w] \in {Erased, store[w]}
        /\ ~disturbed => \A w \in Word : Saved[w] \in {Erased, taken[w]}

\* A reboot leaves the configuration in the flash memory, whenever it is asked
\* for, with updates, an installation or a write under way.
RebootSaves ==
    [][cpu = "reboot" /\ cpu' = "loop" /\ failures' = failures /\ ~misled => Saved = store]_vars

\* The store comes to rest, unless an erase has run astray.
SavingEnds == state # "Idle" ~> state = "Idle" \/ fmc.state = "Astray"

\* When as many words were written as the firmware has, the page holds the
\* firmware, chunk by chunk and one word further than the page begins, whatever
\* is erased and sent again in between and whatever the store is doing; unless
\* the request to erase came while the store was erased, or a chunk while it was
\* written: then the driver finished that, and told the installation so.
FirmwareWhole ==
    sized /\ written = Len(Firmware) /\ ~spoilt /\ ~misled =>
        \A i \in 1 .. Len(Firmware) : flash[Words + 1 + i] = Firmware[i]
=============================================================================

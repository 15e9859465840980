------------------------------- MODULE Bootloader -------------------------------
(***************************************************************************)
(* The bootloader (sw/bootloader: main.c and hal/): the auto-boot sequence, *)
(* the console, loading an executable into the main memory and storing it   *)
(* into the SPI flash or the TWI memory, one word at a time, with power     *)
(* failures at any of the steps.                                            *)
(*                                                                         *)
(* Addresses and sizes count words.  A word has WordBits bits; the checksum *)
(* is computed modulo 2^WordBits.  The SPI flash can only clear bits, and   *)
(* sets them all when a sector is erased; the TWI memory overwrites.  Each  *)
(* device starts at its base address, taken as 0.                           *)
(***************************************************************************)
EXTENDS Naturals, Sequences, FiniteSets, FiniteSetsExt, SequencesExt, Bitwise

CONSTANTS
  Uploads,        \* executables of the host: records of a base and a sequence of words
  Stored,         \* executables that may be in the memories at first
  WordBits,
  BIN_SIGNATURE,
  SectorWords,    \* SPI_FLASH_SECTOR_SIZE
  FlashWords,     \* size of each of the two memories, in words
  RamWords,       \* main memory: 0 .. RamWords - 1; a trap elsewhere
  MaxFaults       \* power failures, and transfers that a device refuses

VARIABLES
  pc,             \* what the bootloader is doing
  auto,           \* the devices auto-boot has yet to try, the current one first; << >> at the console
  dev,            \* device of the current load or store
  g_exe_base, g_exe_size, g_flash_addr,
  header,         \* the words of the header
  i, rc,          \* as in system_app_load and system_app_store
  said,           \* the last "OK" was said by a store
  ram, flash,     \* flash[d]: contents of d
  input,          \* words on their way from the host, or left in the opened file
  sdfile,         \* the file of the SD card
  present,        \* devices that answer
  programmable,   \* TWI_FLASH_PROG_EN, SPI_FLASH_PROG_EN: memories that have the store command
  erred,          \* devices that refused a transfer since the start
  faults

regs  == <<g_exe_base, g_exe_size, g_flash_addr>>
work  == <<header, i, rc>>
world == <<sdfile, present, programmable>>
vars  == <<pc, auto, dev, regs, work, said, ram, flash, input, world, erred, faults>>

Word   == 0 .. 2^WordBits - 1
Erased == 2^WordBits - 1
Flashes == {"twi", "spi"}
Devices == Flashes \union {"sd", "uart"}
AutoBoot == <<"twi", "spi", "sd">>
BIN_OFFSET_DATA == 4
Plus(x, y) == (x + y) % 2^WordBits
\* The sum of a sequence of words.
Sum(words) == SumFunction(words) % 2^WordBits

Images == Uploads \union Stored

-------------------------------------------------------------------------------
(* Executables                                                              *)

\* image_gen -t exe: the header and the words.
File(image) ==
  <<BIN_SIGNATURE, image.base, Len(image.words), Erased - Sum(image.words)>> \o image.words

\* What the host sends: a file, one with a wrong word, or one that lost a word on the way.
Sent ==
  LET whole == {File(image) : image \in Uploads}
  IN  whole
      \union {[f EXCEPT ![k] = Plus(@, 1)] : f \in whole, k \in {1, 3, BIN_OFFSET_DATA + 1}}
      \union {SubSeq(f, 1, Len(f) - 2) \o <<Last(f)>> : f \in whole}

\* Mutant: the sum is not looked at.
ChecksumFits_Never(sum) == sum \in Word
\* (header.checksum + 1) == 0
ChecksumFits(sum) == Plus(sum, 1) = 0

\* The size words behind the header of a memory, whose addresses wrap.
DataOf(contents, size) ==
  [k \in 1 .. size |-> contents[(BIN_OFFSET_DATA + k - 1) % FlashWords]]

\* What system_app_load makes of the contents of a memory.
Loads(contents) ==
  LET size == contents[2]
  IN  /\ contents[0] = BIN_SIGNATURE
      /\ size > 0 /\ contents[1] + size <= RamWords
      /\ ChecksumFits(Plus(contents[3], Sum(DataOf(contents, size))))

\* These words are those of an image.
Whole(words) ==
  \E image \in Images :
    /\ DOMAIN words = DOMAIN image.words
    /\ \A k \in DOMAIN words : words[k] = image.words[k]

-------------------------------------------------------------------------------
(* Start-up and auto-boot                                                   *)

Blank == [k \in 0 .. FlashWords - 1 |-> Erased]
Holding(image) ==
  [k \in 0 .. FlashWords - 1 |-> IF k < Len(File(image)) THEN File(image)[k + 1] ELSE Erased]

\* An SD card without a valid file answers like no SD card.
Init ==
  /\ pc = "countdown" /\ auto = << >> /\ dev = "uart"
  /\ g_exe_base = 0 /\ g_exe_size = 0 /\ g_flash_addr = 0
  /\ header = << >> /\ i = 0 /\ rc = FALSE /\ said = FALSE
  /\ ram = [a \in 0 .. RamWords - 1 |-> 0]
  /\ flash \in [Flashes -> {Blank} \union {Holding(image) : image \in Stored}]
  /\ input = << >>
  /\ sdfile \in {File(image) : image \in Uploads}
  /\ present \in {Devices, {"spi", "uart"}}
  /\ programmable \in {{d} : d \in Flashes}
  /\ erred = {} /\ faults = 0

\* What a function leaves behind of its local variables and of the stream.
Forgotten == header' = << >> /\ i' = 0 /\ rc' = FALSE /\ input' = << >>

\* crt0 sets up the globals and main() starts: by a restart ('r') or when the power returns.
Start ==
  /\ pc' = "countdown" /\ auto' = << >> /\ dev' = "uart"
  /\ g_exe_base' = 0 /\ g_exe_size' = 0 /\ g_flash_addr' = 0
  /\ Forgotten /\ said' = FALSE /\ erred' = {}
  /\ UNCHANGED world

\* Any key stops the countdown; without one the devices are tried in turn.
Countdown ==
  /\ pc = "countdown"
  /\ \/ pc' = "console" /\ UNCHANGED auto
     \/ pc' = "auto" /\ auto' = AutoBoot
  /\ UNCHANGED <<dev, regs, work, said, ram, flash, input, world, erred, faults>>

Fault == faults < MaxFaults /\ faults' = faults + 1
Refuses == Fault /\ erred' = erred \union {dev}

\* Where main() goes on when auto-boot is done with its current device.
NextDevice ==
  /\ auto' = IF auto = << >> THEN << >> ELSE Tail(auto)
  /\ pc' = IF Len(auto) > 1 THEN "auto" ELSE "console"

\* system_app_load has returned: auto-boot boots or tries the next device, and a failed
\* upload halts (ebreak) "to prevent garbage stream to trigger stuff".
LoadReturns(failed) ==
  /\ Forgotten
  /\ IF auto # << >> /\ ~failed THEN pc' = "boot" /\ UNCHANGED auto
     ELSE IF auto = << >> /\ failed /\ dev = "uart" THEN pc' = "halted" /\ UNCHANGED auto
     ELSE NextDevice

-------------------------------------------------------------------------------
(* Loading                                                                  *)

\* Mutant: a second device is read from where the first one was left.
Setup_KeepsAddress(d) == UNCHANGED g_flash_addr
\* twi_flash_setup, spi_flash_setup, sdcard_setup, uart_setup of a device that is there
Setup(d) == g_flash_addr' = IF d \in Flashes THEN 0 ELSE g_flash_addr

\* Mutant: a load that fails leaves the size of the executable before it.
Forget_Nothing == UNCHANGED g_exe_size
\* "no executable available yet"
Forget == g_exe_size' = 0

\* The device is set up; the host sends a file when asked for one.
LoadStarts(d) ==
  /\ dev' = d /\ Forget /\ said' = FALSE
  /\ IF d \in present
       THEN /\ pc' = "header" /\ UNCHANGED auto
            /\ Setup(d) /\ header' = << >> /\ i' = 0 /\ rc' = FALSE
            /\ \/ d = "uart" /\ input' \in Sent
               \/ d = "sd" /\ input' = sdfile
               \/ d \in Flashes /\ UNCHANGED input
       ELSE NextDevice /\ UNCHANGED <<g_flash_addr, work, input>>
  /\ UNCHANGED <<g_exe_base, ram, flash, world, erred, faults>>

TryNext == pc = "auto" /\ LoadStarts(Head(auto))

\* stream_get: the next word of the device.  An SD card gives 0 past the end of the file; the
\* UART waits.
StreamWord ==
  IF dev \in Flashes THEN flash[dev][g_flash_addr] ELSE IF input = << >> THEN 0 ELSE Head(input)
StreamGet(refused) ==
  /\ dev = "uart" => input # << >>
  /\ IF dev \in Flashes
       THEN g_flash_addr' = (g_flash_addr + 1) % FlashWords /\ UNCHANGED input
       ELSE input' = (IF input = << >> THEN << >> ELSE Tail(input)) /\ UNCHANGED g_flash_addr
  /\ IF refused THEN dev \in {"twi", "sd"} /\ Refuses ELSE UNCHANGED <<erred, faults>>

Header ==
  /\ pc = "header" /\ Len(header) < BIN_OFFSET_DATA
  /\ \E refused \in BOOLEAN : StreamGet(refused) /\ rc' = (rc \/ refused)
  /\ header' = Append(header, StreamWord)
  /\ UNCHANGED <<pc, auto, dev, g_exe_base, g_exe_size, i, said, ram, flash, world>>

\* The base is taken over before the signature is looked at.
HeaderDone ==
  /\ pc = "header" /\ Len(header) = BIN_OFFSET_DATA
  /\ g_exe_base' = header[2]
  /\ IF header[1] # BIN_SIGNATURE THEN LoadReturns(TRUE)
     ELSE pc' = "transfer" /\ UNCHANGED <<auto, work, input>>
  /\ UNCHANGED <<dev, g_exe_size, g_flash_addr, said, ram, flash, world, erred, faults>>

\* One word to the main memory.  Nothing is there at its address: a trap, and panic.
Transfer ==
  /\ pc = "transfer" /\ ~rc /\ i < header[3]
  /\ \E refused \in BOOLEAN : StreamGet(refused) /\ rc' = refused
  /\ header' = [header EXCEPT ![4] = Plus(@, StreamWord)]
  /\ IF header[2] + i < RamWords
       THEN ram' = [ram EXCEPT ![header[2] + i] = StreamWord] /\ UNCHANGED pc
       ELSE pc' = "halted" /\ UNCHANGED ram
  /\ i' = i + 1
  /\ UNCHANGED <<auto, dev, g_exe_base, g_exe_size, said, flash, world>>

\* All words are there, or the device has refused one.
Checks ==
  /\ pc = "transfer" /\ (rc \/ i = header[3])
  /\ LET failed == rc \/ ~ChecksumFits(header[4])
     IN  /\ g_exe_size' = IF failed THEN g_exe_size ELSE header[3]
         /\ LoadReturns(failed)
  /\ UNCHANGED <<dev, g_exe_base, g_flash_addr, said, ram, flash, world, erred, faults>>

\* system_app_boot: an empty executable is booted if the user insists.
Boot ==
  /\ pc = "boot"
  /\ \/ pc' = "booted" /\ UNCHANGED auto
     \/ g_exe_size = 0 /\ NextDevice
  /\ UNCHANGED <<dev, regs, work, said, ram, flash, input, world, erred, faults>>

-------------------------------------------------------------------------------
(* Storing                                                                  *)

\* No executable, no device, or the prompt.
StoreStarts(d) ==
  /\ dev' = d /\ said' = FALSE
  /\ IF g_exe_size # 0 /\ d \in present THEN pc' = "prompt" /\ Setup(d) ELSE UNCHANGED <<pc, g_flash_addr>>
  /\ UNCHANGED <<auto, g_exe_base, g_exe_size, work, ram, flash, input, world, erred, faults>>

\* y or n.  The sectors are counted from the size of the executable, "at least 1 sector".
Prompt ==
  /\ pc = "prompt"
  /\ \/ pc' = "console" /\ UNCHANGED i
     \/ pc' = "erase" /\ i' = IF dev = "spi" THEN g_exe_size \div SectorWords + 1 ELSE 0
  /\ UNCHANGED <<auto, dev, regs, header, rc, said, ram, flash, input, world, erred, faults>>

\* spi_flash_erase: one sector; the TWI memory is not erased.
Erase ==
  /\ pc = "erase" /\ i > 0
  /\ flash' = [flash EXCEPT ![dev] =
                 [k \in DOMAIN @ |-> IF k \div SectorWords = g_flash_addr \div SectorWords
                                       THEN Erased ELSE @[k]]]
  /\ i' = i - 1 /\ g_flash_addr' = (g_flash_addr + SectorWords) % FlashWords
  /\ UNCHANGED <<pc, auto, dev, g_exe_base, g_exe_size, header, rc, said, ram, input, world, erred, faults>>

EraseDone ==
  /\ pc = "erase" /\ i = 0
  /\ pc' = "data" /\ g_flash_addr' = BIN_OFFSET_DATA /\ rc' = FALSE
  /\ header' = <<BIN_SIGNATURE, g_exe_base, g_exe_size, 0>>
  /\ UNCHANGED <<auto, dev, g_exe_base, g_exe_size, i, said, ram, flash, input, world, erred, faults>>

\* What word old becomes when w is written to it.
Programmed(old, w) == IF dev = "spi" THEN old & w ELSE w
\* Power failed between two bytes of w: the low half is written.
HalfProgrammed(old, w) ==
  LET half == 2^(WordBits \div 2) IN (old - (old % half)) + (Programmed(old, w) % half)

\* stream_put of w; the TWI memory may refuse it.
StreamPut(w, refused) ==
  /\ \/ ~refused /\ flash' = [flash EXCEPT ![dev][g_flash_addr] = Programmed(@, w)]
        /\ UNCHANGED <<erred, faults>>
     \/ refused /\ dev = "twi" /\ UNCHANGED flash /\ Refuses
  /\ rc' = (rc \/ refused)

Data ==
  /\ pc = "data" /\ ~rc /\ i < g_exe_size
  /\ \E refused \in BOOLEAN : StreamPut(ram[g_exe_base + i], refused)
  /\ header' = [header EXCEPT ![4] = Plus(@, ram[g_exe_base + i])]
  /\ i' = i + 1 /\ g_flash_addr' = (g_flash_addr + 1) % FlashWords
  /\ UNCHANGED <<pc, auto, dev, g_exe_base, g_exe_size, said, ram, input, world>>

\* The header goes in last, in the place left for it.
DataDone ==
  /\ pc = "data" /\ (rc \/ i = g_exe_size)
  /\ pc' = "write_header" /\ g_flash_addr' = 0
  /\ header' = [header EXCEPT ![4] = Erased - @]
  /\ UNCHANGED <<auto, dev, g_exe_base, g_exe_size, i, rc, said, ram, flash, input, world, erred, faults>>

WriteHeader ==
  /\ pc = "write_header" /\ g_flash_addr < BIN_OFFSET_DATA
  /\ \E refused \in BOOLEAN : StreamPut(header[g_flash_addr + 1], refused)
  /\ g_flash_addr' = g_flash_addr + 1
  /\ UNCHANGED <<pc, auto, dev, g_exe_base, g_exe_size, header, i, said, ram, input, world>>

\* "OK", or "ERROR_DEVICE".
StoreReturns ==
  /\ pc = "write_header" /\ g_flash_addr = BIN_OFFSET_DATA
  /\ pc' = "console" /\ said' = ~rc /\ Forgotten
  /\ UNCHANGED <<auto, dev, regs, ram, flash, world, erred, faults>>

-------------------------------------------------------------------------------
(* The console and the power supply                                         *)

\* u, t, l, c; w, s; e; x; r.
Console ==
  /\ pc = "console"
  /\ \/ \E d \in Devices : LoadStarts(d)
     \/ \E d \in programmable : StoreStarts(d)
     \/ /\ pc' \in {"boot", "halted"} /\ said' = FALSE
        /\ UNCHANGED <<auto, dev, regs, work, ram, flash, input, world, erred, faults>>
     \/ Start /\ UNCHANGED <<ram, flash, faults>>

\* At any time, in the middle of a word too.
PowerFailure ==
  /\ Fault
  /\ \/ UNCHANGED flash
     \/ /\ pc = "data" /\ ~rc /\ i < g_exe_size
        /\ flash' = [flash EXCEPT ![dev][g_flash_addr] = HalfProgrammed(@, ram[g_exe_base + i])]
     \/ /\ pc = "write_header" /\ g_flash_addr < BIN_OFFSET_DATA
        /\ flash' = [flash EXCEPT ![dev][g_flash_addr] = HalfProgrammed(@, header[g_flash_addr + 1])]
  /\ ram' = [a \in DOMAIN ram |-> 0]
  /\ Start

Next ==
  \/ Countdown \/ TryNext
  \/ Header \/ HeaderDone \/ Transfer \/ Checks \/ Boot
  \/ Prompt \/ Erase \/ EraseDone \/ Data \/ DataDone \/ WriteHeader \/ StoreReturns
  \/ Console \/ PowerFailure

Spec == Init /\ [][Next]_vars

-------------------------------------------------------------------------------
\* The bootloader thinks that it has an executable only if a whole one is in the main memory:
\* whatever was loaded, damaged, stored and lost before.
OnlyWholeImages ==
  g_exe_size # 0 => Whole([k \in 1 .. g_exe_size |-> ram[g_exe_base + k - 1]])

\* Whatever a store has got to when it is interrupted or refused, a memory holds nothing that a
\* load accepts, or a whole executable, the old one or the new one.
StoreIsAllOrNothing ==
  \A d \in Flashes :
    Loads(flash[d]) => Whole(DataOf(flash[d], flash[d][2]))

\* Auto-boot boots from the first device that has an executable, in the order TWI, SPI, SD card.
AutoBootsTheFirst ==
  pc = "booted" /\ auto # << >> =>
    \A d \in Flashes :
      dev = "sd" \/ (dev = "spi" /\ d = "twi") =>
         d \notin present \/ d \in erred \/ ~Loads(flash[d])

\* software_bootloader.adoc:266: "If "OK" appears, the programming process was successful and the
\* flash can be used for the auto-boot sequence."
StoredImageLoads ==
  said => Loads(flash[dev])
===============================================================================

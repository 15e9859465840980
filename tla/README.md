# NEORV32 with single-event effects: a TLA+ verification project

The repository is the NEORV32 RISC-V system on chip, in VHDL, with an extension that injects
single-event effects (SEE): upsets of memory bits (SEU) and transients on wires (SET), and a
triplicated ALU that is to survive the latter. This directory models the parts whose correctness
depends on timing between several actors, or on a state that is left behind from one call to the
next; it checks the models with TLC, and proves some of their invariants with TLAPS.

Paths below are relative to `src/neorv32/`; `SEE` is `SEE_module/rtl`, `core` is `rtl/core`, `boot` is
`sw/bootloader`, `lib` is `sw/lib/source`, `example` is `sw/example`, `docs` is `docs/datasheet`.

## Conventions of the models

* **In the hardware a step is a rising clock edge** of everything in the module. Combinational signals
  are operators over the current state (and over the inputs of the clock), registers are variables.
  An action per FSM state, or per VHDL process where several processes step together.
* **In the software a step is an access** that another actor can see or interfere with: of a hart to
  the memory or to a register, of the bootloader to a device, of the search to the bus.
* **Inputs are chosen by `\E`**: what a program asks, when a device answers, when a button moves.
* **A bit vector is the set of the positions that hold a one** (`BitVectors`): XOR is symmetric
  difference, a lane is a set of positions, a majority is set algebra.
* Resets are asynchronous in the source and take effect at the next edge here. Registers without
  reset power up as zero; the contents of a RAM are arbitrary.
* Names follow the source. Operators named `X_Something` beside an `X`, commented "Mutant", are
  plausible wrong versions of `X`; no specification uses them. `PROJECT.json` lists for every
  property a mutant that TLC must find it violated by.
* Several *benches* share one run where they are small: a variable `bench`, chosen at the start
  and never changed, says which part moves; the others keep their initial state.

## Inventory

Status **M**: modelled, **P**: partly, **-**: not. `PROJECT.json` has the same list with files.

### Fault injection (the repository's own extension)

| Part | State | Operations | Interacts with | What is hard | What makes it correct | |
|---|---|---|---|---|---|---|
| SEU mutant data memory (`SEE/Mutant modules`) | RAM, upset FSM IDLE/READ/WRITE, target registers, LFSR, bus handshake | CPU access on port A, trigger, upset on port B, reset | CPU bus, button, VIO | the upset takes two clocks while the CPU stores to the same word; two processes write one shared variable in the same clock | an upset is one atomic flip of exactly its mask; no store disappears | P |
| SEE board (`SEE/SEE_Injection_top`) | debounce counter, stable flag, pulse | button, VIO enable | memory | pulses meet the FSM in any state, reset of the one does not reset the other | one upset per press | M |
| SEU saboteur (`SEE/Saboteur modules/injection_fault_SEU`) | FSM, address and data registers, LFSR | enable | single-port RAM | registered address lags by a clock | the word read is the word written | M |
| SET controller and injection block (`injection_controller_SET`, `Injection_fault_SET`, `fault_injection_SET_top`) | two LFSRs, match, registered enable | enable, reset, choice of N, fault setup | operand rs1 of ALU A | enable and match are both one clock late; LFSRs may decay | matches keep coming | M |
| TMR ALU (`SEE/SET_injection`) | three ALUs, voter | start, shift, complete | CPU control, saboteur | the fault comes and goes while the operation runs | the voted result is the fault-free one, and the flag tells | P |

### Bus and memory

| Part | State | Operations | Interacts with | What is hard | What makes it correct | |
|---|---|---|---|---|---|---|
| Switch (`neorv32_bus_switch`) | FSM, last selection, lock, pending per port | strobe of either port, answer | two hosts, device | strobes last one clock; request follows the live selection, response the registered one | no request lost, no answer misdirected, locks exclude, nobody starves | M |
| Read-modify-write controller (`neorv32_bus_amo_rmw`) | FSM, operand registers | read, compute, write, answer | switch, reservation station | error in one half, signed and unsigned on one comparator | result, returned word, termination | M |
| Reservation station (`neorv32_bus_amo_rvs`) | valid, sc_fail, sc_pend | LR, SC, any other access | both harts | one bit for all harts and addresses | an SC succeeds only after an LR with nothing in between | M |
| Gateway and monitor (`neorv32_bus_gateway`) | keeper FSM, counter, lock, kind of access | route, time out, terminate | memories, IO, external bus | answer and timeout in one clock | every access is watched and ends | M |
| External bus (`neorv32_xbus`) | pending, locked | access, answer, abort | gateway, anything outside | late, double and missing answers | no answer completes a foreign access | P |
| Load/store unit (`neorv32_cpu_lsu`) | arbiter, lock, address | request, answer, trap | CPU control, switch | the lock outlives the request | every access ends | P |
| Data memory `neorv32_dmem` | RAM, read register | load, store | gateway | | see the fabric | P |
| Cache (`neorv32_cache`) | FSM of 15 states, tags, flags, pending flags | hit, miss, eviction, bypass, synchronisation | host, bus | synchronisation and access pending together, bypass of a dirty block, bus error in a write-back | a host cannot tell it from the memory behind it | M |
| FIFO primitive `neorv32_prim_fifo` | two pointers, late `avail` | write, read, clear | DMA, frontend | a reader that trusts `avail` for two clocks | order, no loss, no invention | P |
| DMA (`neorv32_dma`) | FSM, descriptor FIFO, flags | program, start, move, report | program, bus | switching off in the middle, errors, wrapping pointers | moves exactly what the descriptors say | P |
| Register stage, IO switch, instruction memory, boot ROM | delay registers; address decoder | | | | | - |

### Processor core

| Part | State | Operations | Interacts with | What is hard | What makes it correct | |
|---|---|---|---|---|---|---|
| Frontend (`neorv32_cpu_frontend`) | fetch FSM, PC, two FIFOs of half-words, alignment bit | fetch, answer, restart, issue | control, instruction bus | a restart overtakes a fetch; instructions straddle words | what is dispatched is the instruction at the PC | M |
| Control (`neorv32_cpu_control`) | execute FSM, PCs, trap buffers, debug FSM, CSRs, monitor | eleven FSM states; trap entry and exit | frontend, LSU, co-processors, interrupts, debugger | exceptions, interrupts, halts, triggers and steps in the same clocks | traps are precise; a trapped instruction has no effect; always goes on | P |
| Hardware counters and triggers | match buffer, CSRs | match | control | match races with exceptions (the match buffer is in the model of control) | see control | - |
| Decompressor, ALU and co-processors, register file, PMP, trace | mostly data | | control | arithmetic boundaries | | - |

### Debugger, timer, peripherals

| Part | State | Operations | Interacts with | What is hard | What makes it correct | |
|---|---|---|---|---|---|---|
| Debug module (`neorv32_debug_dm`) | registers, hart flags, command FSM, sticky error, data buffer | register accesses, abstract commands, halt, resume, reset | debugger, harts | a debugger that touches registers while a command executes; a four-flag handshake with firmware | each command executed once, by the selected hart, with its own operands; what was refused is told | P |
| Park loop (`sw/ocd-firmware`) | place in the loop, x8 and its backup | park, execute, resume, exception | debug module, program buffer | it needs a register of the program | the program gets its register back | M |
| Debug transport, authentication | shift registers, sticky busy | | | | | - |
| Core local interruptor (`neorv32_clint`, `lib/neorv32_clint.c`) | time and comparators as two words each, carry, software interrupts | count, write, read | programs of two harts | carry between the words, comparison over two clocks | the interrupt iff the time has come; the time read is a time | M |
| Counter primitive (`neorv32_prim_cnt`) | two words, carry | count, write | CLINT | | see above | M |
| Watchdog, reset and clock system | counter, two reset flags, cause | | | reset of the counter in the clock of the timeout | | - |
| UART, SPI, SDI, TWI, TWD, 1-Wire, NeoLED, SLINK, GPTMR, PWM, GPIO, TRNG, tracer | FIFO plus serial engine | | | disable in mid-transfer, flow control, clock stretching | | - |

### Software

| Part | State | Operations | Interacts with | What is hard | What makes it correct | |
|---|---|---|---|---|---|---|
| Start-up code and SMP launch (`sw/common/crt0.S`, `lib/neorv32_smp.c`) | request in MTIMECMP[1], software interrupt, registers of core 1 | launch, acknowledge, time out | two cores, CLINT | two requests through one register pair; a time-out that has nothing to do with core 1 | core 1 runs what the launch that returned 0 asked for | P |
| Runtime environment (`lib/neorv32_rte.c`) | handler table, frame on the stack, `mscratch` | setup, install, trap, context access | program, handlers, other hart | the stack pointer is itself saved; emulated instructions name any register | a trap is invisible to the program | P |
| Bootloader (`boot`) | base, size, stream address; flash, RAM | auto-boot, console, load, store | host, flash, TWI memory, SD card | power fails, devices refuse, uploads are damaged | no half executable is started | M |
| Petit FatFs (`boot/petit_fatfs`) | file system, directory and file cursors | mount, open, read | card | entries and pieces at the ends of sectors, clusters, chains | the named file, to the byte | P |
| Image generator (`sw/image_gen`) | | executable with checksum | bootloader | | see the bootloader | P |
| Spin locks (`example/demo_dual_core*`) | lock word, reservation | lock, unlock | harts, reservation station | atomicity | never two inside | M |
| 1-Wire search (`example/demo_onewire`) | number, last discrepancies, last-device flag | first, next, verify, target, skip | devices that come and go | four globals carried from call to call | every device once | M |
| CPU functions, drivers, other examples, benchmarks | | | | | | - |
| Board wrappers, testbenches, scripts | wiring, tests | | | | | - |

## Modules

| Module | Stands for | How state and actions correspond |
|---|---|---|
| `BitVectors` | vectors, XOR, LFSR shifts | helper |
| `SeuDmem` | `neorv32_prim_spram` and `neorv32_dmem(_ram)` of the mutant memory, `seu_pkg` | one action `Edge`: `port_a`, `port_b` (upset FSM), `read_outreg`, `seq_proc` (LFSR), `bus_handshake`; `Drive` is the next request of the load/store unit. The order in which the two port processes touch the shared variable is a choice per lane (`Orders`), made only when they touch one word |
| `UpsetMemory` | *abstract*: memory with atomic, announced upsets | refined by `SeuDmem` |
| `SeeBoard` | the board top | `SeuDmem` plus `debouncer` |
| `SeuSaboteur` | `injection_fault_SEU` with its RAM | one action per FSM state, the LFSR and the RAM step along |
| `SetSaboteur` | SET controller and injection block | `random_proc`, `reg_proc`, `data_out`; `Operator` changes the controls |
| `TmrAlu` | CPU's triplicated ALU with serial shifter and voter | extends `SetSaboteur`; `Trigger`, `Shift`, `Complete`; its theorems stand at its end |
| `Bus` | request and response records, command codes | shared by all bus modules; `Apply`, the atomic operations as the textbook has them, is the *reference* |
| `BusSwitch` / `SwitchedHosts` | the switch / the switch with two hosts and a device | the FSM as `arbiter_sync`; hosts with single and locked accesses |
| `BusAmoRmw` / `AmoOperations` | controller of atomic operations / its bench | the controller's FSM, its ALU / any host, any memory |
| `BusAmoRvs` | reservation station | `rvs_control`, `sc_result`, wires |
| `BusGateway` | address decoder, response OR, keeper | `bus_monitor` |
| `Xbus` | external bus gate | `xbus_arbiter` |
| `BusFabric` | all of the bus with two load/store units, as wired in `neorv32_top` | composes the five by `INSTANCE`; one `Edge` |
| `AtomicMemory` | *abstract*: every access takes effect in one step | refined by `BusFabric` |
| `Cache` | cache engine, status, tag and data memories, host, bus | one action per state of the engine; `truth` is the memory that the host would find without a cache |
| `Dma` | DMA controller, its FIFO, the program that uses it, the memory | `FifoEdge` is the FIFO primitive with several entries (RAM, pointers, late `avail`); one action per state of the engine, each with `Around` (control register, FIFO, data buffer) |
| `DmaTransfers` | *abstract*: descriptors in a queue, moves in order | refined by `Dma` |
| `CpuFrontend` | frontend | `FrontendEdge` steps the fetch FSM, both FIFOs and the issue FSM |
| `CpuControl` | control unit | one action per state of the execute engine, each a whole edge: engine, trap buffers, debug FSM, CSR write |
| `CpuCore` | both, and what surrounds them | `Next` is the eleven actions, each with `Around` (frontend, trigger buffer, debugger, history) |
| `Hart` | *abstract*: a hart with precise traps | refined by `CpuCore` |
| `DebugModule` | debug module, park loop of the harts, debugger | `Edge` composes the processes `dmi_write_access`, `hart_status`, `cmd_arbiter` and `bus_access` with one access of one hart (`Steps`) and at most one of the debugger; an operator per place of `park_loop.S` |
| `Clint` | timer of the CLINT and the functions on it | `Elapse` is a clock of the counter and the comparison; the actions of the functions (`WriteWord`, `time_get`, `Wait`) take one each |
| `SmpLaunch` | launch of core 1 | one action per access to the CLINT of either core |
| `Rte` | first-level handler, table, panic, an emulating handler | one action per part of `__neorv32_rte_core`, with programs, handlers and the other hart around it |
| `Spinlock` | both spin locks on the memory with one reservation bit | one action per data access |
| `Bootloader` | `main.c` and `hal/` | one action per word that is transferred, and per decision of `system.c` and `main.c` |
| `PetitFat` | `pff.c` on a card | one action per read of the card |
| `OneWireSearch` | `onewire_aux.h` | one action per round of a search and per call |
| `*_proof` | theorems | about the memory and its upsets (`SeeBoard_proof`), the CPU, the cache, the switch, the bus, the DMA, the software and the debug module (`Software_proof`, see below) |
| `MC*` | instances for TLC | `MCSeeMemory` has `SeeBoard` and `SeuSaboteur`, `MCCoreUnits` the ALU and the cache, `MCBusUnits` the switch, the atomics and the DMA, `MCSoftware` all the software, the timer and the debug module as benches |

## Runs

### see_memory (`MCSeeMemory`), passes

Three benches: the mutant memory under any CPU traffic, triggers, masks and resets; the memory
behind the board's button; the saboteur.

* `BoardTypeOK`: types of the memory and the board.
* `UpsetsAreAtomic`: refinement of `UpsetMemory`. The mapping takes `Effective`, the memory as
  it will be when the upset at work is over, for the abstract memory, so the flip is one step
  although the code reads, keeps and writes back. The abstraction lets a store that collides with
  the upset of its word miss lanes (`Lossy`); nothing else may happen.
* `RandvectNotZero`: the target LFSR is never in its dead state.
* `PulseFindsIdle`: no pulse of the debouncer meets a busy FSM, hence no press is swallowed.
* `InjectFromPrevious`: what the saboteur does instead of an upset in place: the word of the
  *previous* target, one bit flipped, becomes the word of the new one.

Bounds: two words of two one-bit lanes (collision, non-collision, partial stores), three LFSR bits
(every target and bit), stored words all zeros and all ones, debounce limit 1 (the smallest,
hence the most pulses). Saboteur: three words in a four-word address space so that the modulo
folds, words of two bits.

### see_memory_collision: violated

With `Lossy` false the refinement fails (`NoStoreIsLost`): a CPU store that meets the upset of its word is
undone, while `SEE_module/README.md:130` says there is no collision risk.

### core_units (`MCCoreUnits`), passes

The triplicated ALU with the saboteur at replica A, faults that appear and vanish at any clock:

* `VotedIsClean`: whenever the CPU takes the result, it is the fault-free one.
* `ErrorTracksReplicaA`: the flag is up exactly when replica A's result is wrong.

Bounds: four-bit words, shift amounts 0 to 3, two operands, two masks: every position can be hit in
every clock of every length of operation. Two-bit LFSRs, so that matches come and stay away.

The cache between a host and a bus that fails, synchronised at any time:

* `ReadsTheTruth`: a load or an atomic access that ends without an error gets the word that was last
  written there, whether it comes from a block, from a block fetched for it or past the cache. Only an
  error that was reported makes a written word disappear.
* `SyncLeavesNothing`: after a synchronisation the memory holds everything that was written, and the
  cache holds nothing but the blocks whose write-back was refused.
* `HostIsServed` (liveness): every access ends, unless synchronisations never stop.

Bounds: five geometries (two blocks of one word; one block of two words with and without bursts; read-only; a
burst of four words), two tags and the uncached space, and a host that writes 1 to the last word of its
block and 0 elsewhere, so that a word that goes astray shows. Word contents matter to nothing but this.

### set_campaign: violated

For N = 15 no match ever comes (`MatchesRecur`). Neither LFSR taps position 0, so its step is not invertible. From the
source's seeds the pair runs through 9 vectors into a cycle of 9765; in the 9774 draws N = 8 matches
42 times, N = 12 twice, N = 13 once, N = 14 and 15 never.

### bus_units (`MCBusUnits`), passes

The switch with two hosts, round robin: `AnswerFindsOwner`, `NoRequestLost`, `LockExcludes`,
`OvertakenOnce`, `EveryRequestAnswered` (liveness). Locked accesses have up to three beats, one
more than the two at which the first-beat, middle-beat and last-beat cases differ. Priority arbitration and
the read-only port are covered by the theorems.

The controller of atomic operations, every command on every pair of two-bit words, errors in either half:
`ActsAsReference`, the word written and the word returned are those of the textbook operation. Two
bits have a sign and a magnitude: every order of operands, signed and unsigned, occurs.

The DMA controller, for a program that fills the FIFO while nothing runs, as `demo_dma` does:

* `MovesWhatDescriptorsSay`: refinement of `DmaTransfers`. Every element goes from and to where its
  descriptor says, once, in order, and only an error or switching off ends a descriptor early.
* `DoneMeansAll`: when the done flag (the interrupt) comes, no descriptor is left, or the error flag is up.
* `EveryTransferIsReported` (liveness).

Bounds: FIFO of eight words (two descriptors chained), nine words written, so that the index and the extra bit
of both pointers wrap; transfers of one and two elements, with and without increment. An address
is a number of elements; the memory holds at each address that address, so a move shows where its datum came from.

### bus_fabric (`MCBusFabric`), passes

Two harts, one memory cell, one hole in the IO space, and one external address; the rigid variable `setup`
says whether there is an external bus, whose device answers late, with errors, unasked, or never, and what the
programs access.

* `AccessesAreAtomic`: refinement of `AtomicMemory`. A load, store, LR, SC or AMO takes effect in one
  step between its request and its answer, its answer is the one the textbook gives, and an
  access to nothing gets an error.
* `WatchedInside`: without an external bus, the monitor is on the case whenever a hart is being served.
* `EveryAccessEnds` (liveness): likewise, whatever the other hart does.

Bounds: one-bit words, timeouts of two clocks (the first, a middle and the expiring clock differ), one
address of each kind. More addresses of a kind would only differ in the address, which nothing
but the decoder and the memory looks at, as the reservation has none. `MCSetups` lists the accesses: one
AMO stands for the nine (the other commands are in bus_units).

### bus_fabric_deadline: violated

If the external device answers in the clock in which the timeout expires, the keeper goes to its error
state (`neorv32_bus.vhd:414`), and an access that the other host strobes in that clock is not watched
(`EveryAccessIsWatched`). `neorv32_bus.vhd:246` says that ALL accesses complete within a bounded time.

### cpu (`MCCpu`), passes

Six configurations of generics, instructions and surroundings (see `MCCpu`): compressed code with
branches and fetch errors; every path to memory and co-processors; interrupts, sleep and privilege
modes; halts, breakpoints and single steps; halts among interrupts; triggers.

* `TrapsArePrecise`: refinement of `Hart`. The abstract `pc` is `exec.pc` while the instruction in
  exec has not happened and `exec.pc2` after; an instruction happens when it leaves the engine
  without an exception, or a clock later if it writes a CSR. The history variable `open` says that
  an interrupt needs interrupts enabled when the last instruction began: thus between a handler's
  start, or a return, and the next interrupt at least one instruction happens, the forward
  progress that `docs/cpu.adoc:664-668` promises.
* `DispatchedIsNext`: nothing stale passes from the frontend.
* `FaultedHasNoEffect`: an instruction that will trap has written nothing and asked nothing.
* `AlwaysGoesOn`: at most `MaxIdle` clocks without progress when no bus is awaited. This is liveness as a
  bound; the liveness graph of this model is beyond TLC.

Bounds: eight half-words of code address (PC wraps, so every alignment and straddling occurs),
jumps to 0, 3 and 4 (aligned, misaligned, handler), a co-processor monitor of two clocks
(checked with four as well), interrupts that come and go, and, among halts, interrupts that stay until they
are served. `MaxIdle` is 13 + 2^`MonitorBits`, the bound that is proved; these six reach 9 + 2^`MonitorBits`, with
the debugger. For the last four clocks a monitor exception, a halt request that comes with it and the trap
it leaves behind have to follow one another in compressed code: the configuration `Waiting`
of `MCCpu` has that and reaches the bound, but is too large to be part of the run.

### cpu_trap_source: violated

An interrupt that is masked in `mie` just as it arrives is still taken, with nothing in the trap
buffers (`TrapsHaveASource`): the priority encoder falls through to the machine timer cause
(`neorv32_cpu_control.vhd:809` against the comment on 807). A halt request leaves the same kind
of second, sourceless trap behind inside debug mode; the park loop starts over and nothing else
is lost, so the model of `Hart` has `DebugTrap`.

### software (`MCSoftware`), passes

Eight benches. Six are software, two are the hardware that only makes sense with the software on it.

* **Locks** (`Spinlock`, `ExclusiveAccess`): three harts at the lock made of `amoswap.w`. The theorem has any number.
* **Bootloader**. A console or an auto-boot, uploads over the serial line that are cut off or damaged, loads
  and stores with the SPI flash (bits can only be cleared, sectors erased) and the TWI memory, a power failure or
  a refused transfer at any word.
  - `OnlyWholeImages`: when the bootloader believes to have an executable, the main memory holds a whole one, where it says.
  - `StoreIsAllOrNothing`: however a store is interrupted, a memory holds the old executable, the new one, or
    nothing that a load accepts: the header is written last, and the checksum covers the data.
  - `AutoBootsTheFirst`: auto-boot starts from the first device that has an executable.

  Bounds: executables of one and two words, one not linked to address 0; sectors of five words, of which the
  header takes four; one fault (a second one could only hit the repetition of what the first one hit). The
  memory that can be programmed is blank at first, the other one may hold an executable. An upload is whole,
  has one word altered, or lacks the last word but one. Words have ten bits and are chosen so that no mixture of old and new ones
  fits a checksum by chance, which in the code is one in 2^32.
* **Petit FatFs**, twenty-four cards: with and without a partition table, clusters of one and two sectors, chains in
  three orders, files that end within and at the end of a sector, directories that span clusters and hold one
  another, deleted entries, volume labels; paths that exist and do not, spelled in small letters and with slashes.
  - `OpensWhatIsNamed`: the file that is opened is the one the path names in the directories, and there
    is an error exactly if there is none, or the card refused.
  - `ReadsTheFile`: pieces of any size, one after the other, give the file to the byte.

  Bounds: sectors of two bytes, two entries or four links, so that every boundary is met.
* **SMP launch**: three launches of two functions on two stacks, each possibly timing out.
  `LaunchedAsAsked`: if a launch returns 0, core 1 runs, or is about to run, its function on its stack, having passed
  through the start-up code of the program.
* **CLINT**, low words of sixteen values and high words of three, programs that set the time and the comparator and
  read the time, their accesses a few clocks apart (`MaxGap`).
  - `CounterKeepsTime`: no carry is lost or counted twice.
  - `InterruptOnTime`: with the registers left alone the interrupt is up exactly if the time of two clocks
    ago had reached the comparator, and `mtimecmp_set` never raises it early.
  - `TimeReadIsATime`: `time_get` returns a time of its own duration.

  Bounds: the three accesses of a function must take less time than the low word takes to go round, which
  sixteen values are just enough for, and 2^32 are.
* **Runtime environment**: a program of core 1 (the table changes at any time, so core 0 could do nothing else) on a small stack, interrupts, calls and misaligned loads through
  any register, the stack pointer included, handlers that clobber what they may, another hart that changes the table.
  `TrapIsTransparent`: after every trap the program has the registers, the stack and the place it would have had.
* **1-Wire search**, five numbers in three families, any set of them on the bus, one device coming or going:
  `FindsEveryDevice` (each once, whatever verifications come in between, and then the search says
  so) and `FindsWhatIsAskedFor` (verification, and the search for a family).
* **Debug module**: two harts in the park loop and a debugger that writes any register in any clock but two
  adjacent ones. Five debuggers (`MCKits`), each with other commands, take turns, as all together would only
  multiply states.
  `DebuggerIsRight`: once the arbiter is idle, a debugger that believes what it wrote and the
  error flag knows the registers of the harts and the data buffer. So each command was executed once, by the hart
  that was selected, with the operands of its start, refused accesses and exceptions have been told, the park loop
  has restored x8, and no hart that is called halted runs a program.
  A register written in the last clock of a command is the exception, see below.

Deadlock is not checked here: the bootloader ends in the program it starts, a panic is an endless loop, a search
or a read comes to its end. All properties are safety properties; liveness would need the
graph of 1.5 million states for eight unrelated parts. What matters of it is elsewhere: an access ends (bus_fabric), and
the waiting loops of the software have a time-out (`SmpLaunch`) or a person in front of them.

### spinlock: violated

The lock of `demo_dual_core` is made of `lr.w` and `sc.w` by `__sync_bool_compare_and_swap`, on a memory that has
one reservation bit without an owner. Hart B reads the lock as free. Hart A takes it, works, and unlocks: the
`lr.w` of its `spin_unlock` sets the bit, and now the `sc.w` of B succeeds, with a comparison from before. A's own
`sc.w` fails, it repeats its unlock, frees the lock that B holds, and may lock again: both are inside.
`docs/soc.adoc:642-644` promises mutual exclusion. The lock of `demo_dual_core_rte`, one `amoswap.w`, is not affected.

### boot_store: violated

`spi_flash_erase` counts the sectors of an executable without the 16 bytes of its header
(`boot/hal/source/spi_flash.c:146`). An executable whose data just fits a sector reaches into the next one,
which keeps the bits of what was there; the store says OK and no load accepts the result (`StoredImageLoads`,
`docs/software_bootloader.adoc:266`).

## Fairness

| Where | Assumed | Why the code justifies it |
|---|---|---|
| `SeuDmem`, `SeeBoard`, `SeuSaboteur`, `MCSetCampaign` | weak fairness of the next-state relation | the clock does not stop |
| `SwitchedHosts` | weak fairness of an edge, and of an edge with an answer of the device | the keeper of the gateway ends every access behind it; `WatchedInside` and `EveryAccessEnds` establish this for the composed fabric, which assumes nothing of its devices |
| `Dma` | weak fairness of an edge at which the program is quiet, and of an edge with an answer | the clock does not stop, and the program's accesses are at least two clocks apart; nothing makes the program act. The answer as above |
| `Cache` | weak fairness of an edge at which the host waits and no synchronisation comes, and of an edge with an answer of the bus | the clock does not stop while a host waits; a synchronisation is an instruction, of a hart that goes on. The answer as above, possibly with an error each time |
| `MCBusFabric` | weak fairness of `clk' = ~clk` without an external bus | the clock again; `clk` makes an edge at which no register changes a step too |

The hosts, the operator, the devices outside, the debugger and the programs are under no fairness at all.

## Proofs

Checked by `tlapm` for every value of the constants that the named assumptions allow.

* `SeeBoard_proof`, the memory: `SeuDmemTypes`; `SeuDmemLfsrAlive`; `SeuDmemImplementsUpsetMemory`. The second rests on the tap at
  position 0 (an assumption of the module, true of `seu_pkg.vhd`): if the only one is at position 0 its parity is 1
  and enters at the top, otherwise another one remains. The third is the refinement `UpsetsAreAtomic`. The
  mapping shows the word the FSM has read and not yet written back as already upset (`Effective`), so the
  step lemmas are: a request of the bus to another word goes by (`RequestStore`), a store to the word being
  upset is the one that is kept, and the flip of the bit happens in the clock of the read
  (`FaultedBitFlips`). The lemmas about vectors (XOR, overlay, slice, shift) are here too.
* `SeeBoard_proof`, the board: `BoardTypes`; `BoardPulseFindsIdle`; `BoardBitFollowsAddress`; `BoardImplementsUpsetMemory`, each
  clock of the board being a clock of the memory or none. `PulseFindsIdle` is
  not inductive. The strengthening, `DebounceGap`, says that since an upset started either its press still lasts
  (the stable flag is up, so there is no second pulse) or the button was released and the counter is at 0
  when the FSM reads, at 0 or 1 when it writes: the debouncer stays a clock behind the FSM. So any limit of
  at least one is enough, whatever the bouncing and the resets.
* `SeeBoard_proof`, the saboteur: `SaboteurInjects`, from `SaboteurAssumption` (the generics fit one another, and a slice of the LFSR is the vector of a number). The property
  speaks of a step that writes; `Carries` says that on the way there the data register holds the word of the address that
  was read, with the bit of the draw flipped (`InjectOne`), whatever is enabled or disabled meanwhile.
* `CpuCore_proof`: `CoreTypeCorrect`, `DispatchIsInStep`, `TrapsLeaveNothing`, `ControlImplementsHart`, `AlwaysGoing`, from `CoreAssumption`: entry points are
  aligned to words, the targets of a program are addresses, the trigger module comes with debug mode (and powers of two are even).
  `DispatchedIsNext` speaks of one clock of `S_DISPATCH`. `CoreInv` says why it holds then: unless what was fetched is
  `Doomed` (a trap or a return is on its way) or a restart is in flight, the frontend is `At` the next PC with the hart's
  mode (`InStep`): the two FIFOs hold, alternately, consecutive half-words from there, the fetch address follows the last one,
  and the alignment flag is the parity. A restart in flight leaves the FIFOs empty (`Restarts`) and no
  instruction in execution (`RestartStates`). What could break it is in the remaining conjuncts: without compressed instructions
  an odd target must be an exception before it is a PC (`Evenness`), and a match of a trigger that makes `S_DISPATCH` drop
  an instruction must be a pending trap in the next clock (`Matches`). Each action of the control unit provides
  `ControlFlow`, the frontend lemmas do the rest. `FaultedHasNoEffect` needs `Quiet`: while an instruction is at work nothing
  has been written yet, and until its last clock only its fetch and its decoding have raised an exception.
  `ControlImplementsHart` is the refinement of `Hart`. To the instruction in `exec` a clock edge is one of seven things (`Flight`):
  the instruction `Stays` (or waits for its trap), `Lands` without an effect that `Hart` sees, `Writes` a CSR; none is in flight (`Rests`),
  the next one `Begins`; the hart `Enters` a trap, or `Returns`. Each maps to a step of `Hart` or to a stutter. `TrapInv` is what that needs:
  CSRs are written and returns are executed by legal instructions only (`WritesLegal`, `LegalSystem`); an `ebreak` into debug mode traps at
  once (`Breaks`), a halt request neither disappears before the halt nor outlives it (`Halts`), the step request stands behind every instruction that is
  single-stepped and behind no other (`StepsOnce`); a saved address needs no alignment unless the branch has raised its own exception
  (`SavedAddresses`); and if nothing but an interrupt is pending, interrupts were enabled when the last instruction began, or are enabled by
  the CSRs the one in `exec` runs with (`Due`). `CauseFacts` says what the priority encoder chooses.
  `AlwaysGoing` counts down: `Remaining` is the number of clocks that the engine can still take from its state, with
  what is pending, until it makes progress or waits for a bus, and `IdleInv` that this and the clocks already passed are at most `MaxIdle`
  together. A lemma per state of the engine shows that `Remaining` shrinks with each idle clock. The proof
  found the bound: the one first written down, 9 + 2^`MonitorBits`, had been checked but is four clocks short (see the run cpu).
* `Cache_proof`: `CacheTypes`, `CacheReadsTheTruth`, `CacheSyncLeavesNothing`, from `CacheAssumption`: at least one block of at least one
  word, of several words with bursts, the bounds that the assertions of `neorv32_cache.vhd` and `neorv32_top.vhd` ask for, and accesses
  that are loads, stores and swaps. Neither property is inductive. The centre of `CacheInv` is `DataInv`: a valid block `Holds` the
  truth, unless a download is overwriting it, and a word of the memory that is not the truth (`InPlace`) lies in a valid and dirty block
  of its tag. To keep that, each state of the engine has to know something. A download finds the whole block in its place
  and has the words before `ofs_int` as they are in the memory, or an error in `bus_err` (`Loaded`); an upload has put the words before
  `ofs_int` in their place, or knows of an error (`Stored`); the requests the bus still owes are those of the words from `ofs_int` on, in order
  (`Transfer`), which is where bursts, with two counters and a word read from the RAM a clock ahead, are at their most delicate (`StoreInv`).
  `CheckInv` says what the outputs of the RAMs stand for when an access is checked, at first, after a download and after a write-back
  (where they are a clock behind); `BypassInv`, that an access that passes by has no valid block; `SyncInv`, that the blocks the
  synchronisation has been through are invalid, or refused and still dirty (`Clean`). One lemma per state of the engine shows that
  the invariant is kept, on top of lemmas about the RAMs, the host, and a bus that answers the oldest request (`TransferStep`).
* `SwitchedHosts_proof`: `SwitchTypes`, `SwitchAnswers`, `SwitchRemembers`, `SwitchLocks`, `SwitchIsFair` for both
  arbitration modes, any set of read-only ports and any length of a locked access. All follow from one
  invariant `Inv`: a port the switch is busy with is `Served` (the device holds its request, or it is between
  two beats), a port it is not busy with is `Unserved` (it is remembered exactly if it waits), and
  an overtaken host is remembered and has its `Turn` next. None of the five is inductive by
  itself: whom an answer belongs to depends on who is remembered, and that on the lock.
* `BusFabric_proof`: `FabricInvariant`, `AccessesWatched`, `FabricImplementsAtomicMemory`, for two harts with any programs, words of
  any width, any address spaces, with and without an external bus whose device does what it likes. The assumptions are those of the modules: `BusAssumption`,
  `GatewayAssumption` (the internal timeout is not a single clock; `int_bus_tmo_c` is 16), `SetupAssumption`, and that powers of two are
  doubled by one more bit (`PowersOfTwo`). The invariant is `Inv`: registers keep their types; each unit is in the access it was asked for
  (`UnitInv`); what has not had its turn is remembered by the arbiter, what has is not (`Turns`); without an access all is at rest (`Idle`);
  and a request on its way is at exactly one place, with its answer or its timeout to come (`Serving`). That says, for the kinds of
  accesses, when the keeper is `Closing`, that its `Watch` is on from the clock behind the strobe, that a `Single` access has one
  strobe, and that in a `ReadModifyWrite` the word that was read is still the one in the memory, for the lock keeps everybody else out. The
  refinement maps an access to its effect in the clock in which the memory, or the reservation, answers. The ALU of the
  controller computes signed and unsigned minima with one subtraction and the carry: that this is the
  textbook's operation for words of any width is shown first, on bits (`LeastElement` replaces an induction).
  `AmoActsAsReference` is the same for the controller by itself, on its bench of bus_units, where a memory may also fail between the
  read and the write.
* `Dma_proof`: `DmaInvariant`, `DmaDoneMeansAll`, `DmaImplementsTransfers`, for FIFOs of four or more words (the least the generics allow), words of any width,
  and descriptors that move at least one element, as `docs/soc_dma.adoc:100` asks (`DmaAssumption`). None of the properties is
  inductive; `DmaInv` adds that the FIFO `Holds` the queue of accepted words, but for those of the next
  descriptor that the engine has popped; that this queue consists of `Whole` descriptors but for the one being written; what the
  engine has `Fetched` of its descriptor, word by word, although the RAM and `avail` are a clock late; and when it `Runs`: a start, a
  switch-off or an acknowledge never meets it at a moment that would cost a word, which is what the driver's rules are for. `QueueStep` does the FIFO, one lemma for each state
  the engine (`CheckKeeps` to `WriteRspKeeps`), and another one the refinement (`CheckFollows` to `WriteRspFollows`): the moves that are left
  are a sequence counted from the address registers, whose head is the move on the bus and whose tail is
  counted from the registers a step later (`HeadAndTail`), addresses going round (`SumOfRemainders`).
* `Software_proof`, the lock: `SpinlockExcludes`, any number of harts, each locking as often as it likes. `ExclusiveAccess` is not
  inductive, for a hart about to unlock still holds the lock. `LockInv` says that whoever is inside or about to
  unlock holds a lock that is taken (`Taken`), and is alone in that (`Alone`).
* `TmrAlu`: `TmrVotesClean`, words of any width, shifts of any length, every mask and duration of a fault, and a
  victim that may be another replica at each instruction; `TmrFlagTracksA`, from the assumption that
  the saboteur sits at replica A, as in `neorv32_cpu.vhd`. `VotedIsClean` speaks of the end of an operation only.
  `TmrInv` says what holds on the way: all replicas but one hold the operand, shifted by as many
  positions as the counter has gone down (`Running`), and the counter is at 0 when the result is out (`Handshake`).
* `Software_proof`, the launch: `SmpLaunchesAsAsked`, any number of launches of any functions on any stacks, each timing
  out in either request, from the assumption that no function is the start-up code (`LaunchAssumption`). `LaunchedAsAsked` speaks of successful launches;
  `LaunchInv` adds what core 0 has left in the comparator (`Left`), what core 1 has read of it (`Second`), that
  the software interrupt separates the two (`Requested`), and that before core 1 has been through the start-up
  code no launch gets beyond its first request (`FromRom`).
* `Software_proof`, the timer: `ClintKeepsTime`, `ClintReadsTime`, `ClintInterrupts`, words of any width and any times, from `ClintAssumption`: the accesses
  of a function are at most a quarter of a round of the low word apart. `Counts` is the arithmetic of one clock (the low word
  goes round, a carry arrives, the whole time goes round). `CounterKeepsTime` says nothing while `neorv32_clint_time_set` is at work;
  the invariant says why the high word stays as written until the end: the low word, once 0, has counted no more
  clocks than have passed (`Held`), and nothing else writes the time (`Writing`). For `TimeReadIsATime` it says what the first reads tell
  about the second (`Begun`, `Reading`): between two equal high words the low word has not gone round, although the carry is a clock late.
  For `InterruptOnTime` it relates the two comparisons, each registered, to the times of the last two clocks (`Registered`,
  `Raised`), and while the comparator is written word by word to the lesser of its old and its new value (`Comparing`, `Bound`).
* `Software_proof`, the runtime environment: `RteIsTransparent`, stacks of any size, any handlers and any other hart, from `RteAssumption` (a frame fits on the stack). `RteInv` keeps what the trap
  has `Promised`: the frame holds the registers of the program as they were, or as an emulating handler has to leave them (`Framed`), nothing
  above it is touched (`StackKept`), `mscratch` and the stack pointer name that frame, outside of it the registers are the program's
  (`Untouched`), and the saved PC is where the program goes on (`GoesOn`).
* `Software_proof`, the debug module: `DebuggerKnowsRegisters`, any number of harts and a debugger that uses any part of the module in any
  way (`DebugAssumption` says what there is to use). `DebuggerIsRight` speaks of an idle arbiter. `DebugInv` follows a command through:
  an acknowledge is of the last access, so its hart is still where it was (`LastAcknowledged`); the registers of the module do
  not change under the command (`Ordered`); its hart is where the state of the arbiter says (`Obeyed`), every other halted one in the
  park loop (`Parked`); of a hart that executes a command the debugger has given up, nothing is believed
  (`StraysUnknown`); x8 and the data buffer hold what the part of the command that is `Done` leaves in them (`Known`);
  and an exception or a refused access is in the error flag, or on its way there (`Told`). `GoesOnFrom`, `ArbiterStep` and
  `BeliefStep` say what an edge does to a hart, to the arbiter and to the history. Looking for this invariant
  corrected the history: a hart that the debugger has given up may write the data buffer under the "sw" of another
  one, after which the debugger cannot know the buffer (`order.alone`). The kits of the run do not get there.

The listed theorems name the properties of the runs where they coincide: TLC shows them on the
instance, the theorems in general.

Only model-checked:

* Liveness, for the prover has no ENABLED: `EveryRequestAnswered`, `EveryAccessEnds`, `HostIsServed`,
  `EveryTransferIsReported`, `MatchesRecur`. What the theorems say instead is what a step may never do, and for the CPU a bound in clocks.
* The bootloader (`OnlyWholeImages`, `StoreIsAllOrNothing`, `AutoBootsTheFirst`): whether a damaged image passes depends on the images, by a sum
  over all of their words; with arbitrary ones the properties are false, with a probability of 2^-32.
* Petit FatFs and the 1-Wire search (`OpensWhatIsNamed`, `ReadsTheFile`, `FindsEveryDevice`, `FindsWhatIsAskedFor`): chains of clusters
  and paths in a tree are recursive data, and need an induction over an operator. Where the data are the bits of a word, the least
  position at which something goes wrong does instead (`LeastElement`); the period of an LFSR is out of reach of both.

## Read off the code, without a run

Noticed while the modules were written; each is in the models as the code has it, unless it lies outside of them.

Fault injection:

* `at_bit` and `faulted_address` of the mutant memory are combinational functions of an LFSR that
  advances with the trigger: after an upset they name the target of the *next* one
  (`SEE/Mutant modules/neorv32_dmem_ram.vhd:90` and 123; `SEE_module/README.md:174` calls `at_bit` the
  index of the flipped bit).
* Address and bit of an upset are cut from the same LFSR bits, so a word is only upset in bits whose index
  agrees with its address (`BitFollowsAddress`, proved).
* The SEU saboteur reads one address and writes another (`injection_fault_SEU.vhd:151`, against its line 22).
  `InjectFromPrevious` says what comes of it.
* The injection block is said to be purely combinational (`SEE_module/README.md:50`), but has a registered
  enable (`injection_fault_SET.vhd:114`).
* `err_o` of the voter is up only if replica A differs from *both* others
  (`tmr_neorv32_cpu_voter.vhd:71`): an error of B or C alone is voted away in silence. On the board only
  A is attacked.

Processor:

* The reservation has no owner: an SC succeeds on the other hart's LR (`core/neorv32_bus.vhd:882`,
  `docs/soc.adoc:642`). The run spinlock shows a consequence.
* `wfi` in debug mode goes to sleep (`core/neorv32_cpu_control.vhd:460`), where `docs/cpu.adoc:432` and
  `docs/on_chip_debugger.adoc:804` call it a nop.
* A halt request or a trigger in the clock of an `ebreak` into debug mode has priority and resumes behind
  the `ebreak` (lines 879-882); the breakpoint is swallowed. `Overtaken` in `CpuCore` says so.
* A single-step request is lost when the stepped instruction traps; the step then covers the first
  instruction of the handler.
* With priority arbitration port B of a switch waits for as long as port A keeps asking (`core/neorv32_bus.vhd:103`).
* `S_GET_3` of the DMA takes the configuration word without a look at the FIFO (`core/neorv32_dma.vhd:253`): a
  descriptor whose third word is late, because it is written while the one before is at work, is executed with what the
  RAM of the FIFO holds in its place. `docs/soc_dma.adoc:94-95` says that incomplete descriptors wait. The model's
  program writes while nothing runs.
* Switching the DMA off while the engine waits in `S_GET_1` or `S_GET_2` clears its FIFO but not the engine
  (`core/neorv32_dma.vhd:237-249`; the flag is tested in `S_WRITE_RSP` only): it stays busy and takes the first
  words of the next program without a start.
* An acknowledge of the DMA's flags in the clock in which an error arrives clears the error with them
  (`core/neorv32_dma.vhd:143-147`).

Debug module (`core/neorv32_debug_dm.vhd`):

* An access in the last clock of a command (`CMD_PENDING` with the halt acknowledge) is refused, for the module is busy, but the
  flag that remembers it is cleared in the next clock, unread: no `cmderr`, where `docs/on_chip_debugger.adoc` has "invalid
  DM register read/write while command is/was executing". `record_told` exempts this clock; without the exemption
  `DebuggerIsRight` does not hold.
* A resume request to a running hart is kept, and resumes its next halt at once. A second resume request in the clock of the
  acknowledge of the first one takes the acknowledge with it.
* A command issued between a resume request and the resumption waits in `CMD_START` until the hart halts again.
* Switching the module off over a command does not stop the hart, which finishes it (`Strays`).
* The halt request follows `hartsel`, which does not change while a command executes: a request meant for
  another hart then halts the selected one.

Software:

* Bootloader: a header whose writing fails or is interrupted may leave a size of all ones in the flash. A load then runs
  beyond the main memory, and the trap handler of the bootloader ends in a panic: auto-boot does not go on to the next device
  (`boot/hal/source/system.c:147`). A store that is refused in its data still writes a header. The checksum does not cover the base address.
  `docs/software_bootloader.adoc` has 16 KB for `SPI_FLASH_SECTOR_SIZE`, `config.h` 64 KB.
* `example/demo_dual_core/main.c:116` waits until the lock is free "so we know core1 is done", which also happens if core 1 has not
  locked yet.
* SMP: after a launch that failed in its second stage (-2), one with other parameters may start the *old* function on the new
  stack. It does not return 0 for it.
* CLINT: setting the time by writing 0 to the low word first may raise the interrupt early, if the high
  word has not been written yet; `InterruptOnTime` speaks of times that are left alone. `docs/soc_clint.adoc:40` has the comparison the wrong
  way round (`MTIMECMP >= MTIME`).
* Runtime environment: `neorv32_rte_setup` of core 0 wipes the handlers that core 1 has installed
  (`lib/neorv32_rte.c:314-319`, `example/demo_dual_core_rte/main.c:99-126`). An exception in a handler overwrites `mepc`, `mcause`
  and `mscratch`. The emulating handler of `demo_emulate_unaligned` does not sign-extend the offset.
* 1-Wire search: a number that begins with a zero byte is taken for a failure; `OWFamilySkipSetup` after an `OWNext` that moved into
  another family uses the last family's discrepancy.
* `lib/neorv32_uart.c` masks the prescaler select with 3 where `docs/soc_uart.adoc:48` has three bits; `_sbrk` has no lower
  bound; the conversion of a date to a time in 32 bits ends in 2106.

## Not modelled, and why

* In the modelled parts: the one-word RAM without port B; ALU operations other than the serial
  shift; bursts, caches, the fetch port and the DMA in the fabric; the register stage of the external bus; byte lanes
  and alignment arithmetic of the load/store unit, byte lanes and byte swap of the DMA, byte enables of the cache; the FIFO with
  one entry; vectored mode, MPRV, TW, `mtval`, counters and the decoding of encodings in the CPU; the havereset flags
  and the read-only registers of the debug module, and harts that do not exist; nested exceptions and printing in the
  runtime environment; the copy and clear loops of the start-up code; the heart-beat, the terminal and the bytes of a word in
  the bootloader. An instruction is its kind, and the outcome of a branch or an access is a choice.
* Of Petit FatFs, writing, seeking and listing are compiled out, and the initialisation of the card only succeeds.
* Images, packages and wiring have nothing to check; the TRNG is analogue; serial engines are shift
  registers whose order of bits a simulation shows.
* Most of the C code in the repository is benchmarks (CoreMark, Dhrystone, performance tests), instruction tests (`processor_check`,
  `floating_point_test`, bit manipulation intrinsics) and accessors of device registers: straight-line programs that print what they
  find. They keep no state between calls and wait for nobody. The C code that does is the software modelled
  here; the core logic of the repository is VHDL.

## Plan

Written, in this order: the SEE modules; the switch, atomics, reservation, gateway, external bus and their
composition; the CPU; FIFO and DMA; the cache; lock, launch, timer, runtime environment, bootloader, FAT reader and 1-Wire search;
debug module and park loop. What remains worth doing, in this order:

1. **Composition**: the cache and the DMA in the fabric; the park loop on the debug mode of `CpuCore`.
2. **The DMA** with a program that switches it off or writes while it runs; `wfi` in debug mode as a run.
3. **System**: watchdog and reset cause; the debug transport with its sticky busy error.
4. **Peripherals**: SLINK, UART transmitter against receiver, TWI against TWD.

To keep the number of runs small, new parts become benches of a run that exists.

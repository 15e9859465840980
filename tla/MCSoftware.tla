------------------------------- MODULE MCSoftware -------------------------------
(***************************************************************************)
(* Eight test benches of the software in one model, chosen at the start:    *)
(* "lock": three harts at a spin lock;                                      *)
(* "boot": the bootloader with memories of two sectors of five words, a     *)
(*   main memory of three words, executables of one and of two words, one   *)
(*   of them not linked to address 0, and one fault;                        *)
(* "fat": Petit FatFs on cards with and without a partition table, clusters *)
(*   of one and two sectors in three orders, a directory in a directory, a  *)
(*   deleted entry, a volume label, and paths that name and do not name;    *)
(* "smp": three launches of two functions on two stacks;                    *)
(* "clint": a low word of sixteen values and a high word of three;          *)
(* "rte": core 1, with a stack that holds one frame, a word of the program  *)
(*   and a word more (the table changes at any time, so on core 0 nothing   *)
(*   else can happen);                                                      *)
(* "onewire": numbers of two data bytes and a check byte of two bits each,  *)
(*   five of them, one device coming or going;                              *)
(* "debug": the park loop of two harts at the debug module, and five        *)
(*   debuggers: one moves registers, resumes the hart and switches the      *)
(*   module off, one executes the program buffer, one halts and resumes two *)
(*   harts, one executes by touching a register, one commands two harts.    *)
(***************************************************************************)
EXTENDS SequencesExt, Spinlock, SmpLaunch, Clint, Rte, DebugModule

VARIABLES
  bench,
  boot_pc, auto, dev, g_exe_base, g_exe_size, g_flash_addr, header, i, boot_rc, said,
  ram, flash, input, sdfile, present, programmable, erred, faults,
  card, goal, path, fat_pc, fs, dj, btr, res, got, refused,
  bus, listening, search, search_call, id_bit_number, last_zero, backup, result, changes, seen

bootVars == <<boot_pc, auto, dev, g_exe_base, g_exe_size, g_flash_addr, header, i, boot_rc, said,
              ram, flash, input, sdfile, present, programmable, erred, faults>>
fatVars == <<card, goal, path, fat_pc, fs, dj, btr, res, got, refused>>
wireVars == <<bus, listening, search, search_call, id_bit_number, last_zero, backup, result,
              changes, seen>>
benchVars ==
  <<bench, lockVars, bootVars, fatVars, launchVars, clintVars, rteVars, wireVars, debugVars>>

-------------------------------------------------------------------------------
MCUploads == {[base |-> 0, words |-> <<517, 290>>], [base |-> 1, words |-> <<390>>]}
MCStored == {[base |-> 0, words |-> <<711, 84>>]}

Loader == INSTANCE Bootloader WITH
  Uploads <- MCUploads, Stored <- MCStored,
  WordBits <- 10, BIN_SIGNATURE <- 682, SectorWords <- 5, FlashWords <- 10, RamWords <- 3,
  MaxFaults <- 1, pc <- boot_pc, rc <- boot_rc

\* The memory that can be programmed is blank at first, one that is not there is neither written
\* nor programmable, and the file of the card has one word.
MCLoaderInit ==
  /\ Loader!Init
  /\ \A d \in programmable : flash[d] = Loader!Blank
  /\ \A d \in Loader!Flashes \ present : flash[d] = Loader!Blank /\ d \notin programmable
  /\ Len(sdfile) = 5

-------------------------------------------------------------------------------
MCEntry(name, attr, k) == [name |-> name, attr |-> attr, object |-> k]
MCFile(chain, size) == [chain |-> chain, size |-> size, entries |-> << >>]
MCDir(chain, entries) == [chain |-> chain, size |-> 0, entries |-> entries]

MCAX == <<"A", " ", "X">>
MCBB == <<"B", "B", " ">>
MCBAX == <<"B", "A", "X">>
MCS == <<"S", " ", " ">>
MCSA == <<"S", "A", " ">>

\* Clusters of csize sectors; the objects take the clusters c, in this order.
MCCard(mbr, csize, c, size) ==
  [mbr |-> mbr, bsect |-> IF mbr THEN 3 ELSE 0, rsvd |-> 2, fatsz |-> 3,
   csize |-> csize, clusters |-> 9,
   objects |-> <<
     MCDir(<<c[1], c[2]>>,
           <<MCEntry(MCAX, {"VOL"}, 0), MCEntry(<<"e5", "B", "X">>, {}, 0),
             MCEntry(MCS, {"DIR"}, 2), MCEntry(MCAX, {}, 3)>>
           \o (IF csize = 2 THEN <<MCEntry(MCBB, {}, 3), MCEntry(MCBAX, {}, 4)>> ELSE << >>)),
     MCDir(<<c[3]>>, <<MCEntry(MCSA, {"DIR"}, 1), MCEntry(MCAX, {}, 4)>>),
     MCFile(<<c[4], c[5], c[6]>>, size),
     MCFile(<<c[7]>>, csize + 1)>>]
MCOrders == {<<2, 3, 4, 5, 6, 7, 8>>, <<10, 2, 9, 3, 8, 4, 7>>, <<5, 7, 2, 6, 3, 9, 4>>}
MCCards ==
  {MCCard(mbr, csize, place, 4 * csize + rest) :
     mbr \in BOOLEAN, csize \in {1, 2}, place \in MCOrders, rest \in {1, 2}}
MCGoals ==
  {<< >>, <<MCAX>>, <<MCS>>, <<MCSA>>, <<MCBB>>, <<MCBAX>>,
   <<MCS, MCAX>>, <<MCAX, MCAX>>, <<MCS, MCSA, MCAX>>}

Reader == INSTANCE PetitFat WITH
  Cards <- MCCards, Goals <- MCGoals,
  SectorBytes <- 2, SectorEntries <- 2, SectorLinks <- 4, NameChars <- 2, ExtChars <- 1,
  MinClusters <- 5, pc <- fat_pc

-------------------------------------------------------------------------------
MCTable == 0 :> 0 @@ 1 :> 3 @@ 2 :> 1 @@ 3 :> 2

\* Two devices of family 1, one of family 2 and two of family 3.
MCNumbers ==
  {<<1, 0, 0, 0, 0, 1>>, <<1, 0, 1, 0, 1, 0>>, <<0, 1, 1, 0, 0, 0>>,
   <<1, 1, 0, 0, 1, 0>>, <<1, 1, 1, 1, 1, 1>>}

Wire == INSTANCE OneWireSearch WITH
  ByteBits <- 2, Bytes <- 3, dscrc_table <- MCTable, Numbers <- MCNumbers, MaxChanges <- 1,
  call <- search_call

-------------------------------------------------------------------------------
MCKit(harts, breaks, resumes, resets, commands, autos, words, programs) ==
  [harts |-> harts, breaks |-> breaks, resumes |-> resumes, resets |-> resets,
   commands |-> commands, autos |-> autos, words |-> words, programs |-> programs]
MCIllegal == [legal |-> FALSE, transfer |-> "none", postexec |-> FALSE]

MCKits ==
  {MCKit({0}, {}, BOOLEAN, BOOLEAN, {Command("lw", FALSE), Command("sw", FALSE)},
         {}, {"1"}, {}),
   MCKit({0}, {}, {FALSE}, {FALSE},
         {Command("lw", TRUE), Command("none", TRUE), MCIllegal}, {}, {"1"}, {"flip", "trap"}),
   MCKit({0, 1}, {1}, BOOLEAN, {}, {}, {}, {}, {}),
   MCKit({0}, {0}, {FALSE}, {}, {Command("none", TRUE)},
         {{}, {"data0"}, {"progbuf"}}, {"1"}, {"flip"}),
   MCKit({0, 1}, {}, {FALSE}, {}, {Command("none", TRUE)}, {}, {}, {"flip"})}

-------------------------------------------------------------------------------
\* The one state of a part that rests, among its initial ones.
BootRests ==
  /\ \A d \in Loader!Flashes : flash[d] = Loader!Blank
  /\ present = Loader!Devices /\ programmable = {"spi"}
FatRests ==
  /\ card = MCCard(FALSE, 1, <<2, 3, 4, 5, 6, 7, 8>>, 5)
  /\ goal = << >> /\ path = CHOOSE p \in Reader!Spellings(<< >>) : TRUE
WireRests == bus = {}
DebugRests == kit.commands = {}

BenchInit ==
  /\ bench \in {"lock", "boot", "fat", "smp", "clint", "rte", "onewire", "debug"}
  /\ LockInit
  /\ MCLoaderInit /\ (bench # "boot" => BootRests)
  /\ Reader!Init /\ (bench # "fat" => FatRests)
  /\ LaunchInit /\ ClintInit
  /\ RteInit /\ mhartid = 1
  /\ Wire!Init /\ (bench # "onewire" => WireRests)
  /\ DebugInit /\ (bench # "debug" => DebugRests)

BenchNext ==
  /\ UNCHANGED bench
  /\ \/ /\ bench = "lock" /\ LockNext
        /\ UNCHANGED <<bootVars, fatVars, launchVars, clintVars, rteVars, wireVars, debugVars>>
     \/ /\ bench = "boot" /\ Loader!Next
        /\ UNCHANGED <<lockVars, fatVars, launchVars, clintVars, rteVars, wireVars, debugVars>>
     \/ /\ bench = "fat" /\ Reader!Next
        /\ UNCHANGED <<lockVars, bootVars, launchVars, clintVars, rteVars, wireVars, debugVars>>
     \/ /\ bench = "smp" /\ LaunchNext
        /\ UNCHANGED <<lockVars, bootVars, fatVars, clintVars, rteVars, wireVars, debugVars>>
     \/ /\ bench = "clint" /\ ClintNext
        /\ UNCHANGED <<lockVars, bootVars, fatVars, launchVars, rteVars, wireVars, debugVars>>
     \/ /\ bench = "rte" /\ RteNext
        /\ UNCHANGED <<lockVars, bootVars, fatVars, launchVars, clintVars, wireVars, debugVars>>
     \/ /\ bench = "onewire" /\ Wire!Next
        /\ UNCHANGED <<lockVars, bootVars, fatVars, launchVars, clintVars, rteVars, debugVars>>
     \/ /\ bench = "debug" /\ DebugNext
        /\ UNCHANGED <<lockVars, bootVars, fatVars, launchVars, clintVars, rteVars, wireVars>>

BenchSpec == BenchInit /\ [][BenchNext]_benchVars

\* The other lock, and the bootloader again, for what the documents say of them.
LrScBenchSpec ==
  /\ BenchInit /\ bench = "lock"
  /\ [][/\ LrScNext
        /\ UNCHANGED <<bench, bootVars, fatVars, launchVars, clintVars, rteVars, wireVars,
                       debugVars>>]_benchVars

BootBenchSpec ==
  /\ BenchInit /\ bench = "boot"
  /\ [][/\ Loader!Next
        /\ UNCHANGED <<bench, lockVars, fatVars, launchVars, clintVars, rteVars, wireVars,
                       debugVars>>]_benchVars

\* The properties of the parts that are instances (see their modules).
OnlyWholeImages == Loader!OnlyWholeImages
StoreIsAllOrNothing == Loader!StoreIsAllOrNothing
AutoBootsTheFirst == Loader!AutoBootsTheFirst
StoredImageLoads == Loader!StoredImageLoads
OpensWhatIsNamed == Reader!OpensWhatIsNamed
ReadsTheFile == Reader!ReadsTheFile
FindsEveryDevice == Wire!FindsEveryDevice
FindsWhatIsAskedFor == Wire!FindsWhatIsAskedFor
===============================================================================

------------------------------ MODULE OneWireSearch ------------------------------
(***************************************************************************)
(* The search for the devices of a 1-Wire bus (demo_onewire/onewire_aux.h). *)
(* In each round every device still taking part sends the next bit of its   *)
(* number and then its complement, the master reads the wired AND of each   *)
(* and writes back the bit it follows, and the others drop out.  What the   *)
(* search keeps between two calls lets the next one take the next branch.   *)
(* One step is one round, or the start of a call; devices come and go in    *)
(* between.                                                                 *)
(***************************************************************************)
EXTENDS Integers, Sequences, SequencesExt

CONSTANTS
  ByteBits, Bytes,   \* 8 and 8 in the code
  dscrc_table,       \* of docrc8, by the value of a byte
  Numbers,           \* the numbers that may be on the bus, as sequences of bits
  MaxChanges         \* how often the bus changes

VARIABLES
  bus,                       \* the numbers on the bus
  listening,                 \* those that take part in the search
  search,                    \* the global search state
  call,                      \* the function in progress
  id_bit_number, last_zero,  \* of OWSearch
  backup,                    \* of OWVerify
  result,                    \* what the last call returned
  changes,
  seen                       \* history, see Unseen

local == <<id_bit_number, last_zero, backup>>
vars == <<bus, listening, search, call, local, result, changes, seen>>

Bits == ByteBits * Bytes

\* The bytes of a number, the least significant bit first.
Value(bits) == FoldRight(LAMBDA b, v : b + (2 * v), bits, 0)
Byte(rom, n) == Value(SubSeq(rom, (n * ByteBits) + 1, (n + 1) * ByteBits))
Family(rom) == Byte(rom, 0)
BitsOf(code) == [n \in 1..Bits |-> IF n <= ByteBits THEN (code \div 2^(n - 1)) % 2 ELSE 0]

Xor(a, b) == Value([k \in 1..ByteBits |-> ((a \div 2^(k - 1)) + (b \div 2^(k - 1))) % 2])

docrc8(crc8, value) == dscrc_table[Xor(crc8, value)]
Crc8(rom) == FoldLeft(LAMBDA crc8, n : docrc8(crc8, Byte(rom, n)), 0, [n \in 1..Bytes |-> n - 1])

\* found: the numbers found since the search began; steady: since then the bus has not changed
\* and only OWNext and OWVerify were called; ended: OWNext has said there are no more;
\* calm: the bus has not changed during the last call; target: OWTargetSetup's, for one OWNext
Unseen == [found |-> <<>>, steady |-> FALSE, ended |-> FALSE, calm |-> TRUE, target |-> 0]
Begun == [Unseen EXCEPT !.steady = TRUE]

Restarted(s) == [s EXCEPT !.LastDiscrepancy = 0, !.LastFamilyDiscrepancy = 0, !.LastDeviceFlag = FALSE]

Init ==
  /\ bus \in SUBSET Numbers /\ listening = {}
  /\ search = [ROM_NO |-> BitsOf(0), LastDiscrepancy |-> 0, LastFamilyDiscrepancy |-> 0, LastDeviceFlag |-> FALSE]
  /\ call = "none" /\ id_bit_number = 1 /\ last_zero = 0 /\ backup = <<>> /\ result = "none" /\ changes = 0
  /\ seen = Unseen

-------------------------------------------------------------------------------
(* The end of OWSearch, and of the function that called it                  *)

\* Mutant: OWVerify leaves the flag for the last device as its own search has set it.
Restored_NotFlag(s, old) == [old EXCEPT !.LastDeviceFlag = s.LastDeviceFlag]

Restored(s, old) == old

Finish(name, old, ok, s, so_far) ==
  LET success == ok /\ Family(s.ROM_NO) # 0
      after == IF success THEN s ELSE Restarted(s)
  IN /\ call' = "none" /\ listening' = {} /\ id_bit_number' = 1 /\ last_zero' = 0 /\ backup' = <<>>
     /\ IF name = "OWVerify"
        THEN /\ result' = IF success /\ after.ROM_NO = old.ROM_NO THEN "present" ELSE "absent"
             /\ search' = Restored(after, old) /\ seen' = so_far
        ELSE /\ result' = IF success THEN "found" ELSE "no more"
             /\ search' = after
             /\ seen' = IF success THEN [so_far EXCEPT !.found = Append(@, s.ROM_NO)]
                                   ELSE [so_far EXCEPT !.ended = TRUE]

-------------------------------------------------------------------------------
(* The calls                                                                *)

Begin(name, s, so_far) ==
  /\ call = "none"
  /\ IF s.LastDeviceFlag \/ bus = {}
     THEN Finish(name, search, FALSE, s, so_far)
     ELSE /\ call' = name /\ search' = s /\ listening' = bus
          /\ backup' = IF name = "OWVerify" THEN search ELSE <<>>
          /\ result' = "none" /\ seen' = so_far
          /\ UNCHANGED <<id_bit_number, last_zero>>
  /\ UNCHANGED <<bus, changes>>

OWFirst == Begin("OWFirst", Restarted(search), Begun)

OWNext ==
  Begin("OWNext", search, IF seen.ended THEN Begun
                          ELSE [seen EXCEPT !.calm = TRUE, !.target = IF result = "none" THEN @ ELSE 0])

OWVerify ==
  Begin("OWVerify", [search EXCEPT !.LastDiscrepancy = Bits, !.LastDeviceFlag = FALSE],
                    [seen EXCEPT !.calm = TRUE, !.target = 0])

\* Mutant: the search starts over, as from OWFirst.
Targeted_FromStart(code) == Restarted([search EXCEPT !.ROM_NO = BitsOf(code)])

Targeted(code) ==
  [ROM_NO |-> BitsOf(code), LastDiscrepancy |-> Bits, LastFamilyDiscrepancy |-> 0, LastDeviceFlag |-> FALSE]

OWTargetSetup(code) ==
  /\ call = "none"
  /\ search' = Targeted(code)
  /\ result' = "none" /\ seen' = [Unseen EXCEPT !.target = code]
  /\ UNCHANGED <<bus, listening, call, local, changes>>

OWFamilySkipSetup ==
  /\ call = "none"
  /\ search' = [search EXCEPT !.LastDiscrepancy = search.LastFamilyDiscrepancy, !.LastFamilyDiscrepancy = 0,
                              !.LastDeviceFlag = @ \/ search.LastFamilyDiscrepancy = 0]
  /\ result' = "none" /\ seen' = Unseen
  /\ UNCHANGED <<bus, listening, call, local, changes>>

-------------------------------------------------------------------------------
(* The rounds                                                               *)

Wired(bits) == IF 0 \in bits THEN 0 ELSE 1

\* Mutant: the branch taken last time is taken again.
Choice_Again(s) == IF id_bit_number < s.LastDiscrepancy THEN s.ROM_NO[id_bit_number] ELSE 0

\* Where devices differ: as last time before the last discrepancy, the other way at it, 0 behind.
Choice(s) ==
  IF id_bit_number < s.LastDiscrepancy THEN s.ROM_NO[id_bit_number]
  ELSE IF id_bit_number = s.LastDiscrepancy THEN 1 ELSE 0

Round ==
  LET id_bit == Wired({d[id_bit_number] : d \in listening})
      cmp_id_bit == Wired({1 - d[id_bit_number] : d \in listening})
      search_direction == IF id_bit # cmp_id_bit THEN id_bit ELSE Choice(search)
      zero == id_bit = cmp_id_bit /\ search_direction = 0
      last == IF zero THEN id_bit_number ELSE last_zero
      s == [search EXCEPT !.ROM_NO[id_bit_number] = search_direction,
                          !.LastFamilyDiscrepancy = IF zero /\ last <= ByteBits THEN last ELSE @]
  IN /\ call # "none"
     /\ IF id_bit = 1 /\ cmp_id_bit = 1 THEN Finish(call, backup, FALSE, search, seen)
        ELSE IF id_bit_number < Bits
        THEN /\ id_bit_number' = id_bit_number + 1 /\ last_zero' = last /\ search' = s
             /\ listening' = {d \in listening : d[id_bit_number] = search_direction}
             /\ UNCHANGED <<call, backup, result, seen>>
        ELSE LET ok == Crc8(s.ROM_NO) = 0
             IN Finish(call, backup, ok,
                       IF ok THEN [s EXCEPT !.LastDiscrepancy = last, !.LastDeviceFlag = @ \/ last = 0] ELSE s, seen)
     /\ UNCHANGED <<bus, changes>>

\* A device is taken off the bus or put on it; it takes part from the next reset.
ChangeBus ==
  /\ changes < MaxChanges /\ changes' = changes + 1
  /\ \E d \in Numbers : bus' = IF d \in bus THEN bus \ {d} ELSE bus \cup {d}
  /\ listening' = listening \cap bus'
  /\ result' = "none" /\ seen' = [Unseen EXCEPT !.calm = FALSE]
  /\ UNCHANGED <<search, call, local>>

Next ==
  \/ OWFirst \/ OWNext \/ OWVerify \/ OWFamilySkipSetup \/ Round \/ ChangeBus
  \/ \E d \in Numbers : OWTargetSetup(Family(d))

Spec == Init /\ [][Next]_vars

-------------------------------------------------------------------------------
Quiet == call = "none" /\ seen.calm

\* From OWFirst on, OWNext finds every device of the bus exactly once before it says that there
\* are no more, and then starts over; calls of OWVerify in between change nothing.
FindsEveryDevice ==
  seen.steady => /\ IsInjective(seen.found) /\ ToSet(seen.found) \subseteq bus
                 /\ seen.ended => ToSet(seen.found) = bus

\* OWVerify says whether the number in ROM_NO is on the bus, whatever search it interrupts; and
\* the OWNext that follows OWTargetSetup finds a device of that family if there is one.
FindsWhatIsAskedFor ==
  Quiet => /\ result \in {"present", "absent"} => (result = "present") = (search.ROM_NO \in bus)
           /\ /\ seen.target # 0 /\ result \in {"found", "no more"}
              /\ \E d \in bus : Family(d) = seen.target
              => result = "found" /\ Family(search.ROM_NO) = seen.target
================================================================================

----------------------------- MODULE DebugModule -----------------------------
(***************************************************************************)
(* The debug module (neorv32_debug_dm), the harts in its park loop          *)
(* (park_loop.S) and a debugger that writes the registers of the module in  *)
(* any order and at any time, whether a command executes or not.            *)
(*                                                                          *)
(* A step is a clock edge. The debugger's next access is some clocks later  *)
(* than the last, as the transport shifts it in; the bus brings the module  *)
(* the access of one hart at a time, never of the same one in two clocks    *)
(* in a row. A word is "0" or "1", the only register of a hart is x8, which *)
(* the park loop needs itself. The program buffer holds one instruction,    *)
(* which changes x8 or raises an exception.                                 *)
(***************************************************************************)
EXTENDS Integers

CONSTANTS
  NUM_HARTS,
  Kits       \* what a debugger uses of the module

VARIABLES
  kit,
  dm_reg,     \* the registers that the debugger writes
  hart,       \* what the module knows of the harts: sets of harts
  cmd_state, cmd_err,
  dci,        \* acknowledges of the harts (sets), data buffer
  at,         \* at[h]: where hart h is in the firmware; "run": outside of debug mode
  x8, dscratch0,
  last,       \* the hart whose access came at the last edge
  shifting,   \* an access of the debugger came at the last edge
  order,      \* history: the command that executes, as it was accepted
  belief,     \* history: what the debugger takes the registers for
  told        \* history: an access was refused, or an exception raised, since the last clear

debugVars == <<kit, dm_reg, hart, cmd_state, cmd_err, dci, at, x8, dscratch0, last, shifting,
               order, belief, told>>

NoHart  == -1
Flag    == "flag"      \* in x8: a flag of the status register
Unknown == "unknown"
NoOrder == [hart |-> NoHart]
Command(transfer, postexec) ==
  [legal |-> TRUE, transfer |-> transfer, postexec |-> postexec]
FirstHart == 0
HartIds == 0 .. NUM_HARTS - 1

ASSUME DebugAssumption ==
  /\ NUM_HARTS \in Nat \ {0}
  /\ \A k \in Kits :
       /\ k.harts \subseteq HartIds /\ k.breaks \subseteq HartIds
       /\ k.resumes \subseteq BOOLEAN /\ k.resets \subseteq BOOLEAN
       /\ k.commands \subseteq [legal : BOOLEAN, transfer : {"none", "lw", "sw"}, postexec : BOOLEAN]
       /\ k.autos \subseteq SUBSET {"data0", "progbuf"}
       /\ k.words \subseteq {"0", "1"} /\ k.programs \subseteq {"nop", "flip", "trap"}

Flip(w) == CASE w = "0" -> "1" [] w = "1" -> "0" [] OTHER -> w

-------------------------------------------------------------------------------
(* The debugger                                                             *)

Quiet == [addr |-> "none", wr |-> FALSE]
\* The write that resets the system, or switches the module off.
Control(reset) ==
  [addr |-> "dmcontrol", wr |-> TRUE, haltreq |-> FALSE, resumereq |-> FALSE,
   hartsel |-> FirstHart, ndmreset |-> reset, dmactive |-> reset]

Accesses ==
  [addr : {"dmcontrol"}, wr : {TRUE}, haltreq : BOOLEAN, resumereq : kit.resumes,
   hartsel : kit.harts, ndmreset : {FALSE}, dmactive : {TRUE}]
  \union {Control(reset) : reset \in kit.resets}
  \union [addr : {"command"}, wr : {TRUE}, data : kit.commands]
  \union [addr : {"abstractauto"}, wr : {TRUE}, data : kit.autos]
  \union [addr : {"abstractcs"}, wr : {TRUE}]
  \union [addr : {"data0"}, wr : BOOLEAN, data : kit.words]
  \union [addr : {"progbuf"}, wr : BOOLEAN, data : kit.programs]

cmd_busy == cmd_state # "CMD_IDLE"
Reset    == dm_reg.ndmreset \/ ~dm_reg.dmactive
ndmrst   == dm_reg.ndmreset /\ dm_reg.dmactive

\* dmi_wren or dmi_rden at an address
Touches(dmi, addr) == dm_reg.dmactive /\ dmi.addr = addr
Writes(dmi, addr)  == Touches(dmi, addr) /\ dmi.wr

Refused(dmi) ==
  /\ cmd_busy
  /\ \/ \E addr \in {"abstractcs", "command", "abstractauto"} : Writes(dmi, addr)
     \/ \E addr \in {"data0", "progbuf"} : Touches(dmi, addr)

\* A write that is taken when no command executes.
\* Mutant: it is taken always.
Free_WhileBusy(dmi, addr) == Writes(dmi, addr)
Free(dmi, addr) == Writes(dmi, addr) /\ ~cmd_busy

\* dmi_write_access
dmi_write_access(dmi) ==
  LET control == Writes(dmi, "dmcontrol")
  IN  dm_reg' =
        [dmactive  |-> IF dmi.addr = "dmcontrol" THEN dmi.dmactive ELSE dm_reg.dmactive,
         ndmreset  |-> IF control THEN dmi.ndmreset ELSE dm_reg.dmactive /\ dm_reg.ndmreset,
         halt_req  |-> IF control THEN dmi.haltreq ELSE dm_reg.dmactive /\ dm_reg.halt_req,
         hartsel   |-> IF ~dm_reg.dmactive THEN FirstHart
                       ELSE IF Free(dmi, "dmcontrol") THEN dmi.hartsel ELSE dm_reg.hartsel,
         req_res   |-> control /\ dmi.resumereq /\ ~dmi.haltreq,
         command   |-> IF Free(dmi, "command") /\ cmd_err = "none" THEN dmi.data
                       ELSE dm_reg.command,
         auto      |-> IF ~dm_reg.dmactive THEN {}
                       ELSE IF Free(dmi, "abstractauto") THEN dmi.data ELSE dm_reg.auto,
         progbuf   |-> IF Free(dmi, "progbuf") THEN dmi.data ELSE dm_reg.progbuf,
         clr_acc_err |-> Writes(dmi, "abstractcs"),
         set_acc_err |-> cmd_busy /\ (Refused(dmi) \/ dm_reg.set_acc_err),
         autoexec  |-> \E addr \in dm_reg.auto : Touches(dmi, addr)]

\* hart_status
hart_status ==
  LET requested == IF dm_reg.req_res THEN {dm_reg.hartsel} ELSE {}
  IN  hart' = IF Reset THEN [halted |-> {}, resume_req |-> {}, resume_ack |-> {}]
              ELSE [halted     |-> (hart.halted \union dci.ack_hlt) \ dci.ack_res,
                    resume_req |-> (hart.resume_req \union requested) \ dci.ack_res,
                    resume_ack |-> (hart.resume_ack \union dci.ack_res) \ requested]

-------------------------------------------------------------------------------
(* cmd_arbiter                                                              *)

Triggered(dmi) == cmd_err = "none" /\ (Writes(dmi, "command") \/ dm_reg.autoexec)
Accepted  == cmd_state = "CMD_CHECK" /\ dm_reg.command.legal /\ dm_reg.hartsel \in hart.halted
Completed == cmd_state = "CMD_PENDING" /\ dm_reg.hartsel \in dci.ack_hlt

CMD_IDLE(dmi) ==
  /\ cmd_state = "CMD_IDLE"
  /\ cmd_state' = IF Triggered(dmi) THEN "CMD_CHECK" ELSE "CMD_IDLE"
  /\ cmd_err' = IF dm_reg.clr_acc_err THEN "none" ELSE cmd_err

CMD_CHECK ==
  /\ cmd_state = "CMD_CHECK"
  /\ IF Accepted THEN cmd_state' = "CMD_START" /\ UNCHANGED cmd_err
     ELSE /\ cmd_state' = "CMD_IDLE"
          /\ cmd_err' = IF dm_reg.command.legal THEN "state" ELSE "unsupported"

CMD_START ==
  /\ cmd_state = "CMD_START"
  /\ cmd_state' = IF dm_reg.hartsel \in dci.ack_exe THEN "CMD_PENDING" ELSE cmd_state
  /\ UNCHANGED cmd_err

CMD_PENDING ==
  /\ cmd_state = "CMD_PENDING"
  /\ cmd_state' = IF Completed THEN "CMD_IDLE" ELSE cmd_state
  /\ cmd_err' = IF cmd_err # "none" THEN cmd_err
                ELSE IF dm_reg.hartsel \in dci.ack_exc THEN "exception"
                ELSE IF dm_reg.set_acc_err THEN "access" ELSE "none"

cmd_arbiter(dmi) ==
  IF Reset THEN cmd_state' = "CMD_IDLE" /\ cmd_err' = "none"
  ELSE CMD_IDLE(dmi) \/ CMD_CHECK \/ CMD_START \/ CMD_PENDING

req_exe == IF cmd_state = "CMD_START" THEN {dm_reg.hartsel} ELSE {}

-------------------------------------------------------------------------------
(* The harts                                                                *)

halt_req == IF dm_reg.halt_req /\ dm_reg.dmactive THEN {dm_reg.hartsel} ELSE {}

\* One step of a hart in the firmware: where it goes, x8 and dscratch0 after it.
Goes(h, place, x, scratch) ==
  /\ at' = [at EXCEPT ![h] = place]
  /\ x8' = [x8 EXCEPT ![h] = x]
  /\ dscratch0' = [dscratch0 EXCEPT ![h] = scratch]

\* A halt request, or a breakpoint.
EnterDebug(h) ==
  /\ at[h] = "run" /\ h \in halt_req \union kit.breaks
  /\ Goes(h, "entry_park", x8[h], dscratch0[h])

entry_exception(h) == at[h] = "entry_exception" /\ Goes(h, "entry_park", x8[h], dscratch0[h])
entry_park(h)      == at[h] = "entry_park" /\ Goes(h, "look_exe", x8[h], x8[h])
park_loop(h)       == at[h] = "park_loop" /\ Goes(h, "look_exe", x8[h], dscratch0[h])
look_exe(h) ==
  at[h] = "look_exe" /\ Goes(h, IF h \in req_exe THEN "execute" ELSE "look_res", Flag, dscratch0[h])
look_res(h) ==
  at[h] = "look_res"
  /\ Goes(h, IF h \in hart.resume_req THEN "resume" ELSE "park_loop", Flag, dscratch0[h])
resume(h)  == at[h] = "resume" /\ Goes(h, "dret", dscratch0[h], dscratch0[h])
dret(h)    == at[h] = "dret" /\ Goes(h, "run", x8[h], dscratch0[h])
\* Mutant: x8 keeps the flag of the status register.
execute_Flag(h) == at[h] = "execute" /\ Goes(h, "transfer", x8[h], dscratch0[h])
execute(h) == at[h] = "execute" /\ Goes(h, "transfer", dscratch0[h], dscratch0[h])
transfer(h) ==
  /\ at[h] = "transfer"
  /\ Goes(h, "progbuf",
          IF dm_reg.command.transfer = "lw" THEN dci.data_reg ELSE x8[h], dscratch0[h])

Traps(command, progbuf) == command.postexec /\ progbuf = "trap"
Flips(command, progbuf) == command.postexec /\ progbuf = "flip"
\* The program buffer, and the ebreak behind it.
progbuf(h) ==
  /\ at[h] = "progbuf"
  /\ Goes(h, IF Traps(dm_reg.command, dm_reg.progbuf) THEN "entry_exception" ELSE "entry_park",
          IF Flips(dm_reg.command, dm_reg.progbuf) THEN Flip(x8[h]) ELSE x8[h], dscratch0[h])

InFirmware(h) ==
  \/ entry_exception(h) \/ entry_park(h) \/ park_loop(h) \/ look_exe(h) \/ look_res(h)
  \/ resume(h) \/ dret(h) \/ execute(h) \/ transfer(h) \/ progbuf(h)

Steps(h) ==
  IF ndmrst THEN /\ at' = [i \in HartIds |-> "run"] /\ x8' = [i \in HartIds |-> "0"]
                 /\ UNCHANGED dscratch0
  ELSE IF h = NoHart THEN UNCHANGED <<at, x8, dscratch0>>
  ELSE h # last /\ (EnterDebug(h) \/ InFirmware(h))

\* bus_access: the access of hart h, if it makes one.
bus_access(dmi, h) ==
  LET At(places) == IF ~ndmrst /\ h # NoHart /\ at[h] \in places THEN {h} ELSE {}
      stores == h \in At({"transfer"}) /\ dm_reg.command.transfer = "sw"
  IN  dci' = [ack_hlt |-> At({"entry_park", "park_loop"}), ack_res |-> At({"resume"}),
              ack_exe |-> At({"execute"}), ack_exc |-> At({"entry_exception"}),
              data_reg |-> IF Free(dmi, "data0") THEN dmi.data
                           ELSE IF stores THEN x8[h] ELSE dci.data_reg]

-------------------------------------------------------------------------------
(* What the debugger knows: what it wrote, and what its commands have done  *)

\* Harts that still execute without a command: the module was switched off over it.
Strays == {h \in HartIds : at[h] \in {"execute", "transfer", "progbuf"} /\ order.hart # h}

record_order ==
  order' = IF Reset \/ Completed THEN NoOrder
           ELSE IF Accepted THEN [hart |-> dm_reg.hartsel, command |-> dm_reg.command,
                                  progbuf |-> dm_reg.progbuf, data |-> belief.data,
                                  alone |-> Strays = {}]
           ELSE order

\* The register of the hart after a command, and the data buffer after it, which a hart that
\* executes without one may have written too.
record_belief(dmi) ==
  LET h    == order.hart
      lw   == order.command.transfer = "lw"
      sw   == order.command.transfer = "sw"
      old  == IF lw THEN order.data ELSE belief.x8[h]
      new  == IF Flips(order.command, order.progbuf) THEN Flip(old) ELSE old
  IN  belief' =
        IF ndmrst THEN [x8 |-> [i \in HartIds |-> "0"], data |-> Unknown]
        ELSE IF order = NoOrder \/ ~(Reset \/ Completed)
        THEN IF Free(dmi, "data0")
             THEN [belief EXCEPT !.data = IF Strays = {} THEN dmi.data ELSE Unknown]
             ELSE belief
        ELSE IF Reset THEN [x8 |-> [belief.x8 EXCEPT ![h] = Unknown], data |-> Unknown]
        ELSE [x8 |-> [belief.x8 EXCEPT ![h] = new],
              data |-> IF ~sw THEN belief.data
                       ELSE IF order.alone THEN belief.x8[h] ELSE Unknown]

\* An access in the last clock of a command is refused in silence.
record_told(dmi) ==
  told' = IF Reset \/ (cmd_state = "CMD_IDLE" /\ dm_reg.clr_acc_err) THEN FALSE
          ELSE \/ told
               \/ Refused(dmi) /\ ~Completed
               \/ Completed /\ Traps(order.command, order.progbuf)

-------------------------------------------------------------------------------
Edge(dmi, h) ==
  /\ UNCHANGED kit
  /\ shifting => dmi = Quiet
  /\ shifting' = (dmi # Quiet)
  /\ last' = IF ndmrst THEN NoHart ELSE h
  /\ Steps(h)
  /\ dmi_write_access(dmi) /\ hart_status /\ cmd_arbiter(dmi) /\ bus_access(dmi, h)
  /\ record_order /\ record_belief(dmi) /\ record_told(dmi)

DebugInit ==
  /\ kit \in Kits
  /\ dm_reg = [dmactive |-> FALSE, ndmreset |-> FALSE, halt_req |-> FALSE, hartsel |-> FirstHart,
               req_res |-> FALSE, auto |-> {}, progbuf |-> "nop", clr_acc_err |-> FALSE,
               set_acc_err |-> FALSE, autoexec |-> FALSE,
               command |-> Command("none", FALSE)]
  /\ hart = [halted |-> {}, resume_req |-> {}, resume_ack |-> {}]
  /\ cmd_state = "CMD_IDLE" /\ cmd_err = "none"
  /\ dci = [ack_hlt |-> {}, ack_res |-> {}, ack_exe |-> {}, ack_exc |-> {}, data_reg |-> "0"]
  /\ at = [h \in HartIds |-> "run"] /\ x8 = [h \in HartIds |-> "0"] /\ dscratch0 = x8
  /\ last = NoHart /\ shifting = FALSE
  /\ order = NoOrder /\ belief = [x8 |-> x8, data |-> Unknown] /\ told = FALSE

DebugNext == \E dmi \in {Quiet} \union Accesses, h \in HartIds \union {NoHart} : Edge(dmi, h)

DebugSpec == DebugInit /\ [][DebugNext]_debugVars

-------------------------------------------------------------------------------
\* x8 of the program.
Own(h) == IF at[h] \in {"look_exe", "park_loop", "look_res", "resume", "execute"}
          THEN dscratch0[h] ELSE x8[h]

\* Whatever accesses come while a command executes, whichever harts halt, resume or trap, and
\* whenever the module is switched off: once the arbiter is idle, a debugger that trusts what it
\* wrote and the error flag knows the registers. So a command was executed once, by the selected
\* hart, with the operands of its start; an access that was refused and an exception are told; the
\* park loop gave x8 back; and no hart that is called halted runs a program.
DebuggerIsRight ==
  /\ \A h \in hart.halted : at[h] # "run"
  /\ cmd_state = "CMD_IDLE" =>
       /\ \A h \in HartIds \ Strays : belief.x8[h] \in {Unknown, Own(h)}
       /\ Strays = {} => belief.data \in {Unknown, dci.data_reg}
       /\ told => cmd_err # "none"
===============================================================================

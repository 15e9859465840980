---------------------------------- MODULE Dma ----------------------------------
(***************************************************************************)
(* neorv32_dma between the program that fills its descriptor FIFO and a     *)
(* memory that answers when it likes.  The FIFO is neorv32_prim_fifo with    *)
(* more than one entry: a RAM with registered read port between two pointers *)
(* that have a bit more than the address.  One step is one rising clock     *)
(* edge; there is one action for each state of the engine.                  *)
(*                                                                          *)
(* Byte lanes and byte swap are left out: an address counts elements, and   *)
(* the word in the memory at an address is that address.                    *)
(***************************************************************************)
EXTENDS Integers, Sequences

CONSTANTS
  WordBits,  \* of a word of a descriptor: 32
  Depth,     \* of the descriptor FIFO: DSC_FIFO, at least 4 (neorv32_dma.vhd:20)
  Leftovers, \* what its RAM may hold at first
  Programs,  \* the descriptors in use: sequences of three words
  MaxWords   \* bound: how many words the program writes

VARIABLES
  enable, start, err, done,          \* control register
  engine, data_buf,                  \* bus access engine
  fifo, rdata,                       \* RAM of the FIFO, which no reset clears; the word at
                                     \* r_pnt a clock ago
  w_pnt, r_pnt, avail,               \* pointers modulo 2 * Depth; there was a word a clock ago
  strobed,                           \* the program accessed the controller a clock ago
  owed,                              \* the memory owes an answer
  written,                           \* number of words the program wrote
  queue                              \* history: accepted words of descriptors not begun

ctrlVars == <<enable, start, err, done>>
fifoVars == <<fifo, rdata, w_pnt, r_pnt, avail>>
dmaVars == <<ctrlVars, engine, data_buf, fifoVars, strobed, owed, written, queue>>

\* The fields of a configuration word: 24 bits of count, and of the two type
\* fields the bit that says "incrementing".
conf_num(w) == w % 2 ^ (WordBits - 2)
conf_src(w) == (w \div 2 ^ (WordBits - 2)) % 2
conf_dst(w) == w \div 2 ^ (WordBits - 1)

Word == 0 .. 2 ^ WordBits - 1

\* A descriptor moves at least one element (docs/datasheet/soc_dma.adoc:100).  What is said of
\* powers of two is true of them: the provers do not know it.
ASSUME DmaAssumption ==
  /\ WordBits \in Nat /\ WordBits > 1
  /\ 2 ^ (WordBits - 2) \in Nat \ {0}
  /\ 2 ^ (WordBits - 1) = 2 * 2 ^ (WordBits - 2) /\ 2 ^ WordBits = 4 * 2 ^ (WordBits - 2)
  /\ Depth \in Nat /\ Depth > 3
  /\ Leftovers \subseteq Word
  /\ \A p \in Programs : p \in [1 .. 3 -> Word] /\ conf_num(p[3]) > 0
  /\ MaxWords \in Nat

-------------------------------------------------------------------------------
(* The descriptor FIFO.                                                      *)

match == r_pnt % Depth = w_pnt % Depth
full  == match /\ r_pnt # w_pnt
empty == r_pnt = w_pnt

FifoInit(contents) ==
  /\ fifo \in [0 .. Depth - 1 -> contents] /\ rdata \in contents
  /\ w_pnt = 0 /\ r_pnt = 0 /\ avail = FALSE

Advanced(pnt) == (pnt + 1) % (2 * Depth)

\* One clock edge with the given inputs.
FifoEdge(clear_i, we_i, wdata_i, re_i) ==
  LET we == we_i /\ ~full
      re == re_i /\ ~empty
  IN  /\ w_pnt' = IF clear_i THEN 0 ELSE IF we THEN Advanced(w_pnt) ELSE w_pnt
      /\ r_pnt' = IF clear_i THEN 0 ELSE IF re THEN Advanced(r_pnt) ELSE r_pnt
      /\ avail' = ~empty
      /\ fifo'  = IF we THEN [fifo EXCEPT ![w_pnt % Depth] = wdata_i] ELSE fifo
      /\ rdata' = fifo[r_pnt % Depth]

-------------------------------------------------------------------------------
(* The program: neorv32_dma_enable, _disable, _start, _irq_ack, and          *)
(* neorv32_dma_program, which writes three words while the FIFO is not full. *)

NoRequest == [stb |-> FALSE, desc |-> FALSE, data |-> 0, en |-> FALSE, start |-> FALSE, ack |-> FALSE]

Desc(w) == [NoRequest EXCEPT !.stb = TRUE, !.desc = TRUE, !.data = w]
Ctrl(en, st, ack) == [NoRequest EXCEPT !.stb = TRUE, !.en = en, !.start = st, !.ack = ack]

\* In the middle of neorv32_dma_program.
Programming == written % 3 # 0

\* It fills the FIFO while nothing runs, with descriptors that fit as a whole, and switches
\* off while nothing runs or the FIFO reads as empty.
MayProgram ==
  /\ enable /\ ~full /\ written < MaxWords
  /\ ~engine.run /\ (Programming \/ Len(queue) + 3 <= Depth)
MayStart   == enable /\ ~Programming /\ ~engine.run /\ queue # <<>>
MayDisable == enable /\ ~Programming /\ (~engine.run \/ ~avail)

\* What it may put on the bus; two accesses have a clock between them.
Requests ==
  {NoRequest} \union
  (IF strobed THEN {} ELSE
     UNION {IF MayProgram THEN {Desc(p[(written % 3) + 1]) : p \in Programs} ELSE {},
            IF MayStart   THEN {Ctrl(TRUE, TRUE, FALSE)} ELSE {},
            IF MayDisable THEN {Ctrl(FALSE, FALSE, FALSE)} ELSE {},
            IF ~enable    THEN {Ctrl(TRUE, FALSE, FALSE)} ELSE {},
            IF done       THEN {Ctrl(enable, FALSE, TRUE)} ELSE {}})

Answers == {[ack |-> FALSE, err |-> FALSE, data |-> 0]} \union
  (IF owed THEN [ack : {TRUE}, err : BOOLEAN, data : {engine.src_addr}] ELSE {})

-------------------------------------------------------------------------------
(* The controller.                                                           *)

ctrl_access(req) ==
  LET write == req.stb /\ ~req.desc
      clear == write /\ (req.start \/ req.ack)
  IN  /\ enable' = IF write THEN req.en ELSE enable
      /\ start'  = (write /\ req.start)
      /\ err'    = (enable /\ (err \/ engine.err) /\ ~clear)
      /\ done'   = (enable /\ (done \/ engine.done) /\ ~clear)

fifo_re  == engine.state \in {"S_GET_0", "S_GET_1", "S_GET_2"}
dma_stb  == engine.state \in {"S_READ_REQ", "S_WRITE_REQ"}

\* Everything but the engine.
Around(req, rsp) ==
  LET push == req.stb /\ req.desc
  IN  /\ ctrl_access(req)
      /\ FifoEdge(~enable, push, req.data, fifo_re)
      /\ data_buf' = IF engine.state = "S_READ_RSP" THEN rsp.data ELSE data_buf
      /\ owed'     = (dma_stb \/ (owed /\ ~rsp.ack))
      /\ strobed'  = req.stb
      /\ written'  = IF push THEN written + 1 ELSE written
      /\ queue'    =
           LET kept == IF engine.state = "S_GET_3" THEN SubSeq(queue, 4, Len(queue)) ELSE queue
           IN  IF ~enable THEN <<>>
               ELSE IF push /\ ~full THEN Append(kept, req.data) ELSE kept

\* Mutant: a finished transfer does not look for another descriptor.
NextDescriptor_Single == FALSE

NextDescriptor == avail /\ ~engine.err /\ ~err

\* Mutant: a transfer that failed is not reported as done.
Finished_Well(go) == engine.run /\ ~go /\ ~engine.err

Finished(go) == engine.run /\ ~go

Check ==
  /\ engine.state = "S_CHECK"
  /\ LET go == IF engine.run THEN NextDescriptor ELSE avail /\ start /\ ~err
     IN  engine' = [engine EXCEPT
           !.state  = IF go THEN "S_GET_0" ELSE "S_CHECK",
           !.run    = go,
           !.done   = Finished(go),
           !.err    = FALSE,
           !.num_or = FALSE]

Get0 == engine.state = "S_GET_0" /\ engine' = [engine EXCEPT !.state = "S_GET_1"]

Get1 ==
  /\ engine.state = "S_GET_1"
  /\ engine' = [engine EXCEPT !.src_addr = rdata, !.state = IF avail THEN "S_GET_2" ELSE @]

Get2 ==
  /\ engine.state = "S_GET_2"
  /\ engine' = [engine EXCEPT !.dst_addr = rdata, !.state = IF avail THEN "S_GET_3" ELSE @]

\* Whether there is a word is not asked here.
Get3 ==
  /\ engine.state = "S_GET_3"
  /\ engine' = [engine EXCEPT !.num = conf_num(rdata), !.src_inc = conf_src(rdata),
                              !.dst_inc = conf_dst(rdata), !.state = "S_READ_REQ"]

\* Mutant: the destination moves on before the first element already.
DstStep_Early == engine.dst_inc

\* Not before the first element.
DstStep == IF engine.num_or THEN engine.dst_inc ELSE 0

ReadReq ==
  /\ engine.state = "S_READ_REQ"
  /\ engine' = [engine EXCEPT !.dst_addr = (@ + DstStep) % 2 ^ WordBits,
                              !.num = (@ - 1) % 2 ^ (WordBits - 2), !.state = "S_READ_RSP"]

ReadRsp(rsp) ==
  /\ engine.state = "S_READ_RSP"
  /\ engine' = IF ~rsp.ack THEN engine
               ELSE [engine EXCEPT !.err = rsp.err,
                                   !.state = IF rsp.err THEN "S_CHECK" ELSE "S_WRITE_REQ"]

WriteReq ==
  /\ engine.state = "S_WRITE_REQ"
  /\ engine' = [engine EXCEPT !.src_addr = (@ + engine.src_inc) % 2 ^ WordBits,
                              !.num_or = (engine.num # 0), !.state = "S_WRITE_RSP"]

WriteRsp(rsp) ==
  /\ engine.state = "S_WRITE_RSP"
  /\ engine' = IF ~rsp.ack THEN engine
               ELSE [engine EXCEPT !.err = rsp.err,
                       !.state = IF ~engine.num_or \/ ~enable \/ rsp.err THEN "S_CHECK"
                                                                          ELSE "S_READ_REQ"]

DmaInit ==
  /\ enable = FALSE /\ start = FALSE /\ err = FALSE /\ done = FALSE
  /\ engine = [state |-> "S_CHECK", run |-> FALSE, done |-> FALSE, err |-> FALSE, num |-> 0,
               num_or |-> FALSE, src_addr |-> 0, dst_addr |-> 0, src_inc |-> 0, dst_inc |-> 0]
  /\ data_buf = 0
  /\ FifoInit(Leftovers)
  /\ strobed = FALSE /\ owed = FALSE /\ written = 0 /\ queue = <<>>

DmaEdge(req, rsp) ==
  /\ Around(req, rsp)
  /\ \/ Check \/ Get0 \/ Get1 \/ Get2 \/ Get3
     \/ ReadReq \/ ReadRsp(rsp) \/ WriteReq \/ WriteRsp(rsp)

DmaNext == \E req \in Requests, rsp \in Answers : DmaEdge(req, rsp)

\* The clock ticks and the program is quiet, as it is every other clock at least.
Quiet == \E rsp \in Answers : DmaEdge(NoRequest, rsp)

\* The memory answers.
Answered == \E req \in Requests, rsp \in Answers : rsp.ack /\ DmaEdge(req, rsp)

DmaSpec == DmaInit /\ [][DmaNext]_dmaVars

\* The clock ticks and the memory does not keep an access; nothing makes the
\* program act.
DmaFairSpec == DmaSpec /\ WF_dmaVars(Quiet) /\ WF_dmaVars(Answered)

-------------------------------------------------------------------------------
(* What the controller promises.                                             *)

\* Elements of the current descriptor that are still to be written.
Left == CASE engine.state = "S_READ_REQ"                      -> engine.num
          [] engine.state \in {"S_READ_RSP", "S_WRITE_REQ"}   -> engine.num + 1
          [] engine.state = "S_WRITE_RSP"                     -> engine.num
          [] OTHER                                            -> 0

\* The destination of the first of them.
NextDst == IF engine.state \in {"S_READ_REQ", "S_WRITE_RSP"} /\ engine.num_or
             THEN engine.dst_addr + engine.dst_inc ELSE engine.dst_addr

Transfers == INSTANCE DmaTransfers WITH
  enabled <- enable, error <- engine.err,
  todo <- [i \in 1 .. Left |->
             [from |-> (engine.src_addr + (i - 1) * engine.src_inc) % 2 ^ WordBits,
              to   |-> (NextDst + (i - 1) * engine.dst_inc) % 2 ^ WordBits]],
  move <- IF engine.state = "S_WRITE_RSP" THEN [from |-> data_buf, to |-> engine.dst_addr]
                                          ELSE [from |-> -1, to |-> -1]

\* For such a program the controller moves exactly what the descriptors say, in
\* their order, whatever the memory does (the FIFO, S_GET_0 to S_WRITE_RSP).
MovesWhatDescriptorsSay == Transfers!Spec

\* The interrupt comes when every descriptor was executed, or with the error flag
\* (the flags run from the engine to the control register in two clocks).
DoneMeansAll == [][done' /\ ~done => queue = <<>> \/ err']_dmaVars

\* A transfer that runs is reported, unless the controller is switched off.
EveryTransferIsReported == engine.run ~> (done \/ ~enable)

================================================================================

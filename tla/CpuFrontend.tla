------------------------------ MODULE CpuFrontend -------------------------------
(***************************************************************************)
(* neorv32_cpu_frontend: the fetch engine reads aligned 32-bit words over   *)
(* the instruction bus into two FIFOs of half-words (the prefetch buffer),  *)
(* the issue engine assembles instructions from them.                       *)
(*                                                                          *)
(* Addresses count half-words.  A half-word of the buffer is identified by  *)
(* where it came from: its address and the privilege and debug mode of the  *)
(* fetch; of its bits only the one that tells a compressed instruction is   *)
(* kept.  `generics' holds the configuration and never changes.             *)
(***************************************************************************)
EXTENDS Naturals, Sequences

CONSTANT PcBits   \* width of a half-word address

VARIABLES
  generics,  \* .c: compressed instructions are supported;
             \* .late .faults: fetches may take more than a clock, and fail
  fetch,     \* fetch engine
  ipb,       \* prefetch buffer: one FIFO for low and one for high half-words
  align_q    \* the next instruction starts in the high half-word

frontendVars == <<fetch, ipb, align_q>>

Pcs == 0 .. 2^PcBits - 1
After(pc, n) == (pc + n) % 2^PcBits

IpbDepth == 2

Halves == [from : Pcs, priv : {"U", "M"}, debug : BOOLEAN, compr : BOOLEAN, err : BOOLEAN]

FrontendInit ==
  /\ fetch = [state |-> "S_RESTART", reset |-> TRUE, addr |-> 0, priv |-> "M", debug |-> FALSE]
  /\ ipb = [i \in {0, 1} |-> <<>>]
  /\ align_q = FALSE

-------------------------------------------------------------------------------
\* Mutant: a restart during a fetch does not outlive the clock in which it comes.
restart_Live(if_reset) == if_reset

\* The restart request; the back-end's `if_reset' is not registered.
restart(if_reset) == fetch.reset \/ if_reset

free     == \A i \in {0, 1} : Len(ipb[i]) < IpbDepth
avail(i) == ipb[i] # <<>>

\* Both half-words of the fetched word, as the memory answers: `compr' and `err'.
Low  == IF fetch.addr % 2 = 0 THEN fetch.addr ELSE fetch.addr - 1
wdata(i, compr, err) ==
  [from |-> Low + i, priv |-> fetch.priv, debug |-> fetch.debug, compr |-> compr, err |-> err]

we(i, ack) ==
  /\ fetch.state = "S_PENDING" /\ ack
  /\ i = 0 => fetch.addr % 2 = 0 \/ ~generics.c

-------------------------------------------------------------------------------
(* Issue engine.                                                             *)

first  == IF align_q THEN 1 ELSE 0
second == 1 - first

compressed == generics.c /\ avail(first) /\ Head(ipb[first]).compr

valid ==
  IF generics.c THEN avail(first) /\ (compressed \/ avail(second)) ELSE avail(0)

\* The FIFOs an issued instruction is taken from.
taken_from == IF compressed THEN {first} ELSE {0, 1}

\* What is issued: its half-words.
issued ==
  IF compressed THEN <<Head(ipb[first])>> ELSE <<Head(ipb[first]), Head(ipb[second])>>

fault == \E h \in {issued[k] : k \in DOMAIN issued} : h.err

-------------------------------------------------------------------------------
(* One clock edge.  `ack' and the words' bits come from the bus, the rest    *)
(* from the back-end.                                                        *)

fetch_fsm(if_reset, pc_nxt, cpu_priv, cpu_debug, ack) ==
  fetch' =
    CASE fetch.state = "S_RESTART" ->
           [state |-> "S_REQUEST", reset |-> FALSE, addr |-> pc_nxt,
            priv |-> cpu_priv, debug |-> cpu_debug]
      [] fetch.state = "S_REQUEST" ->
           [fetch EXCEPT !.reset = restart(if_reset),
                         !.state = CASE free -> "S_PENDING"
                                     [] ~free /\ restart(if_reset) -> "S_RESTART"
                                     [] OTHER -> "S_REQUEST"]
      [] fetch.state = "S_PENDING" /\ ~ack ->
           [fetch EXCEPT !.reset = restart(if_reset)]
      [] fetch.state = "S_PENDING" /\ ack ->
           [fetch EXCEPT !.reset = restart(if_reset),
                         !.addr  = After(Low, 2),
                         !.state = IF restart(if_reset) THEN "S_RESTART" ELSE "S_REQUEST"]

prefetch_buffer(if_reset, if_ready, ack, compr, err) ==
  ipb' = [i \in {0, 1} |->
            LET left == IF valid /\ if_ready /\ i \in taken_from THEN Tail(ipb[i]) ELSE ipb[i]
            IN  IF restart(if_reset) THEN <<>>
                ELSE IF we(i, ack) THEN Append(left, wdata(i, compr[i], err))
                ELSE left]

\* Mutant: the alignment is not set again after a branch.
issue_fsm_sync_NoBranch(if_ready, pc_nxt) ==
  align_q' = IF valid /\ if_ready /\ compressed THEN ~align_q ELSE align_q

issue_fsm_sync(if_ready, pc_nxt) ==
  align_q' = CASE ~generics.c -> FALSE
               [] generics.c /\ fetch.reset -> pc_nxt % 2 = 1
               [] generics.c /\ ~fetch.reset /\ valid /\ if_ready /\ compressed -> ~align_q
               [] OTHER -> align_q

FrontendEdge(if_reset, if_ready, pc_nxt, cpu_priv, cpu_debug) ==
  \E ack, err \in BOOLEAN : \E compr \in [{0, 1} -> BOOLEAN] :
    /\ ack => fetch.state = "S_PENDING"
    /\ ~ack => fetch.state # "S_PENDING" \/ generics.late
    /\ err => ack /\ generics.faults
    /\ \A i \in {0, 1} : compr[i] => we(i, ack) /\ generics.c
    /\ fetch_fsm(if_reset, pc_nxt, cpu_priv, cpu_debug, ack)
    /\ prefetch_buffer(if_reset, if_ready, ack, compr, err)
    /\ issue_fsm_sync(if_ready, pc_nxt)
================================================================================

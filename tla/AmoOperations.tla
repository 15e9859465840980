----------------------------- MODULE AmoOperations -----------------------------
(***************************************************************************)
(* The read-modify-write controller between one host and a memory that      *)
(* answers after any number of clocks, with every word, and with errors:    *)
(* every operation, operand and memory content.                             *)
(***************************************************************************)
EXTENDS BusAmoRmw

VARIABLES
  request,  \* what the host drives; stb for its first clock only
  current,  \* the word in the memory while the request is on
  busy      \* the memory owes an answer

vars == <<rmwVars, request, current, busy>>

Address == CHOOSE a \in Addresses : TRUE
Host    == CHOOSE h \in Harts : TRUE

Modify(code, operand) ==
  [stb |-> TRUE, rw |-> FALSE, amo |-> TRUE, amoop |-> code, addr |-> Address,
   data |-> operand, lock |-> TRUE, meta |-> Host]

NoRequest == [Modify(SWAP, 0) EXCEPT !.stb = FALSE, !.amo = FALSE, !.lock = FALSE]

HostWaits == request.lock

\* The memory's answers: none unless it owes one; a read returns its word.
Answers == {rsp_terminate_c}
           \union (IF busy THEN [ack : {TRUE}, err : BOOLEAN, data : {current}] ELSE {})

\* One clock edge of the host, the controller and the memory.
Edge(answer) ==
  /\ arbiter_comb(request, answer)
  /\ busy' = (sys_req(request).stb \/ (busy /\ ~answer.ack))
  /\ \/ /\ ~HostWaits
        /\ \E code \in RmwCodes, operand \in Word : request' = Modify(code, operand)
        /\ current' \in Word
     \/ /\ HostWaits
        /\ request' = IF core_rsp(answer).ack THEN NoRequest ELSE [request EXCEPT !.stb = FALSE]
        /\ UNCHANGED current

Init ==
  /\ RmwInit
  /\ request = NoRequest /\ current = 0 /\ busy = FALSE

Next == \E answer \in Answers : Edge(answer)

-------------------------------------------------------------------------------
\* What the controller writes is the operation applied to the word it has read and the host's
\* operand, for every operation and operands of either sign; and the host gets the word that was
\* read, once the write has been answered.
ActsAsReference ==
  /\ arbiter = "S_WRITE" => /\ sys_req(request).stb /\ sys_req(request).rw
                            /\ sys_req(request).data = Apply(request.amoop, current, request.data)
  /\ \A answer \in Answers :
       core_rsp(answer).ack => arbiter = "S_WRITE_WAIT" /\ core_rsp(answer).data = current
================================================================================

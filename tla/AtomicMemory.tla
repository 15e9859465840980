------------------------------ MODULE AtomicMemory -----------------------------
(***************************************************************************)
(* What the bus promises its hosts: every access to the memory takes effect *)
(* in one step between its request and its response, and the response is    *)
(* that step's result.  Atomic operations are the textbook's.  There is one *)
(* reservation for the whole processor (datasheet, "Atomic Reservation-Set  *)
(* Controller").                                                            *)
(***************************************************************************)
EXTENDS Bus

CONSTANT Accesses  \* what a host can ask for

VARIABLES
  dead,      \* the addresses where nothing can answer: a bus error is due
  mem,       \* the memory
  reserved,  \* the reservation
  op,        \* op[h]: the access of a host and how far it is
  got        \* got[h]: the response a host just received, if any

vars == <<dead, mem, reserved, op, got>>

Responses == [ack : {TRUE}, err : BOOLEAN, data : Word]
Answer(d) == [ack |-> TRUE, err |-> FALSE, data |-> d]

\* How far an access is.  The result of one outside the memory stays open
\* until the response.
Free            == [status |-> "free"]
Asked(a)        == [status |-> "asked", access |-> a]
Open(a)         == [status |-> "open", access |-> a]
Performed(a, r) == [status |-> "performed", access |-> a, result |-> r]

IsLr(a)     == a.amo /\ a.amoop = LR
IsSc(a)     == a.amo /\ a.amoop = SC
IsAmo(a)    == a.amo /\ a.amoop \in RmwCodes
Refused(a)  == IsSc(a) /\ ~reserved
Internal(a) == a.addr \in Cells

\* What the memory holds after an access, and what the access returns.
NewWord(a, old) == IF IsAmo(a) THEN Apply(a.amoop, old, a.data)
                   ELSE IF a.rw THEN a.data ELSE old

After(a) == IF Internal(a) /\ ~Refused(a)
              THEN [mem EXCEPT ![a.addr] = NewWord(a, @)] ELSE mem

Effect(a) == IF Refused(a) THEN Performed(a, Answer(1))
             ELSE IF ~Internal(a) THEN Open(a)
             ELSE Performed(a, Answer(IF a.rw THEN 0 ELSE mem[a.addr]))

Init ==
  /\ dead \subseteq Addresses \ Cells
  /\ mem \in [Cells -> Word]
  /\ reserved = FALSE
  /\ op = [h \in Harts |-> Free]
  /\ got = [h \in Harts |-> rsp_terminate_c]

\* The access of a host takes effect; it leaves a reservation if it is an LR.
Perform(h) ==
  /\ op[h].status = "asked"
  /\ op'[h] = Effect(op[h].access)
  /\ mem' = After(op[h].access)
  /\ reserved' = IsLr(op[h].access)
  /\ got'[h] = rsp_terminate_c

Ask(h) ==
  /\ op[h] = Free
  /\ op'[h] \in {Asked(a) : a \in Accesses}
  /\ got'[h] = rsp_terminate_c

\* The answers to an open access: an error where nothing can answer.
Reply(h) ==
  /\ op'[h] = Free
  /\ \/ op[h].status = "performed" /\ got'[h] = op[h].result
     \/ /\ op[h].status = "open"
        /\ got'[h] \in Responses
        /\ op[h].access.addr \in dead => got'[h].err

Stay(h) == op'[h] = op[h] /\ got'[h] = rsp_terminate_c

Local(h) == Ask(h) \/ Reply(h) \/ Stay(h)

\* A read-modify-write under way may already have taken the reservation.
Reservation ==
  \/ UNCHANGED reserved
  \/ /\ \E h \in Harts : op[h].status = "asked" /\ IsAmo(op[h].access)
     /\ reserved' = FALSE

\* The hosts act in parallel; one access at a time takes effect.
Next ==
  /\ op' = [h \in Harts |-> op'[h]] /\ got' = [h \in Harts |-> got'[h]]
  /\ \/ \E h \in Harts : Perform(h) /\ \A g \in Harts \ {h} : Local(g)
     \/ (\A h \in Harts : Local(h)) /\ UNCHANGED mem /\ Reservation
  /\ UNCHANGED dead

Spec == Init /\ [][Next]_vars
================================================================================

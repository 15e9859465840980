------------------------------ MODULE DmaTransfers ------------------------------
(***************************************************************************)
(* What a DMA controller promises to the program that uses it: descriptors  *)
(* wait in a queue, one after the other becomes the moves it asks for, and  *)
(* the moves are performed in order, to the end or to an error or an abort. *)
(* This is the reference; nothing here is read off the controller.          *)
(***************************************************************************)
EXTENDS Integers, Sequences

CONSTANT WordBits

VARIABLES
  queue,   \* words of the descriptors not yet begun, three for each
  todo,    \* moves of the current descriptor that are left
  move,    \* the move on the bus, or NoMove
  enabled, \* the program has it switched on  (these two are inputs)
  error    \* the bus just reported an error

vars == <<queue, todo, move>>

NoMove == [from |-> -1, to |-> -1]

\* The moves of a descriptor.  Its configuration word holds the number of
\* elements below two flags: increment the source, increment the destination.
Moves(src, dst, conf) ==
  LET elements == 2 ^ (WordBits - 2)
      src_inc  == (conf \div elements) % 2
      dst_inc  == conf \div (2 * elements)
  IN  [i \in 1 .. conf % elements |->
         [from |-> (src + (i - 1) * src_inc) % 2 ^ WordBits,
          to   |-> (dst + (i - 1) * dst_inc) % 2 ^ WordBits]]

Init == queue = <<>> /\ todo = <<>> /\ move = NoMove

Program ==
  /\ queue' \in {Append(queue, w) : w \in 0 .. 2 ^ WordBits - 1}
  /\ UNCHANGED <<todo, move>>

Begin ==
  /\ todo = <<>> /\ move = NoMove /\ Len(queue) >= 3
  /\ todo' = Moves(queue[1], queue[2], queue[3])
  /\ queue' = SubSeq(queue, 4, Len(queue))
  /\ UNCHANGED move

Write ==
  /\ todo # <<>> /\ move = NoMove
  /\ move' = Head(todo) /\ todo' = Tail(todo)
  /\ UNCHANGED queue

Written == ~error' /\ move' = NoMove /\ UNCHANGED <<queue, todo>>

\* An error ends the current descriptor, switching off drops all of them; nothing
\* else does.
Fail  == error' /\ move' = NoMove /\ todo' = <<>> /\ UNCHANGED queue
Abort == ~enabled /\ move' = NoMove /\ todo' = <<>> /\ UNCHANGED queue
Clear == ~enabled /\ queue' = <<>> /\ UNCHANGED <<todo, move>>

Next == Program \/ Begin \/ Write \/ Written \/ Fail \/ Abort \/ Clear

Spec == Init /\ [][Next]_vars
================================================================================

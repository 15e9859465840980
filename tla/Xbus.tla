--------------------------------- MODULE Xbus ----------------------------------
(***************************************************************************)
(* neorv32_xbus without register stage: the gate to the external bus.  An   *)
(* access is pending from its strobe to its answer, to the end of the lock  *)
(* or to the keeper's termination; answers outside that window are dropped. *)
(* `ext' is what the external device drives: ack, err and data.             *)
(***************************************************************************)
EXTENDS Bus

VARIABLES
  pending,  \* an access is in progress
  locked    \* it is a locked one

xbusVars == <<pending, locked>>

XbusInit == pending = FALSE /\ locked = FALSE

\* Mutant: the termination by the keeper is not connected.
Ends_NoTerm(r, term, ext) == IF locked THEN ~r.lock ELSE ext.err \/ ext.ack

Ends(r, term, ext) == term \/ (IF locked THEN ~r.lock ELSE ext.err \/ ext.ack)

\* One clock edge.
xbus_arbiter(r, term, ext) ==
  /\ pending' = IF pending THEN ~Ends(r, term, ext) ELSE r.stb
  /\ locked'  = IF pending THEN locked ELSE r.stb /\ r.lock

xbus_rsp(ext) ==
  [ack  |-> pending /\ (ext.err \/ ext.ack),
   err  |-> pending /\ ext.err,
   data |-> IF pending THEN ext.data ELSE 0]
================================================================================

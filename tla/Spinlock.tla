-------------------------------- MODULE Spinlock --------------------------------
(***************************************************************************)
(* The spin locks of the dual-core demos, on the memory they run on.  Each  *)
(* step is one data access of one hart.  The memory has one reservation bit *)
(* for all harts and addresses: a load-reservate sets it, every other data  *)
(* access clears it, and a store-conditional writes if it finds it set      *)
(* (neorv32_bus_amo_rvs, see BusAmoRvs).                                    *)
(*                                                                         *)
(* LockSpec is the lock of demo_dual_core_rte/spinlock.c (amoswap.w),       *)
(* LrScSpec that of demo_dual_core/spinlock.c (lr.w and sc.w).             *)
(***************************************************************************)
CONSTANT Harts

VARIABLES
  spin_locked,  \* __spin_locked is not 0
  reserved,     \* the reservation
  lock_at       \* where each hart is

lockVars == <<spin_locked, reserved, lock_at>>

Places == {"away", "locking", "compared", "inside", "unlocking", "clearing"}

Go(h, place) == lock_at' = [lock_at EXCEPT ![h] = place]

LockInit == spin_locked = FALSE /\ reserved = FALSE /\ lock_at = [h \in Harts |-> "away"]

\* Any other data access: the stack, the UART.
Work(h) ==
  /\ lock_at[h] \in {"away", "inside"}
  /\ reserved' = FALSE /\ UNCHANGED <<spin_locked, lock_at>>

Want(h) == lock_at[h] = "away" /\ Go(h, "locking") /\ UNCHANGED <<spin_locked, reserved>>
Leave(h) == lock_at[h] = "inside" /\ Go(h, "unlocking") /\ UNCHANGED <<spin_locked, reserved>>

-------------------------------------------------------------------------------
(* amoswap.w                                                                *)

\* Mutant: the lock is tested and taken in two accesses, another one may come between.
spin_lock_Twice(h) ==
  /\ \/ lock_at[h] = "locking" /\ ~spin_locked /\ Go(h, "compared") /\ UNCHANGED spin_locked
     \/ lock_at[h] = "compared" /\ spin_locked' = TRUE /\ Go(h, "inside")
  /\ reserved' = FALSE

spin_lock(h) ==
  /\ lock_at[h] = "locking"
  /\ spin_locked' = TRUE /\ reserved' = FALSE
  /\ IF spin_locked THEN UNCHANGED lock_at ELSE Go(h, "inside")

spin_unlock(h) ==
  /\ lock_at[h] = "unlocking"
  /\ spin_locked' = FALSE /\ reserved' = FALSE
  /\ Go(h, "away")

LockNext == \E h \in Harts : Work(h) \/ Want(h) \/ Leave(h) \/ spin_lock(h) \/ spin_unlock(h)

LockSpec == LockInit /\ [][LockNext]_lockVars

-------------------------------------------------------------------------------
(* lr.w, sc.w                                                               *)

LoadReservate == reserved' = TRUE /\ UNCHANGED spin_locked

StoreConditional(h, value, then, else) ==
  /\ reserved' = FALSE
  /\ IF reserved THEN spin_locked' = value /\ Go(h, then) ELSE UNCHANGED spin_locked /\ Go(h, else)

\* __sync_bool_compare_and_swap(&__spin_locked, 0, -1), until it succeeds
LrLock(h) ==
  /\ lock_at[h] = "locking" /\ LoadReservate
  /\ IF spin_locked THEN UNCHANGED lock_at ELSE Go(h, "compared")
ScLock(h) == lock_at[h] = "compared" /\ StoreConditional(h, TRUE, "inside", "locking")

LrUnlock(h) == lock_at[h] = "unlocking" /\ LoadReservate /\ Go(h, "clearing")
ScUnlock(h) == lock_at[h] = "clearing" /\ StoreConditional(h, FALSE, "away", "unlocking")

\* spin_check()
LrCheck(h) == lock_at[h] = "away" /\ LoadReservate /\ UNCHANGED lock_at

LrScNext ==
  \E h \in Harts : \/ Work(h) \/ Want(h) \/ Leave(h)
                  \/ LrLock(h) \/ ScLock(h) \/ LrUnlock(h) \/ ScUnlock(h) \/ LrCheck(h)

LrScSpec == LockInit /\ [][LrScNext]_lockVars

-------------------------------------------------------------------------------
\* "We need to ensure exclusive access by using a simple spinlock": two harts are never
\* inside at once, however often they lock and unlock (demo_dual_core_rte/spinlock.c; for
\* demo_dual_core/spinlock.c see the run that refutes it).
ExclusiveAccess ==
  \A g, h \in Harts : lock_at[g] = "inside" /\ lock_at[h] = "inside" => g = h
================================================================================

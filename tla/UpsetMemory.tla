----------------------------- MODULE UpsetMemory ------------------------------
(***************************************************************************)
(* What the mutant data memory promises: a word memory in which an upset is *)
(* one atomic event that flips exactly its mask.  An upset is announced one *)
(* step before it strikes and settles one step after.  The store on the bus *)
(* takes effect at once in every lane it enables; only when the memory is   *)
(* Lossy may a store to the word under attack, in the step of the strike or *)
(* of the settling, miss some of its lanes.                                 *)
(***************************************************************************)
EXTENDS BitVectors

CONSTANTS
  Addresses,   \* word addresses
  Lanes,       \* the lanes of a word: disjoint sets of bits
  StoreWords,  \* words that are stored
  Flips,       \* masks of upsets
  Lossy        \* whether a store can collide with an upset

VARIABLES
  mem,        \* the memory
  store,      \* the store on the bus: at most one [addr, lanes, data]
  pending,    \* the upset announced: at most one [addr, mask]
  settling    \* the address just struck: at most one

avars == <<mem, store, pending, settling>>

NoneOrOne(S) == {{}} \union {{x} : x \in S}

StoreRequests == [addr : Addresses, lanes : SUBSET Lanes, data : StoreWords]

AInit ==
  /\ mem \in [Addresses -> StoreWords]
  /\ store \in NoneOrOne(StoreRequests)
  /\ pending = {} /\ settling = {}

\* The memories the store on the bus can leave behind.
AfterStore(attacked) ==
  IF store = {} THEN {mem}
  ELSE LET s == CHOOSE x \in store : TRUE
           kept == IF Lossy /\ s.addr \in attacked THEN SUBSET s.lanes ELSE {s.lanes}
       IN  {[mem EXCEPT ![s.addr] = Overlay(@, s.data, UNION l)] : l \in kept}

Calm ==
  /\ pending = {} /\ settling = {}
  /\ mem' \in AfterStore({})
  /\ UNCHANGED <<pending, settling>>

Announce ==
  /\ pending = {} /\ settling = {}
  /\ mem' \in AfterStore({})
  /\ \E a \in Addresses, f \in Flips : pending' = {[addr |-> a, mask |-> f]}
  /\ UNCHANGED settling

Strike ==
  \E u \in pending :
    /\ \E m \in AfterStore({u.addr}) : mem' = [m EXCEPT ![u.addr] = Xor(@, u.mask)]
    /\ pending' = {}
    /\ settling' = {u.addr}

Settle ==
  /\ settling # {}
  /\ mem' \in AfterStore(settling)
  /\ settling' = {}
  /\ UNCHANGED pending

\* The next store on the bus is the master's choice.
ANext ==
  /\ Calm \/ Announce \/ Strike \/ Settle
  /\ store' \in NoneOrOne(StoreRequests)

ASpec == AInit /\ [][ANext]_avars

===============================================================================

--------------------------------- MODULE Cache ----------------------------------
(***************************************************************************)
(* neorv32_cache with its RAMs (neorv32_cache_ram), a host in front of it,  *)
(* and the memory behind it.  A step is a rising clock edge.  The host      *)
(* strobes a request for one clock and holds it until it is acknowledged;   *)
(* the bus answers when it likes, with or without an error; a               *)
(* synchronisation (fence) may be requested at any time.                    *)
(*                                                                         *)
(* `truth' is what a host without a cache would find in the memory.         *)
(***************************************************************************)
EXTENDS Integers, Sequences

CONSTANTS
  Tags,        \* tags of cached addresses
  Uncached,    \* tag of the uncached address space
  Geometries,  \* [blocks, words, bursts, read_only]: generics of the cache
  Issued(_)    \* the accesses of the host of a cache of a geometry, see Request

\* Generics that pass the assertions of the cache (neorv32_cache.vhd:131) and of the top
\* level (neorv32_top.vhd:311): a block that is fetched in bursts has several words.
ASSUME CacheAssumption ==
  \A g \in Geometries :
    /\ g \in [blocks : Nat \ {0}, words : Nat \ {0}, bursts : BOOLEAN, read_only : BOOLEAN]
    /\ g.bursts => g.words > 1
    /\ Issued(g) \subseteq [on : {TRUE}, stb : {TRUE}, rw : BOOLEAN, amo : BOOLEAN, data : Int,
                           addr : [tag : Tags \union {Uncached}, idx : Nat, ofs : Nat]]

VARIABLES
  geo,                                \* the generics (rigid)
  state, sync, bus_err, pnd_req, pnd_syn, pnd_bp, bp_req, hit, cln,
  tag, idx, ofs_int, ofs_ext, ofs_buf,  \* the fields of ctrl
  valid, dirty, tags, data,           \* status, tag and data memories
  rd,                                 \* their registered outputs
  host,                               \* what the host drives
  mem, owed,                          \* main memory; requests it has to answer
  truth,                              \* see above
  refused                             \* blocks whose write-back failed in this synchronisation

flags == <<sync, bus_err, pnd_req, pnd_syn, pnd_bp, bp_req, hit, cln>>
place == <<tag, idx, ofs_int, ofs_ext, ofs_buf>>
ctrl  == <<state, flags, place>>
rams  == <<valid, dirty, tags, data, rd>>
vars  == <<geo, ctrl, rams, host, mem, owed, truth, refused>>

Blocks == 0 .. geo.blocks - 1
Words  == 0 .. geo.words - 1
Address(t, i, o) == [tag |-> t, idx |-> i, ofs |-> o]
Addresses == [tag : Tags \union {Uncached}, idx : Blocks, ofs : Words]
LastWord(o) == o % geo.words = geo.words - 1

\* Loads, stores and atomic swaps; a read-only cache (of instructions) sees loads only.
Request(kind, a, w) ==
  [on |-> TRUE, stb |-> TRUE, rw |-> kind = "store", amo |-> kind = "swap", addr |-> a, data |-> w]

NoAccess == [Request("load", Address(Uncached, 0, 0), 0) EXCEPT !.on = FALSE, !.stb = FALSE]

NoAnswer == [ack |-> FALSE, err |-> FALSE, data |-> 0]

\* What the bus may answer to the oldest request, one clock after it at the earliest.  What an
\* answer with an error carries is no word of the memory.
Garbage == -1

Answers ==
  {NoAnswer} \union
    (IF owed = <<>> THEN {}
     ELSE {[ack |-> TRUE, err |-> FALSE, data |-> mem[Head(owed).addr]],
           [ack |-> TRUE, err |-> TRUE, data |-> Garbage]})

-------------------------------------------------------------------------------
(* cache_i: what the control engine sees of the RAMs                        *)

cache_hit == hit \/ (rd.valid /\ rd.tag = host.addr.tag)
cache_drt == ~cln /\ ~geo.read_only /\ rd.dirty /\ rd.valid

(* cache_o: one access to the RAMs per clock                                 *)

HostAddr == host.addr
Inner == Address(tag, idx, ofs_int)
Outer(o) == Address(tag, idx, o % geo.words)
Access(a) == [set |-> FALSE, vld |-> FALSE, drt |-> FALSE, addr |-> a, we |-> FALSE, data |-> host.data]

\* The RAMs at the clock edge; a word that is written is read as it was.
Rams(c) ==
  LET i == c.addr.idx
      dirty_we == (c.set \/ c.drt) /\ ~geo.read_only
  IN  /\ valid' = IF c.set THEN [valid EXCEPT ![i] = c.vld] ELSE valid
      /\ dirty' = IF dirty_we THEN [dirty EXCEPT ![i] = c.drt] ELSE dirty
      /\ tags'  = IF c.set THEN [tags EXCEPT ![i] = c.addr.tag] ELSE tags
      /\ data'  = IF c.we THEN [data EXCEPT ![i][c.addr.ofs] = c.data] ELSE data
      /\ rd' = [valid |-> valid[i], dirty |-> dirty[i], tag |-> tags[i], data |-> data[i][c.addr.ofs]]

(* bus_req_o: the cache's own requests are locked full-word accesses          *)

NoRequest == [stb |-> FALSE, rw |-> FALSE, amo |-> FALSE, addr |-> HostAddr, data |-> 0]
Fetch(a) == [NoRequest EXCEPT !.stb = TRUE, !.addr = a]
Upload(a) == [NoRequest EXCEPT !.stb = TRUE, !.rw = TRUE, !.addr = a, !.data = rd.data]
Pass == [stb |-> bp_req, rw |-> host.rw, amo |-> host.amo, addr |-> host.addr, data |-> host.data]

\* The memory takes requests in order; one that it answers with an error has no effect.
Bus(req, rsp) ==
  /\ owed' = (IF rsp.ack THEN Tail(owed) ELSE owed) \o (IF req.stb THEN <<req>> ELSE <<>>)
  /\ mem' = IF rsp.ack /\ ~rsp.err /\ (Head(owed).rw \/ Head(owed).amo)
            THEN [mem EXCEPT ![Head(owed).addr] = Head(owed).data] ELSE mem

Ack(w)  == [ack |-> TRUE, err |-> FALSE, data |-> w]
Fault   == [ack |-> TRUE, err |-> TRUE, data |-> 0]

\* Truth changes when a store or swap is acknowledged.  When the host is told of an error
\* of a write-back, what the memory holds of the lost block becomes the truth.
Truth(rsp) ==
  truth' = IF rsp.ack /\ ~rsp.err /\ (host.rw \/ host.amo) THEN [truth EXCEPT ![host.addr] = host.data]
           ELSE IF rsp.err /\ state = "S_WRITE_DONE"
           THEN [a \in Addresses |-> IF a.tag = tag /\ a.idx = idx THEN mem[a] ELSE truth[a]]
           ELSE truth

Host(rsp) ==
  \/ /\ ~host.on
     /\ \/ host' = host
        \/ \E r \in Issued(geo) :
             /\ r.addr \in Addresses
             /\ geo.read_only => ~r.rw /\ ~r.amo
             /\ host' = r
  \/ host.on /\ host' = IF rsp.ack THEN NoAccess ELSE [host EXCEPT !.stb = FALSE]

\* A clock edge: RAM access c, response rsp to the host, request req to the bus, its answer.
Around(c, rsp, req, answer) ==
  /\ Rams(c) /\ Bus(req, answer) /\ Truth(rsp) /\ Host(rsp)
  /\ ofs_buf' = ofs_ext
  /\ UNCHANGED geo

\* Mutant: a request strobed while the cache is busy is forgotten.
Pending_Live(syn) == pnd_req' = host.stb /\ pnd_syn' = (pnd_syn \/ syn)
Pending(syn) == pnd_req' = (pnd_req \/ host.stb) /\ pnd_syn' = (pnd_syn \/ syn)
NoForce == bp_req' = FALSE /\ hit' = FALSE /\ cln' = FALSE

-------------------------------------------------------------------------------
(* Access check                                                             *)

IsBypass == host.addr.tag = Uncached \/ host.amo

GoesFirst == ~pnd_syn /\ (host.stb \/ pnd_req)

Idle(syn, answer) ==
  /\ state = "S_IDLE"
  /\ bus_err' = FALSE /\ sync' = FALSE
  /\ pnd_bp' = (GoesFirst /\ IsBypass)
  /\ state' = IF GoesFirst THEN "S_CHECK" ELSE IF pnd_syn THEN "S_SYNC_START" ELSE "S_IDLE"
  /\ Pending(syn) /\ NoForce
  /\ UNCHANGED <<tag, idx, ofs_int, ofs_ext, refused>>
  /\ Around(Access(HostAddr), NoAnswer, NoRequest, answer)

\* Mutant: an atomic access leaves the cached copy alone.
Checked_Keep ==
  CASE pnd_bp    -> [to |-> "S_BYPASS", c |-> Access(HostAddr), rsp |-> NoAnswer]
    [] cache_hit -> [to |-> "S_IDLE",
                     c |-> [Access(HostAddr) EXCEPT !.we = host.rw, !.drt = host.rw], rsp |-> Ack(rd.data)]
    [] OTHER     -> [to |-> IF cache_drt THEN "S_WRITE_START" ELSE "S_READ_START",
                     c |-> Access(HostAddr), rsp |-> NoAnswer]

Checked ==
  CASE pnd_bp /\ cache_hit /\ ~cache_drt ->
         [to |-> "S_BYPASS", c |-> [Access(HostAddr) EXCEPT !.set = TRUE], rsp |-> NoAnswer]
    [] pnd_bp /\ cache_hit /\ cache_drt ->
         [to |-> "S_WRITE_START", c |-> Access(HostAddr), rsp |-> NoAnswer]
    [] pnd_bp /\ ~cache_hit ->
         [to |-> "S_BYPASS", c |-> Access(HostAddr), rsp |-> NoAnswer]
    [] ~pnd_bp /\ cache_hit ->
         [to |-> "S_IDLE", c |-> [Access(HostAddr) EXCEPT !.we = host.rw, !.drt = host.rw], rsp |-> Ack(rd.data)]
    [] ~pnd_bp /\ ~cache_hit ->
         [to |-> IF cache_drt THEN "S_WRITE_START" ELSE "S_READ_START",
          c |-> Access(HostAddr), rsp |-> NoAnswer]

Check(syn, answer) ==
  /\ state = "S_CHECK"
  /\ tag' = host.addr.tag /\ idx' = host.addr.idx /\ ofs_ext' = 0 /\ ofs_int' = 0
  /\ pnd_req' = FALSE /\ pnd_syn' = (pnd_syn \/ syn)
  /\ bp_req' = TRUE /\ hit' = FALSE /\ cln' = FALSE
  /\ state' = Checked.to
  /\ UNCHANGED <<sync, bus_err, pnd_bp, refused>>
  /\ Around(Checked.c, Checked.rsp, NoRequest, answer)

Bypass(syn, answer) ==
  /\ state = "S_BYPASS"
  /\ state' = IF answer.ack THEN "S_IDLE" ELSE state
  /\ Pending(syn) /\ NoForce
  /\ UNCHANGED <<sync, bus_err, pnd_bp, tag, idx, ofs_int, ofs_ext, refused>>
  /\ Around(Access(HostAddr), answer, Pass, answer)

-------------------------------------------------------------------------------
(* Synchronisation                                                          *)

SyncStart(syn, answer) ==
  /\ state = "S_SYNC_START" /\ state' = "S_SYNC_DELAY"
  /\ pnd_syn' = FALSE /\ pnd_req' = (pnd_req \/ host.stb)
  /\ sync' = TRUE /\ idx' = 0 /\ refused' = {}
  /\ NoForce
  /\ UNCHANGED <<bus_err, pnd_bp, tag, ofs_int, ofs_ext>>
  /\ Around(Access(HostAddr), NoAnswer, NoRequest, answer)

SyncDelay(syn, answer) ==
  /\ state = "S_SYNC_DELAY" /\ state' = "S_SYNC_CHECK"
  /\ Pending(syn) /\ NoForce
  /\ UNCHANGED <<sync, bus_err, pnd_bp, tag, idx, ofs_int, ofs_ext, refused>>
  /\ Around(Access(Inner), NoAnswer, NoRequest, answer)

SyncCheck(syn, answer) ==
  /\ state = "S_SYNC_CHECK"
  /\ ofs_ext' = 0 /\ ofs_int' = 0 /\ bus_err' = FALSE
  /\ state' = IF cache_drt THEN "S_WRITE_START" ELSE "S_SYNC_NEXT"
  /\ Pending(syn) /\ NoForce
  /\ UNCHANGED <<sync, pnd_bp, tag, idx, refused>>
  /\ Around(Access(Inner), NoAnswer, NoRequest, answer)

\* Mutant: a block that could not be written back is dropped.
Synced_Drop == [Access(Inner) EXCEPT !.set = TRUE]
Synced == [Access(Inner) EXCEPT !.set = TRUE, !.drt = bus_err, !.vld = bus_err]

\* Mutant: the last block is left out.
AllSynced_Early == idx + 1 >= geo.blocks - 1
AllSynced == idx = geo.blocks - 1

SyncNext(syn, answer) ==
  /\ state = "S_SYNC_NEXT"
  /\ idx' = (idx + 1) % geo.blocks
  /\ state' = IF AllSynced THEN "S_IDLE" ELSE "S_SYNC_DELAY"
  /\ refused' = IF bus_err THEN refused \union {idx} ELSE refused
  /\ Pending(syn) /\ NoForce
  /\ UNCHANGED <<sync, bus_err, pnd_bp, tag, ofs_int, ofs_ext>>
  /\ Around(Synced, NoAnswer, NoRequest, answer)

-------------------------------------------------------------------------------
(* Download                                                                 *)

Inc(o) == (o + 1) % geo.words
IncExt(o) == (o + 1) % (2 * geo.words)
Full(a, w) == [Access(a) EXCEPT !.we = TRUE, !.data = w]

ReadStart(syn, answer) ==
  /\ state = "S_READ_START" /\ state' = "S_READ_WAIT"
  /\ Pending(syn) /\ NoForce
  /\ UNCHANGED <<sync, bus_err, pnd_bp, tag, idx, ofs_int, ofs_ext, refused>>
  /\ Around(Access(HostAddr), NoAnswer, Fetch(Outer(ofs_ext)), answer)

\* Mutant: an error of another word of the block is forgotten.
Errors_Last(answer) == answer.err
Errors(answer) == bus_err \/ answer.err

ReadWait(syn, answer) ==
  /\ state = "S_READ_WAIT"
  /\ IF answer.ack
     THEN /\ bus_err' = Errors(answer)
          /\ ofs_int' = Inc(ofs_int) /\ ofs_ext' = IncExt(ofs_ext)
          /\ state' = IF geo.bursts THEN "S_READ_BURST"
                      ELSE IF LastWord(ofs_int) THEN "S_READ_DONE" ELSE "S_READ_START"
     ELSE UNCHANGED <<state, bus_err, ofs_int, ofs_ext>>
  /\ Pending(syn) /\ NoForce
  /\ UNCHANGED <<sync, pnd_bp, tag, idx, refused>>
  /\ Around(Full(Inner, answer.data), NoAnswer, NoRequest, answer)

\* A burst strobes every clock until the overflow bit of its offset is set.
More(o) == o < geo.words

ReadBurst(syn, answer) ==
  /\ state = "S_READ_BURST"
  /\ ofs_ext' = IF More(ofs_ext) THEN IncExt(ofs_ext) ELSE ofs_ext
  /\ IF answer.ack
     THEN /\ bus_err' = Errors(answer) /\ ofs_int' = Inc(ofs_int)
          /\ state' = IF LastWord(ofs_int) THEN "S_READ_DONE" ELSE state
     ELSE UNCHANGED <<state, bus_err, ofs_int>>
  /\ Pending(syn) /\ NoForce
  /\ UNCHANGED <<sync, pnd_bp, tag, idx, refused>>
  /\ Around(Full(Inner, answer.data), NoAnswer,
            IF More(ofs_ext) THEN Fetch(Outer(ofs_ext)) ELSE NoRequest, answer)

ReadDone(syn, answer) ==
  /\ state = "S_READ_DONE"
  /\ state' = IF bus_err THEN "S_IDLE" ELSE "S_CHECK"
  /\ hit' = TRUE /\ bp_req' = FALSE /\ cln' = FALSE
  /\ Pending(syn)
  /\ UNCHANGED <<sync, bus_err, pnd_bp, tag, idx, ofs_int, ofs_ext, refused>>
  /\ Around([Access(HostAddr) EXCEPT !.set = TRUE, !.vld = ~bus_err],
            IF bus_err THEN Fault ELSE NoAnswer, NoRequest, answer)

-------------------------------------------------------------------------------
(* Upload                                                                   *)

\* Mutant: the block goes to the address of the access that evicts it.
EvictedTag_Host == tag
EvictedTag == IF ofs_int = 0 THEN rd.tag ELSE tag

WriteStart(syn, answer) ==
  /\ state = "S_WRITE_START" /\ state' = "S_WRITE_REQ"
  /\ tag' = EvictedTag
  /\ Pending(syn) /\ NoForce
  /\ UNCHANGED <<sync, bus_err, pnd_bp, idx, ofs_int, ofs_ext, refused>>
  /\ Around(Access(Inner), NoAnswer, NoRequest, answer)

WriteReq(syn, answer) ==
  /\ state = "S_WRITE_REQ" /\ state' = "S_WRITE_RSP"
  /\ Pending(syn) /\ NoForce
  /\ UNCHANGED <<sync, bus_err, pnd_bp, tag, idx, ofs_int, ofs_ext, refused>>
  /\ Around(Access(Inner), NoAnswer, Upload(Outer(ofs_ext)), answer)

WriteRsp(syn, answer) ==
  /\ state = "S_WRITE_RSP"
  /\ IF answer.ack
     THEN /\ bus_err' = Errors(answer)
          /\ ofs_int' = Inc(ofs_int) /\ ofs_ext' = IncExt(ofs_ext)
          /\ state' = IF geo.bursts THEN "S_WRITE_WAIT"
                      ELSE IF LastWord(ofs_int) THEN "S_WRITE_DONE" ELSE "S_WRITE_START"
     ELSE UNCHANGED <<state, bus_err, ofs_int, ofs_ext>>
  /\ Pending(syn) /\ NoForce
  /\ UNCHANGED <<sync, pnd_bp, tag, idx, refused>>
  /\ Around(Access(Inner), NoAnswer, NoRequest, answer)

WriteWait(syn, answer) ==
  /\ state = "S_WRITE_WAIT" /\ state' = "S_WRITE_BURST"
  /\ ofs_ext' = IncExt(ofs_ext)
  /\ Pending(syn) /\ NoForce
  /\ UNCHANGED <<sync, bus_err, pnd_bp, tag, idx, ofs_int, refused>>
  /\ Around(Access(Outer(ofs_ext)), NoAnswer, NoRequest, answer)

WriteBurst(syn, answer) ==
  /\ state = "S_WRITE_BURST"
  /\ ofs_ext' = IF More(ofs_buf) THEN IncExt(ofs_ext) ELSE ofs_ext
  /\ IF answer.ack
     THEN /\ bus_err' = Errors(answer) /\ ofs_int' = Inc(ofs_int)
          /\ state' = IF LastWord(ofs_int) THEN "S_WRITE_DONE" ELSE state
     ELSE UNCHANGED <<state, bus_err, ofs_int>>
  /\ Pending(syn) /\ NoForce
  /\ UNCHANGED <<sync, pnd_bp, tag, idx, refused>>
  /\ Around(Access(Outer(ofs_ext)), NoAnswer,
            IF More(ofs_buf) THEN Upload(Outer(ofs_buf)) ELSE NoRequest, answer)

WriteDone(syn, answer) ==
  /\ state = "S_WRITE_DONE"
  /\ cln' = TRUE /\ bp_req' = FALSE /\ hit' = FALSE
  /\ state' = IF sync THEN "S_SYNC_NEXT" ELSE IF bus_err THEN "S_IDLE" ELSE "S_CHECK"
  /\ Pending(syn)
  /\ UNCHANGED <<sync, bus_err, pnd_bp, tag, idx, ofs_int, ofs_ext, refused>>
  /\ Around(IF sync THEN Access(Inner) ELSE [Access(Inner) EXCEPT !.set = TRUE, !.vld = ~bus_err],
            IF ~sync /\ bus_err THEN Fault ELSE NoAnswer, NoRequest, answer)

-------------------------------------------------------------------------------

Engine(syn, answer) ==
  \/ Idle(syn, answer) \/ Check(syn, answer) \/ Bypass(syn, answer)
  \/ SyncStart(syn, answer) \/ SyncDelay(syn, answer) \/ SyncCheck(syn, answer) \/ SyncNext(syn, answer)
  \/ ReadStart(syn, answer) \/ ReadWait(syn, answer) \/ ReadBurst(syn, answer) \/ ReadDone(syn, answer)
  \/ WriteStart(syn, answer) \/ WriteReq(syn, answer) \/ WriteRsp(syn, answer)
  \/ WriteWait(syn, answer) \/ WriteBurst(syn, answer) \/ WriteDone(syn, answer)

Init ==
  /\ geo \in Geometries
  /\ state = "S_IDLE" /\ sync = FALSE /\ bus_err = FALSE /\ hit = FALSE /\ cln = FALSE
  /\ pnd_req = FALSE /\ pnd_syn = FALSE /\ pnd_bp = FALSE /\ bp_req = FALSE
  /\ tag = Uncached /\ idx = 0 /\ ofs_int = 0 /\ ofs_ext = 0 /\ ofs_buf = 0
  /\ valid = [i \in Blocks |-> FALSE]
  /\ \E d \in BOOLEAN : dirty = [i \in Blocks |-> d]
  /\ \E t \in Tags : tags = [i \in Blocks |-> t]
  /\ data = [i \in Blocks |-> [o \in Words |-> 0]]
  /\ rd = [valid |-> FALSE, dirty |-> FALSE, tag |-> tags[0], data |-> 0]
  /\ host = NoAccess
  /\ mem = [a \in Addresses |-> 0] /\ owed = <<>>
  /\ truth = mem /\ refused = {}

Next == \E syn \in BOOLEAN, answer \in Answers : Engine(syn, answer)

Spec == Init /\ [][Next]_vars

\* The clock ticks for a host that waits, and the bus does not keep a request forever.
Waiting  == host.on /\ \E answer \in Answers : Engine(FALSE, answer)
Answered == \E answer \in Answers : answer.ack /\ Engine(FALSE, answer)
FairSpec == Spec /\ WF_vars(Waiting) /\ WF_vars(Answered)

-------------------------------------------------------------------------------

\* What the host gets for a load or an atomic access that is acknowledged without an error is
\* the last word it wrote there, whether it comes from the cache, from a block fetched for it,
\* or past the cache, after any write-backs, synchronisations and bus errors.  Only a reported
\* error of a write-back makes a written word disappear (S_CHECK, S_BYPASS, S_WRITE_DONE).
ReadsTheTruth ==
  /\ state = "S_CHECK" /\ Checked.rsp.ack /\ ~host.rw => rd.data = truth[host.addr]
  /\ state = "S_BYPASS" /\ ~host.rw =>
       \A answer \in Answers : answer.ack /\ ~answer.err => answer.data = truth[host.addr]

\* A synchronisation that is over has written back everything that is not in the cache any
\* more, and keeps, valid and dirty, exactly the blocks whose write-back was refused
\* (S_SYNC_NEXT; docs/datasheet/soc_dcache.adoc:106).
SyncLeavesNothing ==
  state = "S_IDLE" /\ sync =>
    /\ \A i \in Blocks : valid[i] = (i \in refused) /\ (valid[i] => dirty[i])
    /\ \A a \in Addresses : mem[a] # truth[a] => a.idx \in refused /\ tags[a.idx] = a.tag

\* Every access ends, unless synchronisations keep coming for ever (S_IDLE, where a
\* synchronisation goes first, and the request that waits for it in pnd_req).
HostIsServed == <>[]~pnd_syn => (host.on ~> ~host.on)
================================================================================

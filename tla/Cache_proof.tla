------------------------------ MODULE Cache_proof -------------------------------
(***************************************************************************)
(* Theorems about the cache, for every geometry that passes its assertions, *)
(* every set of tags and accesses, every delay and error of the bus and     *)
(* fences at any moment: hosts read the truth, and a synchronisation leaves *)
(* nothing behind.                                                          *)
(*                                                                         *)
(* The heart of the invariant is DataInv: a valid block holds the truth,    *)
(* and a word of the memory that is not the truth is in a valid and dirty   *)
(* block.  The rest says what has to be known in each state of the engine   *)
(* to keep it: which words of the block in transfer have arrived (LoadInv,  *)
(* StoreInv), which requests the bus still has (Transfer), what the outputs *)
(* of the RAMs stand for (CheckInv) and how far a synchronisation has come  *)
(* (SyncInv).                                                              *)
(***************************************************************************)
EXTENDS Cache, TLAPS, SequenceTheorems

AllTags == Tags \union {Uncached}
Hosts == [on : BOOLEAN, stb : BOOLEAN, rw : BOOLEAN, amo : BOOLEAN, addr : Addresses, data : Int]
BusRequests == [stb : BOOLEAN, rw : BOOLEAN, amo : BOOLEAN, addr : Addresses, data : Int]
Loads  == {"S_READ_START", "S_READ_WAIT", "S_READ_BURST", "S_READ_DONE"}
Stores == {"S_WRITE_START", "S_WRITE_REQ", "S_WRITE_RSP",
           "S_WRITE_WAIT", "S_WRITE_BURST", "S_WRITE_DONE"}
Syncs  == {"S_SYNC_DELAY", "S_SYNC_CHECK", "S_SYNC_NEXT"}
States == {"S_IDLE", "S_CHECK", "S_BYPASS", "S_SYNC_START"} \union Syncs \union Loads \union Stores

RamsOK ==
  /\ valid \in [Blocks -> BOOLEAN] /\ dirty \in [Blocks -> BOOLEAN]
  /\ tags \in [Blocks -> AllTags] /\ data \in [Blocks -> [Words -> Int]]
  /\ rd \in [valid : BOOLEAN, dirty : BOOLEAN, tag : AllTags, data : Int]

EngineOK ==
  /\ geo \in Geometries
  /\ state \in States
  /\ sync \in BOOLEAN /\ bus_err \in BOOLEAN /\ pnd_req \in BOOLEAN /\ pnd_syn \in BOOLEAN
  /\ pnd_bp \in BOOLEAN /\ bp_req \in BOOLEAN /\ hit \in BOOLEAN /\ cln \in BOOLEAN
  /\ tag \in AllTags /\ idx \in Blocks /\ ofs_int \in Words
  /\ ofs_ext \in 0 .. 2 * geo.words - 1 /\ ofs_buf \in 0 .. 2 * geo.words - 1
  /\ refused \in SUBSET Blocks

OutsideOK ==
  /\ host \in Hosts
  /\ mem \in [Addresses -> Int] /\ truth \in [Addresses -> Int]
  /\ owed \in Seq(BusRequests)

TypeOK == EngineOK /\ RamsOK /\ OutsideOK

-------------------------------------------------------------------------------
\* The host waits for its answer and has nothing new to ask.
HostInv ==
  /\ host.stb => host.on
  /\ geo.read_only /\ host.on => ~host.rw /\ ~host.amo
  /\ pnd_req => host.on
  /\ state \in {"S_CHECK", "S_BYPASS"} \union Loads \/ (state \in Stores /\ ~sync) =>
       /\ host.on /\ ~host.stb /\ ~sync
       /\ (pnd_bp <=> IsBypass)
       /\ state # "S_CHECK" => ~pnd_req /\ idx = host.addr.idx
  /\ state \in Loads => tag = host.addr.tag /\ ~pnd_bp

\* What the cache holds, and what the memory holds.
Holds(i) ==
  /\ tags[i] # Uncached
  /\ \A o \in Words : data[i][o] = truth[Address(tags[i], i, o)]
InPlace(a) == mem[a] = truth[a]

DataInv ==
  /\ \A i \in Blocks : valid[i] /\ (state \in Loads => i # idx) => Holds(i)
  /\ \A a \in Addresses :
       InPlace(a) \/ (valid[a.idx] /\ dirty[a.idx] /\ tags[a.idx] = a.tag /\ ~geo.read_only)

RamsAt(a) ==
  rd = [valid |-> valid[a.idx], dirty |-> dirty[a.idx],
        tag |-> tags[a.idx], data |-> data[a.idx][a.ofs]]
CheckInv ==
  state = "S_CHECK" =>
    \/ ~hit /\ ~cln /\ RamsAt(host.addr)
    \/ /\ hit /\ ~pnd_bp
       /\ valid[host.addr.idx] /\ tags[host.addr.idx] = host.addr.tag
       /\ rd.data = data[host.addr.idx][host.addr.ofs]
    \/ /\ ~hit /\ cln
       /\ valid[host.addr.idx] /\ ~dirty[host.addr.idx]
       /\ rd.valid /\ rd.tag = tags[host.addr.idx]
       /\ pnd_bp \/ tags[host.addr.idx] # host.addr.tag

Passed == [stb |-> TRUE, rw |-> host.rw, amo |-> host.amo, addr |-> host.addr, data |-> host.data]
BypassInv ==
  state = "S_BYPASS" =>
    /\ ~(valid[host.addr.idx] /\ tags[host.addr.idx] = host.addr.tag)
    /\ owed = IF bp_req THEN <<>> ELSE <<Passed>>

\* The requests of a block transfer: fetches, or uploads, of consecutive words.
Kinds == {"fetch", "upload"}
RequestOf(r, o, kind) ==
  /\ r.stb /\ (r.rw <=> kind = "upload") /\ ~r.amo
  /\ r.addr = Address(tag, idx, o)
  /\ kind = "upload" => r.data = data[idx][o]
Transfer(q, from, kind) == \A k \in 1 .. Len(q) : RequestOf(q[k], from + k - 1, kind)
Loaded(n) == ~bus_err => \A o \in Words : o < n => data[idx][o] = mem[Address(tag, idx, o)]
Stored(n) == ~bus_err => \A o \in Words : o < n => InPlace(Address(tag, idx, o))

LoadInv ==
  /\ state \in Loads =>
       \A a \in Addresses : a.idx = idx => InPlace(a)
  /\ state \in {"S_READ_START", "S_READ_WAIT"} => ofs_int = ofs_ext /\ (geo.bursts => ofs_int = 0)
  /\ state \in Loads \ {"S_READ_DONE"} => Loaded(ofs_int)
  /\ state = "S_READ_WAIT" => Len(owed) = 1 /\ Transfer(owed, ofs_int, "fetch")
  /\ state = "S_READ_BURST" =>
       /\ 1 <= ofs_int /\ ofs_int <= ofs_ext /\ ofs_ext <= geo.words
       /\ Len(owed) = ofs_ext - ofs_int
       /\ Transfer(owed, ofs_int, "fetch")
  /\ state = "S_READ_DONE" => Loaded(geo.words)

Least(m, n) == IF m < n THEN m ELSE n
StoreInv ==
  /\ state \in Stores =>
       /\ valid[idx] /\ dirty[idx] /\ ~geo.read_only
       /\ tags[idx] = IF state = "S_WRITE_START" /\ ofs_int = 0 THEN rd.tag ELSE tag
       /\ ~sync => pnd_bp \/ tags[idx] # host.addr.tag
  /\ state \in {"S_WRITE_START", "S_WRITE_REQ", "S_WRITE_RSP"} =>
       ofs_int = ofs_ext /\ (geo.bursts => ofs_int = 0)
  /\ state = "S_WRITE_START" /\ ofs_int # 0 => Stored(ofs_int)
  /\ state \in Stores \ {"S_WRITE_START", "S_WRITE_DONE"} => Stored(ofs_int)
  /\ state = "S_WRITE_REQ" => rd.data = data[idx][ofs_int]
  /\ state = "S_WRITE_RSP" => Len(owed) = 1 /\ Transfer(owed, ofs_int, "upload")
  /\ state = "S_WRITE_WAIT" => ofs_int = 1 /\ ofs_ext = 1
  /\ state = "S_WRITE_BURST" =>
       /\ 1 <= ofs_int /\ ofs_int <= ofs_buf
       /\ \/ ofs_buf <= geo.words /\ ofs_ext = ofs_buf + 1
          \/ ofs_buf = geo.words + 1 /\ ofs_ext = ofs_buf
       /\ ofs_buf < geo.words => rd.data = data[idx][ofs_buf]
       /\ Len(owed) = Least(ofs_buf, geo.words) - ofs_int
       /\ Transfer(owed, ofs_int, "upload")
  /\ state = "S_WRITE_DONE" => Stored(geo.words)

QuietInv ==
  /\ state \notin {"S_BYPASS", "S_READ_WAIT", "S_READ_BURST", "S_WRITE_RSP", "S_WRITE_BURST"} =>
       owed = <<>>
  /\ state \in {"S_READ_BURST", "S_WRITE_WAIT", "S_WRITE_BURST"} => geo.bursts

Clean(n) ==
  /\ \A j \in Blocks : j < n => (valid[j] <=> j \in refused) /\ (valid[j] => dirty[j])
  /\ \A j \in refused : j < n

SyncInv ==
  /\ state \in Syncs => sync
  /\ state = "S_SYNC_START" => ~sync
  /\ sync /\ state # "S_IDLE" => Clean(idx)
  /\ sync /\ state = "S_IDLE" => Clean(geo.blocks)
  /\ (state \in Syncs /\ state # "S_SYNC_NEXT") => ~cln /\ ~hit
  /\ state = "S_SYNC_CHECK" => 
       rd.valid = valid[idx] /\ rd.dirty = dirty[idx] /\ rd.tag = tags[idx]
  /\ state = "S_SYNC_NEXT" =>
       IF bus_err THEN valid[idx] /\ dirty[idx] /\ tags[idx] = tag
       ELSE \A a \in Addresses : a.idx = idx => InPlace(a)

CacheInv ==
  /\ TypeOK /\ HostInv /\ DataInv /\ CheckInv /\ BypassInv
  /\ LoadInv /\ StoreInv /\ QuietInv /\ SyncInv

-------------------------------------------------------------------------------
(* Geometries and addresses.                                                 *)

\* The generics that the assertions of the cache let pass.
LEMMA GeometryOK ==
  ASSUME geo \in Geometries
  PROVE  /\ geo.blocks \in Nat /\ geo.blocks > 0
         /\ geo.words \in Nat /\ geo.words > 0
         /\ geo.bursts => geo.words > 1
         /\ geo.bursts \in BOOLEAN /\ geo.read_only \in BOOLEAN
<1>1. /\ geo \in [blocks : Nat \ {0}, words : Nat \ {0}, bursts : BOOLEAN, read_only : BOOLEAN]
      /\ geo.bursts => geo.words > 1
  BY CacheAssumption DEF CacheAssumption
<1> QED
  BY <1>1

\* An address is its three fields.
LEMMA AddressFields ==
  ASSUME NEW a \in Addresses
  PROVE  /\ a.tag \in AllTags /\ a.idx \in Blocks /\ a.ofs \in Words
         /\ a = Address(a.tag, a.idx, a.ofs)
BY DEF Addresses, AllTags, Address

\* Three fields make an address.
LEMMA AddressIn ==
  ASSUME NEW t \in AllTags, NEW i \in Blocks, NEW o \in Words
  PROVE  /\ Address(t, i, o) \in Addresses
         /\ Address(t, i, o).tag = t /\ Address(t, i, o).idx = i /\ Address(t, i, o).ofs = o
BY DEF Addresses, AllTags, Address

\* Counting modulo n: the successor of the last is 0.
LEMMA Modulo ==
  ASSUME NEW n \in Nat, n > 0, NEW k \in 0 .. n - 1
  PROVE  /\ k % n = k
         /\ (k + 1) % n = IF k + 1 = n THEN 0 ELSE k + 1
         /\ (k + 1) % n \in 0 .. n - 1
<1>1. k % n = k
  OBVIOUS
<1>2. CASE k + 1 = n
  <2>1. n % n = 0
    OBVIOUS
  <2> QED
    BY <1>1, <1>2, <2>1
<1>3. CASE k + 1 # n
  <2>1. k + 1 \in 0 .. n - 1
    BY <1>3
  <2>2. (k + 1) % n = k + 1
    BY <2>1
  <2> QED
    BY <1>1, <1>3, <2>1, <2>2
<1> QED
  BY <1>2, <1>3

-------------------------------------------------------------------------------
(* What one clock edge does to the RAMs, the host and the bus.                *)

RamsKept == UNCHANGED <<valid, dirty, tags, data>>
RamRead(a) ==
  rd' = [valid |-> valid[a.idx], dirty |-> dirty[a.idx],
         tag |-> tags[a.idx], data |-> data[a.idx][a.ofs]]

\* The status and the tag of a block are set.
RamSet(a, v, d) ==
  /\ valid' = [valid EXCEPT ![a.idx] = v]
  /\ dirty' = IF geo.read_only THEN dirty ELSE [dirty EXCEPT ![a.idx] = d]
  /\ tags' = [tags EXCEPT ![a.idx] = a.tag]
  /\ data' = data

\* The RAMs put out a status, a tag and a word.
LEMMA ReadTypes ==
  ASSUME RamsOK, NEW a \in Addresses, RamRead(a)
  PROVE  rd' \in [valid : BOOLEAN, dirty : BOOLEAN, tag : AllTags, data : Int]
<1>1. a.idx \in Blocks /\ a.ofs \in Words
  BY AddressFields
<1>2. /\ valid[a.idx] \in BOOLEAN /\ dirty[a.idx] \in BOOLEAN
      /\ tags[a.idx] \in AllTags /\ data[a.idx][a.ofs] \in Int
  BY <1>1 DEF RamsOK
<1> QED
  BY <1>2 DEF RamRead

\* The addresses that the engine puts on the RAMs.
LEMMA Addressed ==
  ASSUME TypeOK
  PROVE  /\ HostAddr \in Addresses /\ Inner \in Addresses
         /\ \A o \in Nat : Outer(o) \in Addresses
         /\ Inner.tag = tag /\ Inner.idx = idx /\ Inner.ofs = ofs_int
         /\ \A o \in Nat : Outer(o).tag = tag /\ Outer(o).idx = idx /\ Outer(o).ofs = o % geo.words
<1>1. HostAddr \in Addresses
  BY DEF TypeOK, OutsideOK, Hosts, HostAddr
<1>2. tag \in AllTags /\ idx \in Blocks /\ ofs_int \in Words
  BY DEF TypeOK, EngineOK
<1>3. \A o \in Nat : o % geo.words \in Words
  BY GeometryOK DEF TypeOK, EngineOK, Words
<1> QED
  BY <1>1, <1>2, <1>3, AddressIn DEF Inner, Outer

\* The RAMs are read at the address of the host ...
LEMMA HostRead ==
  ASSUME TypeOK, Rams(Access(HostAddr)), geo' = geo
  PROVE  RamsKept /\ RamRead(HostAddr) /\ RamsOK'
<1>1. RamsKept /\ RamRead(HostAddr)
  BY DEF Rams, Access, RamsKept, RamRead
<1>2. PICK a \in Addresses : a = HostAddr
  BY Addressed
<1>3. RamRead(a)
  BY <1>1, <1>2 DEF RamRead
<1> QED
  BY <1>1, <1>3, ReadTypes DEF RamsKept, TypeOK, RamsOK, Blocks, Words

\* ... at that of the word in transfer ...
LEMMA InnerRead ==
  ASSUME TypeOK, Rams(Access(Inner)), geo' = geo
  PROVE  RamsKept /\ RamRead(Inner) /\ RamsOK'
<1>1. RamsKept /\ RamRead(Inner)
  BY DEF Rams, Access, RamsKept, RamRead
<1>2. PICK a \in Addresses : a = Inner
  BY Addressed
<1>3. RamRead(a)
  BY <1>1, <1>2 DEF RamRead
<1> QED
  BY <1>1, <1>3, ReadTypes DEF RamsKept, TypeOK, RamsOK, Blocks, Words

\* ... or at that of the word to be uploaded next.
LEMMA OuterRead ==
  ASSUME TypeOK, Rams(Access(Outer(ofs_ext))), geo' = geo
  PROVE  RamsKept /\ RamRead(Outer(ofs_ext)) /\ RamsOK'
<1>1. RamsKept /\ RamRead(Outer(ofs_ext))
  BY DEF Rams, Access, RamsKept, RamRead
<1>2. PICK a \in Addresses : a = Outer(ofs_ext)
  BY Addressed DEF TypeOK, EngineOK
<1>3. RamRead(a)
  BY <1>1, <1>2 DEF RamRead
<1> QED
  BY <1>1, <1>3, ReadTypes DEF RamsKept, TypeOK, RamsOK, Blocks, Words

\* A host that waits goes on waiting until it is answered.
HostWaits ==
  /\ host' \in Hosts
  /\ host'.stb => host'.on
  /\ geo.read_only /\ host'.on => ~host'.rw /\ ~host'.amo
  /\ host.on => /\ host'.on /\ ~host'.stb /\ host'.rw = host.rw /\ host'.amo = host.amo
                /\ host'.addr = host.addr /\ host'.data = host.data
HostServed == host' \in Hosts /\ ~host'.on /\ ~host'.stb

\* A host that asks nothing is a host.
LEMMA NoAccessIsHost ==
  ASSUME geo \in Geometries
  PROVE  NoAccess \in Hosts /\ ~NoAccess.on /\ ~NoAccess.stb
<1>1. 0 \in Blocks /\ 0 \in Words /\ Uncached \in AllTags
  BY GeometryOK DEF Blocks, Words, AllTags
<1>2. Address(Uncached, 0, 0) \in Addresses
  BY <1>1, AddressIn
<1> DEFINE r == Request("load", Address(Uncached, 0, 0), 0)
<1>3. r \in Hosts
  <2>1. \A rw, amo \in BOOLEAN :
          [on |-> TRUE, stb |-> TRUE, rw |-> rw, amo |-> amo,
           addr |-> Address(Uncached, 0, 0), data |-> 0] \in Hosts
    BY <1>2 DEF Hosts
  <2>2. PICK rw \in BOOLEAN : rw <=> ("load" = "store")
    OBVIOUS
  <2>3. PICK amo \in BOOLEAN : amo <=> ("load" = "swap")
    OBVIOUS
  <2>4. r = [on |-> TRUE, stb |-> TRUE, rw |-> rw, amo |-> amo,
             addr |-> Address(Uncached, 0, 0), data |-> 0]
    BY <2>2, <2>3, Zenon DEF Request
  <2> QED
    BY <2>1, <2>4
<1>4. NoAccess = [r EXCEPT !.on = FALSE, !.stb = FALSE]
  BY DEF NoAccess
<1> HIDE DEF r
<1> QED
  BY <1>3, <1>4 DEF Hosts

\* A host goes on waiting, or is served.
LEMMA HostStep ==
  ASSUME TypeOK, HostInv, NEW rsp, Host(rsp), rsp.ack \in BOOLEAN
  PROVE  /\ ~rsp.ack => HostWaits
         /\ rsp.ack /\ host.on => HostServed
<1>1. host \in Hosts /\ geo \in Geometries
  BY DEF TypeOK, OutsideOK, EngineOK
<1>2. CASE ~host.on /\ host' = host
  BY <1>1, <1>2 DEF HostWaits, HostInv
<1>3. CASE ~host.on /\ \E r \in Issued(geo) :
             r.addr \in Addresses /\ (geo.read_only => ~r.rw /\ ~r.amo) /\ host' = r
  <2>1. PICK r \in Issued(geo) :
          r.addr \in Addresses /\ (geo.read_only => ~r.rw /\ ~r.amo) /\ host' = r
    BY <1>3
  <2>2. r \in [on : {TRUE}, stb : {TRUE}, rw : BOOLEAN, amo : BOOLEAN, data : Int,
               addr : [tag : Tags \union {Uncached}, idx : Nat, ofs : Nat]]
    BY <1>1, CacheAssumption DEF CacheAssumption
  <2>3. r \in Hosts /\ r.on
    BY <2>1, <2>2 DEF Hosts
  <2> QED
    BY <1>3, <2>1, <2>3 DEF HostWaits
<1>4. CASE host.on /\ rsp.ack /\ host' = NoAccess
  BY <1>1, <1>4, NoAccessIsHost DEF HostServed
<1>5. CASE host.on /\ ~rsp.ack /\ host' = [host EXCEPT !.stb = FALSE]
  BY <1>1, <1>5 DEF HostWaits, Hosts, HostInv
<1> QED
  BY <1>2, <1>3, <1>4, <1>5, <1>1 DEF Host, HostServed, Hosts

\* Nothing is asked and nothing answered.
LEMMA BusRests ==
  ASSUME owed = <<>>, NEW answer \in Answers, Bus(NoRequest, answer)
  PROVE  answer = NoAnswer /\ owed' = <<>> /\ mem' = mem
BY DEF Answers, Bus, NoRequest, NoAnswer

\* The first request.
LEMMA BusAsked ==
  ASSUME owed = <<>>, NEW answer \in Answers, NEW req, Bus(req, answer), req.stb
  PROVE  answer = NoAnswer /\ owed' = <<req>> /\ mem' = mem
BY DEF Answers, Bus, NoAnswer

\* Answers of the bus.
LEMMA AnswerTypes ==
  ASSUME TypeOK, NEW answer \in Answers
  PROVE  /\ answer.ack \in BOOLEAN /\ answer.err \in BOOLEAN /\ answer.data \in Int
         /\ answer.err => answer.ack
<1>1. CASE answer = NoAnswer
  BY <1>1 DEF NoAnswer
<1>2. CASE owed # <<>> /\ answer = [ack |-> TRUE, err |-> FALSE, data |-> mem[Head(owed).addr]]
  <2>1. Head(owed) \in BusRequests
    BY <1>2 DEF TypeOK, OutsideOK
  <2>2. mem[Head(owed).addr] \in Int
    BY <2>1 DEF TypeOK, OutsideOK, BusRequests
  <2> QED
    BY <1>2, <2>2
<1>3. CASE answer = [ack |-> TRUE, err |-> TRUE, data |-> Garbage]
  BY <1>3 DEF Garbage
<1> QED
  BY <1>1, <1>2, <1>3 DEF Answers

\* An answer is that to the oldest request.
LEMMA BusAnswers ==
  ASSUME TypeOK, NEW answer \in Answers, NEW req, Bus(req, answer), answer.ack
  PROVE  /\ Len(owed) > 0
         /\ owed' = Tail(owed) \o (IF req.stb THEN <<req>> ELSE <<>>)
         /\ ~answer.err => answer.data = mem[owed[1].addr]
         /\ mem' = IF ~answer.err /\ (owed[1].rw \/ owed[1].amo)
                   THEN [mem EXCEPT ![owed[1].addr] = owed[1].data] ELSE mem
<1>1. owed # <<>>
  BY DEF Answers, NoAnswer
<1>2. owed \in Seq(BusRequests)
  BY DEF TypeOK, OutsideOK
<1>3. Len(owed) > 0 /\ Head(owed) = owed[1]
  BY <1>1, <1>2
<1>4. ~answer.err => answer.data = mem[Head(owed).addr]
  BY <1>1 DEF Answers, NoAnswer
<1>5. owed' = Tail(owed) \o (IF req.stb THEN <<req>> ELSE <<>>)
  BY DEF Bus
<1>6. mem' = IF ~answer.err /\ (Head(owed).rw \/ Head(owed).amo)
             THEN [mem EXCEPT ![Head(owed).addr] = Head(owed).data] ELSE mem
  BY DEF Bus
<1> QED
  BY <1>3, <1>4, <1>5, <1>6

\* Without an answer the requests stay, and so does the memory.
LEMMA BusWaits ==
  ASSUME TypeOK, NEW answer \in Answers, NEW req, Bus(req, answer), ~answer.ack
  PROVE  /\ owed' = owed \o (IF req.stb THEN <<req>> ELSE <<>>)
         /\ mem' = mem
         /\ ~answer.err
BY DEF Answers, Bus, NoAnswer

\* What is made of the geometry does not change.
LEMMA Rigid ==
  ASSUME geo' = geo
  PROVE  /\ Blocks' = Blocks /\ Words' = Words /\ Addresses' = Addresses
         /\ Hosts' = Hosts /\ BusRequests' = BusRequests
BY DEF Blocks, Words, Addresses, Hosts, BusRequests

\* A clock without a request, a response or an answer.
LEMMA QuietStep ==
  ASSUME TypeOK, HostInv, owed = <<>>, NEW answer \in Answers, geo' = geo,
         Bus(NoRequest, answer), Truth(NoAnswer), Host(NoAnswer)
  PROVE  /\ owed' = <<>> /\ mem' = mem /\ truth' = truth /\ HostWaits /\ OutsideOK'
         /\ answer = NoAnswer
<1>1. owed' = <<>> /\ mem' = mem /\ answer = NoAnswer
  BY BusRests
<1>2. truth' = truth
  BY DEF Truth, NoAnswer
<1>3. HostWaits
  <2>1. NoAnswer.ack = FALSE
    BY DEF NoAnswer
  <2>2. NoAnswer.ack \in BOOLEAN /\ ~NoAnswer.ack
    BY <2>1
  <2> QED
    BY <2>2, HostStep DEF HostInv
<1>4. OutsideOK'
  BY <1>1, <1>2, <1>3, Rigid DEF OutsideOK, TypeOK, HostWaits
<1> QED
  BY <1>1, <1>2, <1>3, <1>4

\* What the RAMs and the memory hold stays as it is.
LEMMA DataKept ==
  ASSUME DataInv, RamsKept, geo' = geo, mem' = mem, truth' = truth,
         state \in Loads => state' \in Loads /\ idx' = idx
  PROVE  DataInv'
<1>1. \A i : Holds(i) => Holds(i)'
  BY Rigid DEF Holds, RamsKept
<1>2. \A a : InPlace(a)' <=> InPlace(a)
  BY DEF InPlace
<1>3. \A i \in Blocks : valid'[i] /\ (state' \in Loads => i # idx') => Holds(i)'
  BY <1>1 DEF DataInv, RamsKept
<1>4. \A a \in Addresses : InPlace(a)' \/
        (valid'[a.idx] /\ dirty'[a.idx] /\ tags'[a.idx] = a.tag /\ ~geo'.read_only)
  BY <1>2 DEF DataInv, RamsKept
<1> QED
  BY <1>3, <1>4, Rigid DEF DataInv

-------------------------------------------------------------------------------
(* The engine, one lemma per state.                                          *)

\* S_IDLE: an access is taken up, or a synchronisation.
LEMMA IdleStep ==
  ASSUME CacheInv, NEW syn \in BOOLEAN, NEW answer \in Answers, Idle(syn, answer)
  PROVE  CacheInv'
<1> USE DEF CacheInv
<1>1. owed = <<>>
  BY DEF Idle, QuietInv
<1>2. /\ Rams(Access(HostAddr)) /\ Bus(NoRequest, answer) /\ Truth(NoAnswer) /\ Host(NoAnswer)
      /\ ofs_buf' = ofs_ext /\ geo' = geo
  BY DEF Idle, Around
<1>3. RamsKept /\ RamRead(HostAddr) /\ RamsOK'
  BY <1>2, HostRead
<1>4. owed' = <<>> /\ mem' = mem /\ truth' = truth /\ HostWaits /\ OutsideOK'
  BY <1>1, <1>2, QuietStep
<1>5. /\ state' \in {"S_IDLE", "S_CHECK", "S_SYNC_START"}
      /\ state' = "S_CHECK" => host.stb \/ pnd_req
      /\ state' = "S_CHECK" => (pnd_bp' <=> IsBypass)
      /\ pnd_bp' \in BOOLEAN /\ pnd_req' \in BOOLEAN /\ pnd_syn' \in BOOLEAN
      /\ ~sync' /\ ~bus_err' /\ ~hit' /\ ~cln' /\ ~bp_req'
      /\ sync' \in BOOLEAN /\ bus_err' \in BOOLEAN
      /\ hit' \in BOOLEAN /\ cln' \in BOOLEAN /\ bp_req' \in BOOLEAN
      /\ pnd_req' => pnd_req \/ host.stb
      /\ UNCHANGED <<tag, idx, ofs_int, ofs_ext, refused>>
  BY DEF Idle, GoesFirst, Pending, NoForce, TypeOK, EngineOK
<1>6. TypeOK'
  <2>1. EngineOK'
    BY <1>2, <1>5, Rigid DEF TypeOK, EngineOK, States
  <2> QED
    BY <2>1, <1>3, <1>4 DEF TypeOK
<1>7. HostInv'
  BY <1>2, <1>4, <1>5 DEF HostInv, HostWaits, IsBypass, Loads, Stores
<1>8. DataInv'
  BY <1>2, <1>3, <1>4, DataKept DEF Idle, Loads
<1>9. CheckInv'
  BY <1>3, <1>4, <1>5 DEF CheckInv, RamsAt, RamRead, RamsKept, HostWaits, HostInv, HostAddr
<1>10. BypassInv' /\ LoadInv' /\ StoreInv'
  BY <1>5 DEF BypassInv, LoadInv, StoreInv, Loads, Stores
<1>11. QuietInv'
  BY <1>4, <1>5 DEF QuietInv
<1>12. SyncInv'
  BY <1>5 DEF SyncInv, Syncs
<1> QED
  BY <1>6, <1>7, <1>8, <1>9, <1>10, <1>11, <1>12

\* S_SYNC_START: nothing is synchronised yet.
LEMMA SyncStartStep ==
  ASSUME CacheInv, NEW syn \in BOOLEAN, NEW answer \in Answers, SyncStart(syn, answer)
  PROVE  CacheInv'
<1> USE DEF CacheInv
<1>1. owed = <<>>
  BY DEF SyncStart, QuietInv
<1>2. /\ Rams(Access(HostAddr)) /\ Bus(NoRequest, answer) /\ Truth(NoAnswer) /\ Host(NoAnswer)
      /\ ofs_buf' = ofs_ext /\ geo' = geo
  BY DEF SyncStart, Around
<1>3. RamsKept /\ RamRead(HostAddr) /\ RamsOK'
  BY <1>2, HostRead
<1>4. owed' = <<>> /\ mem' = mem /\ truth' = truth /\ HostWaits /\ OutsideOK'
  BY <1>1, <1>2, QuietStep
<1>5. /\ state = "S_SYNC_START" /\ state' = "S_SYNC_DELAY"
      /\ pnd_req' \in BOOLEAN /\ pnd_syn' \in BOOLEAN
      /\ sync' /\ ~hit' /\ ~cln' /\ ~bp_req'
      /\ sync' \in BOOLEAN /\ hit' \in BOOLEAN /\ cln' \in BOOLEAN /\ bp_req' \in BOOLEAN
      /\ pnd_req' => pnd_req \/ host.stb
      /\ idx' = 0 /\ refused' = {}
      /\ UNCHANGED <<bus_err, pnd_bp, tag, ofs_int, ofs_ext>>
  BY DEF SyncStart, NoForce, TypeOK, EngineOK
<1>6. TypeOK'
  <2>1. EngineOK'
    BY <1>2, <1>5, Rigid, GeometryOK DEF TypeOK, EngineOK, States, Syncs, Blocks
  <2> QED
    BY <2>1, <1>3, <1>4 DEF TypeOK
<1>7. HostInv'
  BY <1>2, <1>4, <1>5 DEF HostInv, HostWaits, Loads, Stores
<1>8. DataInv'
  BY <1>2, <1>3, <1>4, <1>5, DataKept DEF Loads
<1>9. CheckInv' /\ BypassInv' /\ LoadInv' /\ StoreInv'
  BY <1>5 DEF CheckInv, BypassInv, LoadInv, StoreInv, Loads, Stores
<1>11. QuietInv'
  BY <1>4, <1>5 DEF QuietInv
<1>12. SyncInv'
  BY <1>2, <1>5 DEF SyncInv, Syncs, Clean, Blocks
<1> QED
  BY <1>6, <1>7, <1>8, <1>9, <1>11, <1>12

\* S_SYNC_DELAY: the status of the block is read.
LEMMA SyncDelayStep ==
  ASSUME CacheInv, NEW syn \in BOOLEAN, NEW answer \in Answers, SyncDelay(syn, answer)
  PROVE  CacheInv'
<1> USE DEF CacheInv
<1>1. owed = <<>>
  BY DEF SyncDelay, QuietInv
<1>2. /\ Rams(Access(Inner)) /\ Bus(NoRequest, answer) /\ Truth(NoAnswer) /\ Host(NoAnswer)
      /\ ofs_buf' = ofs_ext /\ geo' = geo
  BY DEF SyncDelay, Around
<1>3. RamsKept /\ RamRead(Inner) /\ RamsOK'
  BY <1>2, InnerRead
<1>4. owed' = <<>> /\ mem' = mem /\ truth' = truth /\ HostWaits /\ OutsideOK'
  BY <1>1, <1>2, QuietStep
<1>5. /\ state = "S_SYNC_DELAY" /\ state' = "S_SYNC_CHECK"
      /\ pnd_req' \in BOOLEAN /\ pnd_syn' \in BOOLEAN
      /\ ~hit' /\ ~cln' /\ ~bp_req'
      /\ hit' \in BOOLEAN /\ cln' \in BOOLEAN /\ bp_req' \in BOOLEAN
      /\ pnd_req' => pnd_req \/ host.stb
      /\ UNCHANGED <<sync, bus_err, pnd_bp, tag, idx, ofs_int, ofs_ext, refused>>
  BY DEF SyncDelay, Pending, NoForce, TypeOK, EngineOK
<1>6. TypeOK'
  <2>1. EngineOK'
    BY <1>2, <1>5, Rigid DEF TypeOK, EngineOK, States, Syncs
  <2> QED
    BY <2>1, <1>3, <1>4 DEF TypeOK
<1>7. HostInv'
  BY <1>2, <1>4, <1>5 DEF HostInv, HostWaits, Loads, Stores
<1>8. DataInv'
  BY <1>2, <1>3, <1>4, <1>5, DataKept DEF Loads
<1>9. CheckInv' /\ BypassInv' /\ LoadInv' /\ StoreInv'
  BY <1>5 DEF CheckInv, BypassInv, LoadInv, StoreInv, Loads, Stores
<1>11. QuietInv'
  BY <1>4, <1>5 DEF QuietInv
<1>12. SyncInv'
  <2>1. sync' /\ Clean(idx)'
    BY <1>2, <1>3, <1>5, Rigid DEF SyncInv, Syncs, Clean, RamsKept
  <2>2. rd'.valid = valid[idx] /\ rd'.dirty = dirty[idx] /\ rd'.tag = tags[idx]
    BY <1>3, Addressed DEF RamRead
  <2> QED
    BY <1>3, <1>5, <2>1, <2>2 DEF SyncInv, Syncs, RamsKept
<1> QED
  BY <1>6, <1>7, <1>8, <1>9, <1>11, <1>12

\* S_SYNC_CHECK: a block that is not dirty is in its place.
LEMMA SyncCheckStep ==
  ASSUME CacheInv, NEW syn \in BOOLEAN, NEW answer \in Answers, SyncCheck(syn, answer)
  PROVE  CacheInv'
<1> USE DEF CacheInv
<1>1. owed = <<>>
  BY DEF SyncCheck, QuietInv
<1>2. /\ Rams(Access(Inner)) /\ Bus(NoRequest, answer) /\ Truth(NoAnswer) /\ Host(NoAnswer)
      /\ ofs_buf' = ofs_ext /\ geo' = geo
  BY DEF SyncCheck, Around
<1>3. RamsKept /\ RamRead(Inner) /\ RamsOK'
  BY <1>2, InnerRead
<1>4. owed' = <<>> /\ mem' = mem /\ truth' = truth /\ HostWaits /\ OutsideOK'
  BY <1>1, <1>2, QuietStep
<1>5. /\ state = "S_SYNC_CHECK"
      /\ state' = IF cache_drt THEN "S_WRITE_START" ELSE "S_SYNC_NEXT"
      /\ pnd_req' \in BOOLEAN /\ pnd_syn' \in BOOLEAN
      /\ ~hit' /\ ~cln' /\ ~bp_req' /\ ~bus_err'
      /\ hit' \in BOOLEAN /\ cln' \in BOOLEAN /\ bp_req' \in BOOLEAN /\ bus_err' \in BOOLEAN
      /\ pnd_req' => pnd_req \/ host.stb
      /\ ofs_int' = 0 /\ ofs_ext' = 0
      /\ UNCHANGED <<sync, pnd_bp, tag, idx, refused>>
  BY DEF SyncCheck, Pending, NoForce, TypeOK, EngineOK
<1>6. TypeOK'
  <2>1. EngineOK'
    BY <1>2, <1>5, Rigid, GeometryOK DEF TypeOK, EngineOK, States, Syncs, Stores, Words
  <2> QED
    BY <2>1, <1>3, <1>4 DEF TypeOK
<1>7. sync
  BY <1>5 DEF SyncInv, Syncs
<1>8. HostInv'
  BY <1>2, <1>4, <1>5, <1>7 DEF HostInv, HostWaits, Loads, Stores
<1>9. DataInv'
  BY <1>2, <1>3, <1>4, <1>5, DataKept DEF Loads
<1>10. cache_drt <=> ~geo.read_only /\ dirty[idx] /\ valid[idx]
  BY <1>5 DEF SyncInv, Syncs, cache_drt
<1>11. CheckInv' /\ BypassInv' /\ LoadInv'
  BY <1>5 DEF CheckInv, BypassInv, LoadInv, Loads
<1>12. StoreInv'
  <2>1. tags'[idx'] = rd'.tag
    BY <1>3, <1>5, Addressed DEF RamRead, RamsKept
  <2>2. state' = "S_WRITE_START" => valid'[idx'] /\ dirty'[idx'] /\ ~geo'.read_only
    BY <1>2, <1>3, <1>5, <1>10 DEF RamsKept
  <2> QED
    BY <1>5, <1>7, <2>1, <2>2 DEF StoreInv, Stores
<1>13. QuietInv'
  BY <1>4, <1>5 DEF QuietInv
<1>14. SyncInv'
  <2>1. sync' /\ Clean(idx)'
    BY <1>2, <1>3, <1>5, <1>7, Rigid DEF SyncInv, Syncs, Clean, RamsKept
  <2>2. state' = "S_SYNC_NEXT" => \A a \in Addresses : a.idx = idx => InPlace(a)'
    BY <1>4, <1>5, <1>10 DEF DataInv, InPlace
  <2> QED
    BY <1>2, <1>5, <2>1, <2>2, Rigid DEF SyncInv, Syncs
<1> QED
  BY <1>6, <1>8, <1>9, <1>11, <1>12, <1>13, <1>14

\* S_SYNC_NEXT: the block is dropped, or kept because the memory refused it.
LEMMA SyncNextStep ==
  ASSUME CacheInv, NEW syn \in BOOLEAN, NEW answer \in Answers, SyncNext(syn, answer)
  PROVE  CacheInv'
<1> USE DEF CacheInv
<1>1. owed = <<>>
  BY DEF SyncNext, QuietInv
<1>2. /\ Rams(Synced) /\ Bus(NoRequest, answer) /\ Truth(NoAnswer) /\ Host(NoAnswer)
      /\ ofs_buf' = ofs_ext /\ geo' = geo
  BY DEF SyncNext, Around
<1>3. /\ tag \in AllTags /\ idx \in Blocks /\ ofs_int \in Words /\ bus_err \in BOOLEAN
      /\ geo.read_only \in BOOLEAN /\ RamsOK
      /\ Inner.tag = tag /\ Inner.idx = idx /\ Inner.ofs = ofs_int
  BY GeometryOK, Addressed DEF TypeOK, EngineOK
<1>4. /\ valid' = [valid EXCEPT ![idx] = bus_err]
      /\ dirty' = IF geo.read_only THEN dirty ELSE [dirty EXCEPT ![idx] = bus_err]
      /\ tags' = [tags EXCEPT ![idx] = tag]
      /\ data' = data
      /\ RamRead(Inner)
  BY <1>2, <1>3 DEF Rams, Synced, Access, RamRead
<1>5. owed' = <<>> /\ mem' = mem /\ truth' = truth /\ HostWaits /\ OutsideOK'
  BY <1>1, <1>2, QuietStep
<1>6. /\ state = "S_SYNC_NEXT"
      /\ state' = IF idx = geo.blocks - 1 THEN "S_IDLE" ELSE "S_SYNC_DELAY"
      /\ pnd_req' \in BOOLEAN /\ pnd_syn' \in BOOLEAN
      /\ ~hit' /\ ~cln' /\ ~bp_req'
      /\ hit' \in BOOLEAN /\ cln' \in BOOLEAN /\ bp_req' \in BOOLEAN
      /\ pnd_req' => pnd_req \/ host.stb
      /\ refused' = IF bus_err THEN refused \union {idx} ELSE refused
      /\ UNCHANGED <<sync, bus_err, pnd_bp, tag, ofs_int, ofs_ext>>
  BY DEF SyncNext, AllSynced, Pending, NoForce, TypeOK, EngineOK
<1>7. idx' = IF idx = geo.blocks - 1 THEN 0 ELSE idx + 1
  BY <1>3, Modulo, GeometryOK DEF SyncNext, Blocks, TypeOK, EngineOK
<1>8. sync /\ Clean(idx)
  BY <1>6 DEF SyncInv, Syncs
<1>9. TypeOK'
  <2>1. EngineOK'
    BY <1>2, <1>3, <1>6, <1>7, Rigid, GeometryOK DEF TypeOK, EngineOK, States, Syncs, Blocks
  <2>2. RamsOK'
    <3>1. rd' \in [valid : BOOLEAN, dirty : BOOLEAN, tag : AllTags, data : Int]
      <4>1. PICK a \in Addresses : a = Inner
        BY Addressed
      <4>2. RamRead(a)
        BY <1>4, <4>1 DEF RamRead
      <4> QED
        BY <1>3, <4>2, ReadTypes
    <3> QED
      BY <1>2, <1>3, <1>4, <3>1, Rigid DEF RamsOK
  <2> QED
    BY <2>1, <2>2, <1>5 DEF TypeOK
<1>10. HostInv'
  BY <1>2, <1>5, <1>6, <1>8 DEF HostInv, HostWaits, Loads, Stores
<1>11. bus_err => valid[idx] /\ dirty[idx] /\ tags[idx] = tag
  BY <1>6 DEF SyncInv
<1>12. DataInv'
  <2>1. \A i \in Blocks : valid'[i] => valid[i] /\ tags'[i] = tags[i]
    BY <1>3, <1>4, <1>11 DEF RamsOK
  <2>2. \A i \in Blocks : valid'[i] => Holds(i)'
    BY <1>2, <1>4, <1>5, <1>6, <2>1, Rigid DEF DataInv, Holds, Loads
  <2>3. ASSUME NEW a \in Addresses
        PROVE  InPlace(a)' \/
                 (valid'[a.idx] /\ dirty'[a.idx] /\ tags'[a.idx] = a.tag /\ ~geo'.read_only)
    <3>1. a.idx \in Blocks
      BY AddressFields
    <3>2. CASE a.idx # idx
      BY <1>2, <1>3, <1>4, <1>5, <3>1, <3>2 DEF DataInv, InPlace, RamsOK
    <3>3. CASE a.idx = idx /\ bus_err
      BY <1>2, <1>3, <1>4, <1>5, <1>11, <3>1, <3>3 DEF DataInv, InPlace, RamsOK
    <3>4. CASE a.idx = idx /\ ~bus_err
      BY <1>5, <1>6, <3>4 DEF SyncInv, InPlace
    <3> QED
      BY <3>2, <3>3, <3>4
  <2> QED
    BY <2>2, <2>3, <1>2, Rigid DEF DataInv
<1>13. CheckInv' /\ BypassInv' /\ LoadInv' /\ StoreInv'
  BY <1>6 DEF CheckInv, BypassInv, LoadInv, StoreInv, Loads, Stores
<1>14. QuietInv'
  BY <1>5, <1>6 DEF QuietInv
<1>15. SyncInv'
  <2>1. idx \notin refused
    BY <1>3, <1>8 DEF Clean, Blocks
  <2>2. \A j \in Blocks : j < idx + 1 => (valid'[j] <=> j \in refused') /\ (valid'[j] => dirty'[j])
    <3> SUFFICES ASSUME NEW j \in Blocks, j < idx + 1
                 PROVE  (valid'[j] <=> j \in refused') /\ (valid'[j] => dirty'[j])
      OBVIOUS
    <3>1. CASE j = idx
      BY <1>3, <1>4, <1>6, <1>11, <2>1, <3>1 DEF RamsOK
    <3>2. CASE j # idx
      <4>1. j < idx
        BY <1>3, <3>2 DEF Blocks
      <4>2. valid'[j] = valid[j] /\ dirty'[j] = dirty[j]
        BY <1>3, <1>4, <3>2 DEF RamsOK
      <4>3. j \in refused' <=> j \in refused
        BY <1>6, <3>2
      <4> QED
        BY <1>8, <4>1, <4>2, <4>3 DEF Clean
    <3> QED
      BY <3>1, <3>2
  <2>3. \A j \in refused' : j < idx + 1
    BY <1>3, <1>6, <1>8 DEF Clean, Blocks, TypeOK, EngineOK
  <2>4. sync' /\ (state' = "S_IDLE" => Clean(geo.blocks)') /\ (state' # "S_IDLE" => Clean(idx)')
    BY <1>2, <1>3, <1>6, <1>7, <1>8, <2>2, <2>3, Rigid, GeometryOK
       DEF Clean, Blocks, TypeOK, EngineOK
  <2> QED
    BY <1>6, <2>4 DEF SyncInv, Syncs
<1> QED
  BY <1>9, <1>10, <1>12, <1>13, <1>14, <1>15

\* What the access check decides.
LEMMA CheckedIs ==
  /\ pnd_bp /\ cache_hit /\ ~cache_drt =>
       Checked = [to |-> "S_BYPASS", c |-> [Access(HostAddr) EXCEPT !.set = TRUE], rsp |-> NoAnswer]
  /\ pnd_bp /\ cache_hit /\ cache_drt =>
       Checked = [to |-> "S_WRITE_START", c |-> Access(HostAddr), rsp |-> NoAnswer]
  /\ pnd_bp /\ ~cache_hit =>
       Checked = [to |-> "S_BYPASS", c |-> Access(HostAddr), rsp |-> NoAnswer]
  /\ ~pnd_bp /\ cache_hit =>
       Checked = [to |-> "S_IDLE",
                  c |-> [Access(HostAddr) EXCEPT !.we = host.rw, !.drt = host.rw],
                  rsp |-> Ack(rd.data)]
  /\ ~pnd_bp /\ ~cache_hit =>
       Checked = [to |-> IF cache_drt THEN "S_WRITE_START" ELSE "S_READ_START",
                  c |-> Access(HostAddr), rsp |-> NoAnswer]
BY Zenon DEF Checked

\* The status that the access check sees is that of the host's block.
LEMMA CheckSees ==
  ASSUME CacheInv, state = "S_CHECK"
  PROVE  /\ cache_hit <=> valid[host.addr.idx] /\ tags[host.addr.idx] = host.addr.tag
         /\ cache_hit => rd.data = data[host.addr.idx][host.addr.ofs] \/ pnd_bp
         /\ ~hit => (cache_drt <=> valid[host.addr.idx] /\ dirty[host.addr.idx] /\ ~geo.read_only)
         /\ hit => cache_hit /\ ~pnd_bp
         /\ host.on /\ ~host.stb /\ ~sync /\ (pnd_bp <=> IsBypass)
<1> USE DEF CacheInv
<1>1. host.on /\ ~host.stb /\ ~sync /\ (pnd_bp <=> IsBypass)
  BY DEF HostInv
<1>2. CASE ~hit /\ ~cln /\ RamsAt(host.addr)
  BY <1>1, <1>2 DEF cache_hit, cache_drt, RamsAt
<1>3. CASE /\ hit /\ ~pnd_bp
           /\ valid[host.addr.idx] /\ tags[host.addr.idx] = host.addr.tag
           /\ rd.data = data[host.addr.idx][host.addr.ofs]
  BY <1>1, <1>3 DEF cache_hit, cache_drt
<1>4. CASE /\ ~hit /\ cln
           /\ valid[host.addr.idx] /\ ~dirty[host.addr.idx]
           /\ rd.valid /\ rd.tag = tags[host.addr.idx]
           /\ pnd_bp \/ tags[host.addr.idx] # host.addr.tag
  BY <1>1, <1>4 DEF cache_hit, cache_drt
<1> QED
  BY <1>2, <1>3, <1>4 DEF CheckInv

\* The access is served by the cache.
LEMMA CheckHit ==
  ASSUME CacheInv, NEW syn \in BOOLEAN, NEW answer \in Answers, Check(syn, answer),
         ~pnd_bp, cache_hit
  PROVE  CacheInv'
<1> USE DEF CacheInv
<1>1. state = "S_CHECK" /\ owed = <<>>
  BY DEF Check, QuietInv
<1>2. /\ Checked.to = "S_IDLE" /\ Checked.rsp = Ack(rd.data)
      /\ Checked.c = [Access(HostAddr) EXCEPT !.we = host.rw, !.drt = host.rw]
  BY CheckedIs
<1>3. /\ Rams([Access(HostAddr) EXCEPT !.we = host.rw, !.drt = host.rw])
      /\ Bus(NoRequest, answer) /\ Truth(Ack(rd.data)) /\ Host(Ack(rd.data))
      /\ ofs_buf' = ofs_ext /\ geo' = geo
  BY <1>2 DEF Check, Around
<1>4. /\ state' = "S_IDLE" /\ tag' = host.addr.tag /\ idx' = host.addr.idx
      /\ ofs_int' = 0 /\ ofs_ext' = 0
      /\ ~pnd_req' /\ pnd_syn' \in BOOLEAN /\ bp_req' /\ ~hit' /\ ~cln'
      /\ pnd_req' \in BOOLEAN /\ bp_req' \in BOOLEAN /\ hit' \in BOOLEAN /\ cln' \in BOOLEAN
      /\ UNCHANGED <<sync, bus_err, pnd_bp, refused>>
  BY <1>2 DEF Check, TypeOK, EngineOK
<1> DEFINE i == host.addr.idx
           o == host.addr.ofs
<1>5. /\ host \in Hosts /\ host.addr \in Addresses
      /\ i \in Blocks /\ o \in Words /\ host.addr.tag \in AllTags
      /\ HostAddr = host.addr /\ host.addr = Address(host.addr.tag, i, o)
  <2>1. host \in Hosts
    BY DEF TypeOK, OutsideOK
  <2>2. host.addr \in Addresses
    BY <2>1 DEF Hosts
  <2> QED
    BY <2>1, <2>2, AddressFields DEF HostAddr
<1>6. /\ valid[i] /\ tags[i] = host.addr.tag /\ rd.data = data[i][o]
      /\ host.on /\ ~host.stb /\ ~sync /\ ~IsBypass
  BY <1>1, CheckSees
<1>7. host.rw \in BOOLEAN /\ host.data \in Int /\ ~host.amo /\ host.addr.tag # Uncached
  BY <1>5, <1>6 DEF IsBypass, Hosts
<1>8. /\ valid' = valid /\ tags' = tags
      /\ dirty' = IF host.rw /\ ~geo.read_only THEN [dirty EXCEPT ![i] = TRUE] ELSE dirty
      /\ data' = IF host.rw THEN [data EXCEPT ![i][o] = host.data] ELSE data
      /\ RamRead(HostAddr)
  BY <1>3, <1>5, <1>7 DEF Rams, Access, RamRead
<1>9. owed' = <<>> /\ mem' = mem
  BY <1>1, <1>3, BusRests
<1>10. HostServed
  <2>1. PICK w \in Int : w = rd.data
    BY DEF TypeOK, RamsOK
  <2>2. Ack(w).ack = TRUE
    BY DEF Ack
  <2>3. Host(Ack(w))
    BY <1>3, <2>1 DEF Ack
  <2>4. Ack(w).ack \in BOOLEAN /\ Ack(w).ack
    BY <2>2
  <2> QED
    BY <1>6, <2>3, <2>4, HostStep DEF HostInv
<1>11. truth' = IF host.rw THEN [truth EXCEPT ![host.addr] = host.data] ELSE truth
  BY <1>3, <1>7 DEF Truth, Ack
<1>12. host.rw => ~geo.read_only
  BY <1>6 DEF HostInv
<1>13. TypeOK'
  <2>1. EngineOK'
    BY <1>3, <1>4, <1>5, Rigid, GeometryOK DEF TypeOK, EngineOK, States, Words
  <2>2. RamsOK'
    <3>1. PICK a \in Addresses : a = HostAddr
      BY <1>5
    <3>2. rd' \in [valid : BOOLEAN, dirty : BOOLEAN, tag : AllTags, data : Int]
      BY <1>8, <3>1, ReadTypes DEF RamRead, TypeOK
    <3> QED
      BY <1>3, <1>5, <1>7, <1>8, <3>2, Rigid DEF TypeOK, RamsOK
  <2>3. OutsideOK'
    BY <1>3, <1>5, <1>7, <1>9, <1>10, <1>11, Rigid DEF TypeOK, OutsideOK, HostServed
  <2> QED
    BY <2>1, <2>2, <2>3 DEF TypeOK
<1>14. HostInv'
  BY <1>3, <1>4, <1>10 DEF HostInv, HostServed, Loads, Stores
<1>15. DataInv'
  <2>1. ASSUME NEW j \in Blocks, valid'[j]
        PROVE  Holds(j)'
    <3>1. valid[j] /\ tags'[j] = tags[j] /\ tags[j] # Uncached
      BY <1>1, <1>8, <2>1 DEF DataInv, Holds, Loads
    <3>2. ASSUME NEW p \in Words
          PROVE  data'[j][p] = truth'[Address(tags[j], j, p)]
      <4>1. Address(tags[j], j, p) \in Addresses /\ tags[j] \in AllTags
        BY AddressIn DEF TypeOK, RamsOK
      <4>2. data[j][p] = truth[Address(tags[j], j, p)]
        BY <1>1, <3>1 DEF DataInv, Holds, Loads
      <4>3. CASE host.rw /\ j = i /\ p = o
        <5>1. data'[j][p] = host.data
          BY <1>5, <1>8, <4>3 DEF TypeOK, RamsOK
        <5>2. Address(tags[j], j, p) = host.addr
          BY <1>5, <1>6, <4>3
        <5>3. truth'[host.addr] = host.data
          BY <1>5, <1>11, <4>3 DEF TypeOK, OutsideOK
        <5> QED
          BY <5>1, <5>2, <5>3
      <4>4. CASE ~(host.rw /\ j = i /\ p = o)
        <5>1. data'[j][p] = data[j][p]
          BY <1>5, <1>8, <4>4 DEF TypeOK, RamsOK
        <5>2. host.rw => Address(tags[j], j, p) # host.addr
          BY <4>1, <4>4, AddressIn
        <5>3. truth'[Address(tags[j], j, p)] = truth[Address(tags[j], j, p)]
          BY <1>5, <1>11, <4>1, <5>2 DEF TypeOK, OutsideOK
        <5> QED
          BY <4>2, <5>1, <5>3
      <4> QED
        BY <4>3, <4>4
    <3> QED
      BY <1>3, <3>1, <3>2, Rigid DEF Holds
  <2>2. ASSUME NEW a \in Addresses
        PROVE  InPlace(a)' \/
                 (valid'[a.idx] /\ dirty'[a.idx] /\ tags'[a.idx] = a.tag /\ ~geo'.read_only)
    <3>1. a.idx \in Blocks /\ a.tag \in AllTags
      BY AddressFields
    <3>2. CASE host.rw /\ a = host.addr
      BY <1>3, <1>5, <1>6, <1>8, <1>12, <3>1, <3>2 DEF TypeOK, RamsOK
    <3>3. CASE ~(host.rw /\ a = host.addr)
      <4>1. truth'[a] = truth[a] /\ mem'[a] = mem[a]
        BY <1>5, <1>9, <1>11, <3>3 DEF TypeOK, OutsideOK
      <4>2. dirty[a.idx] => dirty'[a.idx]
        BY <1>5, <1>8, <3>1 DEF TypeOK, RamsOK
      <4> QED
        BY <1>3, <1>8, <4>1, <4>2 DEF DataInv, InPlace
    <3> QED
      BY <3>2, <3>3
  <2> QED
    BY <1>3, <2>1, <2>2, Rigid DEF DataInv
<1>16. CheckInv' /\ BypassInv' /\ LoadInv' /\ StoreInv'
  BY <1>4 DEF CheckInv, BypassInv, LoadInv, StoreInv, Loads, Stores
<1>17. QuietInv'
  BY <1>4, <1>9 DEF QuietInv
<1>18. SyncInv'
  BY <1>4, <1>6 DEF SyncInv, Syncs
<1> QED
  BY <1>13, <1>14, <1>15, <1>16, <1>17, <1>18

\* The access is passed on, or makes room, or fetches its block.
LEMMA CheckMiss ==
  ASSUME CacheInv, NEW syn \in BOOLEAN, NEW answer \in Answers, Check(syn, answer),
         pnd_bp \/ ~cache_hit
  PROVE  CacheInv'
<1> USE DEF CacheInv
<1> DEFINE i == host.addr.idx
           drops == pnd_bp /\ cache_hit /\ ~cache_drt
<1>1. state = "S_CHECK" /\ owed = <<>>
  BY DEF Check, QuietInv
<1>2. /\ Checked.rsp = NoAnswer
      /\ drops => Checked.c = [Access(HostAddr) EXCEPT !.set = TRUE] /\ Checked.to = "S_BYPASS"
      /\ ~drops => Checked.c = Access(HostAddr)
      /\ Checked.to \in {"S_BYPASS", "S_WRITE_START", "S_READ_START"}
      /\ Checked.to = "S_BYPASS" => pnd_bp /\ (drops \/ ~cache_hit)
      /\ Checked.to = "S_WRITE_START" => cache_drt /\ (pnd_bp \/ ~cache_hit)
      /\ Checked.to = "S_READ_START" => ~pnd_bp /\ ~cache_hit /\ ~cache_drt
  <2>1. CASE drops
    BY <2>1, CheckedIs
  <2>2. CASE pnd_bp /\ cache_hit /\ cache_drt
    BY <2>2, CheckedIs
  <2>3. CASE pnd_bp /\ ~cache_hit
    BY <2>3, CheckedIs
  <2>4. CASE ~pnd_bp /\ ~cache_hit
    BY <2>4, CheckedIs
  <2> QED
    BY <2>1, <2>2, <2>3, <2>4
<1> HIDE DEF drops
<1>3. /\ Rams(Checked.c)
      /\ Bus(NoRequest, answer) /\ Truth(NoAnswer) /\ Host(NoAnswer)
      /\ ofs_buf' = ofs_ext /\ geo' = geo
  BY <1>2 DEF Check, Around
<1>4. /\ state' = Checked.to /\ tag' = host.addr.tag /\ idx' = i
      /\ ofs_int' = 0 /\ ofs_ext' = 0
      /\ ~pnd_req' /\ pnd_syn' \in BOOLEAN /\ bp_req' /\ ~hit' /\ ~cln'
      /\ pnd_req' \in BOOLEAN /\ bp_req' \in BOOLEAN /\ hit' \in BOOLEAN /\ cln' \in BOOLEAN
      /\ UNCHANGED <<sync, bus_err, pnd_bp, refused>>
  BY DEF Check, TypeOK, EngineOK
<1>5. /\ host \in Hosts /\ host.addr \in Addresses
      /\ i \in Blocks /\ host.addr.ofs \in Words /\ host.addr.tag \in AllTags
      /\ HostAddr = host.addr
  <2>1. host \in Hosts
    BY DEF TypeOK, OutsideOK
  <2>2. host.addr \in Addresses
    BY <2>1 DEF Hosts
  <2> QED
    BY <2>1, <2>2, AddressFields DEF HostAddr
<1>6. /\ cache_hit <=> valid[i] /\ tags[i] = host.addr.tag
      /\ host.on /\ ~host.stb /\ ~sync /\ (pnd_bp <=> IsBypass)
      /\ cache_drt <=> valid[i] /\ dirty[i] /\ ~geo.read_only
  BY <1>1, CheckSees
<1>7. /\ valid' = IF drops THEN [valid EXCEPT ![i] = FALSE] ELSE valid
      /\ dirty' = IF drops /\ ~geo.read_only THEN [dirty EXCEPT ![i] = FALSE] ELSE dirty
      /\ tags' = tags /\ data' = data
      /\ RamRead(HostAddr) /\ RamsOK'
  <2>1. CASE ~drops
    <3>1. Rams(Access(HostAddr))
      BY <1>2, <1>3, <2>1
    <3> QED
      BY <1>3, <2>1, <3>1, HostRead DEF RamsKept
  <2>2. CASE drops
    <3>1. Rams([Access(HostAddr) EXCEPT !.set = TRUE])
      BY <1>2, <1>3, <2>2
    <3>2. /\ valid' = [valid EXCEPT ![i] = FALSE]
          /\ dirty' = IF ~geo.read_only THEN [dirty EXCEPT ![i] = FALSE] ELSE dirty
          /\ tags' = [tags EXCEPT ![i] = host.addr.tag] /\ data' = data
          /\ RamRead(HostAddr)
      BY <1>5, <3>1, GeometryOK DEF Rams, Access, RamRead, TypeOK, EngineOK
    <3>3. tags' = tags
      BY <1>5, <1>6, <2>2, <3>2 DEF TypeOK, RamsOK, drops
    <3>4. PICK a \in Addresses : a = HostAddr
      BY <1>5
    <3>5. rd' \in [valid : BOOLEAN, dirty : BOOLEAN, tag : AllTags, data : Int]
      BY <3>2, <3>4, ReadTypes DEF RamRead, TypeOK
    <3>6. RamsOK'
      BY <1>3, <3>2, <3>3, <3>5, Rigid DEF TypeOK, RamsOK
    <3> QED
      BY <2>2, <3>2, <3>3, <3>6
  <2> QED
    BY <2>1, <2>2
<1>8. owed' = <<>> /\ mem' = mem /\ truth' = truth /\ HostWaits /\ OutsideOK'
  BY <1>1, <1>3, QuietStep
<1>9. TypeOK'
  <2>1. EngineOK'
    BY <1>2, <1>3, <1>4, <1>5, Rigid, GeometryOK DEF TypeOK, EngineOK, States, Words, Loads, Stores
  <2> QED
    BY <2>1, <1>7, <1>8 DEF TypeOK
<1>10. HostInv'
  BY <1>2, <1>3, <1>4, <1>6, <1>8 DEF HostInv, HostWaits, Loads, Stores, IsBypass
\* A block that is left clean is in its place.
<1>11. ~cache_drt => \A a \in Addresses : a.idx = i => InPlace(a)
  BY <1>6 DEF DataInv
<1>12. DataInv'
  <2>1. \A j \in Blocks : valid'[j] => valid[j]
    BY <1>7 DEF TypeOK, RamsOK
  <2>2. \A j \in Blocks : valid'[j] => Holds(j)'
    BY <1>1, <1>3, <1>7, <1>8, <2>1, Rigid DEF DataInv, Holds, Loads
  <2>3. ASSUME NEW a \in Addresses
        PROVE  InPlace(a)' \/
                 (valid'[a.idx] /\ dirty'[a.idx] /\ tags'[a.idx] = a.tag /\ ~geo'.read_only)
    <3>1. a.idx \in Blocks
      BY AddressFields
    <3>2. CASE drops /\ a.idx = i
      BY <1>8, <1>11, <3>2 DEF InPlace, drops
    <3>3. CASE ~(drops /\ a.idx = i)
      <4>1. valid'[a.idx] = valid[a.idx] /\ dirty'[a.idx] = dirty[a.idx]
        BY <1>5, <1>7, <3>1, <3>3 DEF TypeOK, RamsOK
      <4> QED
        BY <1>3, <1>7, <1>8, <4>1 DEF DataInv, InPlace
    <3> QED
      BY <3>2, <3>3
  <2> QED
    BY <1>3, <2>2, <2>3, Rigid DEF DataInv
<1>13. CheckInv'
  BY <1>2, <1>4 DEF CheckInv
<1>14. BypassInv'
  <2>1. state' = "S_BYPASS" => ~(valid'[i] /\ tags'[i] = host.addr.tag)
    BY <1>2, <1>4, <1>5, <1>6, <1>7 DEF TypeOK, RamsOK
  <2> QED
    BY <1>4, <1>6, <1>8, <2>1 DEF BypassInv, HostWaits
<1>15. LoadInv'
  <2>1. state' = "S_READ_START" => \A a \in Addresses : a.idx = i => InPlace(a)'
    BY <1>2, <1>4, <1>8, <1>11 DEF InPlace
  <2>2. Loaded(ofs_int)'
    BY <1>4, <1>3, Rigid DEF Loaded, Words
  <2> QED
    BY <1>2, <1>3, <1>4, <2>1, <2>2, Rigid DEF LoadInv, Loads
<1>16. StoreInv'
  <2>1. SUFFICES ASSUME state' = "S_WRITE_START" PROVE StoreInv'
    BY <1>2, <1>4 DEF StoreInv, Stores
  <2>2. ~drops
    BY <1>2, <1>4, <2>1
  <2>3. valid'[i] /\ dirty'[i] /\ ~geo'.read_only
    BY <1>2, <1>3, <1>4, <1>6, <1>7, <2>1, <2>2
  <2>4. tags'[i] = rd'.tag
    BY <1>5, <1>7 DEF RamRead
  <2>5. pnd_bp' \/ tags'[i] # host'.addr.tag
    BY <1>2, <1>4, <1>6, <1>7, <1>8, <2>1 DEF HostWaits
  <2> QED
    BY <1>4, <2>1, <2>3, <2>4, <2>5 DEF StoreInv
<1>17. QuietInv'
  BY <1>2, <1>4, <1>8 DEF QuietInv
<1>18. SyncInv'
  BY <1>2, <1>4, <1>6 DEF SyncInv, Syncs
<1> QED
  BY <1>9, <1>10, <1>12, <1>13, <1>14, <1>15, <1>16, <1>17, <1>18

\* S_CHECK: the access is served, passed on, or makes room for its block.
LEMMA CheckStep ==
  ASSUME CacheInv, NEW syn \in BOOLEAN, NEW answer \in Answers, Check(syn, answer)
  PROVE  CacheInv'
BY CheckHit, CheckMiss

\* S_BYPASS: a swap or an uncached access changes memory and truth alike.
LEMMA BypassStep ==
  ASSUME CacheInv, NEW syn \in BOOLEAN, NEW answer \in Answers, Bypass(syn, answer)
  PROVE  CacheInv'
<1> USE DEF CacheInv
<1> DEFINE i == host.addr.idx
<1>1. state = "S_BYPASS" /\ BypassInv
  BY DEF Bypass
<1>2. /\ Rams(Access(HostAddr)) /\ Bus(Pass, answer) /\ Truth(answer) /\ Host(answer)
      /\ ofs_buf' = ofs_ext /\ geo' = geo
  BY DEF Bypass, Around
<1>3. RamsKept /\ RamRead(HostAddr) /\ RamsOK'
  BY <1>2, HostRead
<1>4. /\ state' = IF answer.ack THEN "S_IDLE" ELSE "S_BYPASS"
      /\ pnd_req' \in BOOLEAN /\ pnd_syn' \in BOOLEAN
      /\ ~hit' /\ ~cln' /\ ~bp_req'
      /\ hit' \in BOOLEAN /\ cln' \in BOOLEAN /\ bp_req' \in BOOLEAN
      /\ UNCHANGED <<sync, bus_err, pnd_bp, tag, idx, ofs_int, ofs_ext, refused>>
      /\ pnd_req' => pnd_req \/ host.stb
  BY <1>1 DEF Bypass, Pending, NoForce, TypeOK, EngineOK
<1>5. /\ host.on /\ ~host.stb /\ ~sync /\ (pnd_bp <=> IsBypass) /\ ~pnd_req /\ idx = i
      /\ ~(valid[i] /\ tags[i] = host.addr.tag)
      /\ owed = IF bp_req THEN <<>> ELSE <<Passed>>
  BY <1>1 DEF HostInv, BypassInv
<1>6. /\ host \in Hosts /\ host.addr \in Addresses /\ host.addr.idx \in Blocks
      /\ host.rw \in BOOLEAN /\ host.amo \in BOOLEAN /\ host.data \in Int
      /\ Passed \in BusRequests
  <2>1. host \in Hosts
    BY DEF TypeOK, OutsideOK
  <2>2. host.addr \in Addresses
    BY <2>1 DEF Hosts
  <2> QED
    BY <2>1, <2>2, AddressFields DEF Hosts, Passed, BusRequests
<1>7. EngineOK'
  BY <1>2, <1>4, Rigid DEF TypeOK, EngineOK, States
<1>8. CASE ~answer.ack
  <2>1. owed' = <<Passed>> /\ mem' = mem
    <3>1. /\ owed' = owed \o (IF Pass.stb THEN <<Pass>> ELSE <<>>)
          /\ mem' = mem
      <4>1. PICK req : req = Pass
        OBVIOUS
      <4> QED
        BY <1>2, <1>8, <4>1, BusWaits
    <3>2. CASE bp_req
      <4>1. bp_req = TRUE
        BY <3>2 DEF TypeOK, EngineOK
      <4>2. Pass = Passed /\ Pass.stb
        BY <4>1 DEF Pass, Passed
      <4>3. owed' = <<>> \o <<Passed>>
        BY <1>5, <3>1, <3>2, <4>2
      <4>4. \A q \in BusRequests : <<>> \o <<q>> = <<q>>
        OBVIOUS
      <4> QED
        BY <1>6, <3>1, <4>3, <4>4
    <3>3. CASE ~bp_req
      BY <1>5, <3>1, <3>3 DEF Pass
    <3> QED
      BY <3>1, <3>2, <3>3
  <2>2. truth' = truth
    BY <1>1, <1>2, <1>8 DEF Truth, Answers, NoAnswer
  <2>3. HostWaits
    BY <1>2, <1>8, HostStep, AnswerTypes
  <2>4. TypeOK'
    BY <1>2, <1>3, <1>6, <1>7, <2>1, <2>2, <2>3, Rigid DEF TypeOK, OutsideOK, HostWaits
  <2>5. HostInv'
    BY <1>2, <1>4, <1>5, <1>8, <2>3 DEF HostInv, HostWaits, IsBypass, Loads, Stores
  <2>6. DataInv'
    BY <1>1, <1>2, <1>3, <2>1, <2>2, DataKept DEF Loads
  <2>7. BypassInv'
    BY <1>3, <1>4, <1>5, <2>1, <2>3 DEF BypassInv, HostWaits, RamsKept, Passed
  <2>8. CheckInv' /\ LoadInv' /\ StoreInv'
    BY <1>4, <1>8 DEF CheckInv, LoadInv, StoreInv, Loads, Stores
  <2>9. QuietInv' /\ SyncInv'
    BY <1>4, <1>5, <1>8 DEF QuietInv, SyncInv, Syncs
  <2> QED
    BY <2>4, <2>5, <2>6, <2>7, <2>8, <2>9
<1>9. CASE answer.ack
  <2> DEFINE writes == ~answer.err /\ (host.rw \/ host.amo)
  <2>1. /\ owed' = <<>>
        /\ mem' = IF writes THEN [mem EXCEPT ![host.addr] = host.data] ELSE mem
    <3>1. PICK req : req = Pass
      OBVIOUS
    <3>2. /\ Len(owed) > 0
          /\ owed' = Tail(owed) \o (IF Pass.stb THEN <<Pass>> ELSE <<>>)
          /\ mem' = IF ~answer.err /\ (owed[1].rw \/ owed[1].amo)
                    THEN [mem EXCEPT ![owed[1].addr] = owed[1].data] ELSE mem
      BY <1>2, <1>9, <3>1, BusAnswers
    <3>3. ~bp_req /\ owed = <<Passed>>
      BY <1>5, <3>2
    <3>4. owed[1] = Passed /\ Tail(owed) = <<>>
      BY <3>3
    <3>5. ~Pass.stb
      BY <3>3 DEF Pass
    <3>6. /\ Passed.rw = host.rw /\ Passed.amo = host.amo
          /\ Passed.addr = host.addr /\ Passed.data = host.data
      BY DEF Passed
    <3>7. owed' = <<>>
      BY <3>2, <3>4, <3>5
    <3> QED
      BY <3>2, <3>4, <3>6, <3>7
  <2>2. truth' = IF writes THEN [truth EXCEPT ![host.addr] = host.data] ELSE truth
    BY <1>1, <1>2, <1>9 DEF Truth
  <2>3. HostServed
    BY <1>2, <1>5, <1>9, HostStep, AnswerTypes
  <2>4. TypeOK'
    BY <1>2, <1>3, <1>6, <1>7, <2>1, <2>2, <2>3, Rigid DEF TypeOK, OutsideOK, HostServed
  <2>5. HostInv'
    BY <1>2, <1>4, <1>5, <1>9, <2>3 DEF HostInv, HostServed, Loads, Stores
  <2>6. DataInv'
    <3>1. ASSUME NEW j \in Blocks, valid[j]
          PROVE  Holds(j)'
      <4>1. Holds(j) /\ tags[j] \in AllTags
        BY <1>1, <3>1 DEF DataInv, Loads, TypeOK, RamsOK
      <4>2. ASSUME NEW o \in Words
            PROVE  truth'[Address(tags[j], j, o)] = truth[Address(tags[j], j, o)]
        <5>1. Address(tags[j], j, o) \in Addresses /\ Address(tags[j], j, o) # host.addr
          BY <1>5, <3>1, <4>1, AddressIn
        <5> QED
          BY <1>6, <2>2, <5>1 DEF TypeOK, OutsideOK
      <4> QED
        BY <1>2, <1>3, <4>1, <4>2, Rigid DEF Holds, RamsKept
    <3>2. ASSUME NEW a \in Addresses
          PROVE  InPlace(a)' \/
                   (valid[a.idx] /\ dirty[a.idx] /\ tags[a.idx] = a.tag /\ ~geo.read_only)
      BY <1>6, <2>1, <2>2 DEF DataInv, InPlace, TypeOK, OutsideOK
    <3> QED
      BY <1>2, <1>3, <3>1, <3>2, Rigid DEF DataInv, RamsKept
  <2>7. CheckInv' /\ BypassInv' /\ LoadInv' /\ StoreInv'
    BY <1>4, <1>9 DEF CheckInv, BypassInv, LoadInv, StoreInv, Loads, Stores
  <2>8. QuietInv' /\ SyncInv'
    BY <1>4, <1>5, <1>9, <2>1 DEF QuietInv, SyncInv, Syncs
  <2> QED
    BY <2>4, <2>5, <2>6, <2>7, <2>8
<1> QED
  BY <1>8, <1>9

-------------------------------------------------------------------------------
(* The requests that the bus has to answer.                                  *)

\* The oldest request of a transfer.
LEMMA TransferHead ==
  ASSUME NEW q \in Seq(BusRequests), Len(q) > 0, NEW f \in Nat, NEW kind \in Kinds,
         Transfer(q, f, kind)
  PROVE  RequestOf(q[1], f, kind)
<1>1. 1 \in 1 .. Len(q) /\ f + 1 - 1 = f
  OBVIOUS
<1> QED
  BY <1>1 DEF Transfer

\* The oldest request is answered.
LEMMA TransferTail ==
  ASSUME NEW q \in Seq(BusRequests), Len(q) > 0, NEW f \in Nat, NEW kind \in Kinds,
         Transfer(q, f, kind)
  PROVE  /\ Tail(q) \in Seq(BusRequests) /\ Len(Tail(q)) = Len(q) - 1
         /\ Transfer(Tail(q), f + 1, kind)
<1>1. /\ Tail(q) \in Seq(BusRequests) /\ Len(Tail(q)) = Len(q) - 1 /\ Len(q) \in Nat
      /\ \A k \in 1 .. Len(Tail(q)) : Tail(q)[k] = q[k + 1]
  <2>1. q # <<>>
    OBVIOUS
  <2> QED
    BY <2>1, HeadTailProperties
<1>2. ASSUME NEW k \in 1 .. Len(Tail(q))
      PROVE  RequestOf(Tail(q)[k], (f + 1) + k - 1, kind)
  <2>1. k + 1 \in 1 .. Len(q) /\ f + (k + 1) - 1 = (f + 1) + k - 1
    BY <1>1
  <2>2. RequestOf(q[k + 1], f + (k + 1) - 1, kind)
    BY <2>1 DEF Transfer
  <2>3. Tail(q)[k] = q[k + 1]
    BY <1>1
  <2> QED
    BY <2>1, <2>2, <2>3
<1> QED
  BY <1>1, <1>2 DEF Transfer

\* One more word is asked for.
LEMMA TransferMore ==
  ASSUME NEW q \in Seq(BusRequests), NEW f \in Nat, NEW kind \in Kinds, Transfer(q, f, kind),
         NEW r \in BusRequests, RequestOf(r, f + Len(q), kind)
  PROVE  /\ q \o <<r>> \in Seq(BusRequests) /\ Len(q \o <<r>>) = Len(q) + 1
         /\ Transfer(q \o <<r>>, f, kind)
<1>1. /\ Len(q) \in Nat /\ Append(q, r) \in Seq(BusRequests) /\ Len(Append(q, r)) = Len(q) + 1
      /\ \A k \in 1 .. Len(q) : Append(q, r)[k] = q[k]
      /\ Append(q, r)[Len(q) + 1] = r
  BY AppendProperties, LenProperties
<1>2. ASSUME NEW k \in 1 .. Len(q) + 1
      PROVE  RequestOf(Append(q, r)[k], f + k - 1, kind)
  <2>1. CASE k \in 1 .. Len(q)
    BY <1>1, <2>1 DEF Transfer
  <2>2. CASE k = Len(q) + 1
    <3>1. f + k - 1 = f + Len(q)
      BY <1>1, <2>2
    <3> QED
      BY <1>1, <2>2, <3>1
  <2> QED
    BY <1>1, <2>1, <2>2
<1>3. q \o <<r>> = Append(q, r)
  BY AppendIsConcat
<1> QED
  BY <1>1, <1>2, <1>3 DEF Transfer

\* The first request of a transfer.
LEMMA AskStep ==
  ASSUME TypeOK, HostInv, owed = <<>>, NEW answer \in Answers, geo' = geo,
         NEW req \in BusRequests, req.stb, Bus(req, answer), Truth(NoAnswer), Host(NoAnswer)
  PROVE  /\ owed' = <<req>> /\ mem' = mem /\ truth' = truth /\ HostWaits /\ OutsideOK'
         /\ Len(owed') = 1 /\ owed'[1] = req
<1>1. owed' = <<req>> /\ mem' = mem
  BY BusAsked
<1>2. truth' = truth
  BY DEF Truth, NoAnswer
<1>3. HostWaits
  <2>1. NoAnswer.ack = FALSE
    BY DEF NoAnswer
  <2>2. NoAnswer.ack \in BOOLEAN /\ ~NoAnswer.ack
    BY <2>1
  <2> QED
    BY <2>2, HostStep DEF HostInv
<1>4. OutsideOK'
  BY <1>1, <1>2, <1>3, Rigid DEF OutsideOK, TypeOK, HostWaits
<1> QED
  BY <1>1, <1>2, <1>3, <1>4

\* A clock of a transfer: the answer is that to the oldest word, and a word may be asked for.
LEMMA TransferStep ==
  ASSUME TypeOK, NEW answer \in Answers, NEW req \in BusRequests, Bus(req, answer),
         NEW f \in Nat, NEW kind \in Kinds, Transfer(owed, f, kind),
         req.stb => RequestOf(req, f + Len(owed), kind),
         NEW q, q = owed'
  PROVE  /\ q \in Seq(BusRequests)
         /\ answer.ack => Len(owed) > 0
         /\ Len(q) = Len(owed) - (IF answer.ack THEN 1 ELSE 0) + (IF req.stb THEN 1 ELSE 0)
         /\ Transfer(q, IF answer.ack THEN f + 1 ELSE f, kind)
         /\ answer.ack /\ ~answer.err => answer.data = mem[Address(tag, idx, f)]
         /\ mem' = IF answer.ack /\ ~answer.err /\ kind = "upload"
                   THEN [mem EXCEPT ![Address(tag, idx, f)] = data[idx][f]] ELSE mem
<1>1. PICK p \in Seq(BusRequests) : p = owed
  BY DEF TypeOK, OutsideOK
<1>2. Transfer(p, f, kind) /\ Len(p) \in Nat
  BY <1>1
<1>3. answer.ack \in BOOLEAN /\ req.stb \in BOOLEAN
  BY AnswerTypes DEF BusRequests
<1>4. \A h \in Seq(BusRequests) : h \o <<>> = h
  BY ConcatEmptySeq
<1>5. CASE ~answer.ack
  <2>1. q = p \o (IF req.stb THEN <<req>> ELSE <<>>) /\ mem' = mem
    BY <1>1, <1>5, BusWaits
  <2>2. CASE req.stb
    <3>1. q = p \o <<req>>
      BY <2>1, <2>2
    <3>2. RequestOf(req, f + Len(p), kind)
      BY <1>1, <2>2
    <3>3. q \in Seq(BusRequests) /\ Len(q) = Len(p) + 1 /\ Transfer(q, f, kind)
      BY <1>2, <3>1, <3>2, TransferMore
    <3> QED
      BY <1>1, <1>2, <1>5, <2>1, <2>2, <3>3
  <2>3. CASE ~req.stb
    <3>1. q = p
      BY <1>4, <2>1, <2>3
    <3> QED
      BY <1>1, <1>2, <1>5, <2>1, <2>3, <3>1
  <2> QED
    BY <2>2, <2>3
<1>6. CASE answer.ack
  <2>1. /\ Len(p) > 0
        /\ q = Tail(p) \o (IF req.stb THEN <<req>> ELSE <<>>)
        /\ ~answer.err => answer.data = mem[p[1].addr]
        /\ mem' = IF ~answer.err /\ (p[1].rw \/ p[1].amo)
                  THEN [mem EXCEPT ![p[1].addr] = p[1].data] ELSE mem
    BY <1>1, <1>6, BusAnswers
  <2>2. RequestOf(p[1], f, kind)
    BY <1>2, <2>1, TransferHead
  <2>3. /\ ~answer.err => answer.data = mem[Address(tag, idx, f)]
        /\ mem' = IF ~answer.err /\ kind = "upload"
                  THEN [mem EXCEPT ![Address(tag, idx, f)] = data[idx][f]] ELSE mem
    BY <2>1, <2>2 DEF RequestOf
  <2>4. PICK t \in Seq(BusRequests) : t = Tail(p) /\ Len(t) = Len(p) - 1 /\ Transfer(t, f + 1, kind)
    BY <1>2, <2>1, TransferTail
  <2>5. CASE req.stb
    <3>1. q = t \o <<req>>
      BY <2>1, <2>4, <2>5
    <3>2. f + Len(p) = (f + 1) + Len(t) /\ f + 1 \in Nat
      BY <1>2, <2>4
    <3>3. RequestOf(req, (f + 1) + Len(t), kind)
      BY <1>1, <2>5, <3>2
    <3>4. q \in Seq(BusRequests) /\ Len(q) = Len(t) + 1 /\ Transfer(q, f + 1, kind)
      BY <2>4, <3>1, <3>2, <3>3, TransferMore
    <3>5. Len(q) = Len(p) - 1 + 1
      BY <1>2, <2>4, <3>4
    <3> QED
      BY <1>1, <1>6, <2>1, <2>3, <2>5, <3>4, <3>5
  <2>6. CASE ~req.stb
    <3>1. q = t
      BY <1>4, <2>1, <2>4, <2>6
    <3>2. Len(q) = Len(p) - 1 + 0
      BY <1>2, <2>4, <3>1
    <3> QED
      BY <1>1, <1>6, <2>1, <2>3, <2>4, <2>6, <3>1, <3>2
  <2> QED
    BY <2>5, <2>6
<1> QED
  BY <1>3, <1>5, <1>6

-------------------------------------------------------------------------------
(* Download.                                                                 *)

\* What a clock of a download has to respect, whatever the state of the engine.
LEMMA LoadWord ==
  ASSUME CacheInv, NEW answer \in Answers, NEW req \in BusRequests,
         state \in {"S_READ_WAIT", "S_READ_BURST"}, state' \in Loads,
         tag' = tag, idx' = idx, geo' = geo,
         bus_err' = IF answer.ack THEN Errors(answer) ELSE bus_err,
         Rams(Full(Inner, answer.data)), Bus(req, answer), Truth(NoAnswer), Host(NoAnswer),
         req.stb => RequestOf(req, ofs_int + Len(owed), "fetch"),
         NEW n, n = IF answer.ack THEN ofs_int + 1 ELSE ofs_int,
         NEW q, q = owed'
  PROVE  /\ mem' = mem /\ truth' = truth /\ HostWaits
         /\ valid' = valid /\ dirty' = dirty /\ tags' = tags
         /\ RamsOK' /\ OutsideOK' /\ DataInv' /\ bus_err' \in BOOLEAN
         /\ answer.ack => Len(owed) > 0
         /\ Len(q) = Len(owed) - (IF answer.ack THEN 1 ELSE 0) + (IF req.stb THEN 1 ELSE 0)
         /\ Transfer(q, n, "fetch")'
         /\ Loaded(n)'
         /\ \A a \in Addresses : a.idx = idx => InPlace(a)'
<1> USE DEF CacheInv
<1>1. /\ tag \in AllTags /\ idx \in Blocks /\ ofs_int \in Words /\ ofs_int \in Nat /\ RamsOK
      /\ Inner = Address(tag, idx, ofs_int)
      /\ Inner.tag = tag /\ Inner.idx = idx /\ Inner.ofs = ofs_int
  BY GeometryOK, Addressed DEF TypeOK, EngineOK, Words, Inner
<1>2. answer.ack \in BOOLEAN /\ answer.err \in BOOLEAN /\ answer.data \in Int
  BY AnswerTypes
<1>3. /\ valid' = valid /\ dirty' = dirty /\ tags' = tags
      /\ data' = [data EXCEPT ![idx][ofs_int] = answer.data]
      /\ RamRead(Inner)
  BY <1>1 DEF Rams, Full, Access, RamRead
<1>4. Transfer(owed, ofs_int, "fetch")
  BY DEF LoadInv
<1>5. /\ owed' \in Seq(BusRequests)
      /\ answer.ack => Len(owed) > 0
      /\ Len(q) = Len(owed) - (IF answer.ack THEN 1 ELSE 0) + (IF req.stb THEN 1 ELSE 0)
      /\ Transfer(q, n, "fetch")
      /\ answer.ack /\ ~answer.err => answer.data = mem[Address(tag, idx, ofs_int)]
      /\ mem' = mem
  <2>1. PICK kind \in Kinds : kind = "fetch"
    BY DEF Kinds
  <2>2. Transfer(owed, ofs_int, kind) /\ (req.stb => RequestOf(req, ofs_int + Len(owed), kind))
    BY <1>4, <2>1
  <2>3. /\ q \in Seq(BusRequests)
        /\ answer.ack => Len(owed) > 0
        /\ Len(q) = Len(owed) - (IF answer.ack THEN 1 ELSE 0) + (IF req.stb THEN 1 ELSE 0)
        /\ Transfer(q, IF answer.ack THEN ofs_int + 1 ELSE ofs_int, kind)
        /\ answer.ack /\ ~answer.err => answer.data = mem[Address(tag, idx, ofs_int)]
        /\ mem' = IF answer.ack /\ ~answer.err /\ kind = "upload"
                  THEN [mem EXCEPT ![Address(tag, idx, ofs_int)] = data[idx][ofs_int]] ELSE mem
    <3>1. PICK f \in Nat : f = ofs_int
      BY <1>1
    <3>2. Transfer(owed, f, kind) /\ (req.stb => RequestOf(req, f + Len(owed), kind))
      BY <2>2, <3>1
    <3>3. /\ q \in Seq(BusRequests)
          /\ answer.ack => Len(owed) > 0
          /\ Len(q) = Len(owed) - (IF answer.ack THEN 1 ELSE 0) + (IF req.stb THEN 1 ELSE 0)
          /\ Transfer(q, IF answer.ack THEN f + 1 ELSE f, kind)
          /\ answer.ack /\ ~answer.err => answer.data = mem[Address(tag, idx, f)]
          /\ mem' = IF answer.ack /\ ~answer.err /\ kind = "upload"
                    THEN [mem EXCEPT ![Address(tag, idx, f)] = data[idx][f]] ELSE mem
      BY <3>2, TransferStep
    <3> QED
      BY <3>1, <3>3
  <2> QED
    BY <2>1, <2>3
<1>6. truth' = truth
  BY DEF Truth, NoAnswer
<1>7. HostWaits
  <2>1. NoAnswer.ack = FALSE
    BY DEF NoAnswer
  <2>2. NoAnswer.ack \in BOOLEAN /\ ~NoAnswer.ack
    BY <2>1
  <2> QED
    BY <2>2, HostStep DEF HostInv
<1>8. OutsideOK'
  BY <1>5, <1>6, <1>7, Rigid DEF TypeOK, OutsideOK, HostWaits
<1>9. RamsOK'
  <2>1. PICK a \in Addresses : a = Inner
    BY Addressed
  <2>2. rd' \in [valid : BOOLEAN, dirty : BOOLEAN, tag : AllTags, data : Int]
    BY <1>1, <1>3, <2>1, ReadTypes DEF RamRead
  <2> QED
    BY <1>1, <1>2, <1>3, <2>2, Rigid DEF RamsOK
<1>10. DataInv'
  <2>1. ASSUME NEW i \in Blocks, valid[i], i # idx
        PROVE  Holds(i)'
    <3>1. Holds(i)
      BY <2>1 DEF DataInv
    <3>2. data'[i] = data[i]
      BY <1>1, <1>3, <2>1 DEF RamsOK
    <3> QED
      BY <1>3, <1>6, <3>1, <3>2, Rigid DEF Holds
  <2>2. \A a \in Addresses : InPlace(a)' \/
          (valid'[a.idx] /\ dirty'[a.idx] /\ tags'[a.idx] = a.tag /\ ~geo'.read_only)
    BY <1>3, <1>5, <1>6 DEF DataInv, InPlace
  <2> QED
    BY <1>3, <2>1, <2>2, Rigid DEF DataInv
<1>11. Transfer(q, n, "fetch")'
  BY <1>5 DEF Transfer, RequestOf
<1>12. Loaded(n)'
  <2>1. SUFFICES ASSUME ~bus_err', NEW o \in Words, o < n
                 PROVE  data'[idx][o] = mem[Address(tag, idx, o)]
    BY <1>5, Rigid DEF Loaded
  <2>2. Loaded(ofs_int) /\ ~bus_err /\ (answer.ack => ~answer.err)
    BY <1>2, <2>1 DEF LoadInv, Loads, Errors, TypeOK, EngineOK
  <2>3. CASE o = ofs_int
    <3>1. data'[idx][o] = answer.data
      BY <1>1, <1>3, <2>3 DEF RamsOK
    <3>2. answer.ack
      BY <1>1, <2>1, <2>3
    <3> QED
      BY <1>5, <2>2, <2>3, <3>1, <3>2
  <2>4. CASE o # ofs_int
    <3>1. data'[idx][o] = data[idx][o]
      BY <1>1, <1>3, <2>4 DEF RamsOK
    <3>2. o < ofs_int
      BY <1>1, <2>1, <2>4 DEF Words
    <3> QED
      BY <2>2, <3>1, <3>2 DEF Loaded
  <2> QED
    BY <2>3, <2>4
<1>13. \A a \in Addresses : a.idx = idx => InPlace(a)'
  BY <1>5, <1>6 DEF LoadInv, InPlace, Loads
<1>14. bus_err' \in BOOLEAN
  BY <1>2 DEF TypeOK, EngineOK, Errors
<1> QED
  BY <1>3, <1>5, <1>6, <1>7, <1>8, <1>9, <1>10, <1>11, <1>12, <1>13, <1>14

\* The requests the cache makes.
LEMMA NoRequestIs ==
  ASSUME TypeOK
  PROVE  /\ NoRequest \in BusRequests
         /\ ~NoRequest.stb /\ ~NoRequest.rw /\ ~NoRequest.amo
BY Addressed DEF NoRequest, BusRequests

\* A word of the block is asked for.
LEMMA FetchRequest ==
  ASSUME TypeOK, ofs_ext < geo.words
  PROVE  \E req \in BusRequests :
           req = Fetch(Outer(ofs_ext)) /\ req.stb /\ RequestOf(req, ofs_ext, "fetch")
<1>1. Outer(ofs_ext) \in Addresses /\ Outer(ofs_ext) = Address(tag, idx, ofs_ext)
  <2>1. ofs_ext \in Nat /\ ofs_ext \in 0 .. geo.words - 1 /\ geo.words \in Nat /\ geo.words > 0
    BY GeometryOK DEF TypeOK, EngineOK
  <2>2. ofs_ext % geo.words = ofs_ext
    BY <2>1, Modulo
  <2> QED
    BY <2>1, <2>2, Addressed DEF Outer
<1>2. PICK req \in BusRequests : req = Fetch(Outer(ofs_ext))
  BY <1>1, NoRequestIs DEF Fetch, BusRequests
<1>3. /\ req.stb /\ req.addr = Outer(ofs_ext)
      /\ req.rw = NoRequest.rw /\ req.amo = NoRequest.amo
  BY <1>2, NoRequestIs DEF Fetch, BusRequests
<1> QED
  BY <1>1, <1>2, <1>3, NoRequestIs DEF RequestOf

\* S_READ_START: the first word, or the next one, is asked for.
LEMMA ReadStartStep ==
  ASSUME CacheInv, NEW syn \in BOOLEAN, NEW answer \in Answers, ReadStart(syn, answer)
  PROVE  CacheInv'
<1> USE DEF CacheInv
<1>1. state = "S_READ_START" /\ state' = "S_READ_WAIT" /\ owed = <<>>
  BY DEF ReadStart, QuietInv
<1>2. /\ Rams(Access(HostAddr)) /\ Bus(Fetch(Outer(ofs_ext)), answer)
      /\ Truth(NoAnswer) /\ Host(NoAnswer) /\ ofs_buf' = ofs_ext /\ geo' = geo
  BY DEF ReadStart, Around
<1>3. RamsKept /\ RamRead(HostAddr) /\ RamsOK'
  BY <1>2, HostRead
<1>4. /\ pnd_req' \in BOOLEAN /\ pnd_syn' \in BOOLEAN
      /\ ~hit' /\ ~cln' /\ ~bp_req'
      /\ hit' \in BOOLEAN /\ cln' \in BOOLEAN /\ bp_req' \in BOOLEAN
      /\ pnd_req' => pnd_req \/ host.stb
      /\ UNCHANGED <<sync, bus_err, pnd_bp, tag, idx, ofs_int, ofs_ext, refused>>
  BY DEF ReadStart, Pending, NoForce, TypeOK, EngineOK
<1>5. /\ ofs_ext = ofs_int /\ ofs_int \in Words /\ ofs_ext \in Nat /\ ofs_ext % geo.words = ofs_ext
      /\ (geo.bursts => ofs_int = 0)
      /\ tag = host.addr.tag /\ ~pnd_bp /\ Loaded(ofs_int)
      /\ host.on /\ ~host.stb /\ ~sync /\ (pnd_bp <=> IsBypass) /\ ~pnd_req /\ idx = host.addr.idx
  BY <1>1, GeometryOK, Modulo DEF LoadInv, HostInv, Loads, TypeOK, EngineOK, Words
<1>6. PICK req \in BusRequests :
        /\ req = Fetch(Outer(ofs_ext)) /\ req.stb
        /\ RequestOf(req, ofs_int, "fetch")
  <2>1. ofs_ext < geo.words
    BY <1>5, GeometryOK DEF Words, TypeOK, EngineOK
  <2> QED
    BY <1>5, <2>1, FetchRequest
<1>7. /\ owed' = <<req>> /\ mem' = mem /\ truth' = truth /\ HostWaits /\ OutsideOK'
      /\ Len(owed') = 1 /\ owed'[1] = req
  BY <1>1, <1>2, <1>6, AskStep
<1>8. TypeOK'
  <2>1. EngineOK'
    BY <1>1, <1>2, <1>4, Rigid DEF TypeOK, EngineOK, States, Loads
  <2> QED
    BY <2>1, <1>3, <1>7 DEF TypeOK
<1>9. HostInv'
  BY <1>1, <1>2, <1>4, <1>5, <1>7 DEF HostInv, HostWaits, Loads, Stores, IsBypass
<1>10. DataInv'
  BY <1>1, <1>2, <1>3, <1>4, <1>7, DataKept DEF Loads
<1>11. LoadInv'
  <2>1. Transfer(owed, ofs_int, "fetch")'
    <3>1. RequestOf(req, ofs_int, "fetch")'
      BY <1>4, <1>6 DEF RequestOf
    <3>2. \A k \in 1 .. 1 : k = 1 /\ ofs_int' + k - 1 = ofs_int'
      BY <1>4, <1>5
    <3> QED
      BY <1>4, <1>7, <3>1, <3>2 DEF Transfer
  <2>2. Loaded(ofs_int)'
    BY <1>2, <1>3, <1>4, <1>5, <1>7, Rigid DEF Loaded, RamsKept
  <2>3. \A a \in Addresses : a.idx = idx => InPlace(a)'
    BY <1>1, <1>7 DEF LoadInv, Loads, InPlace
  <2> QED
    BY <1>1, <1>2, <1>4, <1>5, <1>7, <2>1, <2>2, <2>3, Rigid DEF LoadInv, Loads
<1>12. CheckInv' /\ BypassInv' /\ StoreInv'
  BY <1>1 DEF CheckInv, BypassInv, StoreInv, Stores
<1>13. QuietInv' /\ SyncInv'
  BY <1>1, <1>4, <1>5 DEF QuietInv, SyncInv, Syncs
<1> QED
  BY <1>8, <1>9, <1>10, <1>11, <1>12, <1>13

\* S_READ_WAIT: a single word, or the first of a burst, arrives.
LEMMA ReadWaitStep ==
  ASSUME CacheInv, NEW syn \in BOOLEAN, NEW answer \in Answers, ReadWait(syn, answer)
  PROVE  CacheInv'
<1> USE DEF CacheInv
<1>1. state = "S_READ_WAIT"
  BY DEF ReadWait
<1>2. /\ Rams(Full(Inner, answer.data)) /\ Bus(NoRequest, answer)
      /\ Truth(NoAnswer) /\ Host(NoAnswer) /\ ofs_buf' = ofs_ext /\ geo' = geo
  BY DEF ReadWait, Around
<1>3. /\ pnd_req' \in BOOLEAN /\ pnd_syn' \in BOOLEAN
      /\ ~hit' /\ ~cln' /\ ~bp_req'
      /\ hit' \in BOOLEAN /\ cln' \in BOOLEAN /\ bp_req' \in BOOLEAN
      /\ pnd_req' => pnd_req \/ host.stb
      /\ UNCHANGED <<sync, pnd_bp, tag, idx, refused>>
      /\ bus_err' = IF answer.ack THEN Errors(answer) ELSE bus_err
  BY DEF ReadWait, Pending, NoForce, TypeOK, EngineOK
<1>4. /\ ofs_ext = ofs_int /\ ofs_int \in 0 .. geo.words - 1 /\ geo.words \in Nat /\ geo.words > 0
      /\ (geo.bursts => ofs_int = 0 /\ geo.words > 1) /\ geo.bursts \in BOOLEAN
      /\ tag = host.addr.tag /\ ~pnd_bp /\ Len(owed) = 1
      /\ host.on /\ ~host.stb /\ ~sync /\ (pnd_bp <=> IsBypass) /\ ~pnd_req /\ idx = host.addr.idx
  BY <1>1, GeometryOK DEF LoadInv, HostInv, Loads, TypeOK, EngineOK, Words
<1>5. /\ LastWord(ofs_int) <=> ofs_int + 1 = geo.words
      /\ (ofs_int + 1) % geo.words = IF ofs_int + 1 = geo.words THEN 0 ELSE ofs_int + 1
      /\ (ofs_ext + 1) % (2 * geo.words) = ofs_int + 1
  <2>1. /\ ofs_int % geo.words = ofs_int
        /\ (ofs_int + 1) % geo.words = IF ofs_int + 1 = geo.words THEN 0 ELSE ofs_int + 1
    BY <1>4, Modulo
  <2>2. 2 * geo.words \in Nat /\ 2 * geo.words > 0 /\ ofs_int \in 0 .. 2 * geo.words - 1
        /\ ofs_int + 1 # 2 * geo.words
    BY <1>4
  <2>3. (ofs_int + 1) % (2 * geo.words) = ofs_int + 1
    BY <2>2, Modulo
  <2> QED
    BY <1>4, <2>1, <2>3 DEF LastWord
<1>6. /\ ~answer.ack => state' = "S_READ_WAIT" /\ ofs_int' = ofs_int /\ ofs_ext' = ofs_ext
      /\ answer.ack => /\ ofs_int' = IF ofs_int + 1 = geo.words THEN 0 ELSE ofs_int + 1
                       /\ ofs_ext' = ofs_int + 1
                       /\ state' = IF geo.bursts THEN "S_READ_BURST"
                                   ELSE IF ofs_int + 1 = geo.words THEN "S_READ_DONE"
                                   ELSE "S_READ_START"
  BY <1>1, <1>5 DEF ReadWait, Inc, IncExt
<1>7. state' \in Loads
  BY <1>6 DEF Loads
<1>8. PICK req \in BusRequests : req = NoRequest /\ ~req.stb
  BY NoRequestIs
<1>9. PICK n : n = IF answer.ack THEN ofs_int + 1 ELSE ofs_int
  OBVIOUS
<1>10. PICK q : q = owed'
  OBVIOUS
<1>11. /\ mem' = mem /\ truth' = truth /\ HostWaits
       /\ valid' = valid /\ dirty' = dirty /\ tags' = tags
       /\ RamsOK' /\ OutsideOK' /\ DataInv' /\ bus_err' \in BOOLEAN
       /\ Len(q) = Len(owed) - (IF answer.ack THEN 1 ELSE 0) + (IF req.stb THEN 1 ELSE 0)
       /\ Transfer(q, n, "fetch")'
       /\ Loaded(n)'
       /\ \A a \in Addresses : a.idx = idx => InPlace(a)'
  BY <1>1, <1>2, <1>3, <1>7, <1>8, <1>9, <1>10, LoadWord
<1>12. Len(owed') = IF answer.ack THEN 0 ELSE 1
  BY <1>4, <1>8, <1>10, <1>11
<1>13. Transfer(owed, n, "fetch")'
  BY <1>10, <1>11 DEF Transfer
<1>14. TypeOK'
  <2>1. EngineOK'
    BY <1>2, <1>3, <1>4, <1>6, <1>7, <1>11, Rigid DEF TypeOK, EngineOK, States, Words
  <2> QED
    BY <2>1, <1>11 DEF TypeOK
<1>15. HostInv'
  BY <1>2, <1>3, <1>4, <1>7, <1>11 DEF HostInv, HostWaits, Loads, Stores, IsBypass
<1>16. LoadInv'
  <2>1. CASE ~answer.ack
    <3>1. n = ofs_int' /\ state' = "S_READ_WAIT"
      BY <1>6, <1>9, <2>1
    <3>2. Transfer(owed, ofs_int, "fetch")' /\ Loaded(ofs_int)'
      BY <1>11, <1>13, <3>1
    <3> QED
      BY <1>2, <1>3, <1>4, <1>6, <1>11, <1>12, <2>1, <3>1, <3>2, Rigid DEF LoadInv, Loads
  <2>2. CASE answer.ack /\ geo.bursts
    <3>1. n = ofs_int' /\ state' = "S_READ_BURST" /\ ofs_int' = 1 /\ ofs_ext' = 1
      BY <1>4, <1>6, <1>9, <2>2
    <3>2. Transfer(owed, ofs_int, "fetch")' /\ Loaded(ofs_int)'
      BY <1>11, <1>13, <3>1
    <3> QED
      <4>1. /\ Len(owed') = ofs_ext' - ofs_int'
            /\ 1 <= ofs_int' /\ ofs_int' <= ofs_ext' /\ ofs_ext' <= geo'.words
        BY <1>2, <1>4, <1>12, <2>2, <3>1
      <4>2. \A a \in Addresses' : a.idx = idx' => InPlace(a)'
        BY <1>2, <1>3, <1>11, Rigid
      <4>3. state' \in Loads /\ state' \notin {"S_READ_START", "S_READ_WAIT", "S_READ_DONE"}
        BY <1>7, <3>1
      <4> QED
        BY <3>1, <3>2, <4>1, <4>2, <4>3 DEF LoadInv
  <2>3. CASE answer.ack /\ ~geo.bursts /\ ofs_int + 1 # geo.words
    <3>1. n = ofs_int' /\ state' = "S_READ_START" /\ ofs_ext' = ofs_int'
      BY <1>4, <1>6, <1>9, <2>3
    <3>2. Loaded(ofs_int)'
      BY <1>11, <3>1
    <3> QED
      BY <1>2, <1>3, <1>4, <1>11, <2>3, <3>1, <3>2, Rigid DEF LoadInv, Loads
  <2>4. CASE answer.ack /\ ~geo.bursts /\ ofs_int + 1 = geo.words
    <3>1. n = geo.words /\ state' = "S_READ_DONE"
      BY <1>6, <1>9, <2>4
    <3>2. Loaded(geo.words)'
      BY <1>2, <1>11, <3>1
    <3> QED
      BY <1>2, <1>3, <1>4, <1>11, <2>4, <3>1, <3>2, Rigid DEF LoadInv, Loads
  <2> QED
    BY <2>1, <2>2, <2>3, <2>4
<1>17. CheckInv' /\ BypassInv' /\ StoreInv'
  BY <1>6, <1>7 DEF CheckInv, BypassInv, StoreInv, Loads, Stores
<1>18. QuietInv'
  <2>1. answer.ack => owed' = <<>>
    BY <1>12, <1>11 DEF OutsideOK
  <2> QED
    BY <1>2, <1>4, <1>6, <2>1 DEF QuietInv
<1>19. SyncInv'
  BY <1>3, <1>4, <1>7 DEF SyncInv, Syncs, Loads
<1> QED
  BY <1>11, <1>14, <1>15, <1>16, <1>17, <1>18, <1>19

\* S_READ_BURST: words arrive while others are asked for.
LEMMA ReadBurstStep ==
  ASSUME CacheInv, NEW syn \in BOOLEAN, NEW answer \in Answers, ReadBurst(syn, answer)
  PROVE  CacheInv'
<1> USE DEF CacheInv
<1>1. state = "S_READ_BURST"
  BY DEF ReadBurst
<1>2. /\ Rams(Full(Inner, answer.data))
      /\ ofs_ext < geo.words => Bus(Fetch(Outer(ofs_ext)), answer)
      /\ ~(ofs_ext < geo.words) => Bus(NoRequest, answer)
      /\ Truth(NoAnswer) /\ Host(NoAnswer) /\ ofs_buf' = ofs_ext /\ geo' = geo
  <2>1. Around(Full(Inner, answer.data), NoAnswer,
               IF More(ofs_ext) THEN Fetch(Outer(ofs_ext)) ELSE NoRequest, answer)
    BY DEF ReadBurst
  <2>2. CASE ofs_ext < geo.words
    BY <2>1, <2>2 DEF Around, More
  <2>3. CASE ~(ofs_ext < geo.words)
    BY <2>1, <2>3 DEF Around, More
  <2> QED
    BY <2>2, <2>3
<1>3. /\ pnd_req' \in BOOLEAN /\ pnd_syn' \in BOOLEAN
      /\ ~hit' /\ ~cln' /\ ~bp_req'
      /\ hit' \in BOOLEAN /\ cln' \in BOOLEAN /\ bp_req' \in BOOLEAN
      /\ pnd_req' => pnd_req \/ host.stb
      /\ UNCHANGED <<sync, pnd_bp, tag, idx, refused>>
      /\ bus_err' = IF answer.ack THEN Errors(answer) ELSE bus_err
  BY DEF ReadBurst, Pending, NoForce, TypeOK, EngineOK
<1>4. /\ geo.words \in Nat /\ geo.words > 1 /\ geo.bursts
      /\ ofs_int \in 1 .. geo.words - 1 /\ ofs_ext \in Nat
      /\ ofs_int <= ofs_ext /\ ofs_ext <= geo.words /\ Len(owed) = ofs_ext - ofs_int
      /\ tag = host.addr.tag /\ ~pnd_bp
      /\ host.on /\ ~host.stb /\ ~sync /\ (pnd_bp <=> IsBypass) /\ ~pnd_req /\ idx = host.addr.idx
  BY <1>1, GeometryOK DEF LoadInv, HostInv, QuietInv, Loads, TypeOK, EngineOK, Words
<1>5. /\ LastWord(ofs_int) <=> ofs_int + 1 = geo.words
      /\ (ofs_int + 1) % geo.words = IF ofs_int + 1 = geo.words THEN 0 ELSE ofs_int + 1
      /\ ofs_ext < geo.words => (ofs_ext + 1) % (2 * geo.words) = ofs_ext + 1
  <2>0. ofs_int \in 0 .. geo.words - 1 /\ geo.words > 0
    BY <1>4
  <2>1. /\ ofs_int % geo.words = ofs_int
        /\ (ofs_int + 1) % geo.words = IF ofs_int + 1 = geo.words THEN 0 ELSE ofs_int + 1
    BY <1>4, <2>0, Modulo
  <2>2. 2 * geo.words \in Nat /\ 2 * geo.words > 0 /\ ofs_ext \in 0 .. 2 * geo.words - 1
        /\ ofs_ext + 1 # 2 * geo.words
    BY <1>4
  <2>3. (ofs_ext + 1) % (2 * geo.words) = ofs_ext + 1
    BY <2>2, Modulo
  <2>4. LastWord(ofs_int) <=> ofs_int + 1 = geo.words
    BY <1>4, <2>0, <2>1 DEF LastWord
  <2> QED
    BY <2>1, <2>3, <2>4
<1>6. /\ ofs_ext' = IF ofs_ext < geo.words THEN ofs_ext + 1 ELSE ofs_ext
      /\ ~answer.ack => state' = "S_READ_BURST" /\ ofs_int' = ofs_int
      /\ answer.ack => /\ ofs_int' = IF ofs_int + 1 = geo.words THEN 0 ELSE ofs_int + 1
                       /\ state' = IF ofs_int + 1 = geo.words THEN "S_READ_DONE" ELSE "S_READ_BURST"
  BY <1>1, <1>5 DEF ReadBurst, Inc, IncExt, More
<1>7. state' \in Loads
  BY <1>6 DEF Loads
<1>8. PICK req \in BusRequests :
        /\ Bus(req, answer)
        /\ ofs_ext < geo.words => req.stb /\ RequestOf(req, ofs_ext, "fetch")
        /\ ~(ofs_ext < geo.words) => ~req.stb
  <2>1. CASE ofs_ext < geo.words
    <3>1. PICK req \in BusRequests :
            req = Fetch(Outer(ofs_ext)) /\ req.stb /\ RequestOf(req, ofs_ext, "fetch")
      BY <2>1, FetchRequest
    <3> QED
      BY <1>2, <2>1, <3>1
  <2>2. CASE ~(ofs_ext < geo.words)
    <3>1. PICK req \in BusRequests : req = NoRequest /\ ~req.stb
      BY NoRequestIs
    <3> QED
      BY <1>2, <2>2, <3>1
  <2> QED
    BY <2>1, <2>2
<1>9. PICK n : n = IF answer.ack THEN ofs_int + 1 ELSE ofs_int
  OBVIOUS
<1>10. PICK q : q = owed'
  OBVIOUS
<1>11. /\ mem' = mem /\ truth' = truth /\ HostWaits
       /\ valid' = valid /\ dirty' = dirty /\ tags' = tags
       /\ RamsOK' /\ OutsideOK' /\ DataInv' /\ bus_err' \in BOOLEAN
       /\ answer.ack => Len(owed) > 0
       /\ Len(q) = Len(owed) - (IF answer.ack THEN 1 ELSE 0) + (IF req.stb THEN 1 ELSE 0)
       /\ Transfer(q, n, "fetch")'
       /\ Loaded(n)'
       /\ \A a \in Addresses : a.idx = idx => InPlace(a)'
  <2>1. ofs_int + Len(owed) = ofs_ext
    BY <1>4
  <2>2. req.stb => RequestOf(req, ofs_int + Len(owed), "fetch")
    BY <1>8, <2>1
  <2> QED
    BY <1>1, <1>2, <1>3, <1>7, <1>8, <1>9, <1>10, <2>2, LoadWord
<1>12. Len(owed') = (ofs_ext - ofs_int) - (IF answer.ack THEN 1 ELSE 0)
                      + (IF ofs_ext < geo.words THEN 1 ELSE 0)
  BY <1>4, <1>8, <1>10, <1>11
<1>13. Transfer(owed, n, "fetch")'
  BY <1>10, <1>11 DEF Transfer
<1>14. /\ ofs_ext' \in 0 .. 2 * geo.words - 1 /\ ofs_buf' \in 0 .. 2 * geo.words - 1
       /\ ofs_int' \in 0 .. geo.words - 1
  BY <1>2, <1>4, <1>6
<1>15. TypeOK'
  <2>1. EngineOK'
    BY <1>2, <1>3, <1>7, <1>11, <1>14, Rigid DEF TypeOK, EngineOK, States, Words
  <2> QED
    BY <2>1, <1>11 DEF TypeOK
<1>16. HostInv'
  BY <1>2, <1>3, <1>4, <1>7, <1>11 DEF HostInv, HostWaits, Loads, Stores, IsBypass
<1>17. LoadInv'
  <2>1. \A a \in Addresses' : a.idx = idx' => InPlace(a)'
    BY <1>2, <1>3, <1>11, Rigid
  <2>2. tag' = host'.addr.tag /\ ~pnd_bp'
    BY <1>3, <1>4, <1>11 DEF HostWaits
  <2>3. CASE state' = "S_READ_BURST"
    <3>1. n = ofs_int' /\ n \in Nat
      BY <1>4, <1>6, <1>9, <2>3
    <3>2. Transfer(owed, ofs_int, "fetch")' /\ Loaded(ofs_int)'
      BY <1>11, <1>13, <3>1
    <3>3. 1 <= ofs_int' /\ ofs_int' <= ofs_ext' /\ ofs_ext' <= geo'.words
      <4>1. answer.ack => ofs_int < ofs_ext
        BY <1>4, <1>11
      <4> QED
        BY <1>2, <1>4, <1>6, <1>14, <2>3, <4>1
    <3>4. Len(owed') = ofs_ext' - ofs_int'
      BY <1>4, <1>6, <1>12, <2>3
    <3> QED
      BY <2>1, <2>3, <3>2, <3>3, <3>4 DEF LoadInv
  <2>4. CASE state' = "S_READ_DONE"
    <3>1. n = geo.words
      BY <1>4, <1>6, <1>9, <2>4
    <3>2. Loaded(geo.words)'
      BY <1>2, <1>11, <3>1
    <3> QED
      BY <2>1, <2>4, <3>2 DEF LoadInv
  <2> QED
    BY <1>6, <2>3, <2>4
<1>18. CheckInv' /\ BypassInv' /\ StoreInv'
  BY <1>6, <1>7 DEF CheckInv, BypassInv, StoreInv, Loads, Stores
<1>19. QuietInv'
  <2>1. state' = "S_READ_DONE" => Len(owed') = 0
    <3>1. answer.ack => ofs_int < ofs_ext
      BY <1>4, <1>11
    <3> QED
      BY <1>4, <1>6, <1>12, <1>14, <3>1
  <2>2. state' = "S_READ_DONE" => owed' = <<>>
    BY <1>11, <2>1 DEF OutsideOK
  <2> QED
    BY <1>2, <1>4, <1>6, <2>2 DEF QuietInv
<1>20. SyncInv'
  BY <1>3, <1>4, <1>7 DEF SyncInv, Syncs, Loads
<1> QED
  BY <1>11, <1>15, <1>16, <1>17, <1>18, <1>19, <1>20

\* S_READ_DONE: the block becomes valid, or the host is told of an error.
LEMMA ReadDoneStep ==
  ASSUME CacheInv, NEW syn \in BOOLEAN, NEW answer \in Answers, ReadDone(syn, answer)
  PROVE  CacheInv'
<1> USE DEF CacheInv
<1> DEFINE i == host.addr.idx
<1>1. state = "S_READ_DONE" /\ owed = <<>>
  BY DEF ReadDone, QuietInv
<1>2. /\ Rams([Access(HostAddr) EXCEPT !.set = TRUE, !.vld = ~bus_err])
      /\ Bus(NoRequest, answer)
      /\ Truth(IF bus_err THEN Fault ELSE NoAnswer) /\ Host(IF bus_err THEN Fault ELSE NoAnswer)
      /\ ofs_buf' = ofs_ext /\ geo' = geo
  BY DEF ReadDone, Around
<1>3. /\ state' = IF bus_err THEN "S_IDLE" ELSE "S_CHECK"
      /\ pnd_req' \in BOOLEAN /\ pnd_syn' \in BOOLEAN
      /\ hit' /\ ~cln' /\ ~bp_req'
      /\ hit' \in BOOLEAN /\ cln' \in BOOLEAN /\ bp_req' \in BOOLEAN
      /\ pnd_req' => pnd_req \/ host.stb
      /\ UNCHANGED <<sync, bus_err, pnd_bp, tag, idx, ofs_int, ofs_ext, refused>>
  BY DEF ReadDone, Pending, TypeOK, EngineOK
<1>4. /\ tag = host.addr.tag /\ ~pnd_bp /\ idx = i /\ host.addr.tag # Uncached
      /\ host.on /\ ~host.stb /\ ~sync /\ (pnd_bp <=> IsBypass) /\ ~pnd_req
  BY <1>1 DEF HostInv, Loads, IsBypass
<1>5. /\ host \in Hosts /\ host.addr \in Addresses
      /\ i \in Blocks /\ host.addr.ofs \in Words /\ host.addr.tag \in AllTags
      /\ HostAddr = host.addr /\ bus_err \in BOOLEAN /\ geo.read_only \in BOOLEAN /\ RamsOK
  <2>1. host \in Hosts
    BY DEF TypeOK, OutsideOK
  <2>2. host.addr \in Addresses
    BY <2>1 DEF Hosts
  <2> QED
    BY <2>1, <2>2, AddressFields, GeometryOK DEF HostAddr, TypeOK, EngineOK
<1>6. /\ valid' = [valid EXCEPT ![i] = ~bus_err]
      /\ dirty' = IF geo.read_only THEN dirty ELSE [dirty EXCEPT ![i] = FALSE]
      /\ tags' = [tags EXCEPT ![i] = host.addr.tag]
      /\ data' = data
      /\ RamRead(HostAddr)
  BY <1>2, <1>5 DEF Rams, Access, RamRead
<1>7. owed' = <<>> /\ mem' = mem
  BY <1>1, <1>2, BusRests
<1>8. truth' = truth
  BY <1>1, <1>2 DEF Truth, Fault, NoAnswer
<1>9. IF bus_err THEN HostServed ELSE HostWaits
  <2>1. PICK rsp : rsp = IF bus_err THEN Fault ELSE NoAnswer
    OBVIOUS
  <2>2. Host(rsp) /\ rsp.ack \in BOOLEAN /\ (rsp.ack <=> bus_err)
    BY <1>2, <1>5, <2>1 DEF Fault, NoAnswer
  <2> QED
    BY <1>4, <2>2, HostStep
<1>10. TypeOK'
  <2>1. EngineOK'
    BY <1>2, <1>3, Rigid DEF TypeOK, EngineOK, States
  <2>2. RamsOK'
    <3>1. PICK a \in Addresses : a = HostAddr
      BY <1>5
    <3>2. rd' \in [valid : BOOLEAN, dirty : BOOLEAN, tag : AllTags, data : Int]
      BY <1>5, <1>6, <3>1, ReadTypes DEF RamRead
    <3> QED
      BY <1>2, <1>5, <1>6, <3>2, Rigid DEF RamsOK
  <2>3. OutsideOK'
    BY <1>2, <1>7, <1>8, <1>9, Rigid DEF TypeOK, OutsideOK, HostServed, HostWaits
  <2> QED
    BY <2>1, <2>2, <2>3 DEF TypeOK
<1>11. HostInv'
  <2>1. CASE bus_err
    BY <1>2, <1>3, <1>4, <1>9, <2>1 DEF HostInv, HostServed, Loads, Stores
  <2>2. CASE ~bus_err
    BY <1>2, <1>3, <1>4, <1>9, <2>2 DEF HostInv, HostWaits, Loads, Stores, IsBypass
  <2> QED
    BY <2>1, <2>2
<1>12. \A a \in Addresses : a.idx = i => InPlace(a)
  BY <1>1, <1>4 DEF LoadInv, Loads
<1>13. ~bus_err => \A o \in Words : data[i][o] = truth[Address(host.addr.tag, i, o)]
  <2>1. ASSUME ~bus_err, NEW o \in Words
        PROVE  data[i][o] = truth[Address(host.addr.tag, i, o)]
    <3>1. Address(host.addr.tag, i, o) \in Addresses /\ Address(host.addr.tag, i, o).idx = i
      BY <1>5, AddressIn
    <3>2. o < geo.words
      BY GeometryOK DEF Words, TypeOK, EngineOK
    <3>3. data[i][o] = mem[Address(host.addr.tag, i, o)]
      BY <1>1, <1>4, <2>1, <3>2 DEF LoadInv, Loaded
    <3> QED
      BY <1>12, <3>1, <3>3 DEF InPlace
  <2> QED
    BY <2>1
<1>14. DataInv'
  <2>1. ASSUME NEW j \in Blocks, valid'[j]
        PROVE  Holds(j)'
    <3>1. CASE j = i
      <4>1. ~bus_err /\ tags'[j] = host.addr.tag
        BY <1>5, <1>6, <2>1, <3>1 DEF RamsOK
      <4> QED
        BY <1>2, <1>4, <1>6, <1>8, <1>13, <3>1, <4>1, Rigid DEF Holds
    <3>2. CASE j # i
      <4>1. valid[j] /\ tags'[j] = tags[j]
        BY <1>5, <1>6, <2>1, <3>2 DEF RamsOK
      <4>2. Holds(j)
        BY <1>4, <3>2, <4>1 DEF DataInv
      <4> QED
        BY <1>2, <1>6, <1>8, <4>1, <4>2, Rigid DEF Holds
    <3> QED
      BY <3>1, <3>2
  <2>2. ASSUME NEW a \in Addresses
        PROVE  InPlace(a)' \/
                 (valid'[a.idx] /\ dirty'[a.idx] /\ tags'[a.idx] = a.tag /\ ~geo'.read_only)
    <3>1. a.idx \in Blocks
      BY AddressFields
    <3>2. CASE a.idx = i
      BY <1>7, <1>8, <1>12, <3>2 DEF InPlace
    <3>3. CASE a.idx # i
      <4>1. /\ valid'[a.idx] = valid[a.idx] /\ dirty'[a.idx] = dirty[a.idx]
            /\ tags'[a.idx] = tags[a.idx]
        BY <1>5, <1>6, <3>1, <3>3 DEF RamsOK
      <4> QED
        BY <1>2, <1>7, <1>8, <4>1 DEF DataInv, InPlace
    <3> QED
      BY <3>2, <3>3
  <2> QED
    BY <1>2, <2>1, <2>2, Rigid DEF DataInv
<1>15. CheckInv'
  <2>1. SUFFICES ASSUME ~bus_err PROVE CheckInv'
    BY <1>3 DEF CheckInv
  <2>2. host'.addr = host.addr
    BY <1>4, <1>9, <2>1 DEF HostWaits
  <2>3. valid'[i] /\ tags'[i] = host.addr.tag /\ rd'.data = data'[i][host.addr.ofs]
    BY <1>5, <1>6, <2>1 DEF RamsOK, RamRead
  <2> QED
    BY <1>3, <1>4, <2>2, <2>3 DEF CheckInv
<1>16. BypassInv' /\ LoadInv' /\ StoreInv'
  BY <1>3 DEF BypassInv, LoadInv, StoreInv, Loads, Stores
<1>17. QuietInv' /\ SyncInv'
  BY <1>3, <1>4, <1>7 DEF QuietInv, SyncInv, Syncs
<1> QED
  BY <1>10, <1>11, <1>14, <1>15, <1>16, <1>17

-------------------------------------------------------------------------------
(* Upload.                                                                   *)

\* A word of the block is sent.
LEMMA UploadRequest ==
  ASSUME TypeOK, NEW o \in Nat, o < geo.words, rd.data = data[idx][o]
  PROVE  \E req \in BusRequests :
           req = Upload(Outer(o)) /\ req.stb /\ RequestOf(req, o, "upload")
<1>1. Outer(o) \in Addresses /\ Outer(o) = Address(tag, idx, o)
  <2>1. o \in 0 .. geo.words - 1 /\ geo.words \in Nat /\ geo.words > 0
    BY GeometryOK DEF TypeOK, EngineOK
  <2>2. o % geo.words = o
    BY <2>1, Modulo
  <2> QED
    BY <2>1, <2>2, Addressed DEF Outer
<1>2. rd.data \in Int
  BY DEF TypeOK, RamsOK
<1>3. PICK req \in BusRequests : req = Upload(Outer(o))
  BY <1>1, <1>2, NoRequestIs DEF Upload, BusRequests
<1>4. /\ req.stb /\ req.rw /\ req.addr = Outer(o) /\ req.data = rd.data
      /\ req.amo = NoRequest.amo
  BY <1>1, <1>2, <1>3, NoRequestIs DEF Upload, BusRequests
<1> QED
  BY <1>1, <1>3, <1>4, NoRequestIs DEF RequestOf

\* What does not change during an upload.
LEMMA StoreKeeps ==
  ASSUME CacheInv, state \in Stores, state' \in Stores, RamsKept, HostWaits, geo' = geo,
         UNCHANGED <<sync, pnd_bp, idx, refused>>, pnd_req' => pnd_req \/ host.stb
  PROVE  /\ HostInv' /\ CheckInv' /\ BypassInv' /\ LoadInv' /\ SyncInv'
         /\ valid'[idx'] /\ dirty'[idx'] /\ ~geo'.read_only
         /\ ~sync' => pnd_bp' \/ tags'[idx'] # host'.addr.tag
<1> USE DEF CacheInv
<1>1. /\ valid[idx] /\ dirty[idx] /\ ~geo.read_only
      /\ ~sync => pnd_bp \/ tags[idx] # host.addr.tag
  BY DEF StoreInv
<1>2. ~sync => /\ host.on /\ ~host.stb /\ (pnd_bp <=> IsBypass)
               /\ ~pnd_req /\ idx = host.addr.idx
  BY DEF HostInv, Stores
<1>3. HostInv'
  BY <1>2 DEF HostInv, HostWaits, Loads, Stores, IsBypass
<1>4. CheckInv' /\ BypassInv' /\ LoadInv'
  BY DEF CheckInv, BypassInv, LoadInv, Loads, Stores
<1>5. SyncInv'
  <2>1. sync => Clean(idx)
    BY DEF SyncInv, Stores
  <2>2. sync' => Clean(idx)'
    BY <2>1, Rigid DEF Clean, RamsKept
  <2> QED
    BY <2>2 DEF SyncInv, Syncs, Stores
<1>6. ~sync' => pnd_bp' \/ tags'[idx'] # host'.addr.tag
  BY <1>1, <1>2 DEF RamsKept, HostWaits
<1> QED
  BY <1>1, <1>3, <1>4, <1>5, <1>6 DEF RamsKept

\* A clock in which an upload waits for the bus.
LEMMA UploadWord ==
  ASSUME CacheInv, NEW answer \in Answers, NEW req \in BusRequests,
         state \in {"S_WRITE_RSP", "S_WRITE_BURST"}, state' \in Stores,
         tag' = tag, idx' = idx, geo' = geo,
         bus_err' = IF answer.ack THEN Errors(answer) ELSE bus_err,
         RamsKept, Bus(req, answer), Truth(NoAnswer), Host(NoAnswer),
         req.stb => RequestOf(req, ofs_int + Len(owed), "upload"),
         NEW n, n = IF answer.ack THEN ofs_int + 1 ELSE ofs_int,
         NEW q, q = owed'
  PROVE  /\ truth' = truth /\ HostWaits
         /\ OutsideOK' /\ DataInv' /\ bus_err' \in BOOLEAN
         /\ answer.ack => Len(owed) > 0
         /\ Len(q) = Len(owed) - (IF answer.ack THEN 1 ELSE 0) + (IF req.stb THEN 1 ELSE 0)
         /\ Transfer(q, n, "upload")'
         /\ Stored(n)'
<1> USE DEF CacheInv
<1> DEFINE here == Address(tag, idx, ofs_int)
<1>1. /\ tag \in AllTags /\ idx \in Blocks /\ ofs_int \in Words /\ ofs_int \in Nat /\ RamsOK
      /\ here \in Addresses
  BY GeometryOK, AddressIn DEF TypeOK, EngineOK, Words
<1>2. answer.ack \in BOOLEAN /\ answer.err \in BOOLEAN /\ answer.data \in Int
  BY AnswerTypes
<1>3. /\ valid' = valid /\ dirty' = dirty /\ tags' = tags /\ data' = data
  BY DEF RamsKept
<1>4. Transfer(owed, ofs_int, "upload") /\ valid[idx] /\ tags[idx] = tag /\ Stored(ofs_int)
  BY DEF StoreInv, Stores
<1>5. /\ owed' \in Seq(BusRequests)
      /\ answer.ack => Len(owed) > 0
      /\ Len(q) = Len(owed) - (IF answer.ack THEN 1 ELSE 0) + (IF req.stb THEN 1 ELSE 0)
      /\ Transfer(q, n, "upload")
      /\ mem' = IF answer.ack /\ ~answer.err
                THEN [mem EXCEPT ![here] = data[idx][ofs_int]] ELSE mem
  <2>1. PICK kind \in Kinds : kind = "upload"
    BY DEF Kinds
  <2>2. PICK f \in Nat : f = ofs_int
    BY <1>1
  <2>3. Transfer(owed, f, kind) /\ (req.stb => RequestOf(req, f + Len(owed), kind))
    BY <1>4, <2>1, <2>2
  <2>4. /\ q \in Seq(BusRequests)
        /\ answer.ack => Len(owed) > 0
        /\ Len(q) = Len(owed) - (IF answer.ack THEN 1 ELSE 0) + (IF req.stb THEN 1 ELSE 0)
        /\ Transfer(q, IF answer.ack THEN f + 1 ELSE f, kind)
        /\ mem' = IF answer.ack /\ ~answer.err /\ kind = "upload"
                  THEN [mem EXCEPT ![Address(tag, idx, f)] = data[idx][f]] ELSE mem
    BY <2>3, TransferStep
  <2> QED
    BY <2>1, <2>2, <2>4
<1>6. truth' = truth
  BY DEF Truth, NoAnswer
<1>7. HostWaits
  <2>1. NoAnswer.ack = FALSE
    BY DEF NoAnswer
  <2>2. NoAnswer.ack \in BOOLEAN /\ ~NoAnswer.ack
    BY <2>1
  <2> QED
    BY <2>2, HostStep DEF HostInv
\* The word that goes to the memory is the truth.
<1>8. data[idx][ofs_int] = truth[here] /\ data[idx][ofs_int] \in Int
  BY <1>1, <1>4 DEF DataInv, Holds, Loads, RamsOK
<1>9. /\ \A a \in Addresses : InPlace(a) => InPlace(a)'
      /\ answer.ack /\ ~answer.err => mem'[here] = truth'[here]
  <2>1. PICK h \in Addresses : h = here
    BY <1>1
  <2>2. mem \in [Addresses -> Int] /\ truth' = truth
    BY <1>6 DEF TypeOK, OutsideOK
  <2>3. CASE answer.ack /\ ~answer.err
    <3>1. mem' = [mem EXCEPT ![h] = truth[h]]
      BY <1>5, <1>8, <2>1, <2>3
    <3>2. mem'[h] = truth'[h]
      BY <2>2, <3>1
    <3>3. \A a \in Addresses : a # h => mem'[a] = mem[a]
      BY <2>2, <3>1
    <3>4. \A a \in Addresses : InPlace(a) => InPlace(a)'
      BY <2>2, <3>2, <3>3 DEF InPlace
    <3> QED
      BY <2>1, <3>2, <3>4
  <2>4. CASE ~(answer.ack /\ ~answer.err)
    BY <1>5, <2>2, <2>4 DEF InPlace
  <2> QED
    BY <2>3, <2>4
<1>10. OutsideOK'
  <2>1. mem' \in [Addresses -> Int]
    BY <1>1, <1>5, <1>8 DEF TypeOK, OutsideOK
  <2> QED
    BY <1>5, <1>6, <1>7, <2>1, Rigid DEF TypeOK, OutsideOK, HostWaits
<1>11. DataInv'
  <2>1. ASSUME NEW i \in Blocks, valid[i]
        PROVE  Holds(i)'
    <3>1. Holds(i)
      BY <2>1 DEF DataInv, Loads
    <3> QED
      BY <1>3, <1>6, <3>1, Rigid DEF Holds
  <2>2. \A a \in Addresses : InPlace(a)' \/
          (valid'[a.idx] /\ dirty'[a.idx] /\ tags'[a.idx] = a.tag /\ ~geo'.read_only)
    BY <1>3, <1>9 DEF DataInv
  <2> QED
    BY <1>3, <2>1, <2>2, Rigid DEF DataInv
<1>12. Transfer(q, n, "upload")'
  BY <1>3, <1>5 DEF Transfer, RequestOf
<1>13. Stored(n)'
  <2>1. SUFFICES ASSUME ~bus_err', NEW o \in Words, o < n
                 PROVE  InPlace(Address(tag, idx, o))'
    BY Rigid DEF Stored, InPlace
  <2>2. Stored(ofs_int) /\ ~bus_err /\ (answer.ack => ~answer.err)
    BY <1>2, <1>4, <2>1 DEF Errors, TypeOK, EngineOK
  <2>3. Address(tag, idx, o) \in Addresses
    BY <1>1, AddressIn
  <2>4. CASE o = ofs_int
    <3>1. answer.ack
      BY <1>1, <2>1, <2>4
    <3>2. Address(tag, idx, o) = here
      BY <2>4
    <3>3. mem'[Address(tag, idx, o)] = truth'[Address(tag, idx, o)]
      BY <1>9, <2>2, <3>1, <3>2
    <3> QED
      BY <3>3 DEF InPlace, Address
  <2>5. CASE o # ofs_int
    <3>1. o < ofs_int
      BY <1>1, <2>1, <2>5 DEF Words
    <3> QED
      BY <1>9, <2>2, <2>3, <3>1 DEF Stored
  <2> QED
    BY <2>4, <2>5
<1>14. bus_err' \in BOOLEAN
  BY <1>2 DEF TypeOK, EngineOK, Errors
<1> QED
  BY <1>5, <1>6, <1>7, <1>10, <1>11, <1>12, <1>13, <1>14

\* S_WRITE_START: the tag of the block is kept, and its word read.
LEMMA WriteStartStep ==
  ASSUME CacheInv, NEW syn \in BOOLEAN, NEW answer \in Answers, WriteStart(syn, answer)
  PROVE  CacheInv'
<1> USE DEF CacheInv
<1>1. state = "S_WRITE_START" /\ state' = "S_WRITE_REQ" /\ owed = <<>>
  BY DEF WriteStart, QuietInv
<1>2. /\ Rams(Access(Inner)) /\ Bus(NoRequest, answer) /\ Truth(NoAnswer) /\ Host(NoAnswer)
      /\ ofs_buf' = ofs_ext /\ geo' = geo
  BY DEF WriteStart, Around
<1>3. RamsKept /\ RamRead(Inner) /\ RamsOK'
  BY <1>2, InnerRead
<1>4. owed' = <<>> /\ mem' = mem /\ truth' = truth /\ HostWaits /\ OutsideOK'
  BY <1>1, <1>2, QuietStep
<1>5. /\ pnd_req' \in BOOLEAN /\ pnd_syn' \in BOOLEAN
      /\ ~hit' /\ ~cln' /\ ~bp_req'
      /\ hit' \in BOOLEAN /\ cln' \in BOOLEAN /\ bp_req' \in BOOLEAN
      /\ pnd_req' => pnd_req \/ host.stb
      /\ UNCHANGED <<sync, bus_err, pnd_bp, idx, ofs_int, ofs_ext, refused>>
  BY DEF WriteStart, Pending, NoForce, TypeOK, EngineOK
<1>6. tag' = tags[idx] /\ tag' \in AllTags /\ (ofs_int # 0 => tag' = tag)
  BY <1>1 DEF WriteStart, EvictedTag, StoreInv, Stores, TypeOK, EngineOK, RamsOK
<1>7. TypeOK'
  <2>1. EngineOK'
    BY <1>1, <1>2, <1>5, <1>6, Rigid DEF TypeOK, EngineOK, States, Stores
  <2> QED
    BY <2>1, <1>3, <1>4 DEF TypeOK
<1>8. /\ HostInv' /\ CheckInv' /\ BypassInv' /\ LoadInv' /\ SyncInv'
      /\ valid'[idx'] /\ dirty'[idx'] /\ ~geo'.read_only
      /\ ~sync' => pnd_bp' \/ tags'[idx'] # host'.addr.tag
  BY <1>1, <1>2, <1>3, <1>4, <1>5, StoreKeeps DEF Stores
<1>9. DataInv'
  BY <1>1, <1>2, <1>3, <1>4, DataKept DEF Loads
<1>10. StoreInv'
  <2>1. tags'[idx'] = tag'
    BY <1>3, <1>5, <1>6 DEF RamsKept
  <2>2. Stored(ofs_int)'
    <3>1. CASE ofs_int = 0
      BY <1>2, <1>5, <3>1, Rigid DEF Stored, Words
    <3>2. CASE ofs_int # 0
      <4>1. Stored(ofs_int)
        BY <1>1, <3>2 DEF StoreInv
      <4> QED
        BY <1>2, <1>4, <1>5, <1>6, <3>2, <4>1, Rigid DEF Stored, InPlace
    <3> QED
      BY <3>1, <3>2
  <2>3. rd'.data = data'[idx'][ofs_int']
    BY <1>3, <1>5, Addressed DEF RamRead, RamsKept
  <2>4. ofs_int = ofs_ext /\ (geo.bursts => ofs_int = 0)
    BY <1>1 DEF StoreInv
  <2> QED
    BY <1>1, <1>2, <1>5, <1>8, <2>1, <2>2, <2>3, <2>4 DEF StoreInv, Stores
<1>11. QuietInv'
  BY <1>1, <1>4 DEF QuietInv
<1> QED
  BY <1>7, <1>8, <1>9, <1>10, <1>11

\* S_WRITE_REQ: the word is sent.
LEMMA WriteReqStep ==
  ASSUME CacheInv, NEW syn \in BOOLEAN, NEW answer \in Answers, WriteReq(syn, answer)
  PROVE  CacheInv'
<1> USE DEF CacheInv
<1>1. state = "S_WRITE_REQ" /\ state' = "S_WRITE_RSP" /\ owed = <<>>
  BY DEF WriteReq, QuietInv
<1>2. /\ Rams(Access(Inner)) /\ Bus(Upload(Outer(ofs_ext)), answer)
      /\ Truth(NoAnswer) /\ Host(NoAnswer) /\ ofs_buf' = ofs_ext /\ geo' = geo
  BY DEF WriteReq, Around
<1>3. RamsKept /\ RamRead(Inner) /\ RamsOK'
  BY <1>2, InnerRead
<1>4. /\ pnd_req' \in BOOLEAN /\ pnd_syn' \in BOOLEAN
      /\ ~hit' /\ ~cln' /\ ~bp_req'
      /\ hit' \in BOOLEAN /\ cln' \in BOOLEAN /\ bp_req' \in BOOLEAN
      /\ pnd_req' => pnd_req \/ host.stb
      /\ UNCHANGED <<sync, bus_err, pnd_bp, tag, idx, ofs_int, ofs_ext, refused>>
  BY DEF WriteReq, Pending, NoForce, TypeOK, EngineOK
<1>5. /\ ofs_ext = ofs_int /\ ofs_int \in Nat /\ ofs_int < geo.words /\ (geo.bursts => ofs_int = 0)
      /\ rd.data = data[idx][ofs_int] /\ tags[idx] = tag /\ Stored(ofs_int)
  BY <1>1, GeometryOK DEF StoreInv, Stores, TypeOK, EngineOK, Words
<1>6. PICK req \in BusRequests :
        req = Upload(Outer(ofs_ext)) /\ req.stb /\ RequestOf(req, ofs_int, "upload")
  <2>1. PICK o \in Nat : o = ofs_int
    BY <1>5
  <2>2. \E req \in BusRequests : req = Upload(Outer(o)) /\ req.stb /\ RequestOf(req, o, "upload")
    BY <1>5, <2>1, UploadRequest
  <2> QED
    BY <1>5, <2>1, <2>2
<1>7. /\ owed' = <<req>> /\ mem' = mem /\ truth' = truth /\ HostWaits /\ OutsideOK'
      /\ Len(owed') = 1 /\ owed'[1] = req
  BY <1>1, <1>2, <1>6, AskStep
<1>8. TypeOK'
  <2>1. EngineOK'
    BY <1>1, <1>2, <1>4, Rigid DEF TypeOK, EngineOK, States, Stores
  <2> QED
    BY <2>1, <1>3, <1>7 DEF TypeOK
<1>9. /\ HostInv' /\ CheckInv' /\ BypassInv' /\ LoadInv' /\ SyncInv'
      /\ valid'[idx'] /\ dirty'[idx'] /\ ~geo'.read_only
      /\ ~sync' => pnd_bp' \/ tags'[idx'] # host'.addr.tag
  BY <1>1, <1>2, <1>3, <1>4, <1>7, StoreKeeps DEF Stores
<1>10. DataInv'
  BY <1>1, <1>2, <1>3, <1>7, DataKept DEF Loads
<1>11. StoreInv'
  <2>1. Transfer(owed, ofs_int, "upload")'
    <3>1. RequestOf(req, ofs_int, "upload")'
      BY <1>3, <1>4, <1>6 DEF RequestOf, RamsKept
    <3>2. \A k \in 1 .. 1 : k = 1 /\ ofs_int' + k - 1 = ofs_int'
      BY <1>4, <1>5
    <3> QED
      BY <1>4, <1>7, <3>1, <3>2 DEF Transfer
  <2>2. Stored(ofs_int)'
    BY <1>2, <1>4, <1>5, <1>7, Rigid DEF Stored, InPlace
  <2>3. tags'[idx'] = tag'
    BY <1>3, <1>4, <1>5 DEF RamsKept
  <2> QED
    BY <1>1, <1>2, <1>4, <1>5, <1>7, <1>9, <2>1, <2>2, <2>3 DEF StoreInv, Stores
<1>12. QuietInv'
  BY <1>1 DEF QuietInv
<1> QED
  BY <1>8, <1>9, <1>10, <1>11, <1>12

\* S_WRITE_RSP: the memory takes a single word, or the first of a burst.
LEMMA WriteRspStep ==
  ASSUME CacheInv, NEW syn \in BOOLEAN, NEW answer \in Answers, WriteRsp(syn, answer)
  PROVE  CacheInv'
<1> USE DEF CacheInv
<1>1. state = "S_WRITE_RSP"
  BY DEF WriteRsp
<1>2. /\ Rams(Access(Inner)) /\ Bus(NoRequest, answer)
      /\ Truth(NoAnswer) /\ Host(NoAnswer) /\ ofs_buf' = ofs_ext /\ geo' = geo
  BY DEF WriteRsp, Around
<1>3. RamsKept /\ RamRead(Inner) /\ RamsOK'
  BY <1>2, InnerRead
<1>4. /\ pnd_req' \in BOOLEAN /\ pnd_syn' \in BOOLEAN
      /\ ~hit' /\ ~cln' /\ ~bp_req'
      /\ hit' \in BOOLEAN /\ cln' \in BOOLEAN /\ bp_req' \in BOOLEAN
      /\ pnd_req' => pnd_req \/ host.stb
      /\ UNCHANGED <<sync, pnd_bp, tag, idx, refused>>
      /\ bus_err' = IF answer.ack THEN Errors(answer) ELSE bus_err
  BY DEF WriteRsp, Pending, NoForce, TypeOK, EngineOK
<1>5. /\ ofs_ext = ofs_int /\ ofs_int \in 0 .. geo.words - 1 /\ geo.words \in Nat /\ geo.words > 0
      /\ (geo.bursts => ofs_int = 0 /\ geo.words > 1) /\ geo.bursts \in BOOLEAN
      /\ tags[idx] = tag /\ Len(owed) = 1
  BY <1>1, GeometryOK DEF StoreInv, Stores, TypeOK, EngineOK, Words
<1>6. /\ LastWord(ofs_int) <=> ofs_int + 1 = geo.words
      /\ (ofs_int + 1) % geo.words = IF ofs_int + 1 = geo.words THEN 0 ELSE ofs_int + 1
      /\ (ofs_ext + 1) % (2 * geo.words) = ofs_int + 1
  <2>1. /\ ofs_int % geo.words = ofs_int
        /\ (ofs_int + 1) % geo.words = IF ofs_int + 1 = geo.words THEN 0 ELSE ofs_int + 1
    BY <1>5, Modulo
  <2>2. 2 * geo.words \in Nat /\ 2 * geo.words > 0 /\ ofs_int \in 0 .. 2 * geo.words - 1
        /\ ofs_int + 1 # 2 * geo.words
    BY <1>5
  <2>3. (ofs_int + 1) % (2 * geo.words) = ofs_int + 1
    BY <2>2, Modulo
  <2> QED
    BY <1>5, <2>1, <2>3 DEF LastWord
<1>7. /\ ~answer.ack => state' = "S_WRITE_RSP" /\ ofs_int' = ofs_int /\ ofs_ext' = ofs_ext
      /\ answer.ack => /\ ofs_int' = IF ofs_int + 1 = geo.words THEN 0 ELSE ofs_int + 1
                       /\ ofs_ext' = ofs_int + 1
                       /\ state' = IF geo.bursts THEN "S_WRITE_WAIT"
                                   ELSE IF ofs_int + 1 = geo.words THEN "S_WRITE_DONE"
                                   ELSE "S_WRITE_START"
  BY <1>1, <1>6 DEF WriteRsp, Inc, IncExt
<1>8. state \in Stores /\ state' \in Stores
  BY <1>1, <1>7 DEF Stores
<1>9. PICK req \in BusRequests : req = NoRequest /\ ~req.stb
  BY NoRequestIs
<1>10. PICK n : n = IF answer.ack THEN ofs_int + 1 ELSE ofs_int
  OBVIOUS
<1>11. PICK q : q = owed'
  OBVIOUS
<1>12. /\ truth' = truth /\ HostWaits
       /\ OutsideOK' /\ DataInv' /\ bus_err' \in BOOLEAN
       /\ Len(q) = Len(owed) - (IF answer.ack THEN 1 ELSE 0) + (IF req.stb THEN 1 ELSE 0)
       /\ Transfer(q, n, "upload")'
       /\ Stored(n)'
  BY <1>1, <1>2, <1>3, <1>4, <1>8, <1>9, <1>10, <1>11, UploadWord
<1>13. Len(owed') = IF answer.ack THEN 0 ELSE 1
  BY <1>5, <1>9, <1>11, <1>12
<1>14. Transfer(owed, n, "upload")'
  BY <1>11, <1>12 DEF Transfer
<1>15. TypeOK'
  <2>1. EngineOK'
    BY <1>2, <1>4, <1>5, <1>7, <1>8, <1>12, Rigid DEF TypeOK, EngineOK, States, Words
  <2> QED
    BY <2>1, <1>3, <1>12 DEF TypeOK
<1>16. /\ HostInv' /\ CheckInv' /\ BypassInv' /\ LoadInv' /\ SyncInv'
       /\ valid'[idx'] /\ dirty'[idx'] /\ ~geo'.read_only
       /\ ~sync' => pnd_bp' \/ tags'[idx'] # host'.addr.tag
  BY <1>2, <1>3, <1>4, <1>8, <1>12, StoreKeeps
<1>17. tags'[idx'] = tag'
  BY <1>3, <1>4, <1>5 DEF RamsKept
<1>18. StoreInv'
  <2>1. CASE ~answer.ack
    <3>1. n = ofs_int' /\ state' = "S_WRITE_RSP"
      BY <1>7, <1>10, <2>1
    <3>2. Transfer(owed, ofs_int, "upload")' /\ Stored(ofs_int)'
      BY <1>12, <1>14, <3>1
    <3> QED
      BY <1>2, <1>5, <1>7, <1>13, <1>16, <1>17, <2>1, <3>1, <3>2 DEF StoreInv
  <2>2. CASE answer.ack /\ geo.bursts
    <3>1. n = ofs_int' /\ state' = "S_WRITE_WAIT" /\ ofs_int' = 1 /\ ofs_ext' = 1
      BY <1>5, <1>7, <1>10, <2>2
    <3>2. Stored(ofs_int)'
      BY <1>12, <3>1
    <3> QED
      BY <1>16, <1>17, <3>1, <3>2 DEF StoreInv
  <2>3. CASE answer.ack /\ ~geo.bursts /\ ofs_int + 1 # geo.words
    <3>1. n = ofs_int' /\ state' = "S_WRITE_START" /\ ofs_ext' = ofs_int' /\ ofs_int' # 0
      BY <1>5, <1>7, <1>10, <2>3
    <3>2. Stored(ofs_int)'
      BY <1>12, <3>1
    <3> QED
      BY <1>2, <1>16, <1>17, <2>3, <3>1, <3>2 DEF StoreInv
  <2>4. CASE answer.ack /\ ~geo.bursts /\ ofs_int + 1 = geo.words
    <3>1. n = geo.words /\ state' = "S_WRITE_DONE"
      BY <1>7, <1>10, <2>4
    <3>2. Stored(geo.words)'
      BY <1>2, <1>12, <3>1
    <3> QED
      BY <1>16, <1>17, <3>1, <3>2 DEF StoreInv
  <2> QED
    BY <2>1, <2>2, <2>3, <2>4
<1>19. QuietInv'
  <2>1. answer.ack => owed' = <<>>
    BY <1>12, <1>13 DEF OutsideOK
  <2> QED
    BY <1>2, <1>5, <1>7, <2>1 DEF QuietInv
<1> QED
  BY <1>12, <1>15, <1>16, <1>18, <1>19

\* S_WRITE_WAIT: the second word of a burst is read.
LEMMA WriteWaitStep ==
  ASSUME CacheInv, NEW syn \in BOOLEAN, NEW answer \in Answers, WriteWait(syn, answer)
  PROVE  CacheInv'
<1> USE DEF CacheInv
<1>1. state = "S_WRITE_WAIT" /\ state' = "S_WRITE_BURST" /\ owed = <<>>
  BY DEF WriteWait, QuietInv
<1>2. /\ Rams(Access(Outer(ofs_ext))) /\ Bus(NoRequest, answer)
      /\ Truth(NoAnswer) /\ Host(NoAnswer) /\ ofs_buf' = ofs_ext /\ geo' = geo
  BY DEF WriteWait, Around
<1>3. RamsKept /\ RamRead(Outer(ofs_ext)) /\ RamsOK'
  BY <1>2, OuterRead
<1>4. owed' = <<>> /\ mem' = mem /\ truth' = truth /\ HostWaits /\ OutsideOK'
  BY <1>1, <1>2, QuietStep
<1>5. /\ pnd_req' \in BOOLEAN /\ pnd_syn' \in BOOLEAN
      /\ ~hit' /\ ~cln' /\ ~bp_req'
      /\ hit' \in BOOLEAN /\ cln' \in BOOLEAN /\ bp_req' \in BOOLEAN
      /\ pnd_req' => pnd_req \/ host.stb
      /\ UNCHANGED <<sync, bus_err, pnd_bp, tag, idx, ofs_int, refused>>
  BY DEF WriteWait, Pending, NoForce, TypeOK, EngineOK
<1>6. /\ ofs_int = 1 /\ ofs_ext = 1 /\ geo.words \in Nat /\ geo.words > 1 /\ geo.bursts
      /\ tags[idx] = tag /\ Stored(ofs_int)
  BY <1>1, GeometryOK DEF StoreInv, Stores, QuietInv, TypeOK, EngineOK
<1>7. 1 % geo.words = 1 /\ ofs_ext' = 2
  <2>1. geo.words > 0 /\ 1 \in 0 .. geo.words - 1
    BY <1>6
  <2>2. 1 % geo.words = 1
    BY <1>6, <2>1, Modulo
  <2>3. 2 * geo.words \in Nat /\ 2 * geo.words > 0 /\ 1 \in 0 .. 2 * geo.words - 1
        /\ 1 + 1 # 2 * geo.words
    BY <1>6
  <2>4. (1 + 1) % (2 * geo.words) = 1 + 1
    BY <2>3, Modulo
  <2> QED
    BY <1>6, <2>2, <2>4 DEF WriteWait, IncExt
<1>8. TypeOK'
  <2>1. EngineOK'
    BY <1>1, <1>2, <1>5, <1>6, <1>7, Rigid DEF TypeOK, EngineOK, States, Stores
  <2> QED
    BY <2>1, <1>3, <1>4 DEF TypeOK
<1>9. /\ HostInv' /\ CheckInv' /\ BypassInv' /\ LoadInv' /\ SyncInv'
      /\ valid'[idx'] /\ dirty'[idx'] /\ ~geo'.read_only
      /\ ~sync' => pnd_bp' \/ tags'[idx'] # host'.addr.tag
  BY <1>1, <1>2, <1>3, <1>4, <1>5, StoreKeeps DEF Stores
<1>10. DataInv'
  BY <1>1, <1>2, <1>3, <1>4, DataKept DEF Loads
<1>11. StoreInv'
  <2>1. rd'.data = data'[idx'][ofs_buf']
    BY <1>2, <1>3, <1>5, <1>6, <1>7 DEF RamRead, RamsKept, Outer, Address
  <2>2. Stored(ofs_int)'
    BY <1>2, <1>4, <1>5, <1>6, Rigid DEF Stored, InPlace
  <2>3. tags'[idx'] = tag'
    BY <1>3, <1>5, <1>6 DEF RamsKept
  <2>4. Len(owed') = 0 /\ Transfer(owed, ofs_int, "upload")'
    BY <1>4 DEF Transfer
  <2>5. Least(ofs_buf', geo'.words) - ofs_int' = 0
    BY <1>2, <1>5, <1>6 DEF Least
  <2>6. /\ 1 <= ofs_int' /\ ofs_int' <= ofs_buf'
        /\ ofs_buf' <= geo'.words /\ ofs_ext' = ofs_buf' + 1
    BY <1>2, <1>5, <1>6, <1>7
  <2> QED
    BY <1>1, <1>9, <2>1, <2>2, <2>3, <2>4, <2>5, <2>6 DEF StoreInv
<1>12. QuietInv'
  BY <1>1, <1>2, <1>6 DEF QuietInv
<1> QED
  BY <1>8, <1>9, <1>10, <1>11, <1>12

\* S_WRITE_BURST: words are taken while others are read and sent.
LEMMA WriteBurstStep ==
  ASSUME CacheInv, NEW syn \in BOOLEAN, NEW answer \in Answers, WriteBurst(syn, answer)
  PROVE  CacheInv'
<1> USE DEF CacheInv
<1>1. state = "S_WRITE_BURST"
  BY DEF WriteBurst
<1>2. /\ Rams(Access(Outer(ofs_ext)))
      /\ ofs_buf < geo.words => Bus(Upload(Outer(ofs_buf)), answer)
      /\ ~(ofs_buf < geo.words) => Bus(NoRequest, answer)
      /\ Truth(NoAnswer) /\ Host(NoAnswer) /\ ofs_buf' = ofs_ext /\ geo' = geo
  <2>1. Around(Access(Outer(ofs_ext)), NoAnswer,
               IF More(ofs_buf) THEN Upload(Outer(ofs_buf)) ELSE NoRequest, answer)
    BY DEF WriteBurst
  <2>2. CASE ofs_buf < geo.words
    BY <2>1, <2>2 DEF Around, More
  <2>3. CASE ~(ofs_buf < geo.words)
    BY <2>1, <2>3 DEF Around, More
  <2> QED
    BY <2>2, <2>3
<1>3. RamsKept /\ RamRead(Outer(ofs_ext)) /\ RamsOK'
  BY <1>2, OuterRead
<1>4. /\ pnd_req' \in BOOLEAN /\ pnd_syn' \in BOOLEAN
      /\ ~hit' /\ ~cln' /\ ~bp_req'
      /\ hit' \in BOOLEAN /\ cln' \in BOOLEAN /\ bp_req' \in BOOLEAN
      /\ pnd_req' => pnd_req \/ host.stb
      /\ UNCHANGED <<sync, pnd_bp, tag, idx, refused>>
      /\ bus_err' = IF answer.ack THEN Errors(answer) ELSE bus_err
  BY DEF WriteBurst, Pending, NoForce, TypeOK, EngineOK
<1>5. PICK asked : asked = Least(ofs_buf, geo.words)
  OBVIOUS
<1>6. /\ geo.words \in Nat /\ geo.words > 1 /\ geo.bursts
      /\ ofs_int \in 1 .. geo.words - 1 /\ ofs_ext \in Nat /\ ofs_buf \in Nat
      /\ ofs_int <= ofs_buf
      /\ \/ ofs_buf <= geo.words /\ ofs_ext = ofs_buf + 1
         \/ ofs_buf = geo.words + 1 /\ ofs_ext = ofs_buf
      /\ ofs_buf < geo.words => rd.data = data[idx][ofs_buf]
      /\ Len(owed) = asked - ofs_int
      /\ tags[idx] = tag
  BY <1>1, <1>5, GeometryOK DEF StoreInv, Stores, QuietInv, TypeOK, EngineOK, Words
<1>7. asked = IF ofs_buf < geo.words THEN ofs_buf ELSE geo.words
  BY <1>5 DEF Least
<1>8. /\ LastWord(ofs_int) <=> ofs_int + 1 = geo.words
      /\ (ofs_int + 1) % geo.words = IF ofs_int + 1 = geo.words THEN 0 ELSE ofs_int + 1
      /\ ofs_buf < geo.words => (ofs_ext + 1) % (2 * geo.words) = ofs_ext + 1
  <2>0. ofs_int \in 0 .. geo.words - 1 /\ geo.words > 0
    BY <1>6
  <2>1. /\ ofs_int % geo.words = ofs_int
        /\ (ofs_int + 1) % geo.words = IF ofs_int + 1 = geo.words THEN 0 ELSE ofs_int + 1
    BY <1>6, <2>0, Modulo
  <2>2. ASSUME ofs_buf < geo.words
        PROVE  (ofs_ext + 1) % (2 * geo.words) = ofs_ext + 1
    <3>1. 2 * geo.words \in Nat /\ 2 * geo.words > 0 /\ ofs_ext \in 0 .. 2 * geo.words - 1
          /\ ofs_ext + 1 # 2 * geo.words
      BY <1>6, <2>2
    <3> QED
      BY <3>1, Modulo
  <2>3. LastWord(ofs_int) <=> ofs_int + 1 = geo.words
    BY <1>6, <2>0, <2>1 DEF LastWord
  <2> QED
    BY <2>1, <2>2, <2>3
<1>9. /\ ofs_ext' = IF ofs_buf < geo.words THEN ofs_ext + 1 ELSE ofs_ext
      /\ ~answer.ack => state' = "S_WRITE_BURST" /\ ofs_int' = ofs_int
      /\ answer.ack => /\ ofs_int' = IF ofs_int + 1 = geo.words THEN 0 ELSE ofs_int + 1
                       /\ state' = IF ofs_int + 1 = geo.words THEN "S_WRITE_DONE"
                                   ELSE "S_WRITE_BURST"
  BY <1>1, <1>8 DEF WriteBurst, Inc, IncExt, More
<1>10. state \in Stores /\ state' \in Stores
  BY <1>1, <1>9 DEF Stores
<1>11. PICK req \in BusRequests :
         /\ Bus(req, answer)
         /\ ofs_buf < geo.words => req.stb /\ RequestOf(req, ofs_buf, "upload")
         /\ ~(ofs_buf < geo.words) => ~req.stb
  <2>1. CASE ofs_buf < geo.words
    <3>1. PICK o \in Nat : o = ofs_buf
      BY <1>6
    <3>2. PICK req \in BusRequests :
            req = Upload(Outer(o)) /\ req.stb /\ RequestOf(req, o, "upload")
      BY <1>6, <2>1, <3>1, UploadRequest
    <3> QED
      BY <1>2, <2>1, <3>1, <3>2
  <2>2. CASE ~(ofs_buf < geo.words)
    <3>1. PICK req \in BusRequests : req = NoRequest /\ ~req.stb
      BY NoRequestIs
    <3> QED
      BY <1>2, <2>2, <3>1
  <2> QED
    BY <2>1, <2>2
<1>12. PICK n : n = IF answer.ack THEN ofs_int + 1 ELSE ofs_int
  OBVIOUS
<1>13. PICK q : q = owed'
  OBVIOUS
<1>14. /\ truth' = truth /\ HostWaits
       /\ OutsideOK' /\ DataInv' /\ bus_err' \in BOOLEAN
       /\ answer.ack => Len(owed) > 0
       /\ Len(q) = Len(owed) - (IF answer.ack THEN 1 ELSE 0) + (IF req.stb THEN 1 ELSE 0)
       /\ Transfer(q, n, "upload")'
       /\ Stored(n)'
  <2>1. ofs_buf < geo.words => ofs_int + Len(owed) = ofs_buf
    BY <1>6, <1>7
  <2>2. req.stb => RequestOf(req, ofs_int + Len(owed), "upload")
    BY <1>11, <2>1
  <2> QED
    BY <1>1, <1>2, <1>3, <1>4, <1>10, <1>11, <1>12, <1>13, <2>2, UploadWord
<1>15. Len(owed') = (asked - ofs_int) - (IF answer.ack THEN 1 ELSE 0)
                      + (IF ofs_buf < geo.words THEN 1 ELSE 0)
  BY <1>6, <1>11, <1>13, <1>14
<1>16. Transfer(owed, n, "upload")'
  BY <1>13, <1>14 DEF Transfer
<1>17. answer.ack => ofs_int < asked
  BY <1>6, <1>7, <1>14
<1>18. /\ ofs_ext' \in 0 .. 2 * geo.words - 1 /\ ofs_buf' \in 0 .. 2 * geo.words - 1
       /\ ofs_int' \in 0 .. geo.words - 1
  BY <1>2, <1>6, <1>9
<1>19. TypeOK'
  <2>1. EngineOK'
    BY <1>2, <1>4, <1>10, <1>14, <1>18, Rigid DEF TypeOK, EngineOK, States, Words
  <2> QED
    BY <2>1, <1>3, <1>14 DEF TypeOK
<1>20. /\ HostInv' /\ CheckInv' /\ BypassInv' /\ LoadInv' /\ SyncInv'
       /\ valid'[idx'] /\ dirty'[idx'] /\ ~geo'.read_only
       /\ ~sync' => pnd_bp' \/ tags'[idx'] # host'.addr.tag
  BY <1>2, <1>3, <1>4, <1>10, <1>14, StoreKeeps
<1>21. tags'[idx'] = tag'
  BY <1>3, <1>4, <1>6 DEF RamsKept
<1>22. StoreInv'
  <2>1. CASE state' = "S_WRITE_BURST"
    <3>1. n = ofs_int' /\ ofs_int' = IF answer.ack THEN ofs_int + 1 ELSE ofs_int
      BY <1>6, <1>9, <1>12, <2>1
    <3>2. Transfer(owed, ofs_int, "upload")' /\ Stored(ofs_int)'
      BY <1>14, <1>16, <3>1
    <3>3. /\ 1 <= ofs_int' /\ ofs_int' <= ofs_buf'
          /\ \/ ofs_buf' <= geo'.words /\ ofs_ext' = ofs_buf' + 1
             \/ ofs_buf' = geo'.words + 1 /\ ofs_ext' = ofs_buf'
      BY <1>2, <1>6, <1>7, <1>9, <1>17, <3>1
    <3>4. ofs_buf' < geo'.words => rd'.data = data'[idx'][ofs_buf']
      <4>1. SUFFICES ASSUME ofs_ext < geo.words PROVE rd'.data = data'[idx'][ofs_ext]
        BY <1>2
      <4>2. ofs_ext \in 0 .. geo.words - 1 /\ geo.words > 0
        BY <1>6, <4>1
      <4>3. ofs_ext % geo.words = ofs_ext
        BY <1>6, <4>2, Modulo
      <4> QED
        BY <1>3, <1>4, <4>3 DEF RamRead, RamsKept, Outer, Address
    <3>5. Len(owed') = Least(ofs_buf', geo'.words) - ofs_int'
      <4>1. Least(ofs_buf', geo'.words) = IF ofs_buf < geo.words THEN asked + 1 ELSE asked
        BY <1>2, <1>6, <1>7 DEF Least
      <4> QED
        BY <1>6, <1>7, <1>15, <3>1, <4>1
    <3> QED
      BY <1>20, <1>21, <2>1, <3>2, <3>3, <3>4, <3>5 DEF StoreInv
  <2>2. CASE state' = "S_WRITE_DONE"
    <3>1. n = geo.words
      BY <1>6, <1>9, <1>12, <2>2
    <3>2. Stored(geo.words)'
      BY <1>2, <1>14, <3>1
    <3> QED
      BY <1>20, <1>21, <2>2, <3>2 DEF StoreInv
  <2> QED
    BY <1>9, <2>1, <2>2
<1>23. QuietInv'
  <2>1. state' = "S_WRITE_DONE" => Len(owed') = 0
    BY <1>6, <1>7, <1>9, <1>15, <1>17
  <2>2. state' = "S_WRITE_DONE" => owed' = <<>>
    BY <1>14, <2>1 DEF OutsideOK
  <2> QED
    BY <1>2, <1>6, <1>9, <2>2 DEF QuietInv
<1> QED
  BY <1>14, <1>19, <1>20, <1>22, <1>23

\* A block that the memory has taken is in its place.
LEMMA BlockStored ==
  ASSUME CacheInv, state = "S_WRITE_DONE", ~bus_err
  PROVE  \A a \in Addresses : a.idx = idx => InPlace(a)
<1> USE DEF CacheInv
<1>1. tags[idx] = tag /\ Stored(geo.words)
  BY DEF StoreInv, Stores
<1>2. ASSUME NEW a \in Addresses, a.idx = idx
      PROVE  InPlace(a)
  <2>1. a.ofs \in Words /\ a = Address(a.tag, a.idx, a.ofs)
    BY AddressFields
  <2>2. a.ofs < geo.words
    BY <2>1, GeometryOK DEF Words, TypeOK, EngineOK
  <2>3. CASE a.tag = tag
    BY <1>1, <1>2, <2>1, <2>2, <2>3 DEF Stored
  <2>4. CASE a.tag # tag
    BY <1>1, <1>2, <2>4 DEF DataInv
  <2> QED
    BY <2>3, <2>4
<1> QED
  BY <1>2

\* S_WRITE_DONE: for a synchronisation or an access, with or without an error.
LEMMA WriteDoneFacts ==
  ASSUME CacheInv, NEW syn \in BOOLEAN, NEW answer \in Answers, WriteDone(syn, answer)
  PROVE  /\ state = "S_WRITE_DONE" /\ owed' = <<>> /\ mem' = mem
         /\ ofs_buf' = ofs_ext /\ geo' = geo
         /\ pnd_req' \in BOOLEAN /\ pnd_syn' \in BOOLEAN
         /\ ~hit' /\ cln' /\ ~bp_req'
         /\ hit' \in BOOLEAN /\ cln' \in BOOLEAN /\ bp_req' \in BOOLEAN
         /\ pnd_req' => pnd_req \/ host.stb
         /\ UNCHANGED <<sync, bus_err, pnd_bp, tag, idx, ofs_int, ofs_ext, refused>>
         /\ sync => Rams(Access(Inner)) /\ state' = "S_SYNC_NEXT"
         /\ ~sync => /\ Rams([Access(Inner) EXCEPT !.set = TRUE, !.vld = ~bus_err])
                     /\ state' = IF bus_err THEN "S_IDLE" ELSE "S_CHECK"
         /\ ~sync /\ bus_err => Truth(Fault) /\ Host(Fault)
         /\ sync \/ ~bus_err => Truth(NoAnswer) /\ Host(NoAnswer)
         /\ Bus(NoRequest, answer)
<1> USE DEF CacheInv
<1>1. state = "S_WRITE_DONE" /\ owed = <<>>
  BY DEF WriteDone, QuietInv
<1>2. sync \in BOOLEAN /\ bus_err \in BOOLEAN
  BY DEF TypeOK, EngineOK
<1>3. /\ Rams(IF sync THEN Access(Inner) ELSE [Access(Inner) EXCEPT !.set = TRUE, !.vld = ~bus_err])
      /\ Bus(NoRequest, answer)
      /\ Truth(IF ~sync /\ bus_err THEN Fault ELSE NoAnswer)
      /\ Host(IF ~sync /\ bus_err THEN Fault ELSE NoAnswer)
      /\ ofs_buf' = ofs_ext /\ geo' = geo
  BY DEF WriteDone, Around
<1>4. owed' = <<>> /\ mem' = mem
  BY <1>1, <1>3, BusRests
<1>5. /\ pnd_req' \in BOOLEAN /\ pnd_syn' \in BOOLEAN
      /\ ~hit' /\ cln' /\ ~bp_req'
      /\ hit' \in BOOLEAN /\ cln' \in BOOLEAN /\ bp_req' \in BOOLEAN
      /\ pnd_req' => pnd_req \/ host.stb
      /\ UNCHANGED <<sync, bus_err, pnd_bp, tag, idx, ofs_int, ofs_ext, refused>>
  BY DEF WriteDone, Pending, TypeOK, EngineOK
<1>6. state' = IF sync THEN "S_SYNC_NEXT" ELSE IF bus_err THEN "S_IDLE" ELSE "S_CHECK"
  BY DEF WriteDone
<1>7. CASE sync
  BY <1>1, <1>3, <1>4, <1>5, <1>6, <1>7
<1>8. CASE ~sync /\ bus_err
  BY <1>1, <1>3, <1>4, <1>5, <1>6, <1>8
<1>9. CASE ~sync /\ ~bus_err
  BY <1>1, <1>3, <1>4, <1>5, <1>6, <1>9
<1> QED
  BY <1>2, <1>7, <1>8, <1>9

\* The write-back belongs to a synchronisation.
LEMMA WriteDoneSync ==
  ASSUME CacheInv, NEW syn \in BOOLEAN, NEW answer \in Answers, WriteDone(syn, answer), sync
  PROVE  CacheInv'
<1> USE DEF CacheInv
<1>1. /\ state = "S_WRITE_DONE" /\ owed = <<>> /\ state' = "S_SYNC_NEXT"
      /\ Rams(Access(Inner)) /\ Bus(NoRequest, answer) /\ Truth(NoAnswer) /\ Host(NoAnswer)
      /\ ofs_buf' = ofs_ext /\ geo' = geo
      /\ pnd_req' \in BOOLEAN /\ pnd_syn' \in BOOLEAN /\ ~bp_req'
      /\ hit' \in BOOLEAN /\ cln' \in BOOLEAN /\ bp_req' \in BOOLEAN
      /\ pnd_req' => pnd_req \/ host.stb
      /\ UNCHANGED <<sync, bus_err, pnd_bp, tag, idx, ofs_int, ofs_ext, refused>>
  BY WriteDoneFacts DEF QuietInv
<1>2. RamsKept /\ RamsOK'
  BY <1>1, InnerRead
<1>3. owed' = <<>> /\ mem' = mem /\ truth' = truth /\ HostWaits /\ OutsideOK'
  BY <1>1, QuietStep
<1>4. TypeOK'
  <2>1. EngineOK'
    BY <1>1, Rigid DEF TypeOK, EngineOK, States, Syncs
  <2> QED
    BY <2>1, <1>2, <1>3 DEF TypeOK
<1>5. HostInv'
  BY <1>1, <1>3 DEF HostInv, HostWaits, Loads, Stores
<1>6. DataInv'
  BY <1>1, <1>2, <1>3, DataKept DEF Loads
<1>7. CheckInv' /\ BypassInv' /\ LoadInv' /\ StoreInv'
  BY <1>1 DEF CheckInv, BypassInv, LoadInv, StoreInv, Loads, Stores
<1>8. QuietInv'
  BY <1>1, <1>3 DEF QuietInv
<1>9. SyncInv'
  <2>1. sync' /\ Clean(idx)'
    BY <1>1, <1>2, Rigid DEF SyncInv, Clean, RamsKept
  <2>2. bus_err => valid'[idx'] /\ dirty'[idx'] /\ tags'[idx'] = tag'
    BY <1>1, <1>2 DEF StoreInv, Stores, RamsKept
  <2>3. ~bus_err => \A a \in Addresses' : a.idx = idx' => InPlace(a)'
    BY <1>1, <1>3, BlockStored, Rigid DEF InPlace
  <2> QED
    BY <1>1, <2>1, <2>2, <2>3 DEF SyncInv, Syncs
<1> QED
  BY <1>4, <1>5, <1>6, <1>7, <1>8, <1>9

\* What the end of a write-back for an access knows.
LEMMA WriteDoneAccess ==
  ASSUME CacheInv, NEW syn \in BOOLEAN, NEW answer \in Answers, WriteDone(syn, answer), ~sync
  PROVE  /\ host.on /\ ~host.stb /\ ~pnd_req /\ (pnd_bp <=> IsBypass) /\ idx = host.addr.idx
         /\ valid[idx] /\ dirty[idx] /\ ~geo.read_only /\ tags[idx] = tag
         /\ pnd_bp \/ tag # host.addr.tag
         /\ idx \in Blocks /\ tag \in AllTags
         /\ valid' = [valid EXCEPT ![idx] = ~bus_err]
         /\ dirty' = [dirty EXCEPT ![idx] = FALSE]
         /\ tags' = tags /\ data' = data
         /\ rd'.valid /\ rd'.tag = tag
         /\ RamsOK'
<1> USE DEF CacheInv
<1>1. state = "S_WRITE_DONE" /\ geo' = geo
      /\ Rams([Access(Inner) EXCEPT !.set = TRUE, !.vld = ~bus_err])
  BY WriteDoneFacts
<1>2. /\ host.on /\ ~host.stb /\ ~pnd_req /\ (pnd_bp <=> IsBypass) /\ idx = host.addr.idx
      /\ valid[idx] /\ dirty[idx] /\ ~geo.read_only /\ tags[idx] = tag
      /\ pnd_bp \/ tag # host.addr.tag
  BY <1>1 DEF HostInv, StoreInv, Stores
<1>3. /\ idx \in Blocks /\ tag \in AllTags /\ bus_err \in BOOLEAN /\ RamsOK
      /\ Inner.tag = tag /\ Inner.idx = idx
  BY Addressed DEF TypeOK, EngineOK
<1>4. /\ valid' = [valid EXCEPT ![idx] = ~bus_err]
      /\ dirty' = [dirty EXCEPT ![idx] = FALSE]
      /\ tags' = [tags EXCEPT ![idx] = tag]
      /\ data' = data
      /\ RamRead(Inner)
  BY <1>1, <1>2, <1>3 DEF Rams, Access, RamRead
<1>5. tags' = tags
  BY <1>2, <1>3, <1>4 DEF RamsOK
<1>6. rd' \in [valid : BOOLEAN, dirty : BOOLEAN, tag : AllTags, data : Int]
  <2>1. PICK a \in Addresses : a = Inner
    BY Addressed
  <2>2. RamRead(a)
    BY <1>4, <2>1 DEF RamRead
  <2> QED
    BY <1>3, <2>2, ReadTypes
<1>7. RamsOK'
  BY <1>1, <1>3, <1>4, <1>5, <1>6, Rigid DEF RamsOK
<1>8. rd'.valid /\ rd'.tag = tag
  BY <1>2, <1>3, <1>4 DEF RamRead
<1> QED
  BY <1>2, <1>3, <1>4, <1>5, <1>7, <1>8

\* The memory refused the block: the host is told, and the block is lost.
LEMMA WriteDoneLost ==
  ASSUME CacheInv, NEW syn \in BOOLEAN, NEW answer \in Answers, WriteDone(syn, answer),
         ~sync, bus_err
  PROVE  CacheInv'
<1> USE DEF CacheInv
<1>1. /\ state = "S_WRITE_DONE" /\ owed' = <<>> /\ mem' = mem /\ state' = "S_IDLE"
      /\ Truth(Fault) /\ Host(Fault)
      /\ ofs_buf' = ofs_ext /\ geo' = geo
      /\ pnd_req' \in BOOLEAN /\ pnd_syn' \in BOOLEAN
      /\ hit' \in BOOLEAN /\ cln' \in BOOLEAN /\ bp_req' \in BOOLEAN
      /\ pnd_req' => pnd_req \/ host.stb
      /\ UNCHANGED <<sync, bus_err, pnd_bp, tag, idx, ofs_int, ofs_ext, refused>>
  BY WriteDoneFacts
<1>2. /\ host.on /\ ~host.stb /\ ~pnd_req
      /\ tags[idx] = tag
      /\ idx \in Blocks /\ tag \in AllTags
      /\ valid' = [valid EXCEPT ![idx] = ~bus_err]
      /\ dirty' = [dirty EXCEPT ![idx] = FALSE]
      /\ tags' = tags /\ data' = data
      /\ RamsOK'
  BY WriteDoneAccess
<1>3. truth' = [a \in Addresses |-> IF a.tag = tag /\ a.idx = idx THEN mem[a] ELSE truth[a]]
  BY <1>1 DEF Truth, Fault
<1>4. HostServed
  <2>1. Fault.ack = TRUE
    BY DEF Fault
  <2>2. Fault.ack \in BOOLEAN /\ Fault.ack
    BY <2>1
  <2> QED
    BY <1>1, <1>2, <2>2, HostStep
<1>5. RamsOK /\ mem \in [Addresses -> Int] /\ truth \in [Addresses -> Int]
  BY DEF TypeOK, OutsideOK
<1>6. TypeOK'
  <2>1. EngineOK'
    BY <1>1, Rigid DEF TypeOK, EngineOK, States
  <2>2. OutsideOK'
    BY <1>1, <1>3, <1>4, <1>5, Rigid DEF OutsideOK, HostServed
  <2> QED
    BY <2>1, <2>2, <1>2 DEF TypeOK
<1>7. HostInv'
  BY <1>1, <1>2, <1>4 DEF HostInv, HostServed, Loads, Stores
<1>8. DataInv'
  <2>1. ASSUME NEW j \in Blocks, valid'[j]
        PROVE  Holds(j)'
    <3>1. j # idx /\ valid[j]
      BY <1>2, <1>5, <2>1 DEF RamsOK
    <3>2. Holds(j)
      BY <1>1, <3>1 DEF DataInv, Loads
    <3>3. \A o \in Words : truth'[Address(tags[j], j, o)] = truth[Address(tags[j], j, o)]
      <4> SUFFICES ASSUME NEW o \in Words
                   PROVE  truth'[Address(tags[j], j, o)] = truth[Address(tags[j], j, o)]
        OBVIOUS
      <4>1. PICK a \in Addresses : a = Address(tags[j], j, o) /\ a.idx = j
        BY <1>5, AddressIn DEF RamsOK
      <4> QED
        BY <1>3, <3>1, <4>1
    <3> QED
      BY <1>1, <1>2, <3>2, <3>3, Rigid DEF Holds
  <2>2. ASSUME NEW a \in Addresses
        PROVE  InPlace(a)' \/
                 (valid'[a.idx] /\ dirty'[a.idx] /\ tags'[a.idx] = a.tag /\ ~geo'.read_only)
    <3>1. a.idx \in Blocks
      BY AddressFields
    <3>2. CASE a.idx = idx /\ a.tag = tag
      BY <1>1, <1>3, <3>2 DEF InPlace
    <3>3. CASE a.idx = idx /\ a.tag # tag
      BY <1>1, <1>2, <1>3, <3>3 DEF DataInv, InPlace
    <3>4. CASE a.idx # idx
      <4>1. valid'[a.idx] = valid[a.idx] /\ dirty'[a.idx] = dirty[a.idx]
        BY <1>2, <1>5, <3>1, <3>4 DEF RamsOK
      <4> QED
        BY <1>1, <1>2, <1>3, <3>4, <4>1 DEF DataInv, InPlace
    <3> QED
      BY <3>2, <3>3, <3>4
  <2> QED
    BY <1>1, <2>1, <2>2, Rigid DEF DataInv
<1>9. CheckInv' /\ BypassInv' /\ LoadInv' /\ StoreInv'
  BY <1>1 DEF CheckInv, BypassInv, LoadInv, StoreInv, Loads, Stores
<1>10. QuietInv' /\ SyncInv'
  BY <1>1 DEF QuietInv, SyncInv, Syncs
<1> QED
  BY <1>2, <1>6, <1>7, <1>8, <1>9, <1>10

\* The memory has the block, and the access is checked again.
LEMMA WriteDoneClean ==
  ASSUME CacheInv, NEW syn \in BOOLEAN, NEW answer \in Answers, WriteDone(syn, answer),
         ~sync, ~bus_err
  PROVE  CacheInv'
<1> USE DEF CacheInv
<1>1. /\ state = "S_WRITE_DONE" /\ owed = <<>> /\ owed' = <<>> /\ mem' = mem /\ state' = "S_CHECK"
      /\ Truth(NoAnswer) /\ Host(NoAnswer) /\ Bus(NoRequest, answer)
      /\ ofs_buf' = ofs_ext /\ geo' = geo
      /\ pnd_req' \in BOOLEAN /\ pnd_syn' \in BOOLEAN
      /\ ~hit' /\ cln'
      /\ hit' \in BOOLEAN /\ cln' \in BOOLEAN /\ bp_req' \in BOOLEAN
      /\ pnd_req' => pnd_req \/ host.stb
      /\ UNCHANGED <<sync, bus_err, pnd_bp, tag, idx, ofs_int, ofs_ext, refused>>
  BY WriteDoneFacts DEF QuietInv
<1>2. /\ host.on /\ ~host.stb /\ ~pnd_req /\ (pnd_bp <=> IsBypass) /\ idx = host.addr.idx
      /\ valid[idx] /\ tags[idx] = tag
      /\ pnd_bp \/ tag # host.addr.tag
      /\ idx \in Blocks /\ tag \in AllTags
      /\ valid' = [valid EXCEPT ![idx] = ~bus_err]
      /\ dirty' = [dirty EXCEPT ![idx] = FALSE]
      /\ tags' = tags /\ data' = data
      /\ rd'.valid /\ rd'.tag = tag
      /\ RamsOK'
  BY WriteDoneAccess
<1>3. truth' = truth /\ HostWaits /\ OutsideOK'
  BY <1>1, QuietStep
<1>4. RamsOK
  BY DEF TypeOK
<1>5. TypeOK'
  <2>1. EngineOK'
    BY <1>1, Rigid DEF TypeOK, EngineOK, States
  <2> QED
    BY <2>1, <1>2, <1>3 DEF TypeOK
<1>6. HostInv'
  BY <1>1, <1>2, <1>3 DEF HostInv, HostWaits, Loads, Stores, IsBypass
<1>7. /\ valid'[idx] /\ ~dirty'[idx]
      /\ \A j \in Blocks : j # idx => valid'[j] = valid[j] /\ dirty'[j] = dirty[j]
  BY <1>2, <1>4 DEF RamsOK
<1>8. DataInv'
  <2>1. ASSUME NEW j \in Blocks, valid'[j]
        PROVE  Holds(j)'
    <3>1. valid[j]
      BY <1>2, <1>7, <2>1
    <3>2. Holds(j)
      BY <1>1, <3>1 DEF DataInv, Loads
    <3> QED
      BY <1>1, <1>2, <1>3, <3>2, Rigid DEF Holds
  <2>2. ASSUME NEW a \in Addresses
        PROVE  InPlace(a)' \/
                 (valid'[a.idx] /\ dirty'[a.idx] /\ tags'[a.idx] = a.tag /\ ~geo'.read_only)
    <3>1. a.idx \in Blocks
      BY AddressFields
    <3>2. CASE a.idx = idx
      BY <1>1, <1>3, <3>2, BlockStored DEF InPlace
    <3>3. CASE a.idx # idx
      BY <1>1, <1>2, <1>3, <1>7, <3>1, <3>3 DEF DataInv, InPlace
    <3> QED
      BY <3>2, <3>3
  <2> QED
    BY <1>1, <2>1, <2>2, Rigid DEF DataInv
<1>9. CheckInv'
  <2>1. host'.addr = host.addr
    BY <1>2, <1>3 DEF HostWaits
  <2> QED
    BY <1>1, <1>2, <1>7, <2>1 DEF CheckInv
<1>10. BypassInv' /\ LoadInv' /\ StoreInv'
  BY <1>1 DEF BypassInv, LoadInv, StoreInv, Loads, Stores
<1>11. QuietInv' /\ SyncInv'
  BY <1>1 DEF QuietInv, SyncInv, Syncs
<1> QED
  BY <1>5, <1>6, <1>8, <1>9, <1>10, <1>11

\* S_WRITE_DONE: the memory has the block, or what it has becomes the truth.
LEMMA WriteDoneStep ==
  ASSUME CacheInv, NEW syn \in BOOLEAN, NEW answer \in Answers, WriteDone(syn, answer)
  PROVE  CacheInv'
<1>1. CASE sync
  BY <1>1, WriteDoneSync
<1>2. CASE ~sync /\ bus_err
  BY <1>2, WriteDoneLost
<1>3. CASE ~sync /\ ~bus_err
  BY <1>3, WriteDoneClean
<1> QED
  BY <1>1, <1>2, <1>3

-------------------------------------------------------------------------------
(* The invariant.                                                            *)

\* After the reset nothing is valid, and everything in its place.
LEMMA CacheInit ==
  ASSUME Init
  PROVE  CacheInv
<1>1. /\ geo \in Geometries /\ state = "S_IDLE" /\ owed = <<>> /\ refused = {}
      /\ ~sync /\ sync \in BOOLEAN /\ bus_err \in BOOLEAN /\ hit \in BOOLEAN /\ cln \in BOOLEAN
      /\ ~pnd_req /\ pnd_req \in BOOLEAN /\ pnd_syn \in BOOLEAN /\ pnd_bp \in BOOLEAN
      /\ bp_req \in BOOLEAN
      /\ tag = Uncached /\ idx = 0 /\ ofs_int = 0 /\ ofs_ext = 0 /\ ofs_buf = 0
      /\ host = NoAccess
  BY DEF Init
<1>2. EngineOK
  BY <1>1, GeometryOK DEF EngineOK, States, Blocks, Words, AllTags
<1>3. RamsOK /\ \A i \in Blocks : ~valid[i]
  <2>1. valid = [i \in Blocks |-> FALSE] /\ data = [i \in Blocks |-> [o \in Words |-> 0]]
    BY DEF Init
  <2>2. PICK d \in BOOLEAN : dirty = [i \in Blocks |-> d]
    BY DEF Init
  <2>3. PICK t \in Tags : tags = [i \in Blocks |-> t]
    BY DEF Init
  <2>4. rd = [valid |-> FALSE, dirty |-> FALSE, tag |-> tags[0], data |-> 0]
    BY DEF Init
  <2>5. tags[0] \in AllTags
    BY <1>1, <2>3, GeometryOK DEF AllTags, Blocks
  <2>6. valid \in [Blocks -> BOOLEAN] /\ dirty \in [Blocks -> BOOLEAN]
    BY <2>1, <2>2
  <2>7. tags \in [Blocks -> AllTags] /\ data \in [Blocks -> [Words -> Int]]
    BY <2>1, <2>3 DEF AllTags
  <2>8. rd \in [valid : BOOLEAN, dirty : BOOLEAN, tag : AllTags, data : Int]
    BY <2>4, <2>5
  <2> QED
    BY <2>1, <2>6, <2>7, <2>8 DEF RamsOK
<1>4. NoAccess \in Hosts /\ ~NoAccess.on /\ ~NoAccess.stb
  BY <1>1, NoAccessIsHost
<1>5. OutsideOK /\ \A a \in Addresses : InPlace(a)
  <2>1. mem = [a \in Addresses |-> 0] /\ truth = mem
    BY DEF Init
  <2>2. owed \in Seq(BusRequests)
    BY <1>1
  <2> QED
    BY <1>1, <1>4, <2>1, <2>2 DEF OutsideOK, InPlace
<1>6. TypeOK
  BY <1>2, <1>3, <1>5 DEF TypeOK
<1>7. HostInv
  BY <1>1, <1>4 DEF HostInv, Loads, Stores
<1>8. DataInv
  BY <1>3, <1>5 DEF DataInv
<1>9. CheckInv /\ BypassInv /\ LoadInv /\ StoreInv /\ QuietInv /\ SyncInv
  BY <1>1 DEF CheckInv, BypassInv, LoadInv, StoreInv, QuietInv, SyncInv, Loads, Stores, Syncs
<1> QED
  BY <1>6, <1>7, <1>8, <1>9 DEF CacheInv

\* Nothing of it depends on anything else.
LEMMA CacheRests ==
  ASSUME CacheInv, UNCHANGED vars
  PROVE  CacheInv'
<1> USE DEF vars, ctrl, flags, place, rams
<1>1. /\ Blocks' = Blocks /\ Words' = Words /\ Addresses' = Addresses
      /\ Hosts' = Hosts /\ BusRequests' = BusRequests
  BY Rigid
<1>2. TypeOK'
  BY <1>1 DEF CacheInv, TypeOK, EngineOK, RamsOK, OutsideOK
<1>3. HostInv'
  BY DEF CacheInv, HostInv, IsBypass
<1>4. DataInv'
  BY <1>1 DEF CacheInv, DataInv, Holds, InPlace
<1>5. CheckInv' /\ BypassInv'
  BY DEF CacheInv, CheckInv, RamsAt, BypassInv, Passed
<1>6. LoadInv'
  BY <1>1 DEF CacheInv, LoadInv, Loaded, InPlace, Transfer, RequestOf
<1>7. StoreInv'
  BY <1>1 DEF CacheInv, StoreInv, Stored, InPlace, Transfer, RequestOf, Least
<1>8. QuietInv'
  BY DEF CacheInv, QuietInv
<1>9. SyncInv'
  BY <1>1 DEF CacheInv, SyncInv, Clean, InPlace
<1> QED
  BY <1>2, <1>3, <1>4, <1>5, <1>6, <1>7, <1>8, <1>9 DEF CacheInv

\* The invariant holds, whatever the bus, the host and the fences do.
THEOREM CacheInvariant == Spec => []CacheInv
<1>1. Init => CacheInv
  BY CacheInit
<1>2. CacheInv /\ [Next]_vars => CacheInv'
  <2> SUFFICES ASSUME CacheInv, [Next]_vars
               PROVE  CacheInv'
    OBVIOUS
  <2>1. ASSUME NEW syn \in BOOLEAN, NEW answer \in Answers, Engine(syn, answer)
        PROVE  CacheInv'
    <3>1. CASE Idle(syn, answer)
      BY <3>1, IdleStep
    <3>2. CASE Check(syn, answer)
      BY <3>2, CheckStep
    <3>3. CASE Bypass(syn, answer)
      BY <3>3, BypassStep
    <3>4. CASE SyncStart(syn, answer)
      BY <3>4, SyncStartStep
    <3>5. CASE SyncDelay(syn, answer)
      BY <3>5, SyncDelayStep
    <3>6. CASE SyncCheck(syn, answer)
      BY <3>6, SyncCheckStep
    <3>7. CASE SyncNext(syn, answer)
      BY <3>7, SyncNextStep
    <3>8. CASE ReadStart(syn, answer)
      BY <3>8, ReadStartStep
    <3>9. CASE ReadWait(syn, answer)
      BY <3>9, ReadWaitStep
    <3>10. CASE ReadBurst(syn, answer)
      BY <3>10, ReadBurstStep
    <3>11. CASE ReadDone(syn, answer)
      BY <3>11, ReadDoneStep
    <3>12. CASE WriteStart(syn, answer)
      BY <3>12, WriteStartStep
    <3>13. CASE WriteReq(syn, answer)
      BY <3>13, WriteReqStep
    <3>14. CASE WriteRsp(syn, answer)
      BY <3>14, WriteRspStep
    <3>15. CASE WriteWait(syn, answer)
      BY <3>15, WriteWaitStep
    <3>16. CASE WriteBurst(syn, answer)
      BY <3>16, WriteBurstStep
    <3>17. CASE WriteDone(syn, answer)
      BY <3>17, WriteDoneStep
    <3> QED
      BY <2>1, <3>1, <3>2, <3>3, <3>4, <3>5, <3>6, <3>7, <3>8, <3>9, <3>10, <3>11, <3>12,
         <3>13, <3>14, <3>15, <3>16, <3>17 DEF Engine
  <2>2. CASE Next
    BY <2>1, <2>2 DEF Next
  <2>3. CASE UNCHANGED vars
    BY <2>3, CacheRests
  <2> QED
    BY <2>2, <2>3
<1> QED
  BY <1>1, <1>2, PTL DEF Spec

\* What a hit reads is in a valid block; what passes by is in no valid block.
LEMMA InvariantReads ==
  ASSUME CacheInv
  PROVE  ReadsTheTruth
<1> USE DEF CacheInv
<1>1. ASSUME state = "S_CHECK", Checked.rsp.ack, ~host.rw
      PROVE  rd.data = truth[host.addr]
  <2>1. /\ cache_hit <=> valid[host.addr.idx] /\ tags[host.addr.idx] = host.addr.tag
        /\ cache_hit => rd.data = data[host.addr.idx][host.addr.ofs] \/ pnd_bp
    BY <1>1, CheckSees
  <2>2. ~pnd_bp /\ cache_hit
    <3>1. ~NoAnswer.ack
      BY DEF NoAnswer
    <3>2. CASE pnd_bp /\ cache_hit /\ ~cache_drt
      BY <1>1, <3>1, <3>2, CheckedIs
    <3>3. CASE pnd_bp /\ cache_hit /\ cache_drt
      BY <1>1, <3>1, <3>3, CheckedIs
    <3>4. CASE ~cache_hit
      BY <1>1, <3>1, <3>4, CheckedIs
    <3> QED
      BY <3>2, <3>3, <3>4
  <2>3. host.addr \in Addresses
    BY DEF TypeOK, OutsideOK, Hosts
  <2>4. /\ host.addr.idx \in Blocks /\ host.addr.ofs \in Words
        /\ host.addr = Address(host.addr.tag, host.addr.idx, host.addr.ofs)
    BY <2>3, AddressFields
  <2>5. Holds(host.addr.idx)
    BY <1>1, <2>1, <2>2, <2>4 DEF DataInv, Loads
  <2>6. data[host.addr.idx][host.addr.ofs] = truth[host.addr]
    BY <2>1, <2>2, <2>4, <2>5 DEF Holds
  <2> QED
    BY <2>1, <2>2, <2>6
<1>2. ASSUME state = "S_BYPASS", NEW answer \in Answers, answer.ack, ~answer.err
      PROVE  answer.data = truth[host.addr]
  <2>1. /\ ~(valid[host.addr.idx] /\ tags[host.addr.idx] = host.addr.tag)
        /\ bp_req => owed = <<>>
        /\ ~bp_req => owed = <<Passed>>
    BY <1>2 DEF BypassInv
  <2>2. owed = <<Passed>> /\ answer.data = mem[Head(owed).addr]
    BY <1>2, <2>1 DEF Answers, NoAnswer
  <2>3. Head(owed).addr = host.addr
    BY <2>2 DEF Passed
  <2>4. host.addr \in Addresses
    BY DEF TypeOK, OutsideOK, Hosts
  <2>5. InPlace(host.addr)
    BY <2>1, <2>4 DEF DataInv
  <2> QED
    BY <2>2, <2>3, <2>5 DEF InPlace
<1> QED
  BY <1>1, <1>2 DEF ReadsTheTruth

\* When every block is clean, nothing but the refused blocks differs.
LEMMA InvariantSyncs ==
  ASSUME CacheInv
  PROVE  SyncLeavesNothing
<1> USE DEF CacheInv
<1> SUFFICES ASSUME state = "S_IDLE", sync
             PROVE  /\ \A i \in Blocks : valid[i] = (i \in refused) /\ (valid[i] => dirty[i])
                    /\ \A a \in Addresses :
                         mem[a] # truth[a] => a.idx \in refused /\ tags[a.idx] = a.tag
  BY DEF SyncLeavesNothing
<1>1. \A i \in Blocks : (valid[i] <=> i \in refused) /\ (valid[i] => dirty[i])
  <2>1. Clean(geo.blocks)
    BY DEF SyncInv
  <2>2. \A i \in Blocks : i < geo.blocks
    BY GeometryOK DEF Blocks, TypeOK, EngineOK
  <2> QED
    BY <2>1, <2>2 DEF Clean
<1>2. ASSUME NEW i \in Blocks
      PROVE  valid[i] = (i \in refused)
  <2>1. valid[i] \in BOOLEAN
    BY DEF TypeOK, RamsOK
  <2>2. PICK b \in BOOLEAN : b = valid[i]
    BY <2>1
  <2>3. b <=> i \in refused
    BY <1>1, <2>2
  <2>4. b = (i \in refused)
    BY <2>3, Zenon
  <2> QED
    BY <2>2, <2>4, Zenon
<1>3. ASSUME NEW a \in Addresses, mem[a] # truth[a]
      PROVE  a.idx \in refused /\ tags[a.idx] = a.tag
  <2>1. a.idx \in Blocks
    BY AddressFields
  <2>2. valid[a.idx] /\ tags[a.idx] = a.tag
    BY <1>3 DEF DataInv, InPlace
  <2> QED
    BY <1>1, <2>1, <2>2
<1> QED
  BY <1>1, <1>2, <1>3

\* Loads and swaps get the last word written (S_CHECK, S_BYPASS).
THEOREM CacheReadsTheTruth == Spec => []ReadsTheTruth
BY CacheInvariant, InvariantReads, PTL

\* A synchronisation writes everything back, but for what is refused (S_SYNC_NEXT).
THEOREM CacheSyncLeavesNothing == Spec => []SyncLeavesNothing
BY CacheInvariant, InvariantSyncs, PTL

\* Every register of the cache keeps its type.
THEOREM CacheTypes == Spec => []TypeOK
<1>1. CacheInv => TypeOK
  BY DEF CacheInv
<1> QED
  BY <1>1, CacheInvariant, PTL
================================================================================

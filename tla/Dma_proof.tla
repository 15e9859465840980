------------------------------- MODULE Dma_proof -------------------------------
(***************************************************************************)
(* Theorems about the DMA controller: it implements the transfers that its  *)
(* descriptors ask for, for every width of a word, every depth of its FIFO  *)
(* and every program that keeps to the driver's rules.                      *)
(***************************************************************************)
EXTENDS Dma, TLAPS, SequenceTheorems

Elements == 2 ^ (WordBits - 2)

Getting == engine.state \in {"S_GET_0", "S_GET_1", "S_GET_2", "S_GET_3"}

Engines == [state : {"S_CHECK", "S_GET_0", "S_GET_1", "S_GET_2", "S_GET_3", "S_READ_REQ",
                     "S_READ_RSP", "S_WRITE_REQ", "S_WRITE_RSP"},
            run : BOOLEAN, done : BOOLEAN, err : BOOLEAN, num : 0 .. Elements - 1,
            num_or : BOOLEAN, src_addr : Word, dst_addr : Word,
            src_inc : {0, 1}, dst_inc : {0, 1}]

DmaTypeOK ==
  /\ enable \in BOOLEAN /\ start \in BOOLEAN /\ err \in BOOLEAN /\ done \in BOOLEAN
  /\ engine \in Engines
  /\ data_buf \in Word /\ rdata \in Word /\ fifo \in [0 .. Depth - 1 -> Word]
  /\ w_pnt \in 0 .. 2 * Depth - 1 /\ r_pnt \in 0 .. 2 * Depth - 1 /\ avail \in BOOLEAN
  /\ strobed \in BOOLEAN /\ owed \in BOOLEAN /\ written \in Nat /\ queue \in Seq(Word)

-------------------------------------------------------------------------------
(* The invariant.                                                            *)

\* Number of words in the FIFO, and of the words of the next descriptor that have left it.
Level == IF w_pnt >= r_pnt THEN w_pnt - r_pnt ELSE w_pnt + 2 * Depth - r_pnt
Taken == IF engine.state = "S_GET_1" THEN 1 ELSE IF engine.state = "S_GET_2" THEN 2
         ELSE IF engine.state = "S_GET_3" THEN 3 ELSE 0

\* The FIFO holds the queue, but for the words that have left it.
Holds ==
  /\ Level <= Depth /\ Len(queue) = Level + Taken
  /\ \A i \in 1 .. Level : fifo[(r_pnt + i - 1) % Depth] = queue[Taken + i]

\* The program writes descriptors as a whole, and each of them moves something.
Whole ==
  /\ Len(queue) % 3 = written % 3
  /\ \A k \in 1 .. Len(queue) : k % 3 = 0 => conf_num(queue[k]) > 0

\* What the engine has of a descriptor while it gets it, and of a move.
Fetched ==
  /\ Getting => enable /\ avail /\ ~engine.num_or /\ Len(queue) >= 3
  /\ engine.state = "S_GET_1" => rdata = queue[1]
  /\ engine.state = "S_GET_2" => engine.src_addr = queue[1] /\ rdata = queue[2]
  /\ engine.state = "S_GET_3" =>
       engine.src_addr = queue[1] /\ engine.dst_addr = queue[2] /\ rdata = queue[3]
  /\ engine.state = "S_READ_REQ" => engine.num > 0
  /\ engine.state = "S_WRITE_REQ" => data_buf = engine.src_addr
  /\ engine.state = "S_WRITE_RSP" => (engine.num_or <=> engine.num # 0)

\* The program cannot start a transfer, switch it off, or acknowledge the last one at a moment
\* that would take a word away from a descriptor.
Runs ==
  /\ start => /\ strobed /\ enable /\ ~engine.run /\ ~done /\ ~engine.done
              /\ written % 3 = 0 /\ queue # <<>>
  /\ engine.run => written % 3 = 0 /\ ~done
  /\ engine.run /\ ~Getting => (avail <=> queue # <<>>)
  /\ engine.run /\ ~enable => queue = <<>>
  /\ ~enable => written % 3 = 0
  /\ engine.state # "S_CHECK" => engine.run
  /\ engine.done => ~engine.run /\ (queue = <<>> \/ err)

DmaInv == DmaTypeOK /\ Holds /\ Whole /\ Fetched /\ Runs

-------------------------------------------------------------------------------
(* Remainders, and the FIFO.                                                 *)

LEMMA Sizes ==
  /\ Elements \in Nat \ {0} /\ 2 ^ WordBits = 4 * Elements /\ 2 ^ (WordBits - 1) = 2 * Elements
  /\ Word = 0 .. 4 * Elements - 1
  /\ Depth \in Nat /\ Depth > 3
BY DmaAssumption DEF Elements, Word

LEMMA Remainder ==
  ASSUME NEW m \in Nat \ {0}, NEW x \in Nat
  PROVE  /\ x < m => x % m = x
         /\ m <= x /\ x < 2 * m => x % m = x - m
         /\ 2 * m <= x /\ x < 3 * m => x % m = x - 2 * m
<1>1. ASSUME NEW k \in Nat, NEW y \in 0 .. m - 1, x = m * k + y
      PROVE  x % m = y
  BY <1>1
<1>2. x < m => x = m * 0 + x /\ x \in 0 .. m - 1
  OBVIOUS
<1>3. m <= x /\ x < 2 * m => x = m * 1 + (x - m) /\ x - m \in 0 .. m - 1
  OBVIOUS
<1>4. 2 * m <= x /\ x < 3 * m => x = m * 2 + (x - 2 * m) /\ x - 2 * m \in 0 .. m - 1
  OBVIOUS
<1>5. x < m => x % m = x
  BY <1>1, <1>2
<1>6. m <= x /\ x < 2 * m => x % m = x - m
  BY <1>1, <1>3
<1>7. 2 * m <= x /\ x < 3 * m => x % m = x - 2 * m
  BY <1>1, <1>4
<1> QED
  BY <1>5, <1>6, <1>7

\* The slot of the word that is i after pointer p.
Slot(p, i) == IF p + i < Depth THEN p + i
              ELSE IF p + i < 2 * Depth THEN p + i - Depth ELSE p + i - 2 * Depth

LEMMA Slots ==
  ASSUME NEW p \in 0 .. 2 * Depth - 1
  PROVE  /\ Advanced(p) = IF p = 2 * Depth - 1 THEN 0 ELSE p + 1
         /\ \A i \in 0 .. Depth : (p + i) % Depth = Slot(p, i)
         /\ p % Depth = Slot(p, 0)
<1>1. Depth \in Nat /\ Depth > 3 /\ 2 * Depth \in Nat \ {0} /\ Depth \in Nat \ {0}
  BY Sizes
<1>2. Advanced(p) = IF p = 2 * Depth - 1 THEN 0 ELSE p + 1
  <2>1. p + 1 \in Nat /\ p + 1 <= 2 * Depth
    BY <1>1
  <2>2. p + 1 < 2 * Depth => (p + 1) % (2 * Depth) = p + 1
    BY <1>1, <2>1, Remainder
  <2>3. p + 1 = 2 * Depth => (p + 1) % (2 * Depth) = 0
    BY <1>1
  <2> QED
    BY <1>1, <2>1, <2>2, <2>3 DEF Advanced
<1>3. ASSUME NEW i \in 0 .. Depth
      PROVE  (p + i) % Depth = Slot(p, i)
  <2> DEFINE x == p + i
  <2>1. x \in Nat /\ x < 3 * Depth
    BY <1>1
  <2> HIDE DEF x
  <2> DEFINE rest == x % Depth
  <2>2. /\ x < Depth => rest = x
        /\ Depth <= x /\ x < 2 * Depth => rest = x - Depth
        /\ 2 * Depth <= x /\ x < 3 * Depth => rest = x - 2 * Depth
    BY <1>1, <2>1, Remainder
  <2> HIDE DEF rest
  <2>3. rest = IF x < Depth THEN x ELSE IF x < 2 * Depth THEN x - Depth ELSE x - 2 * Depth
    <3>1. CASE x < Depth
      BY <2>2, <3>1
    <3>2. CASE Depth <= x /\ x < 2 * Depth
      BY <1>1, <2>1, <2>2, <3>2
    <3>3. CASE 2 * Depth <= x
      BY <1>1, <2>1, <2>2, <3>3
    <3> QED
      BY <1>1, <2>1, <3>1, <3>2, <3>3
  <2>4. rest = Slot(p, i)
    BY <1>1, <2>1, <2>3 DEF x, Slot
  <2> QED
    BY <2>4 DEF x, rest
<1>4. p % Depth = Slot(p, 0)
  <2>1. p + 0 = p /\ 0 \in 0 .. Depth
    BY <1>1
  <2> QED
    BY <1>3, <2>1
<1> QED
  BY <1>2, <1>3, <1>4

\* The flags of the FIFO.
LEMMA Flags ==
  ASSUME DmaTypeOK, Level <= Depth
  PROVE  /\ Level \in 0 .. Depth
         /\ empty <=> Level = 0
         /\ full <=> Level = Depth
<1>1. Depth \in Nat /\ Depth > 3 /\ w_pnt \in 0 .. 2 * Depth - 1 /\ r_pnt \in 0 .. 2 * Depth - 1
  BY Sizes DEF DmaTypeOK
<1>2. Level \in 0 .. Depth
  BY <1>1 DEF Level
<1>3. empty <=> Level = 0
  BY <1>1 DEF Level, empty
<1>4. full <=> Level = Depth
  <2>1. r_pnt % Depth = Slot(r_pnt, 0) /\ w_pnt % Depth = Slot(w_pnt, 0)
    BY <1>1, Slots
  <2> QED
    BY <1>1, <1>2, <2>1 DEF Level, full, match, Slot
<1> QED
  BY <1>2, <1>3, <1>4

\* The words in the FIFO, in the order in which they leave it.
Content(i) == fifo[(r_pnt + i - 1) % Depth]

LEMMA ContentSlot ==
  ASSUME DmaTypeOK, NEW i \in 1 .. Depth
  PROVE  Content(i) = fifo[Slot(r_pnt, i - 1)]
<1>1. i - 1 \in 0 .. Depth /\ r_pnt + i - 1 = r_pnt + (i - 1) /\ r_pnt \in 0 .. 2 * Depth - 1
  BY Sizes DEF DmaTypeOK
<1>2. (r_pnt + (i - 1)) % Depth = Slot(r_pnt, i - 1)
  BY <1>1, Slots
<1> QED
  BY <1>1, <1>2 DEF Content

\* A clock edge of the FIFO without a push and a pop at once.
LEMMA FifoStep ==
  ASSUME DmaTypeOK, Level <= Depth, NEW push \in BOOLEAN, NEW pop \in BOOLEAN, NEW w \in Word,
         ~(push /\ pop), push => Level < Depth, pop => Level > 0,
         FifoEdge(~enable, push, w, pop)
  PROVE  /\ fifo' \in [0 .. Depth - 1 -> Word] /\ rdata' \in Word
         /\ w_pnt' \in 0 .. 2 * Depth - 1 /\ r_pnt' \in 0 .. 2 * Depth - 1
         /\ avail' \in BOOLEAN /\ (avail' <=> Level > 0)
         /\ Level > 0 => rdata' = Content(1)
         /\ ~enable => Level' = 0
         /\ enable /\ push => /\ Level' = Level + 1
                              /\ \A i \in 1 .. Level : Content(i)' = Content(i)
                              /\ \A i \in 1 .. Depth : i = Level + 1 => Content(i)' = w
         /\ enable /\ pop => /\ Level' = Level - 1
                             /\ \A i \in 1 .. Level' : Content(i)' = Content(i + 1)
         /\ enable /\ ~push /\ ~pop => /\ Level' = Level
                                       /\ \A i \in 1 .. Level : Content(i)' = Content(i)
<1>1. Depth \in Nat /\ Depth > 3 /\ w_pnt \in 0 .. 2 * Depth - 1 /\ r_pnt \in 0 .. 2 * Depth - 1
  BY Sizes DEF DmaTypeOK
<1>2. /\ Level \in 0 .. Depth
      /\ empty <=> Level = 0
      /\ full <=> Level = Depth
  BY Flags
<1>3. /\ Advanced(w_pnt) = IF w_pnt = 2 * Depth - 1 THEN 0 ELSE w_pnt + 1
      /\ Advanced(r_pnt) = IF r_pnt = 2 * Depth - 1 THEN 0 ELSE r_pnt + 1
      /\ w_pnt % Depth = Slot(w_pnt, 0) /\ r_pnt % Depth = Slot(r_pnt, 0)
  BY <1>1, Slots
<1>4. /\ w_pnt' = IF ~enable THEN 0 ELSE IF push THEN Advanced(w_pnt) ELSE w_pnt
      /\ r_pnt' = IF ~enable THEN 0 ELSE IF pop THEN Advanced(r_pnt) ELSE r_pnt
      /\ avail' \in BOOLEAN /\ (avail' <=> Level > 0)
      /\ fifo' = IF push THEN [fifo EXCEPT ![Slot(w_pnt, 0)] = w] ELSE fifo
      /\ rdata' = fifo[Slot(r_pnt, 0)]
  <2>1. /\ (push /\ ~full) <=> push
        /\ (pop /\ ~empty) <=> pop
        /\ (~empty) <=> Level > 0
    BY <1>2
  <2>2. /\ w_pnt' = IF ~enable THEN 0 ELSE IF push /\ ~full THEN Advanced(w_pnt) ELSE w_pnt
        /\ r_pnt' = IF ~enable THEN 0 ELSE IF pop /\ ~empty THEN Advanced(r_pnt) ELSE r_pnt
        /\ avail' = ~empty
        /\ fifo'  = IF push /\ ~full THEN [fifo EXCEPT ![w_pnt % Depth] = w] ELSE fifo
        /\ rdata' = fifo[r_pnt % Depth]
    BY DEF FifoEdge
  <2>3. avail' \in BOOLEAN /\ (avail' <=> Level > 0)
    BY <2>1, <2>2
  <2> QED
    BY <1>3, <2>1, <2>2, <2>3
<1>5. Slot(w_pnt, 0) \in 0 .. Depth - 1 /\ Slot(r_pnt, 0) \in 0 .. Depth - 1
  BY <1>1 DEF Slot
<1>6. w_pnt' \in 0 .. 2 * Depth - 1 /\ r_pnt' \in 0 .. 2 * Depth - 1
  BY <1>1, <1>3, <1>4
<1>7. fifo' \in [0 .. Depth - 1 -> Word] /\ rdata' \in Word
  BY <1>4, <1>5 DEF DmaTypeOK
<1>8. Level > 0 => rdata' = Content(1)
  <2>1. 1 \in 1 .. Depth
    BY <1>1
  <2> QED
    BY <1>4, <2>1, ContentSlot
<1>9. \A i \in 1 .. Depth : Content(i)' = fifo'[Slot(r_pnt', i - 1)]
  <2> TAKE i \in 1 .. Depth
  <2>1. i - 1 \in 0 .. Depth /\ r_pnt' + i - 1 = r_pnt' + (i - 1)
    BY <1>1, <1>6
  <2>2. (r_pnt' + (i - 1)) % Depth = Slot(r_pnt', i - 1)
    BY <1>6, <2>1, Slots
  <2> QED
    BY <2>1, <2>2 DEF Content
<1>10. Level' = IF w_pnt' >= r_pnt' THEN w_pnt' - r_pnt' ELSE w_pnt' + 2 * Depth - r_pnt'
  BY DEF Level
<1>11. ~enable => Level' = 0
  BY <1>4, <1>10
<1>12. ASSUME enable, push
       PROVE  /\ Level' = Level + 1
              /\ \A i \in 1 .. Level : Content(i)' = Content(i)
              /\ \A i \in 1 .. Depth : i = Level + 1 => Content(i)' = w
  <2>1. w_pnt' = (IF w_pnt = 2 * Depth - 1 THEN 0 ELSE w_pnt + 1) /\ r_pnt' = r_pnt
    BY <1>3, <1>4, <1>12
  <2>2. Level' = Level + 1
    BY <1>1, <1>2, <1>10, <1>12, <2>1 DEF Level
  <2>3. Slot(w_pnt, 0) = Slot(r_pnt, Level)
    BY <1>1, <1>2 DEF Level, Slot
  <2>4. \A i \in 1 .. Level : Slot(r_pnt, i - 1) # Slot(w_pnt, 0) /\ i \in 1 .. Depth
    BY <1>1, <1>2, <1>12, <2>3 DEF Slot
  <2>5. fifo' = [fifo EXCEPT ![Slot(w_pnt, 0)] = w]
    BY <1>4, <1>12
  <2>6. \A i \in 1 .. Depth : Slot(r_pnt, i - 1) \in 0 .. Depth - 1
    BY <1>1 DEF Slot
  <2>7. \A i \in 1 .. Level : Content(i)' = Content(i)
    <3> TAKE i \in 1 .. Level
    <3>1. Content(i)' = fifo'[Slot(r_pnt, i - 1)] /\ Content(i) = fifo[Slot(r_pnt, i - 1)]
      BY <1>9, <2>1, <2>4, ContentSlot
    <3>2. fifo'[Slot(r_pnt, i - 1)] = fifo[Slot(r_pnt, i - 1)]
      BY <2>4, <2>5, <2>6 DEF DmaTypeOK
    <3> QED
      BY <3>1, <3>2
  <2>8. ASSUME NEW i \in 1 .. Depth, i = Level + 1
        PROVE  Content(i)' = w
    <3>1. i - 1 = Level
      BY <1>2, <2>8
    <3>2. Content(i)' = fifo'[Slot(w_pnt, 0)]
      BY <1>9, <2>1, <2>3, <3>1
    <3> QED
      BY <1>5, <2>5, <3>2 DEF DmaTypeOK
  <2> QED
    BY <2>2, <2>7, <2>8
<1>13. ASSUME enable, pop
       PROVE  Level' = Level - 1 /\ \A i \in 1 .. Level' : Content(i)' = Content(i + 1)
  <2>1. w_pnt' = w_pnt /\ r_pnt' = (IF r_pnt = 2 * Depth - 1 THEN 0 ELSE r_pnt + 1) /\ fifo' = fifo
    BY <1>3, <1>4, <1>13
  <2>2. Level' = Level - 1
    BY <1>1, <1>2, <1>10, <1>13, <2>1 DEF Level
  <2>3. ASSUME NEW i \in 1 .. Level'
        PROVE  Content(i)' = Content(i + 1)
    <3>1. i \in 1 .. Depth /\ i + 1 \in 1 .. Depth /\ (i + 1) - 1 = i
      BY <1>1, <1>2, <2>2
    <3>2. Slot(r_pnt', i - 1) = Slot(r_pnt, i)
      BY <1>1, <2>1, <3>1 DEF Slot
    <3>3. Content(i)' = fifo[Slot(r_pnt, i)]
      BY <1>9, <2>1, <3>1, <3>2
    <3>4. Content(i + 1) = fifo[Slot(r_pnt, i)]
      BY <3>1, ContentSlot
    <3> QED
      BY <3>3, <3>4
  <2> QED
    BY <2>2, <2>3
<1>14. ASSUME enable, ~push, ~pop
       PROVE  Level' = Level /\ \A i \in 1 .. Level : Content(i)' = Content(i)
  <2>1. w_pnt' = w_pnt /\ r_pnt' = r_pnt /\ fifo' = fifo
    BY <1>4, <1>14
  <2> QED
    BY <2>1 DEF Level, Content
<1> QED
  BY <1>4, <1>6, <1>7, <1>8, <1>11, <1>12, <1>13, <1>14

-------------------------------------------------------------------------------
(* The program and the memory.                                               *)

Pushes(req) == req.stb /\ req.desc
Writes(req) == req.stb /\ ~req.desc

LEMMA RequestFacts ==
  ASSUME DmaTypeOK, NEW req \in Requests
  PROVE  /\ req.stb \in BOOLEAN /\ req.desc \in BOOLEAN /\ req.data \in Word
         /\ req.en \in BOOLEAN /\ req.start \in BOOLEAN /\ req.ack \in BOOLEAN
         /\ strobed => ~req.stb
         /\ Pushes(req) => MayProgram /\ \E p \in Programs : req.data = p[(written % 3) + 1]
         /\ Writes(req) /\ req.start => MayStart /\ req.en /\ ~req.ack
         /\ Writes(req) /\ req.ack => done /\ req.en = enable
         /\ Writes(req) /\ enable /\ ~req.en => MayDisable
<1>0. 0 \in Word
  BY Sizes
<1>1. CASE req = NoRequest
  BY <1>0, <1>1 DEF NoRequest, Pushes, Writes
<1>2. CASE ~strobed /\ MayProgram /\ req \in {Desc(p[(written % 3) + 1]) : p \in Programs}
  <2>1. PICK p \in Programs : req = Desc(p[(written % 3) + 1])
    BY <1>2
  <2>2. (written % 3) + 1 \in 1 .. 3
    BY DEF DmaTypeOK
  <2>3. p[(written % 3) + 1] \in Word
    BY <2>2, DmaAssumption
  <2>4. /\ req.stb = TRUE /\ req.desc = TRUE /\ req.data = p[(written % 3) + 1]
        /\ req.en = FALSE /\ req.start = FALSE /\ req.ack = FALSE
    BY <2>1 DEF Desc, NoRequest
  <2> QED
    BY <1>2, <2>3, <2>4 DEF Pushes, Writes
<1>3. ASSUME NEW en \in BOOLEAN, NEW st \in BOOLEAN, NEW ack \in BOOLEAN, req = Ctrl(en, st, ack)
      PROVE  /\ req.stb = TRUE /\ req.desc = FALSE /\ req.data \in Word
             /\ req.en = en /\ req.start = st /\ req.ack = ack
  BY <1>0, <1>3 DEF Ctrl, NoRequest
<1>4. CASE ~strobed /\ MayStart /\ req = Ctrl(TRUE, TRUE, FALSE)
  BY <1>3, <1>4 DEF Pushes, Writes
<1>5. CASE ~strobed /\ MayDisable /\ req = Ctrl(FALSE, FALSE, FALSE)
  BY <1>3, <1>5 DEF Pushes, Writes
<1>6. CASE ~strobed /\ ~enable /\ req = Ctrl(TRUE, FALSE, FALSE)
  BY <1>3, <1>6 DEF Pushes, Writes
<1>7. CASE ~strobed /\ done /\ req = Ctrl(enable, FALSE, TRUE)
  BY <1>3, <1>7 DEF Pushes, Writes, DmaTypeOK
<1> QED
  BY <1>1, <1>2, <1>4, <1>5, <1>6, <1>7 DEF Requests

LEMMA AnswerFacts ==
  ASSUME DmaTypeOK, NEW rsp \in Answers
  PROVE  /\ rsp.ack \in BOOLEAN /\ rsp.err \in BOOLEAN /\ rsp.data \in Word
         /\ rsp.ack => rsp.data = engine.src_addr
<1>0. 0 \in Word /\ engine.src_addr \in Word
  BY Sizes DEF DmaTypeOK, Engines
<1>1. CASE rsp = [ack |-> FALSE, err |-> FALSE, data |-> 0]
  BY <1>0, <1>1
<1>2. CASE rsp \in [ack : {TRUE}, err : BOOLEAN, data : {engine.src_addr}]
  BY <1>0, <1>2
<1> QED
  BY <1>1, <1>2 DEF Answers

\* The control register and the queue at an edge.
LEMMA ProgramStep ==
  ASSUME DmaInv, NEW req \in Requests, NEW rsp \in Answers, Around(req, rsp)
  PROVE  /\ enable' \in BOOLEAN /\ start' \in BOOLEAN /\ err' \in BOOLEAN /\ done' \in BOOLEAN
         /\ data_buf' = IF engine.state = "S_READ_RSP" THEN rsp.data ELSE data_buf
         /\ data_buf' \in Word /\ strobed' \in BOOLEAN /\ owed' \in BOOLEAN /\ written' \in Nat
         /\ Pushes(req) => enable /\ enable' /\ ~engine.run /\ Level < Depth
         /\ written' = IF Pushes(req) THEN written + 1 ELSE written
         /\ start' => /\ strobed' /\ enable' /\ ~engine.run /\ ~done' /\ enable
                      /\ written % 3 = 0 /\ queue # <<>> /\ ~Pushes(req)
         /\ strobed => ~start' /\ ~Pushes(req) /\ enable' = enable
         /\ engine.run => ~start' /\ (done' => engine.done)
         /\ enable /\ ~enable' => /\ written % 3 = 0 /\ ~Pushes(req)
                                  /\ ~engine.run \/ ~avail
         /\ done' => enable /\ (done \/ engine.done)
         /\ enable /\ ~done /\ (err \/ engine.err) /\ (engine.run \/ done') => err'
         /\ ~enable => queue' = <<>>
         /\ enable => queue' = IF Pushes(req) THEN Append(queue, req.data)
                               ELSE IF engine.state = "S_GET_3" THEN SubSeq(queue, 4, Len(queue))
                               ELSE queue
<1> DEFINE clear == Writes(req) /\ (req.start \/ req.ack)
           kept == IF engine.state = "S_GET_3" THEN SubSeq(queue, 4, Len(queue)) ELSE queue
<1>1. /\ enable \in BOOLEAN /\ err \in BOOLEAN /\ done \in BOOLEAN /\ owed \in BOOLEAN
      /\ engine.run \in BOOLEAN /\ engine.err \in BOOLEAN /\ engine.done \in BOOLEAN
      /\ written \in Nat /\ data_buf \in Word
  BY DEF DmaInv, DmaTypeOK, Engines
<1>2. /\ req.stb \in BOOLEAN /\ req.desc \in BOOLEAN /\ req.data \in Word
      /\ req.en \in BOOLEAN /\ req.start \in BOOLEAN /\ req.ack \in BOOLEAN
      /\ Pushes(req) => MayProgram
      /\ Writes(req) /\ req.start => MayStart /\ req.en /\ ~req.ack
      /\ Writes(req) /\ req.ack => done /\ req.en = enable
      /\ Writes(req) /\ enable /\ ~req.en => MayDisable
  BY RequestFacts DEF DmaInv
<1>3. rsp.data \in Word
  BY AnswerFacts DEF DmaInv
<1>4. /\ enable' = IF Writes(req) THEN req.en ELSE enable
      /\ start' = (Writes(req) /\ req.start)
      /\ err' = (enable /\ (err \/ engine.err) /\ ~clear)
      /\ done' = (enable /\ (done \/ engine.done) /\ ~clear)
  BY DEF Around, ctrl_access, Writes
<1>5. /\ data_buf' = IF engine.state = "S_READ_RSP" THEN rsp.data ELSE data_buf
      /\ owed' = (dma_stb \/ (owed /\ ~rsp.ack))
      /\ strobed' = req.stb
      /\ written' = IF Pushes(req) THEN written + 1 ELSE written
      /\ queue' = IF ~enable THEN <<>>
                  ELSE IF Pushes(req) /\ ~full THEN Append(kept, req.data) ELSE kept
  BY DEF Around, Pushes
<1>6. Pushes(req) => enable /\ ~full /\ ~engine.run /\ ~Writes(req)
  BY <1>2 DEF MayProgram, Pushes, Writes
<1>7. Level <= Depth => (full <=> Level = Depth) /\ Level \in 0 .. Depth
  BY Flags DEF DmaInv
<1>8. Pushes(req) => Level < Depth
  BY <1>6, <1>7, Sizes DEF DmaInv, Holds
<1>9. engine.run => ~(Writes(req) /\ req.start) /\ ~clear
  BY <1>2 DEF MayStart, DmaInv, Runs
<1>10. start' => /\ strobed' /\ enable' /\ ~engine.run /\ ~done' /\ enable
                 /\ written % 3 = 0 /\ queue # <<>> /\ ~Pushes(req)
  BY <1>2, <1>4, <1>5, <1>6 DEF MayStart, Programming, Writes
<1>11. enable /\ ~enable' => /\ written % 3 = 0 /\ ~Pushes(req)
                             /\ ~engine.run \/ ~avail
  BY <1>2, <1>4, <1>6 DEF MayDisable, Programming
<1>12. Pushes(req) => engine.state # "S_GET_3" /\ enable'
  BY <1>4, <1>6 DEF DmaInv, Runs
<1>13. /\ ~enable => queue' = <<>>
       /\ enable => queue' = IF Pushes(req) THEN Append(queue, req.data)
                             ELSE IF engine.state = "S_GET_3" THEN SubSeq(queue, 4, Len(queue))
                             ELSE queue
  <2>1. Pushes(req) => kept = queue /\ ~full
    BY <1>6, <1>12
  <2> QED
    BY <1>5, <2>1
<1>14. /\ enable' \in BOOLEAN /\ start' \in BOOLEAN /\ err' \in BOOLEAN /\ done' \in BOOLEAN
       /\ data_buf' \in Word /\ strobed' \in BOOLEAN /\ written' \in Nat
  BY <1>1, <1>2, <1>3, <1>4, <1>5
<1>15. owed' \in BOOLEAN
  BY <1>1, <1>5 DEF dma_stb
<1>16. engine.run => ~start' /\ (done' => engine.done)
  BY <1>4, <1>9 DEF DmaInv, Runs
<1>17. done' => enable /\ (done \/ engine.done)
  BY <1>4
<1>18. enable /\ ~done /\ (err \/ engine.err) /\ (engine.run \/ done') => err'
  BY <1>4, <1>9
<1>19. strobed => ~start' /\ ~Pushes(req) /\ enable' = enable
  BY <1>4, RequestFacts DEF DmaInv, Writes, Pushes
<1> QED
  BY <1>5, <1>6, <1>8, <1>10, <1>11, <1>12, <1>13, <1>14, <1>15, <1>16, <1>17, <1>18, <1>19

\* Words that will have left the FIFO of the next descriptor.
TakenNext == IF engine.state \in {"S_GET_0", "S_GET_1", "S_GET_2"} THEN Taken + 1 ELSE 0

\* The FIFO and the queue at an edge.
LEMMA QueueStep ==
  ASSUME DmaInv, NEW req \in Requests, NEW rsp \in Answers, Around(req, rsp)
  PROVE  /\ fifo' \in [0 .. Depth - 1 -> Word] /\ rdata' \in Word
         /\ w_pnt' \in 0 .. 2 * Depth - 1 /\ r_pnt' \in 0 .. 2 * Depth - 1
         /\ avail' \in BOOLEAN /\ (avail' <=> Level > 0) /\ queue' \in Seq(Word)
         /\ Level \in 0 .. Depth /\ Level' \in 0 .. Depth
         /\ Len(queue') = Level' + TakenNext
         /\ \A i \in 1 .. Level' : Content(i)' = queue'[TakenNext + i]
         /\ Level > 0 => rdata' = queue[Taken + 1]
         /\ ~enable => Level' = 0
         /\ enable /\ ~Pushes(req) /\ ~fifo_re => Level' = Level
         /\ Len(queue) = Level + Taken
         /\ Whole'
<1> DEFINE push == Pushes(req)
<1>1. /\ DmaTypeOK /\ Depth \in Nat /\ Depth > 3 /\ Level <= Depth /\ Level \in 0 .. Depth
      /\ Len(queue) = Level + Taken /\ Len(queue) \in Nat /\ queue \in Seq(Word)
      /\ \A i \in 1 .. Level : Content(i) = queue[Taken + i]
      /\ written \in Nat /\ req.data \in Word
  BY Sizes, Flags, RequestFacts, LenProperties DEF DmaInv, Holds, Content, DmaTypeOK
<1>2. /\ push => enable /\ ~engine.run /\ Level < Depth
      /\ written' = IF push THEN written + 1 ELSE written
      /\ ~enable => queue' = <<>>
      /\ enable => queue' = IF push THEN Append(queue, req.data)
                            ELSE IF engine.state = "S_GET_3" THEN SubSeq(queue, 4, Len(queue))
                            ELSE queue
      /\ push => \E p \in Programs : req.data = p[(written % 3) + 1]
  BY ProgramStep, RequestFacts DEF DmaInv
<1>3. /\ push \in BOOLEAN /\ fifo_re \in BOOLEAN
      /\ push => engine.state = "S_CHECK"
      /\ fifo_re => enable /\ Level > 0 /\ ~push
      /\ FifoEdge(~enable, push, req.data, fifo_re)
  <2>1. push \in BOOLEAN /\ fifo_re \in BOOLEAN
    BY RequestFacts, <1>1 DEF Pushes, fifo_re
  <2>2. push => engine.state = "S_CHECK"
    BY <1>2 DEF DmaInv, Runs
  <2>3. fifo_re => enable /\ Level > 0
    BY <1>1 DEF fifo_re, DmaInv, Fetched, Getting, Taken
  <2>4. FifoEdge(~enable, push, req.data, fifo_re)
    BY DEF Around, Pushes
  <2> QED
    BY <2>1, <2>2, <2>3, <2>4 DEF fifo_re
<1> HIDE DEF push
<1>4. /\ fifo' \in [0 .. Depth - 1 -> Word] /\ rdata' \in Word
      /\ w_pnt' \in 0 .. 2 * Depth - 1 /\ r_pnt' \in 0 .. 2 * Depth - 1
      /\ avail' \in BOOLEAN /\ (avail' <=> Level > 0)
      /\ Level > 0 => rdata' = Content(1)
      /\ ~enable => Level' = 0
      /\ enable /\ push => /\ Level' = Level + 1
                           /\ \A i \in 1 .. Level : Content(i)' = Content(i)
                           /\ \A i \in 1 .. Depth : i = Level + 1 => Content(i)' = req.data
      /\ enable /\ fifo_re => /\ Level' = Level - 1
                              /\ \A i \in 1 .. Level' : Content(i)' = Content(i + 1)
      /\ enable /\ ~push /\ ~fifo_re => /\ Level' = Level
                                        /\ \A i \in 1 .. Level : Content(i)' = Content(i)
  BY <1>1, <1>2, <1>3, FifoStep
<1>5. Level > 0 => rdata' = queue[Taken + 1]
  BY <1>1, <1>4
<1>6. /\ Len(queue) % 3 = written % 3
      /\ \A k \in 1 .. Len(queue) : k % 3 = 0 => conf_num(queue[k]) > 0
  BY DEF DmaInv, Whole
<1> DEFINE Goal == /\ queue' \in Seq(Word) /\ Level' \in 0 .. Depth
                   /\ Len(queue') = Level' + TakenNext
                   /\ \A i \in 1 .. Level' : Content(i)' = queue'[TakenNext + i]
                   /\ Len(queue') % 3 = written' % 3
                   /\ \A k \in 1 .. Len(queue') : k % 3 = 0 => conf_num(queue'[k]) > 0
<1>7. ASSUME ~enable
      PROVE Goal
  <2>1. queue' = <<>> /\ Level' = 0 /\ Len(<<>>) = 0 /\ written' = written /\ TakenNext = 0
    BY <1>2, <1>3, <1>4, <1>7 DEF TakenNext, fifo_re
  <2>2. queue' \in Seq(Word) /\ Len(queue') = 0
    BY <2>1
  <2>3. written' % 3 = 0
    BY <1>7, <2>1 DEF DmaInv, Runs
  <2> QED
    BY <1>1, <2>1, <2>2, <2>3
<1>8. ASSUME push
      PROVE Goal
  <2>1. /\ queue' = Append(queue, req.data) /\ Level' = Level + 1 /\ TakenNext = 0 /\ Taken = 0
        /\ written' = written + 1 /\ enable
    BY <1>2, <1>3, <1>4, <1>8 DEF TakenNext, Taken
  <2>2. /\ queue' \in Seq(Word) /\ Len(queue') = Len(queue) + 1
        /\ \A i \in 1 .. Len(queue) : queue'[i] = queue[i]
        /\ queue'[Len(queue) + 1] = req.data
    BY <1>1, <2>1, AppendProperties
  <2>3. ASSUME NEW i \in 1 .. Level' PROVE Content(i)' = queue'[TakenNext + i]
    <3>1. CASE i = Level + 1
      <4>1. Content(i)' = req.data
        BY <1>1, <1>2, <1>4, <1>8, <2>1, <3>1
      <4> QED
        BY <1>1, <2>1, <2>2, <3>1, <4>1
    <3>2. CASE i # Level + 1
      <4>1. i \in 1 .. Level
        BY <1>1, <2>1, <3>2
      <4> QED
        BY <1>1, <1>4, <1>8, <2>1, <2>2, <4>1
    <3> QED
      BY <3>1, <3>2
  <2>4. Len(queue') % 3 = written' % 3
    BY <1>1, <1>6, <2>1, <2>2
  <2>5. ASSUME NEW k \in 1 .. Len(queue'), k % 3 = 0 PROVE conf_num(queue'[k]) > 0
    <3>1. CASE k = Len(queue) + 1
      <4>1. written % 3 = 2
        BY <1>1, <1>6, <2>5, <3>1
      <4>2. PICK p \in Programs : req.data = p[(written % 3) + 1]
        BY <1>2, <1>8
      <4>3. req.data = p[3]
        BY <4>1, <4>2
      <4> QED
        BY <2>2, <3>1, <4>3, DmaAssumption
    <3>2. CASE k # Len(queue) + 1
      <4>1. k \in 1 .. Len(queue)
        BY <1>1, <2>2, <3>2
      <4> QED
        BY <1>6, <2>2, <2>5, <4>1
    <3> QED
      BY <3>1, <3>2
  <2>6. Level' \in 0 .. Depth
    BY <1>1, <1>2, <1>8, <2>1
  <2> QED
    BY <1>1, <2>1, <2>2, <2>3, <2>4, <2>5, <2>6
<1>9. ASSUME enable /\ fifo_re
      PROVE Goal
  <2>1. /\ queue' = queue /\ Level' = Level - 1 /\ TakenNext = Taken + 1 /\ written' = written
        /\ \A i \in 1 .. Level' : Content(i)' = Content(i + 1)
    BY <1>2, <1>3, <1>4, <1>9 DEF TakenNext, fifo_re
  <2>2. Taken \in 0 .. 3
    BY DEF Taken
  <2>3. Level' \in 0 .. Depth /\ Len(queue') = Level' + TakenNext
    BY <1>1, <1>3, <1>9, <2>1, <2>2
  <2>4. ASSUME NEW i \in 1 .. Level' PROVE Content(i)' = queue'[TakenNext + i]
    <3>1. i + 1 \in 1 .. Level /\ Taken + (i + 1) = TakenNext + i
      BY <1>1, <2>1, <2>2, <2>3
    <3> QED
      BY <1>1, <2>1, <3>1
  <2> QED
    BY <1>1, <1>6, <2>1, <2>3, <2>4
<1>10. ASSUME enable /\ engine.state = "S_GET_3"
       PROVE Goal
  <2>1. /\ queue' = SubSeq(queue, 4, Len(queue)) /\ Level' = Level /\ TakenNext = 0 /\ Taken = 3
        /\ written' = written /\ \A i \in 1 .. Level : Content(i)' = Content(i)
    BY <1>2, <1>3, <1>4, <1>10 DEF TakenNext, Taken, fifo_re
  <2>2. Len(queue) >= 3
    BY <1>1, <2>1
  <2>3. /\ queue' \in Seq(Word) /\ Len(queue') = Len(queue) - 3
        /\ \A i \in 1 .. Len(queue) - 3 : queue'[i] = queue[i + 3]
    <3>1. \A i \in 4 .. Len(queue) : queue[i] \in Word
      BY <1>1, ElementOfSeq
    <3>2. /\ queue' \in Seq(Word) /\ Len(queue') = IF 4 <= Len(queue) THEN Len(queue) - 4 + 1 ELSE 0
          /\ \A i \in 1 .. Len(queue) - 4 + 1 : queue'[i] = queue[4 + i - 1]
      BY <1>1, <2>1, <3>1, SubSeqProperties
    <3> QED
      BY <1>1, <2>2, <3>2
  <2>4. ASSUME NEW i \in 1 .. Level' PROVE Content(i)' = queue'[TakenNext + i]
    <3>1. i \in 1 .. Level /\ i \in 1 .. Len(queue) - 3 /\ TakenNext + i = i /\ Taken + i = i + 3
      BY <1>1, <2>1
    <3> QED
      BY <1>1, <2>1, <2>3, <3>1
  <2>5. Len(queue') % 3 = written' % 3
    BY <1>1, <1>6, <2>1, <2>2, <2>3
  <2>6. ASSUME NEW k \in 1 .. Len(queue'), k % 3 = 0 PROVE conf_num(queue'[k]) > 0
    <3>1. k + 3 \in 1 .. Len(queue) /\ (k + 3) % 3 = 0 /\ k \in 1 .. Len(queue) - 3
      BY <1>1, <2>2, <2>3, <2>6
    <3> QED
      BY <1>6, <2>3, <3>1
  <2> QED
    BY <1>1, <2>1, <2>2, <2>3, <2>4, <2>5, <2>6
<1>11. ASSUME enable /\ ~push /\ ~fifo_re /\ engine.state # "S_GET_3"
       PROVE Goal
  <2>1. /\ queue' = queue /\ Level' = Level /\ TakenNext = 0 /\ Taken = 0 /\ written' = written
        /\ \A i \in 1 .. Level : Content(i)' = Content(i)
    BY <1>2, <1>4, <1>11 DEF TakenNext, Taken, fifo_re
  <2> QED
    BY <1>1, <1>6, <2>1
<1>12. Goal
  BY <1>3, <1>7, <1>8, <1>9, <1>10, <1>11 DEF DmaInv, DmaTypeOK
<1> QED
  BY <1>1, <1>4, <1>5, <1>12 DEF Whole, push

\* The FIFO stays in step with the queue if the engine counts the words it takes.
LEMMA HoldsNext ==
  ASSUME DmaInv, NEW req \in Requests, NEW rsp \in Answers, Around(req, rsp), Taken' = TakenNext
  PROVE  Holds'
<1>1. /\ Depth \in Nat /\ Level' \in 0 .. Depth /\ Len(queue') = Level' + TakenNext
      /\ \A i \in 1 .. Level' : Content(i)' = queue'[TakenNext + i]
  BY QueueStep, Sizes
<1>2. Level' <= Depth /\ Len(queue') = Level' + Taken'
  BY <1>1
<1>3. \A i \in 1 .. Level' : fifo'[(r_pnt' + i - 1) % Depth] = queue'[Taken' + i]
  BY <1>1 DEF Content
<1> QED
  BY <1>2, <1>3 DEF Holds

\* What is true of the program while the engine runs stays so.
LEMMA RunsNext ==
  ASSUME DmaInv, NEW req \in Requests, NEW rsp \in Answers, Around(req, rsp),
         engine.run, engine'.run, ~engine'.done, fifo_re => Getting'
  PROVE  Runs'
<1>1. /\ ~Pushes(req) /\ written' = written /\ ~start' /\ ~done' /\ written % 3 = 0
      /\ Getting => enable /\ avail
      /\ ~Getting => (avail <=> queue # <<>>)
      /\ ~enable => queue = <<>> /\ queue' = <<>>
      /\ enable /\ ~enable' => ~avail
      /\ enable => queue' = IF engine.state = "S_GET_3" THEN SubSeq(queue, 4, Len(queue)) ELSE queue
  BY ProgramStep DEF DmaInv, Runs, Fetched
<1>2. /\ avail' <=> Level > 0
      /\ ~enable => Level' = 0
      /\ enable /\ ~fifo_re => Level' = Level
      /\ Len(queue) = Level + Taken /\ Len(queue') = Level' + TakenNext
      /\ Level \in Nat /\ Level' \in Nat
      /\ queue' \in Seq(Word) /\ queue \in Seq(Word)
  BY <1>1, QueueStep, Sizes DEF DmaInv, DmaTypeOK
<1>3. /\ queue' # <<>> <=> Len(queue') > 0
      /\ queue # <<>> <=> Len(queue) > 0
  BY <1>2, EmptySeq
<1>4. ~Getting' => (avail' <=> queue' # <<>>)
  <2>1. ~Getting' => ~fifo_re /\ TakenNext = 0
    BY DEF fifo_re, TakenNext
  <2>2. ~enable => Taken = 0
    BY <1>1 DEF Getting, Taken
  <2> QED
    BY <1>1, <1>2, <1>3, <2>1, <2>2
<1>5. ~enable' => queue' = <<>>
  BY <1>1 DEF Getting
<1>6. ~enable' => written' % 3 = 0
  BY <1>1
<1> QED
  BY <1>1, <1>4, <1>5, <1>6 DEF Runs

-------------------------------------------------------------------------------
(* The engine.                                                               *)

Kept == engine' \in Engines /\ Taken' = TakenNext /\ Fetched' /\ Runs'

\* What the engine finds at an edge while it runs.
LEMMA RunningFacts ==
  ASSUME DmaInv, NEW req \in Requests, NEW rsp \in Answers, Around(req, rsp), engine.run
  PROVE  /\ engine \in Engines /\ rdata \in Word /\ queue \in Seq(Word) /\ ~engine.done
         /\ enable => queue' = IF engine.state = "S_GET_3" THEN SubSeq(queue, 4, Len(queue))
                               ELSE queue
         /\ Getting => enable /\ enable' /\ avail /\ ~engine.num_or /\ Len(queue) >= 3
         /\ avail' <=> Level > 0
         /\ Len(queue) = Level + Taken /\ Level \in Nat
         /\ Level > 0 => rdata' = queue[Taken + 1]
<1>1. /\ engine \in Engines /\ rdata \in Word /\ queue \in Seq(Word)
      /\ ~engine.done /\ (Getting => enable /\ avail /\ ~engine.num_or /\ Len(queue) >= 3)
  BY DEF DmaInv, DmaTypeOK, Fetched, Runs
<1>2. /\ avail' <=> Level > 0
      /\ Len(queue) = Level + Taken /\ Level \in Nat
      /\ Level > 0 => rdata' = queue[Taken + 1]
  BY QueueStep, Sizes
<1>3. /\ ~Pushes(req) /\ (enable /\ ~enable' => ~avail)
      /\ enable => queue' = IF Pushes(req) THEN Append(queue, req.data)
                            ELSE IF engine.state = "S_GET_3" THEN SubSeq(queue, 4, Len(queue))
                            ELSE queue
  BY ProgramStep
<1> QED
  BY <1>1, <1>2, <1>3

LEMMA Get0Keeps ==
  ASSUME DmaInv, NEW req \in Requests, NEW rsp \in Answers, Around(req, rsp), Get0
  PROVE  Kept
<1>1. engine.state = "S_GET_0" /\ engine' = [engine EXCEPT !.state = "S_GET_1"]
  BY DEF Get0
<1>2. engine.run /\ Getting /\ Taken = 0 /\ TakenNext = 1
  BY <1>1 DEF DmaInv, Runs, Getting, Taken, TakenNext
<1>3. /\ engine \in Engines /\ queue' = queue /\ enable' /\ ~engine.num_or /\ Len(queue) >= 3
      /\ avail' /\ rdata' = queue[1] /\ ~engine.done
  BY <1>1, <1>2, RunningFacts
<1>4. /\ engine' \in Engines /\ engine'.state = "S_GET_1" /\ engine'.run /\ ~engine'.done
      /\ ~engine'.num_or
  BY <1>1, <1>2, <1>3 DEF Engines
<1>5. Taken' = TakenNext /\ Getting'
  BY <1>2, <1>4 DEF Taken, Getting
<1>6. Fetched'
  BY <1>3, <1>4 DEF Fetched
<1>7. Runs'
  BY <1>2, <1>4, <1>5, RunsNext
<1> QED
  BY <1>4, <1>5, <1>6, <1>7 DEF Kept

LEMMA Get1Keeps ==
  ASSUME DmaInv, NEW req \in Requests, NEW rsp \in Answers, Around(req, rsp), Get1
  PROVE  Kept
<1>1. engine.state = "S_GET_1"
  BY DEF Get1
<1>2. engine.run /\ Getting /\ Taken = 1 /\ TakenNext = 2
  BY <1>1 DEF DmaInv, Runs, Getting, Taken, TakenNext
<1>3. /\ engine \in Engines /\ queue' = queue /\ enable' /\ ~engine.num_or /\ Len(queue) >= 3
      /\ avail /\ avail' /\ rdata' = queue[2] /\ ~engine.done /\ rdata \in Word
  BY <1>1, <1>2, RunningFacts
<1>4. engine' = [engine EXCEPT !.src_addr = rdata, !.state = "S_GET_2"] /\ rdata = queue[1]
  BY <1>1, <1>3 DEF Get1, DmaInv, Fetched
<1>5. /\ engine' \in Engines /\ engine'.state = "S_GET_2" /\ engine'.run /\ ~engine'.done
      /\ ~engine'.num_or /\ engine'.src_addr = queue[1]
  BY <1>2, <1>3, <1>4 DEF Engines
<1>6. Taken' = TakenNext /\ Getting'
  BY <1>2, <1>5 DEF Taken, Getting
<1>7. Fetched'
  BY <1>3, <1>5 DEF Fetched
<1>8. Runs'
  BY <1>2, <1>5, <1>6, RunsNext
<1> QED
  BY <1>5, <1>6, <1>7, <1>8 DEF Kept

LEMMA Get2Keeps ==
  ASSUME DmaInv, NEW req \in Requests, NEW rsp \in Answers, Around(req, rsp), Get2
  PROVE  Kept
<1>1. engine.state = "S_GET_2"
  BY DEF Get2
<1>2. engine.run /\ Getting /\ Taken = 2 /\ TakenNext = 3
  BY <1>1 DEF DmaInv, Runs, Getting, Taken, TakenNext
<1>3. /\ engine \in Engines /\ queue' = queue /\ enable' /\ ~engine.num_or /\ Len(queue) >= 3
      /\ avail /\ avail' /\ rdata' = queue[3] /\ ~engine.done /\ rdata \in Word
  BY <1>1, <1>2, RunningFacts
<1>4. /\ engine' = [engine EXCEPT !.dst_addr = rdata, !.state = "S_GET_3"]
      /\ rdata = queue[2] /\ engine.src_addr = queue[1]
  BY <1>1, <1>3 DEF Get2, DmaInv, Fetched
<1>5. /\ engine' \in Engines /\ engine'.state = "S_GET_3" /\ engine'.run /\ ~engine'.done
      /\ ~engine'.num_or /\ engine'.src_addr = queue[1] /\ engine'.dst_addr = queue[2]
  BY <1>2, <1>3, <1>4 DEF Engines
<1>6. Taken' = TakenNext /\ Getting'
  BY <1>2, <1>5 DEF Taken, Getting
<1>7. Fetched'
  BY <1>3, <1>5 DEF Fetched
<1>8. Runs'
  BY <1>2, <1>5, <1>6, RunsNext
<1> QED
  BY <1>5, <1>6, <1>7, <1>8 DEF Kept

\* The fields of a configuration word.
LEMMA Fields ==
  ASSUME NEW w \in Word
  PROVE  conf_num(w) \in 0 .. Elements - 1 /\ conf_src(w) \in {0, 1} /\ conf_dst(w) \in {0, 1}
<1> DEFINE e == Elements
<1>1. e \in Nat \ {0} /\ w \in 0 .. 4 * e - 1 /\ 2 ^ (WordBits - 1) = 2 * e /\ e = 2 ^ (WordBits - 2)
  BY Sizes DEF Elements
<1>2. conf_num(w) = w % e /\ conf_src(w) = (w \div e) % 2 /\ conf_dst(w) = w \div (2 * e)
  BY <1>1 DEF conf_num, conf_src, conf_dst
<1> HIDE DEF e
<1>3. w % e \in 0 .. e - 1
  BY <1>1
<1>4. (w \div e) % 2 \in {0, 1}
  BY <1>1
<1>5. w \div (2 * e) \in {0, 1}
  <2> DEFINE m == 2 * e
             d == w \div m
  <2>1. m \in Nat \ {0} /\ w \in 0 .. 2 * m - 1
    BY <1>1
  <2> HIDE DEF m
  <2>2. d \in Int /\ m * d <= w /\ w < m * d + m
    BY <2>1
  <2> HIDE DEF d
  <2>3. d < 2
    <3>1. ASSUME d >= 2 PROVE FALSE
      <4>1. m * d >= m * 2
        BY <2>1, <2>2, <3>1
      <4> QED
        BY <2>1, <2>2, <4>1
    <3> QED
      BY <2>2, <3>1
  <2>4. d >= 0
    <3>1. ASSUME d <= -1 PROVE FALSE
      <4>1. m * d <= m * (-1)
        BY <2>1, <2>2, <3>1
      <4> QED
        BY <2>1, <2>2, <4>1
    <3> QED
      BY <2>2, <3>1
  <2>5. d \in {0, 1}
    BY <2>2, <2>3, <2>4
  <2> QED
    BY <2>5 DEF d, m
<1> QED
  BY <1>2, <1>3, <1>4, <1>5 DEF e

LEMMA Get3Keeps ==
  ASSUME DmaInv, NEW req \in Requests, NEW rsp \in Answers, Around(req, rsp), Get3
  PROVE  Kept /\ engine'.state = "S_READ_REQ"
<1>1. engine.state = "S_GET_3"
  BY DEF Get3
<1>2. engine.run /\ Getting /\ Taken = 3 /\ TakenNext = 0 /\ ~fifo_re
  BY <1>1 DEF DmaInv, Runs, Getting, Taken, TakenNext, fifo_re
<1>3. /\ engine \in Engines /\ Len(queue) >= 3 /\ ~engine.done /\ rdata \in Word
      /\ queue \in Seq(Word)
  BY <1>1, <1>2, RunningFacts
<1>4. /\ engine' = [engine EXCEPT !.num = conf_num(rdata), !.src_inc = conf_src(rdata),
                                  !.dst_inc = conf_dst(rdata), !.state = "S_READ_REQ"]
      /\ rdata = queue[3]
  BY <1>1 DEF Get3, DmaInv, Fetched
<1>5. /\ conf_num(rdata) \in 0 .. Elements - 1 /\ conf_src(rdata) \in {0, 1}
      /\ conf_dst(rdata) \in {0, 1}
  BY <1>3, Fields
<1>6. conf_num(rdata) > 0
  <2>1. 3 \in 1 .. Len(queue) /\ 3 % 3 = 0
    BY <1>3
  <2> QED
    BY <1>4, <2>1 DEF DmaInv, Whole
<1>7. /\ engine' \in Engines /\ engine'.state = "S_READ_REQ" /\ engine'.run /\ ~engine'.done
      /\ engine'.num > 0
  BY <1>2, <1>3, <1>4, <1>5, <1>6 DEF Engines
<1>8. Taken' = TakenNext
  BY <1>2, <1>7 DEF Taken
<1>9. Fetched'
  BY <1>7 DEF Fetched, Getting
<1>10. Runs'
  BY <1>2, <1>7, RunsNext
<1> QED
  BY <1>7, <1>8, <1>9, <1>10 DEF Kept

Moving == engine.state \in {"S_READ_REQ", "S_READ_RSP", "S_WRITE_REQ", "S_WRITE_RSP"}

LEMMA MovingKeeps ==
  ASSUME DmaInv, NEW req \in Requests, NEW rsp \in Answers, Around(req, rsp), Moving,
         ~Getting', engine'.run, ~engine'.done
  PROVE  Taken' = TakenNext /\ Runs'
<1>1. engine.run /\ ~fifo_re /\ TakenNext = 0
  BY DEF Moving, DmaInv, Runs, fifo_re, TakenNext
<1>2. Taken' = 0
  BY DEF Getting, Taken
<1> QED
  BY <1>1, <1>2, RunsNext

LEMMA ReadReqKeeps ==
  ASSUME DmaInv, NEW req \in Requests, NEW rsp \in Answers, Around(req, rsp), ReadReq
  PROVE  /\ Kept /\ engine'.num = engine.num - 1
<1>1. /\ engine.state = "S_READ_REQ" /\ engine.num > 0 /\ Moving /\ engine.run /\ ~engine.done
      /\ engine \in Engines
  BY DEF ReadReq, DmaInv, DmaTypeOK, Fetched, Moving, Runs
<1>2. /\ Elements \in Nat \ {0} /\ engine.num \in 0 .. Elements - 1 /\ engine.dst_addr \in Word
      /\ DstStep \in {0, 1} /\ Word = 0 .. 4 * Elements - 1
  BY <1>1, Sizes DEF Engines, DstStep
<1> DEFINE n == (engine.num - 1) % Elements
           d == (engine.dst_addr + DstStep) % 2 ^ WordBits
<1>3. n = engine.num - 1
  <2>1. engine.num - 1 \in Nat /\ engine.num - 1 < Elements
    BY <1>1, <1>2
  <2> QED
    BY <1>2, <2>1, Remainder
<1>4. d \in Word
  <2>1. 2 ^ WordBits \in Nat \ {0} /\ Word = 0 .. 2 ^ WordBits - 1
    BY Sizes DEF Word
  <2>2. engine.dst_addr + DstStep \in Nat
    BY <1>2
  <2> QED
    BY <2>1, <2>2
<1>5. engine' = [engine EXCEPT !.dst_addr = d, !.num = n, !.state = "S_READ_RSP"]
  BY DEF ReadReq, Elements
<1> HIDE DEF n, d
<1>6. n \in 0 .. Elements - 1
  BY <1>1, <1>2, <1>3
<1>7. /\ engine' \in Engines /\ engine'.state = "S_READ_RSP" /\ engine'.run /\ ~engine'.done
      /\ engine'.num = engine.num - 1
  BY <1>1, <1>3, <1>4, <1>5, <1>6 DEF Engines
<1>8. ~Getting' /\ Fetched'
  BY <1>7 DEF Getting, Fetched
<1> QED
  BY <1>1, <1>7, <1>8, MovingKeeps DEF Kept

LEMMA ReadRspKeeps ==
  ASSUME DmaInv, NEW req \in Requests, NEW rsp \in Answers, Around(req, rsp), ReadRsp(rsp)
  PROVE  Kept
<1>1. /\ engine.state = "S_READ_RSP" /\ Moving /\ engine.run /\ ~engine.done
      /\ engine \in Engines
  BY DEF ReadRsp, DmaInv, DmaTypeOK, Moving, Runs
<1>2. rsp.ack \in BOOLEAN /\ rsp.err \in BOOLEAN /\ (rsp.ack => rsp.data = engine.src_addr)
  BY AnswerFacts DEF DmaInv
<1>3. data_buf' = rsp.data
  BY <1>1, ProgramStep
<1>4. engine' = IF ~rsp.ack THEN engine
                ELSE [engine EXCEPT !.err = rsp.err,
                                    !.state = IF rsp.err THEN "S_CHECK" ELSE "S_WRITE_REQ"]
  BY DEF ReadRsp
<1>5. /\ engine' \in Engines /\ engine'.run /\ ~engine'.done /\ engine'.src_addr = engine.src_addr
      /\ engine'.state \in {"S_READ_RSP", "S_CHECK", "S_WRITE_REQ"}
      /\ engine'.state = "S_WRITE_REQ" => rsp.ack
  BY <1>1, <1>2, <1>4 DEF Engines
<1>6. ~Getting' /\ Fetched'
  BY <1>2, <1>3, <1>5 DEF Getting, Fetched
<1> QED
  BY <1>1, <1>5, <1>6, MovingKeeps DEF Kept

LEMMA WriteReqKeeps ==
  ASSUME DmaInv, NEW req \in Requests, NEW rsp \in Answers, Around(req, rsp), WriteReq
  PROVE  Kept
<1>1. /\ engine.state = "S_WRITE_REQ" /\ Moving /\ engine.run /\ ~engine.done
      /\ engine \in Engines
  BY DEF WriteReq, DmaInv, DmaTypeOK, Moving, Runs
<1> DEFINE s == (engine.src_addr + engine.src_inc) % 2 ^ WordBits
<1>2. s \in Word
  <2>1. 2 ^ WordBits \in Nat \ {0} /\ Word = 0 .. 2 ^ WordBits - 1
    BY Sizes DEF Word
  <2>2. engine.src_addr + engine.src_inc \in Nat
    BY <1>1, <2>1 DEF Engines
  <2> QED
    BY <2>1, <2>2
<1>3. engine' = [engine EXCEPT !.src_addr = s, !.num_or = (engine.num # 0), !.state = "S_WRITE_RSP"]
  BY DEF WriteReq
<1> HIDE DEF s
<1>4. /\ engine' \in Engines /\ engine'.state = "S_WRITE_RSP" /\ engine'.run /\ ~engine'.done
      /\ (engine'.num_or <=> engine'.num # 0)
  BY <1>1, <1>2, <1>3 DEF Engines
<1>5. ~Getting' /\ Fetched'
  BY <1>4 DEF Getting, Fetched
<1> QED
  BY <1>1, <1>4, <1>5, MovingKeeps DEF Kept

LEMMA WriteRspKeeps ==
  ASSUME DmaInv, NEW req \in Requests, NEW rsp \in Answers, Around(req, rsp), WriteRsp(rsp)
  PROVE  Kept
<1>1. /\ engine.state = "S_WRITE_RSP" /\ Moving /\ engine.run /\ ~engine.done
      /\ engine \in Engines /\ (engine.num_or <=> engine.num # 0)
  BY DEF WriteRsp, DmaInv, DmaTypeOK, Moving, Runs, Fetched
<1>2. rsp.ack \in BOOLEAN /\ rsp.err \in BOOLEAN
  BY AnswerFacts DEF DmaInv
<1>3. engine' = IF ~rsp.ack THEN engine
                ELSE [engine EXCEPT !.err = rsp.err,
                        !.state = IF ~engine.num_or \/ ~enable \/ rsp.err THEN "S_CHECK"
                                                                           ELSE "S_READ_REQ"]
  BY DEF WriteRsp
<1>4. engine.num \in 0 .. Elements - 1 /\ Elements \in Nat
  BY <1>1, Sizes DEF Engines
<1>5. /\ engine' \in Engines /\ engine'.run /\ ~engine'.done /\ engine'.num = engine.num
      /\ engine'.num_or = engine.num_or
      /\ engine'.state \in {"S_WRITE_RSP", "S_CHECK", "S_READ_REQ"}
      /\ engine'.state = "S_READ_REQ" => engine.num_or
  BY <1>1, <1>2, <1>3 DEF Engines
<1>6. ~Getting' /\ Fetched'
  BY <1>1, <1>4, <1>5 DEF Getting, Fetched
<1> QED
  BY <1>1, <1>5, <1>6, MovingKeeps DEF Kept

LEMMA CheckKeeps ==
  ASSUME DmaInv, NEW req \in Requests, NEW rsp \in Answers, Around(req, rsp), Check
  PROVE  Kept
<1> DEFINE go == IF engine.run THEN NextDescriptor ELSE avail /\ start /\ ~err
<1>1. /\ engine.state = "S_CHECK" /\ ~Getting /\ ~fifo_re /\ TakenNext = 0 /\ Taken = 0
      /\ engine \in Engines /\ engine.run \in BOOLEAN
      /\ queue \in Seq(Word) /\ queue' \in Seq(Word)
  BY QueueStep DEF Check, DmaInv, DmaTypeOK, Getting, fifo_re, TakenNext, Taken, Engines
<1>2. engine' = [engine EXCEPT !.state = IF go THEN "S_GET_0" ELSE "S_CHECK",
                               !.run = go, !.done = Finished(go), !.err = FALSE,
                               !.num_or = FALSE]
  BY DEF Check
<1>3. go \in BOOLEAN
  BY <1>1 DEF NextDescriptor, DmaInv, DmaTypeOK, Engines
<1>4. /\ engine' \in Engines /\ engine'.state = (IF go THEN "S_GET_0" ELSE "S_CHECK")
      /\ engine'.run = go /\ (engine'.done <=> engine.run /\ ~go) /\ ~engine'.num_or
  BY <1>1, <1>2, <1>3 DEF Engines, Finished
<1>5. engine.run /\ go => avail
  BY DEF NextDescriptor
<1>6. ~engine.run /\ go => avail /\ start
  OBVIOUS
<1>7. engine.run /\ ~go => ~avail \/ engine.err \/ err
  BY DEF NextDescriptor
<1> HIDE DEF go
<1>8. Taken' = TakenNext
  BY <1>1, <1>3, <1>4 DEF Taken
<1>9. /\ avail' <=> Level > 0
      /\ Len(queue) = Level /\ Level \in Nat
  <2>1. Taken = 0 /\ Level \in Nat
    BY <1>1, QueueStep, Sizes
  <2>2. Len(queue) = Level + Taken /\ (avail' <=> Level > 0)
    BY QueueStep
  <2> QED
    BY <2>1, <2>2
<1>10. queue # <<>> <=> Len(queue) > 0
  BY <1>1, <1>9, EmptySeq
<1>11. /\ engine.run => ~Pushes(req) /\ ~start' /\ written % 3 = 0 /\ ~done
                        /\ (done' => engine.done) /\ (avail <=> queue # <<>>) /\ ~engine.done
       /\ start => /\ ~start' /\ ~Pushes(req) /\ enable' = enable /\ enable /\ ~done
                   /\ ~engine.done /\ written % 3 = 0 /\ queue # <<>>
       /\ start' => /\ strobed' /\ enable' /\ ~engine.run /\ ~done' /\ enable
                    /\ written % 3 = 0 /\ queue # <<>> /\ ~Pushes(req)
       /\ done' => done \/ engine.done
       /\ enable /\ ~enable' => /\ written % 3 = 0 /\ ~Pushes(req) /\ (~engine.run \/ ~avail)
       /\ ~enable => queue' = <<>> /\ ~Pushes(req) /\ written % 3 = 0
       /\ enable => queue' = IF Pushes(req) THEN Append(queue, req.data) ELSE queue
       /\ written' = IF Pushes(req) THEN written + 1 ELSE written
       /\ engine.run /\ ~enable => queue = <<>>
       /\ enable /\ ~done /\ (err \/ engine.err) /\ (engine.run \/ done') => err'
  <2>1. /\ engine.run => written % 3 = 0 /\ ~done /\ (avail <=> queue # <<>>) /\ ~engine.done
        /\ start => /\ strobed /\ enable /\ ~done /\ ~engine.done /\ written % 3 = 0 /\ queue # <<>>
        /\ ~enable => written % 3 = 0
        /\ engine.run /\ ~enable => queue = <<>>
    BY <1>1 DEF DmaInv, Runs
  <2>2. /\ engine.run => ~Pushes(req) /\ ~start' /\ (done' => engine.done)
        /\ strobed => ~start' /\ ~Pushes(req) /\ enable' = enable
        /\ start' => /\ strobed' /\ enable' /\ ~engine.run /\ ~done' /\ enable
                     /\ written % 3 = 0 /\ queue # <<>> /\ ~Pushes(req)
        /\ done' => done \/ engine.done
        /\ enable /\ ~enable' => /\ written % 3 = 0 /\ ~Pushes(req) /\ (~engine.run \/ ~avail)
        /\ ~enable => queue' = <<>> /\ ~Pushes(req)
        /\ written' = IF Pushes(req) THEN written + 1 ELSE written
        /\ enable /\ ~done /\ (err \/ engine.err) /\ (engine.run \/ done') => err'
    BY ProgramStep
  <2>3. enable => queue' = IF Pushes(req) THEN Append(queue, req.data) ELSE queue
    BY <1>1, ProgramStep
  <2> QED
    BY <2>1, <2>2, <2>3
<1>12. CASE go
  <2>1. ~start' /\ ~Pushes(req) /\ enable /\ enable' /\ ~done' /\ written % 3 = 0 /\ queue # <<>>
    BY <1>3, <1>5, <1>6, <1>11, <1>12
  <2>2. queue' = queue /\ written' = written
    BY <1>11, <2>1
  <2>3. Len(queue) >= 3
    <3>1. Len(queue) % 3 = 0
      BY <2>1 DEF DmaInv, Whole
    <3> QED
      BY <1>9, <1>10, <2>1, <3>1
  <2>4. avail' /\ Getting' /\ ~engine'.done /\ engine'.state = "S_GET_0" /\ engine'.run
    BY <1>4, <1>9, <1>12, <2>3 DEF Getting
  <2>5. Fetched'
    BY <1>4, <2>1, <2>2, <2>3, <2>4 DEF Fetched
  <2>6. Runs'
    BY <2>1, <2>2, <2>4 DEF Runs
  <2> QED
    BY <1>4, <1>8, <2>5, <2>6 DEF Kept
<1>13. CASE ~go
  <2>1. engine'.state = "S_CHECK" /\ ~engine'.run /\ ~Getting' /\ (engine'.done <=> engine.run)
    BY <1>3, <1>4, <1>13 DEF Getting
  <2>2. Fetched'
    BY <2>1 DEF Fetched
  <2>3. start' => /\ strobed' /\ enable' /\ ~engine'.run /\ ~done' /\ ~engine'.done
                  /\ written' % 3 = 0 /\ queue' # <<>>
    BY <1>11, <2>1
  <2>4. ~enable' => written' % 3 = 0
    <3>1. ~Pushes(req) => written' = written
      BY <1>11
    <3> QED
      BY <1>11, <3>1, ProgramStep
  <2>5. engine'.done => queue' = <<>> \/ err'
    <3>1. ASSUME engine.run PROVE queue' = <<>> \/ err'
      <4>1. CASE ~enable
        BY <1>11, <4>1
      <4>2. CASE enable /\ ~avail
        BY <1>11, <3>1, <4>2
      <4>3. CASE enable /\ (engine.err \/ err)
        BY <1>11, <3>1, <4>3
      <4> QED
        BY <1>7, <1>13, <3>1, <4>1, <4>2, <4>3
    <3> QED
      BY <2>1, <3>1
  <2>6. Runs'
    BY <2>1, <2>3, <2>4, <2>5 DEF Runs
  <2> QED
    BY <1>4, <1>8, <2>2, <2>6 DEF Kept
<1> QED
  BY <1>12, <1>13

-------------------------------------------------------------------------------
(* The theorems.                                                             *)

LEMMA DmaEdgeKeeps ==
  ASSUME DmaInv, NEW req \in Requests, NEW rsp \in Answers, DmaEdge(req, rsp)
  PROVE  DmaInv'
<1>1. Around(req, rsp)
  BY DEF DmaEdge
<1>2. Kept
  BY <1>1, CheckKeeps, Get0Keeps, Get1Keeps, Get2Keeps, Get3Keeps, ReadReqKeeps, ReadRspKeeps,
     WriteReqKeeps, WriteRspKeeps DEF DmaEdge
<1>3. Holds'
  BY <1>1, <1>2, HoldsNext DEF Kept
<1>4. Whole'
  BY <1>1, QueueStep
<1>5. DmaTypeOK'
  BY <1>1, <1>2, ProgramStep, QueueStep DEF Kept, DmaTypeOK
<1> QED
  BY <1>2, <1>3, <1>4, <1>5 DEF DmaInv, Kept

LEMMA DmaStart ==
  ASSUME DmaInit
  PROVE  DmaInv
<1>1. /\ Elements \in Nat \ {0} /\ Word = 0 .. 4 * Elements - 1 /\ 0 \in Word
      /\ Depth \in Nat /\ Depth > 3
  BY Sizes
<1>2. /\ enable = FALSE /\ start = FALSE /\ err = FALSE /\ done = FALSE
      /\ engine = [state |-> "S_CHECK", run |-> FALSE, done |-> FALSE, err |-> FALSE, num |-> 0,
                   num_or |-> FALSE, src_addr |-> 0, dst_addr |-> 0, src_inc |-> 0, dst_inc |-> 0]
      /\ data_buf = 0 /\ strobed = FALSE /\ owed = FALSE /\ written = 0 /\ queue = <<>>
      /\ fifo \in [0 .. Depth - 1 -> Leftovers] /\ rdata \in Leftovers
      /\ w_pnt = 0 /\ r_pnt = 0 /\ avail = FALSE
  BY DEF DmaInit, FifoInit
<1>3. queue \in Seq(Word) /\ Len(queue) = 0
  BY <1>2, EmptySeq
<1>4. engine \in Engines
  BY <1>1, <1>2 DEF Engines
<1>5. fifo \in [0 .. Depth - 1 -> Word] /\ rdata \in Word
  BY <1>2, DmaAssumption
<1>6. DmaTypeOK
  <2>1. w_pnt \in 0 .. 2 * Depth - 1 /\ r_pnt \in 0 .. 2 * Depth - 1 /\ written \in Nat
    BY <1>1, <1>2
  <2>2. /\ enable \in BOOLEAN /\ start \in BOOLEAN /\ err \in BOOLEAN /\ done \in BOOLEAN
        /\ avail \in BOOLEAN /\ strobed \in BOOLEAN /\ owed \in BOOLEAN /\ data_buf \in Word
    BY <1>1, <1>2
  <2> QED
    BY <1>3, <1>4, <1>5, <2>1, <2>2 DEF DmaTypeOK
<1>7. Level = 0 /\ Taken = 0 /\ ~Getting
  BY <1>1, <1>2 DEF Level, Taken, Getting
<1>8. Holds
  BY <1>1, <1>3, <1>7 DEF Holds
<1>9. Whole
  BY <1>2, <1>3 DEF Whole
<1>10. Fetched
  BY <1>2, <1>7 DEF Fetched
<1>11. Runs
  BY <1>2, <1>7 DEF Runs
<1> QED
  BY <1>6, <1>8, <1>9, <1>10, <1>11 DEF DmaInv

LEMMA DmaStays ==
  DmaInv /\ UNCHANGED dmaVars => DmaInv'
<1> SUFFICES ASSUME DmaInv, UNCHANGED dmaVars PROVE DmaInv'
  OBVIOUS
<1> USE DEF dmaVars, ctrlVars, fifoVars
<1>1. DmaTypeOK'
  BY DEF DmaInv, DmaTypeOK
<1>2. Holds' /\ Whole'
  BY DEF DmaInv, Holds, Whole, Level, Taken
<1>3. Fetched' /\ Runs'
  BY DEF DmaInv, Fetched, Runs, Getting
<1> QED
  BY <1>1, <1>2, <1>3 DEF DmaInv

\* Whatever the program and the memory do, the descriptors wait in the FIFO in the order in
\* which the program wrote them, and the engine has read what it needs of the first
\* (neorv32_dma.vhd, neorv32_prim_fifo.vhd).
THEOREM DmaInvariant == DmaSpec => []DmaInv
<1>1. DmaInit => DmaInv
  BY DmaStart
<1>2. DmaInv /\ [DmaNext]_dmaVars => DmaInv'
  BY DmaEdgeKeeps, DmaStays DEF DmaNext
<1> QED
  BY <1>1, <1>2, PTL DEF DmaSpec

\* The interrupt says that every descriptor was executed, or it comes with the error flag
\* (the control register, neorv32_dma.vhd).
THEOREM DmaDoneMeansAll == DmaSpec => DoneMeansAll
<1>1. DmaInv /\ [DmaNext]_dmaVars => [done' /\ ~done => queue = <<>> \/ err']_dmaVars
  <2> SUFFICES ASSUME DmaInv, DmaNext, done', ~done
               PROVE  queue = <<>> \/ err'
    OBVIOUS
  <2>1. PICK req \in Requests, rsp \in Answers : DmaEdge(req, rsp)
    BY DEF DmaNext
  <2>2. Around(req, rsp)
    BY <2>1 DEF DmaEdge
  <2>3. /\ done' => enable /\ (done \/ engine.done)
        /\ enable /\ ~done /\ (err \/ engine.err) /\ (engine.run \/ done') => err'
    BY <2>2, ProgramStep
  <2>4. engine.done => queue = <<>> \/ err
    BY DEF DmaInv, Runs
  <2> QED
    BY <2>3, <2>4
<1> QED
  BY <1>1, DmaInvariant, PTL DEF DmaSpec, DoneMeansAll

-------------------------------------------------------------------------------
(* The moves that are left.                                                  *)

\* n moves from s and d on.
MovesOf(n, s, src_inc, d, dst_inc) ==
  [i \in 1 .. n |-> [from |-> (s + (i - 1) * src_inc) % 2 ^ WordBits,
                     to   |-> (d + (i - 1) * dst_inc) % 2 ^ WordBits]]

AnyMove == [from : Nat, to : Nat]

LEMMA SumOfRemainders ==
  ASSUME NEW q \in Nat \ {0}, NEW x \in Nat, NEW b \in Nat
  PROVE  ((x % q) + b) % q = (x + b) % q
<1> DEFINE k == x \div q
           r == x % q
<1>1. k \in Int /\ r \in 0 .. q - 1 /\ x = q * k + r
  OBVIOUS
<1> HIDE DEF k, r
<1> DEFINE d == (r + b) \div q
           e == (r + b) % q
<1>2. d \in Int /\ e \in 0 .. q - 1 /\ r + b = q * d + e
  BY <1>1
<1> HIDE DEF d, e
<1> DEFINE f == (x + b) \div q
           g == (x + b) % q
<1>3. f \in Int /\ g \in 0 .. q - 1 /\ x + b = q * f + g
  OBVIOUS
<1> HIDE DEF f, g
<1>4. q * (k + d - f) = g - e
  BY <1>1, <1>2, <1>3
<1> DEFINE t == k + d - f
<1>5. t \in Int /\ q * t = g - e
  BY <1>1, <1>2, <1>3, <1>4
<1> HIDE DEF t
<1>6. ~ t >= 1
  <2> SUFFICES ASSUME t >= 1 PROVE FALSE
    OBVIOUS
  <2>1. q * t >= q
    BY <1>5
  <2> QED
    BY <1>2, <1>3, <1>5, <2>1
<1>7. ~ t <= -1
  <2> SUFFICES ASSUME t <= -1 PROVE FALSE
    OBVIOUS
  <2>1. q * t <= -q
    BY <1>5
  <2> QED
    BY <1>2, <1>3, <1>5, <2>1
<1>8. t = 0
  BY <1>5, <1>6, <1>7
<1>9. g = e
  BY <1>2, <1>3, <1>5, <1>8
<1> QED
  BY <1>9 DEF e, g, r

LEMMA MovesShape ==
  ASSUME NEW n \in Nat, NEW s \in Nat, NEW si \in Nat, NEW d \in Nat, NEW di \in Nat
  PROVE  /\ MovesOf(n, s, si, d, di) \in Seq(AnyMove)
         /\ Len(MovesOf(n, s, si, d, di)) = n
         /\ n = 0 => MovesOf(n, s, si, d, di) = <<>>
         /\ n > 0 => MovesOf(n, s, si, d, di) # <<>>
<1> DEFINE q == 2 ^ WordBits
           m == MovesOf(n, s, si, d, di)
<1>1. q \in Nat \ {0}
  BY Sizes
<1>2. m = [i \in 1 .. n |-> [from |-> (s + (i - 1) * si) % q, to |-> (d + (i - 1) * di) % q]]
  BY DEF MovesOf
<1> HIDE DEF q, m
<1>3. \A i \in 1 .. n : [from |-> (s + (i - 1) * si) % q, to |-> (d + (i - 1) * di) % q] \in AnyMove
  <2> TAKE i \in 1 .. n
  <2>1. s + (i - 1) * si \in Nat /\ d + (i - 1) * di \in Nat
    OBVIOUS
  <2>2. (s + (i - 1) * si) % q \in Nat /\ (d + (i - 1) * di) % q \in Nat
    BY <1>1, <2>1
  <2> QED
    BY <2>2 DEF AnyMove
<1>4. m \in [1 .. n -> AnyMove]
  BY <1>2, <1>3
<1>5. m \in Seq(AnyMove)
  BY <1>4
<1>6. Len(m) = n
  BY <1>4, <1>5, LenProperties
<1>7. (n = 0 => m = <<>>) /\ (n > 0 => m # <<>>)
  BY <1>5, <1>6, EmptySeq
<1> QED
  BY <1>5, <1>6, <1>7 DEF m

\* An address may be reduced before the moves are counted from it.
LEMMA MovesReduced ==
  ASSUME NEW n \in Nat, NEW s \in Nat, NEW si \in Nat, NEW d \in Nat, NEW di \in Nat
  PROVE  /\ MovesOf(n, s, si, d % 2 ^ WordBits, di) = MovesOf(n, s, si, d, di)
         /\ MovesOf(n, s % 2 ^ WordBits, si, d, di) = MovesOf(n, s, si, d, di)
<1> DEFINE q == 2 ^ WordBits
<1>1. q \in Nat \ {0}
  BY Sizes
<1> HIDE DEF q
<1>2. ASSUME NEW i \in 1 .. n
      PROVE  /\ ((s % q) + (i - 1) * si) % q = (s + (i - 1) * si) % q
             /\ ((d % q) + (i - 1) * di) % q = (d + (i - 1) * di) % q
  <2>1. (i - 1) * si \in Nat /\ (i - 1) * di \in Nat
    OBVIOUS
  <2> QED
    BY <1>1, <2>1, SumOfRemainders
<1> QED
  BY <1>2 DEF MovesOf, q

LEMMA HeadAndTail ==
  ASSUME NEW m \in Seq(AnyMove), NEW t \in Seq(AnyMove), Len(m) = Len(t) + 1,
         \A i \in 1 .. Len(t) : m[i + 1] = t[i]
  PROVE  m # <<>> /\ Head(m) = m[1] /\ Tail(m) = t
<1>1. Len(t) \in Nat /\ m # <<>>
  BY LenProperties, EmptySeq
<1>2. Head(m) = m[1]
  BY <1>1
<1>3. /\ Tail(m) \in Seq(AnyMove) /\ Len(Tail(m)) = Len(t)
      /\ \A i \in 1 .. Len(Tail(m)) : Tail(m)[i] = m[i + 1]
  BY <1>1, HeadTailProperties
<1>4. Tail(m) = t
  BY <1>3, SeqEqual
<1> QED
  BY <1>1, <1>2, <1>4

-------------------------------------------------------------------------------
(* The controller implements the transfers.                                  *)

NoMove == [from |-> -1, to |-> -1]

\* The state of the reference, as in the INSTANCE of Dma.
Todo == MovesOf(Left, engine.src_addr, engine.src_inc, NextDst, engine.dst_inc)
Move == IF engine.state = "S_WRITE_RSP" THEN [from |-> data_buf, to |-> engine.dst_addr]
        ELSE NoMove

\* The actions of the reference, in these terms.
LEMMA Mapped ==
  /\ Transfers!Init <=> queue = <<>> /\ Todo = <<>> /\ Move = NoMove
  /\ Transfers!Program <=> /\ queue' \in {Append(queue, w) : w \in 0 .. 2 ^ WordBits - 1}
                           /\ Todo' = Todo /\ Move' = Move
  /\ Transfers!Begin <=> /\ Todo = <<>> /\ Move = NoMove /\ Len(queue) >= 3
                         /\ Todo' = Transfers!Moves(queue[1], queue[2], queue[3])
                         /\ queue' = SubSeq(queue, 4, Len(queue)) /\ Move' = Move
  /\ Transfers!Write <=> /\ Todo # <<>> /\ Move = NoMove
                         /\ Move' = Head(Todo) /\ Todo' = Tail(Todo) /\ queue' = queue
  /\ Transfers!Written <=> ~engine'.err /\ Move' = NoMove /\ queue' = queue /\ Todo' = Todo
  /\ Transfers!Fail <=> engine'.err /\ Move' = NoMove /\ Todo' = <<>> /\ queue' = queue
  /\ Transfers!Abort <=> ~enable /\ Move' = NoMove /\ Todo' = <<>> /\ queue' = queue
  /\ Transfers!Clear <=> ~enable /\ queue' = <<>> /\ Todo' = Todo /\ Move' = Move
  /\ UNCHANGED Transfers!vars <=> queue' = queue /\ Todo' = Todo /\ Move' = Move
<1> USE DEF Todo, Move, NoMove, MovesOf, Transfers!NoMove
<1>1. Transfers!Init <=> queue = <<>> /\ Todo = <<>> /\ Move = NoMove
  BY DEF Transfers!Init
<1>2. Transfers!Program <=> /\ queue' \in {Append(queue, w) : w \in 0 .. 2 ^ WordBits - 1}
                            /\ Todo' = Todo /\ Move' = Move
  BY DEF Transfers!Program
<1>3. Transfers!Begin <=> /\ Todo = <<>> /\ Move = NoMove /\ Len(queue) >= 3
                          /\ Todo' = Transfers!Moves(queue[1], queue[2], queue[3])
                          /\ queue' = SubSeq(queue, 4, Len(queue)) /\ Move' = Move
  BY DEF Transfers!Begin
<1>4. Transfers!Write <=> /\ Todo # <<>> /\ Move = NoMove
                          /\ Move' = Head(Todo) /\ Todo' = Tail(Todo) /\ queue' = queue
  BY DEF Transfers!Write
<1>5. Transfers!Written <=> ~engine'.err /\ Move' = NoMove /\ queue' = queue /\ Todo' = Todo
  BY DEF Transfers!Written
<1>6. Transfers!Fail <=> engine'.err /\ Move' = NoMove /\ Todo' = <<>> /\ queue' = queue
  BY DEF Transfers!Fail
<1>7. Transfers!Abort <=> ~enable /\ Move' = NoMove /\ Todo' = <<>> /\ queue' = queue
  BY DEF Transfers!Abort
<1>8. Transfers!Clear <=> ~enable /\ queue' = <<>> /\ Todo' = Todo /\ Move' = Move
  BY DEF Transfers!Clear
<1>9. UNCHANGED Transfers!vars <=> queue' = queue /\ Todo' = Todo /\ Move' = Move
  BY DEF Transfers!vars
<1> QED
  BY <1>1, <1>2, <1>3, <1>4, <1>5, <1>6, <1>7, <1>8, <1>9

Follows == [Transfers!Next]_Transfers!vars

\* How to follow it.
LEMMA WaysToFollow ==
  /\ queue' = queue /\ Todo' = Todo /\ Move' = Move => Follows
  /\ Transfers!Program \/ Transfers!Begin \/ Transfers!Write \/ Transfers!Written
       \/ Transfers!Fail \/ Transfers!Abort \/ Transfers!Clear => Follows
BY Mapped DEF Follows, Transfers!Next

\* What the mapping says of the engine's state.
LEMMA LeftFacts ==
  ASSUME DmaInv
  PROVE  /\ Left \in Nat /\ NextDst \in Nat
         /\ engine.src_addr \in Nat /\ engine.src_inc \in Nat /\ engine.dst_inc \in Nat
         /\ engine.dst_addr \in Nat /\ engine.num \in Nat
         /\ Todo \in Seq(AnyMove) /\ Len(Todo) = Left
         /\ Left = 0 => Todo = <<>>
         /\ Left > 0 => Todo # <<>>
         /\ ~Moving => Left = 0 /\ Move = NoMove /\ Todo = <<>>
<1>1. /\ engine \in Engines /\ Elements \in Nat \ {0} /\ Word = 0 .. 4 * Elements - 1
  BY Sizes DEF DmaInv, DmaTypeOK
<1>2. /\ engine.src_addr \in Nat /\ engine.src_inc \in Nat /\ engine.dst_inc \in Nat
      /\ engine.dst_addr \in Nat /\ engine.num \in Nat
  BY <1>1 DEF Engines
<1>3. Left \in Nat
  BY <1>2 DEF Left
<1>4. NextDst \in Nat
  BY <1>2 DEF NextDst
<1>5. /\ Todo \in Seq(AnyMove) /\ Len(Todo) = Left
      /\ Left = 0 => Todo = <<>>
      /\ Left > 0 => Todo # <<>>
  <2> DEFINE n == Left
             s == engine.src_addr
             si == engine.src_inc
             d == NextDst
             di == engine.dst_inc
  <2>1. n \in Nat /\ s \in Nat /\ si \in Nat /\ d \in Nat /\ di \in Nat
    BY <1>2, <1>3, <1>4
  <2>2. Todo = MovesOf(n, s, si, d, di)
    BY DEF Todo
  <2> HIDE DEF n, s, si, d, di
  <2>3. /\ MovesOf(n, s, si, d, di) \in Seq(AnyMove) /\ Len(MovesOf(n, s, si, d, di)) = n
        /\ n = 0 => MovesOf(n, s, si, d, di) = <<>>
        /\ n > 0 => MovesOf(n, s, si, d, di) # <<>>
    BY <2>1, MovesShape
  <2> QED
    BY <2>2, <2>3 DEF n
<1>6. ~Moving => Left = 0 /\ Move = NoMove
  BY DEF Moving, Left, Move
<1> QED
  BY <1>2, <1>3, <1>4, <1>5, <1>6

\* When nothing moves, nothing is left.
Rested == Todo = <<>> /\ Move = NoMove

LEMMA AtRest == DmaInv /\ ~Moving => Rested
BY LeftFacts DEF Rested

LEMMA AtRestNext ==
  ASSUME DmaInv', ~Moving' PROVE Todo' = <<>> /\ Move' = NoMove
<1>1. DmaInv' /\ ~Moving' => Rested'
  BY AtRest, PTL
<1> QED
  BY <1>1 DEF Rested

Listed == Todo \in Seq(AnyMove) /\ Len(Todo) = Left

LEMMA TodoType == DmaInv => Listed
BY LeftFacts DEF Listed

LEMMA TodoTypeNext == DmaInv' => Listed'
BY TodoType, PTL

\* A running engine keeps the queue, but for the words of a descriptor that it begins.
LEMMA QueueKept ==
  ASSUME DmaInv, NEW req \in Requests, NEW rsp \in Answers, Around(req, rsp), engine.run,
         engine.state # "S_GET_3"
  PROVE  queue' = queue
<1>1. /\ ~Pushes(req) /\ (engine.run /\ ~enable => queue = <<>>)
      /\ ~enable => queue' = <<>>
      /\ enable => queue' = queue
  BY ProgramStep DEF DmaInv, Runs
<1> QED
  BY <1>1 DEF DmaInv, DmaTypeOK

LEMMA CheckFollows ==
  ASSUME DmaInv, DmaInv', NEW req \in Requests, NEW rsp \in Answers, Around(req, rsp), Check
  PROVE  Follows
<1>1. engine.state = "S_CHECK" /\ engine'.state \in {"S_CHECK", "S_GET_0"}
  <2>1. engine \in Engines
    BY DEF DmaInv, DmaTypeOK
  <2> QED
    BY <2>1 DEF Check, Engines
<1>2. Todo = <<>> /\ Move = NoMove
  BY <1>1, LeftFacts DEF Moving
<1>3. ~Moving'
  BY <1>1 DEF Moving
<1>4. Todo' = <<>> /\ Move' = NoMove
  BY <1>3, AtRestNext
<1>5. CASE ~enable
  <2>1. queue' = <<>>
    BY <1>5, ProgramStep
  <2> QED
    BY <1>2, <1>4, <1>5, <2>1, Mapped, WaysToFollow
<1>6. CASE enable
  <2>1. queue' = IF Pushes(req) THEN Append(queue, req.data) ELSE queue
    BY <1>1, <1>6, ProgramStep
  <2>2. req.data \in 0 .. 2 ^ WordBits - 1
    BY RequestFacts DEF DmaInv, Word
  <2>3. CASE Pushes(req)
    <3>1. queue' \in {Append(queue, w) : w \in 0 .. 2 ^ WordBits - 1}
      BY <2>1, <2>2, <2>3
    <3> QED
      BY <1>2, <1>4, <3>1, Mapped, WaysToFollow
  <2>4. CASE ~Pushes(req)
    BY <1>2, <1>4, <2>1, <2>4, WaysToFollow
  <2> QED
    BY <2>3, <2>4
<1> QED
  BY <1>5, <1>6 DEF DmaInv, DmaTypeOK

LEMMA GetFollows ==
  ASSUME DmaInv, DmaInv', NEW req \in Requests, NEW rsp \in Answers, Around(req, rsp),
         Get0 \/ Get1 \/ Get2
  PROVE  Follows
<1>1. engine \in Engines
  BY DEF DmaInv, DmaTypeOK
<1>2. /\ engine.state \in {"S_GET_0", "S_GET_1", "S_GET_2"}
      /\ engine'.state \in {"S_GET_1", "S_GET_2", "S_GET_3"}
  BY <1>1 DEF Get0, Get1, Get2, Engines
<1>3. Todo = <<>> /\ Move = NoMove
  BY <1>2, LeftFacts DEF Moving
<1>4. ~Moving'
  BY <1>2 DEF Moving
<1>5. Todo' = <<>> /\ Move' = NoMove
  BY <1>4, AtRestNext
<1>6. queue' = queue
  BY <1>2, QueueKept DEF DmaInv, Runs
<1> QED
  BY <1>3, <1>5, <1>6, WaysToFollow

LEMMA Get3Follows ==
  ASSUME DmaInv, DmaInv', NEW req \in Requests, NEW rsp \in Answers, Around(req, rsp), Get3
  PROVE  Follows
<1>1. /\ engine.state = "S_GET_3" /\ engine \in Engines /\ Getting
      /\ engine.src_addr = queue[1] /\ engine.dst_addr = queue[2] /\ rdata = queue[3]
      /\ enable /\ ~engine.num_or /\ Len(queue) >= 3
  BY DEF Get3, DmaInv, DmaTypeOK, Fetched, Getting
<1>2. engine' = [engine EXCEPT !.num = conf_num(rdata), !.src_inc = conf_src(rdata),
                               !.dst_inc = conf_dst(rdata), !.state = "S_READ_REQ"]
  BY DEF Get3
<1>3. Todo = <<>> /\ Move = NoMove
  BY <1>1, LeftFacts DEF Moving
<1>4. queue' = SubSeq(queue, 4, Len(queue))
  BY <1>1, RunningFacts DEF DmaInv, Runs
<1>5. /\ engine'.state = "S_READ_REQ" /\ engine'.num = conf_num(queue[3])
      /\ engine'.src_inc = conf_src(queue[3]) /\ engine'.dst_inc = conf_dst(queue[3])
      /\ engine'.src_addr = queue[1] /\ engine'.dst_addr = queue[2] /\ ~engine'.num_or
  BY <1>1, <1>2 DEF Engines
<1>6. Left' = conf_num(queue[3]) /\ NextDst' = queue[2] /\ Move' = NoMove
  BY <1>5 DEF Left, NextDst, Move
<1>7. Todo' = MovesOf(conf_num(queue[3]), queue[1], conf_src(queue[3]), queue[2],
                      conf_dst(queue[3]))
  BY <1>5, <1>6 DEF Todo
<1>8. Todo' = Transfers!Moves(queue[1], queue[2], queue[3])
  <2>1. 2 ^ (WordBits - 1) = 2 * 2 ^ (WordBits - 2)
    BY DmaAssumption
  <2> QED
    BY <1>7, <2>1 DEF MovesOf, Transfers!Moves, conf_num, conf_src, conf_dst
<1> QED
  BY <1>1, <1>3, <1>4, <1>6, <1>8, Mapped, WaysToFollow

LEMMA ReadReqFollows ==
  ASSUME DmaInv, DmaInv', NEW req \in Requests, NEW rsp \in Answers, Around(req, rsp), ReadReq
  PROVE  Follows
<1>1. /\ engine.state = "S_READ_REQ" /\ engine \in Engines /\ engine.run
  BY DEF ReadReq, DmaInv, DmaTypeOK, Runs
<1>2. queue' = queue
  BY <1>1, QueueKept
<1>3. engine'.num = engine.num - 1
  BY ReadReqKeeps
<1>4. /\ engine'.state = "S_READ_RSP"
      /\ engine'.dst_addr = (engine.dst_addr + DstStep) % 2 ^ WordBits
      /\ engine'.src_addr = engine.src_addr /\ engine'.src_inc = engine.src_inc
      /\ engine'.dst_inc = engine.dst_inc
  BY <1>1 DEF ReadReq, Engines
<1>5. /\ Left \in Nat /\ engine.src_addr \in Nat /\ engine.src_inc \in Nat
      /\ engine.dst_inc \in Nat /\ engine.dst_addr \in Nat /\ engine.num \in Nat
  BY LeftFacts
<1>6. /\ Left = engine.num /\ Left' = Left
      /\ NextDst = engine.dst_addr + DstStep
      /\ NextDst' = (engine.dst_addr + DstStep) % 2 ^ WordBits
  <2>1. Left = engine.num /\ Left' = engine'.num + 1
    BY <1>1, <1>4 DEF Left
  <2>2. NextDst = engine.dst_addr + DstStep
    BY <1>1, <1>5 DEF NextDst, DstStep
  <2>3. NextDst' = engine'.dst_addr
    BY <1>4 DEF NextDst
  <2> QED
    BY <1>3, <1>4, <1>5, <2>1, <2>2, <2>3
<1>7. DstStep \in Nat
  BY <1>5 DEF DstStep
<1>8. Todo' = Todo
  <2> DEFINE d == engine.dst_addr + DstStep
  <2>1. d \in Nat
    BY <1>5, <1>7
  <2>2. /\ Todo = MovesOf(Left, engine.src_addr, engine.src_inc, d, engine.dst_inc)
        /\ Todo' = MovesOf(Left, engine.src_addr, engine.src_inc, d % 2 ^ WordBits, engine.dst_inc)
    BY <1>4, <1>6 DEF Todo
  <2> HIDE DEF d
  <2> QED
    BY <1>5, <2>1, <2>2, MovesReduced
<1>9. Move' = Move
  BY <1>1, <1>4 DEF Move
<1> QED
  BY <1>2, <1>8, <1>9, WaysToFollow

LEMMA ReadRspFollows ==
  ASSUME DmaInv, DmaInv', NEW req \in Requests, NEW rsp \in Answers, Around(req, rsp),
         ReadRsp(rsp)
  PROVE  Follows
<1>1. /\ engine.state = "S_READ_RSP" /\ engine \in Engines /\ engine.run
  BY DEF ReadRsp, DmaInv, DmaTypeOK, Runs
<1>2. queue' = queue
  BY <1>1, QueueKept
<1>3. engine' = IF ~rsp.ack THEN engine
                ELSE [engine EXCEPT !.err = rsp.err,
                                    !.state = IF rsp.err THEN "S_CHECK" ELSE "S_WRITE_REQ"]
  BY DEF ReadRsp
<1>4. rsp.ack \in BOOLEAN /\ rsp.err \in BOOLEAN
  BY AnswerFacts DEF DmaInv
<1>5. Move = NoMove
  BY <1>1 DEF Move
<1>6. CASE rsp.ack /\ rsp.err
  <2>1. engine'.state = "S_CHECK" /\ engine'.err
    BY <1>1, <1>3, <1>6 DEF Engines
  <2>2. ~Moving'
    BY <2>1 DEF Moving
  <2>3. Todo' = <<>> /\ Move' = NoMove
    BY <2>2, AtRestNext
  <2> QED
    BY <1>2, <2>1, <2>3, Mapped, WaysToFollow
<1>7. CASE ~(rsp.ack /\ rsp.err)
  <2>1. /\ engine'.state \in {"S_READ_RSP", "S_WRITE_REQ"}
        /\ engine'.num = engine.num
        /\ engine'.src_addr = engine.src_addr /\ engine'.src_inc = engine.src_inc
        /\ engine'.dst_addr = engine.dst_addr /\ engine'.dst_inc = engine.dst_inc
    BY <1>1, <1>3, <1>4, <1>7 DEF Engines
  <2>2. Left' = Left /\ NextDst' = NextDst /\ Move' = NoMove
    BY <1>1, <2>1 DEF Left, NextDst, Move
  <2>3. Todo' = Todo
    BY <2>1, <2>2 DEF Todo
  <2> QED
    BY <1>2, <1>5, <2>2, <2>3, WaysToFollow
<1> QED
  BY <1>6, <1>7

LEMMA WriteReqFollows ==
  ASSUME DmaInv, DmaInv', NEW req \in Requests, NEW rsp \in Answers, Around(req, rsp), WriteReq
  PROVE  Follows
<1>1. /\ engine.state = "S_WRITE_REQ" /\ engine \in Engines /\ engine.run
      /\ data_buf = engine.src_addr
  BY DEF WriteReq, DmaInv, DmaTypeOK, Runs, Fetched
<1>2. queue' = queue
  BY <1>1, QueueKept
<1>3. /\ engine'.state = "S_WRITE_RSP" /\ engine'.num = engine.num
      /\ engine'.src_addr = (engine.src_addr + engine.src_inc) % 2 ^ WordBits
      /\ engine'.dst_addr = engine.dst_addr
      /\ engine'.src_inc = engine.src_inc /\ engine'.dst_inc = engine.dst_inc
      /\ engine'.num_or = (engine.num # 0)
  BY <1>1 DEF WriteReq, Engines
<1>4. /\ Left \in Nat /\ engine.src_addr \in Nat /\ engine.src_inc \in Nat
      /\ engine.dst_inc \in Nat /\ engine.dst_addr \in Nat /\ engine.num \in Nat
  BY LeftFacts
<1>5. Left = engine.num + 1 /\ NextDst = engine.dst_addr /\ Left' = engine.num
  BY <1>1, <1>3 DEF Left, NextDst
<1>6. data_buf' = data_buf
  BY <1>1, ProgramStep
<1>7. Move = NoMove /\ Move' = [from |-> engine.src_addr, to |-> engine.dst_addr]
  BY <1>1, <1>3, <1>6 DEF Move
<1> DEFINE q == 2 ^ WordBits
<1>8. /\ q \in Nat \ {0}
      /\ engine.src_addr % q = engine.src_addr /\ engine.dst_addr % q = engine.dst_addr
  <2>1. q \in Nat \ {0} /\ engine.src_addr < q /\ engine.dst_addr < q
    BY <1>1, Sizes DEF Engines
  <2> QED
    BY <1>4, <2>1, Remainder
<1> HIDE DEF q
<1>9. \A i \in 1 .. engine.num + 1 :
        Todo[i] = [from |-> (engine.src_addr + (i - 1) * engine.src_inc) % q,
                   to |-> (engine.dst_addr + (i - 1) * engine.dst_inc) % q]
  BY <1>5 DEF Todo, MovesOf, q
<1>10. Move' = Todo[1]
  <2>1. /\ 1 \in 1 .. engine.num + 1
        /\ engine.src_addr + (1 - 1) * engine.src_inc = engine.src_addr
        /\ engine.dst_addr + (1 - 1) * engine.dst_inc = engine.dst_addr
    BY <1>4
  <2>2. Todo[1] = [from |-> engine.src_addr % q, to |-> engine.dst_addr % q]
    BY <1>9, <2>1
  <2> QED
    BY <1>7, <1>8, <2>2
<1>11. ASSUME NEW i \in 1 .. engine.num PROVE Todo[i + 1] = Todo'[i]
  <2> DEFINE s == engine.src_addr
             si == engine.src_inc
             d == engine.dst_addr
             di == engine.dst_inc
  <2>1. s \in Nat /\ si \in Nat /\ d \in Nat /\ di \in Nat /\ engine.num \in Nat
    BY <1>4
  <2>2. NextDst' = d + di
    <3>1. engine.num # 0
      BY <2>1
    <3>2. engine'.num_or
      BY <1>3, <3>1, Zenon
    <3> QED
      BY <1>3, <3>2 DEF NextDst
  <2>3. Todo'[i] = [from |-> (((s + si) % q) + (i - 1) * si) % q, to |-> (d + di + (i - 1) * di) % q]
    BY <1>3, <1>5, <2>2 DEF Todo, MovesOf, q
  <2>4. Todo[i + 1] = [from |-> (s + ((i + 1) - 1) * si) % q, to |-> (d + ((i + 1) - 1) * di) % q]
    BY <1>4, <1>9
  <2> HIDE DEF s, si, d, di
  <2>5. /\ s + ((i + 1) - 1) * si = (s + si) + (i - 1) * si
        /\ d + ((i + 1) - 1) * di = d + di + (i - 1) * di
    BY <2>1
  <2>6. s + si \in Nat /\ (i - 1) * si \in Nat
    BY <2>1
  <2>7. (((s + si) % q) + (i - 1) * si) % q = ((s + si) + (i - 1) * si) % q
    BY <1>8, <2>6, SumOfRemainders
  <2> QED
    BY <2>3, <2>4, <2>5, <2>7
<1>12. /\ Todo \in Seq(AnyMove) /\ Len(Todo) = engine.num + 1
       /\ Todo' \in Seq(AnyMove) /\ Len(Todo') = engine.num
  BY <1>5, TodoType, TodoTypeNext DEF Listed
<1>13. Todo # <<>> /\ Head(Todo) = Todo[1] /\ Tail(Todo) = Todo'
  BY <1>11, <1>12, HeadAndTail
<1> QED
  BY <1>2, <1>7, <1>10, <1>13, Mapped, WaysToFollow

LEMMA WriteRspFollows ==
  ASSUME DmaInv, DmaInv', NEW req \in Requests, NEW rsp \in Answers, Around(req, rsp),
         WriteRsp(rsp)
  PROVE  Follows
<1>1. /\ engine.state = "S_WRITE_RSP" /\ engine \in Engines /\ engine.run
      /\ (engine.num_or <=> engine.num # 0)
  BY DEF WriteRsp, DmaInv, DmaTypeOK, Runs, Fetched
<1>2. queue' = queue
  BY <1>1, QueueKept
<1>3. engine' = IF ~rsp.ack THEN engine
                ELSE [engine EXCEPT !.err = rsp.err,
                        !.state = IF ~engine.num_or \/ ~enable \/ rsp.err THEN "S_CHECK"
                                                                           ELSE "S_READ_REQ"]
  BY DEF WriteRsp
<1>4. rsp.ack \in BOOLEAN /\ rsp.err \in BOOLEAN
  BY AnswerFacts DEF DmaInv
<1>5. CASE ~rsp.ack
  <2>1. engine' = engine /\ data_buf' = data_buf
    BY <1>1, <1>3, <1>5, ProgramStep
  <2>2. Todo' = Todo /\ Move' = Move
    BY <2>1 DEF Todo, Move, Left, NextDst
  <2> QED
    BY <1>2, <2>2, WaysToFollow
<1>6. CASE rsp.ack /\ (~engine.num_or \/ ~enable \/ rsp.err)
  <2>1. engine'.state = "S_CHECK" /\ (engine'.err <=> rsp.err)
    BY <1>1, <1>3, <1>4, <1>6 DEF Engines
  <2>2. ~Moving'
    BY <2>1 DEF Moving
  <2>3. Todo' = <<>> /\ Move' = NoMove
    BY <2>2, AtRestNext
  <2>4. CASE rsp.err
    BY <1>2, <2>1, <2>3, <2>4, Mapped, WaysToFollow
  <2>5. CASE ~enable
    BY <1>2, <2>3, <2>5, Mapped, WaysToFollow
  <2>6. CASE ~rsp.err /\ ~engine.num_or
    <3>1. Left = 0
      BY <1>1, <2>6 DEF Left
    <3>2. Todo = <<>>
      BY <3>1, LeftFacts
    <3> QED
      BY <1>2, <2>1, <2>3, <2>6, <3>2, Mapped, WaysToFollow
  <2> QED
    BY <1>6, <2>4, <2>5, <2>6
<1>7. CASE rsp.ack /\ ~(~engine.num_or \/ ~enable \/ rsp.err)
  <2>1. /\ engine'.state = "S_READ_REQ" /\ ~engine'.err /\ engine.num_or /\ engine'.num_or
        /\ engine'.num = engine.num
        /\ engine'.src_addr = engine.src_addr /\ engine'.src_inc = engine.src_inc
        /\ engine'.dst_addr = engine.dst_addr /\ engine'.dst_inc = engine.dst_inc
    BY <1>1, <1>3, <1>4, <1>7 DEF Engines
  <2>2. Left' = Left /\ NextDst' = NextDst /\ Move' = NoMove
    BY <1>1, <2>1 DEF Left, NextDst, Move
  <2>3. Todo' = Todo
    BY <2>1, <2>2 DEF Todo
  <2> QED
    BY <1>2, <2>1, <2>2, <2>3, Mapped, WaysToFollow
<1> QED
  BY <1>5, <1>6, <1>7

\* For a program that keeps to the driver's rules the controller moves exactly what the
\* descriptors say, in their order, to the end of each or to an error or an abort, whatever the
\* memory answers and however long it takes (neorv32_dma.vhd).
THEOREM DmaImplementsTransfers == DmaSpec => MovesWhatDescriptorsSay
<1>1. DmaInit => Transfers!Init
  <2> SUFFICES ASSUME DmaInit PROVE Transfers!Init
    OBVIOUS
  <2>1. DmaInv /\ queue = <<>> /\ ~Moving
    BY DmaStart DEF DmaInit, Moving
  <2> QED
    BY <2>1, LeftFacts, Mapped
<1>2. DmaInv /\ DmaInv' /\ [DmaNext]_dmaVars => [Transfers!Next]_Transfers!vars
  <2> SUFFICES ASSUME DmaInv, DmaInv', [DmaNext]_dmaVars PROVE Follows
    BY DEF Follows
  <2>1. CASE UNCHANGED dmaVars
    <3>1. queue' = queue /\ Todo' = Todo /\ Move' = Move
      BY <2>1 DEF dmaVars, ctrlVars, fifoVars, Todo, Move, Left, NextDst
    <3> QED
      BY <3>1, WaysToFollow
  <2>2. ASSUME NEW req \in Requests, NEW rsp \in Answers, DmaEdge(req, rsp)
        PROVE  Follows
    BY <2>2, CheckFollows, GetFollows, Get3Follows, ReadReqFollows, ReadRspFollows,
       WriteReqFollows, WriteRspFollows DEF DmaEdge
  <2> QED
    BY <2>1, <2>2 DEF DmaNext
<1> QED
  BY <1>1, <1>2, DmaInvariant, PTL DEF DmaSpec, Transfers!Spec, MovesWhatDescriptorsSay

================================================================================

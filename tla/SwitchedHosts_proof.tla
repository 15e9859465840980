-------------------------- MODULE SwitchedHosts_proof --------------------------
(***************************************************************************)
(* Theorems about the bus switch between two hosts: for both arbitration    *)
(* modes, every choice of a read-only port and every length of a locked     *)
(* access.                                                                  *)
(***************************************************************************)
EXTENDS SwitchedHosts, TLAPS

\* What the phase of a host tells about the rest of it.
Shape(h) ==
  /\ h.phase = "idle" => ~h.locked
  /\ h.phase = "held" => h.locked
  /\ h.phase # "idle" => h.left >= 1
  /\ h.phase # "idle" /\ ~h.locked => h.left = 1

\* The port the switch is busy with: its host waits for the device or, in a
\* locked access, is between two strobes or just done.
Served(p) ==
  /\ sel_q = p
  /\ dev = IF host[p].phase = "wait" THEN p ELSE "idle"
  /\ IF lock[p] THEN host[p].phase # "idle" => host[p].locked
                ELSE host[p].phase = "wait" /\ ~host[p].locked
  /\ pending[p] => host[p].phase = "wait"

\* A port the switch is not busy with: its host waits exactly if it is remembered.
Unserved(p) ==
  /\ host[p].phase # "held"
  /\ pending[p] <=> host[p].phase = "wait"

\* An overtaken host is remembered, and the other one was selected last.
Turn(p) ==
  /\ RoundRobin => /\ overtaken[p] <= 1
                   /\ overtaken[p] = 1 => pending[p] /\ sel_q # p /\ state # p
  /\ ~RoundRobin /\ p = "a" => overtaken[p] = 0

Inv ==
  /\ TypeOK
  /\ state = "S_IDLE" => dev = "idle"
  /\ \A p \in Ports : /\ Shape(host[p])
                      /\ state = p => Served(p)
                      /\ state # p => Unserved(p)
                      /\ Turn(p)

-------------------------------------------------------------------------------
\* What a host does at an edge.
LEMMA HostStep ==
  ASSUME NEW h \in Hosts, Shape(h), NEW ack \in BOOLEAN, NEW s \in HostSteps(h, ack)
  PROVE  /\ s \in Hosts /\ Shape(s)
         /\ h.phase = "idle" => s.phase \in {"idle", "strobe"}
         /\ h.phase = "held" => s.phase = "strobe" /\ s.locked
         /\ h.phase \in {"strobe", "wait"} /\ ~ack => s.phase = "wait" /\ s.locked = h.locked
         /\ h.phase \in {"strobe", "wait"} /\ ack /\ h.locked =>
              s.phase = "idle" \/ (s.phase = "held" /\ s.locked)
         /\ h.phase \in {"strobe", "wait"} /\ ack /\ ~h.locked => s.phase \in {"idle", "strobe"}
<1> DEFINE Fresh(r) == /\ r \in Hosts /\ Shape(r) /\ r.phase \in {"idle", "strobe"}
<1>0. MaxBurst \in Nat /\ 1 <= MaxBurst
  BY BurstAssumption DEF BurstAssumption
<1>1. Fresh(Idle)
  BY <1>0 DEF Hosts, Shape, Idle
<1>2. ASSUME NEW r \in Starting PROVE Fresh(r)
  <2>1. /\ r \in [phase : {"strobe"}, locked : BOOLEAN, left : 1 .. MaxBurst]
        /\ r.locked \/ r.left = 1
    BY DEF Starting
  <2>2. r.phase = "strobe" /\ r.locked \in BOOLEAN /\ r.left \in 1 .. MaxBurst
    BY <2>1
  <2>3. r \in Hosts
    BY <1>0, <2>1 DEF Hosts
  <2> QED
    BY <1>0, <2>1, <2>2, <2>3 DEF Shape
<1>3. CASE h.phase = "idle"
  <2>1. s = h \/ s \in Starting
    BY <1>3 DEF HostSteps
  <2> QED
    BY <1>2, <1>3, <2>1
<1>4. CASE h.phase = "held"
  <2>1. s = [h EXCEPT !.phase = "strobe"]
    BY <1>4 DEF HostSteps
  <2> QED
    BY <1>4, <2>1 DEF Hosts, Shape
<1>5. CASE h.phase \in {"strobe", "wait"} /\ ~ack
  <2>1. s = [h EXCEPT !.phase = "wait"]
    BY <1>5 DEF HostSteps
  <2> QED
    BY <1>5, <2>1 DEF Hosts, Shape
<1>6. CASE h.phase \in {"strobe", "wait"} /\ ack
  <2>1. CASE h.left > 1
    <3>1. s = [h EXCEPT !.phase = "held", !.left = @ - 1]
      BY <1>6, <2>1 DEF HostSteps
    <3>2. h.left \in 0 .. MaxBurst /\ h.left - 1 \in 0 .. MaxBurst /\ h.left - 1 >= 1
      BY <1>0, <2>1 DEF Hosts
    <3>3. h.locked
      BY <1>6, <2>1, <3>2 DEF Shape
    <3>4. /\ s \in Hosts
          /\ s.phase = "held" /\ s.locked = h.locked /\ s.left = h.left - 1
      BY <3>1, <3>2 DEF Hosts
    <3> QED
      BY <1>6, <3>2, <3>3, <3>4 DEF Shape
  <2>2. CASE ~(h.left > 1) /\ h.locked
    <3>1. s = Idle
      BY <1>6, <2>2 DEF HostSteps
    <3> QED
      BY <1>1, <1>6, <2>2, <3>1 DEF Idle
  <2>3. CASE ~(h.left > 1) /\ ~h.locked
    <3>1. s = Idle \/ s \in Starting
      BY <1>6, <2>3 DEF HostSteps
    <3> QED
      BY <1>1, <1>2, <1>6, <2>3, <3>1
  <2> QED
    BY <2>1, <2>2, <2>3
<1> QED
  BY <1>3, <1>4, <1>5, <1>6 DEF Hosts

-------------------------------------------------------------------------------
Strobes(p) == host[p].phase = "strobe"
Asks(p)    == Strobes(p) \/ pending[p]

\* The request buses carry what the hosts do.
LEMMA Requests ==
  ASSUME NEW p \in Ports
  PROVE  /\ req[p].stb = Strobes(p) /\ req[p].lock = host[p].locked /\ req[p].meta = p
         /\ Requested(p, req) <=> Asks(p)
BY DEF req, Request, Strobes, Asks, Requested

\* Where the select points: at the port being served or, while the switch is idle,
\* at one that asks, the first one before the other.
LEMMA Select ==
  ASSUME TypeOK
  PROVE  /\ sel(req) \in Ports
         /\ state # "S_IDLE" => sel(req) = state /\ (stb(req) <=> Strobes(state))
         /\ state = "S_IDLE" =>
              /\ stb(req) <=> \E p \in Ports : Asks(p)
              /\ stb(req) => Asks(sel(req))
              /\ \A p \in Ports : Asks(p) /\ First = p => sel(req) = p
<1>1. Ports = {"a", "b"} /\ First \in Ports /\ Other(First) \in Ports /\ Other(First) # First
  BY DEF Ports, First, Other
<1>2. CASE state # "S_IDLE"
  <2>1. state \in Ports
    BY <1>2 DEF TypeOK, SwitchTypeOK
  <2> QED
    BY <1>2, <2>1, Requests DEF sel, stb
<1>3. CASE state = "S_IDLE"
  <2>1. stb(req) <=> \E p \in Ports : Asks(p)
    BY <1>3, Requests DEF stb
  <2>2. sel(req) = IF Asks(First) THEN First
                   ELSE IF Asks(Other(First)) THEN Other(First) ELSE "a"
    BY <1>1, <1>3, Requests DEF sel
  <2> QED
    BY <1>1, <1>3, <2>1, <2>2
<1> QED
  BY <1>2, <1>3

\* One edge, as seen by the switch and the device, and by one host.
LEMMA EdgeOfSwitch ==
  ASSUME TypeOK, NEW ack \in BOOLEAN, Edge(ack)
  PROVE  /\ ack => dev # "idle"
         /\ state' = IF state = "S_IDLE" THEN (IF stb(req) THEN sel(req) ELSE "S_IDLE")
                     ELSE IF Released(state, req, Response(ack)) THEN "S_IDLE" ELSE state
         /\ sel_q' = sel(req)
         /\ dev' = IF stb(req) THEN sel(req) ELSE IF ack THEN "idle" ELSE dev
<1>1. x_req(req).meta = sel(req)
  <2>1. sel(req) \in Ports
    BY Select
  <2> QED
    BY <2>1 DEF x_req, req, Request
<1>2. x_req(req).stb = stb(req)
  BY Select DEF x_req, req, Request
<1>3. dev' = IF x_req(req).stb THEN x_req(req).meta ELSE IF ack THEN "idle" ELSE dev
  BY DEF Edge
<1>4. dev' = IF stb(req) THEN sel(req) ELSE IF ack THEN "idle" ELSE dev
  <2>1. CASE stb(req)
    BY <1>1, <1>2, <1>3, <2>1
  <2>2. CASE ~stb(req)
    BY <1>1, <1>2, <1>3, <2>2
  <2> QED
    BY <2>1, <2>2
<1>5. arbiter_sync(req, Response(ack)) /\ (ack => dev # "idle")
  BY DEF Edge
<1> QED
  BY <1>4, <1>5 DEF arbiter_sync

LEMMA EdgeOfHost ==
  ASSUME TypeOK, NEW ack \in BOOLEAN, Edge(ack), NEW p \in Ports
  PROVE  /\ host'[p] \in HostSteps(host[p], sel_q = p /\ ack)
         /\ pending'[p] <=> state # p /\ Asks(p)
         /\ lock'[p] <=> IF state = "S_IDLE" THEN host[p].locked ELSE lock[p]
         /\ overtaken'[p] = Overtaken(p)
<1>1. rsp_o(p, Response(ack)).ack = (sel_q = p /\ ack)
  BY DEF rsp_o, Response
<1>2. host'[p] \in HostSteps(host[p], rsp_o(p, Response(ack)).ack)
  <2>1. PICK s \in HostSteps(host["a"], rsp_o("a", Response(ack)).ack),
             t \in HostSteps(host["b"], rsp_o("b", Response(ack)).ack) :
          host' = [q \in Ports |-> IF q = "a" THEN s ELSE t]
    BY DEF Edge, Ports
  <2> QED
    BY <2>1 DEF Ports
<1>3. pending'[p] = Remember(p, req)
  BY DEF Edge, arbiter_sync
<1>4. lock'[p] = IF state = "S_IDLE" THEN req[p].lock ELSE lock[p]
  BY DEF Edge, arbiter_sync
<1>5. overtaken'[p] = Overtaken(p)
  BY DEF Edge
<1> QED
  BY <1>1, <1>2, <1>3, <1>4, <1>5, Requests DEF Remember, Asks

LEMMA EdgeKeepsTypes ==
  ASSUME Inv, NEW ack \in BOOLEAN, Edge(ack)
  PROVE  TypeOK'
<1> USE DEF Inv
<1>1. \A p \in Ports : host'[p] \in Hosts
  BY EdgeOfHost, HostStep DEF TypeOK, HostTypeOK, Ports
<1>2. host' \in [Ports -> Hosts]
  BY <1>1 DEF Edge
<1>3. dev' \in Ports \union {"idle"}
  BY EdgeOfSwitch, Select DEF TypeOK, HostTypeOK
<1>4. overtaken' \in [Ports -> 0 .. 2]
  <2>1. \A p \in Ports : Overtaken(p) \in 0 .. 2
    BY DEF Overtaken, TypeOK, HostTypeOK
  <2> QED
    BY <2>1 DEF Edge
<1>5. sel_q' \in Ports /\ state' \in Ports \union {"S_IDLE"}
  BY EdgeOfSwitch, Select DEF TypeOK, SwitchTypeOK
<1>6. lock' \in [Ports -> BOOLEAN]
  <2>1. \A p \in Ports : req[p].lock \in BOOLEAN
    BY Requests DEF TypeOK, HostTypeOK, Hosts
  <2> QED
    BY <2>1 DEF Edge, arbiter_sync, TypeOK, SwitchTypeOK
<1>7. pending' \in [Ports -> BOOLEAN]
  <2>1. \A p \in Ports : Remember(p, req) \in BOOLEAN
    BY DEF Remember
  <2> QED
    BY <2>1 DEF Edge, arbiter_sync
<1> QED
  BY <1>2, <1>3, <1>4, <1>5, <1>6, <1>7 DEF TypeOK, HostTypeOK, SwitchTypeOK

\* An edge at which the switch is idle: it stays so or grants a port that asks.
LEMMA IdleEdge ==
  ASSUME Inv, NEW ack \in BOOLEAN, Edge(ack), state = "S_IDLE", NEW p \in Ports
  PROVE  /\ state' = "S_IDLE" => dev' = "idle"
         /\ state' = p => Served(p)'
         /\ state' # p => Unserved(p)'
         /\ Turn(p)'
<1> DEFINE g == sel(req)
<1>1. dev = "idle" /\ ack = FALSE
  BY EdgeOfSwitch DEF Inv
<1>2. /\ state' = IF stb(req) THEN g ELSE "S_IDLE"
      /\ sel_q' = g
      /\ dev' = IF stb(req) THEN g ELSE "idle"
  BY <1>1, EdgeOfSwitch DEF Inv
<1>3. /\ g \in Ports
      /\ Asks(p) => stb(req)
      /\ stb(req) => Asks(g)
      /\ Asks(p) /\ First = p => g = p
  BY Select DEF Inv
<1>4. \A q \in Ports :
         /\ host[q].phase \in {"idle", "strobe", "wait"}
         /\ Asks(q) <=> host[q].phase # "idle"
         /\ pending'[q] <=> Asks(q)
         /\ Asks(q) => host'[q].phase = "wait" /\ host'[q].locked = host[q].locked
         /\ ~Asks(q) => host'[q].phase \in {"idle", "strobe"}
  <2> TAKE q \in Ports
  <2>1. host[q] \in Hosts /\ Shape(host[q]) /\ Unserved(q)
    BY DEF Inv, TypeOK, HostTypeOK, Ports
  <2>2. host[q].phase \in {"idle", "strobe", "wait"} /\ (Asks(q) <=> host[q].phase # "idle")
    BY <2>1 DEF Hosts, Unserved, Asks, Strobes
  <2>3. (pending'[q] <=> Asks(q)) /\ host'[q] \in HostSteps(host[q], FALSE)
    BY <1>1, EdgeOfHost DEF Inv, Ports
  <2>4. /\ Asks(q) => host'[q].phase = "wait" /\ host'[q].locked = host[q].locked
        /\ ~Asks(q) => host'[q].phase \in {"idle", "strobe"}
    BY <2>1, <2>2, <2>3, HostStep
  <2> QED
    BY <2>2, <2>3, <2>4
<1>5. lock'[p] <=> host[p].locked
  BY EdgeOfHost DEF Inv
<1>6. state' = "S_IDLE" => dev' = "idle"
  BY <1>2, <1>3 DEF Ports
<1>7. state' = p => Served(p)'
  <2> SUFFICES ASSUME state' = p PROVE Served(p)'
    OBVIOUS
  <2>1. stb(req) /\ g = p
    BY <1>2 DEF Ports
  <2>2. sel_q' = p /\ dev' = p /\ host'[p].phase = "wait" /\ host'[p].locked = host[p].locked
    BY <1>2, <1>3, <1>4, <2>1
  <2> QED
    BY <1>5, <2>2 DEF Served
<1>8. state' # p => Unserved(p)'
  BY <1>4 DEF Unserved
<1>9. Turn(p)'
  <2>1. overtaken'[p] = Overtaken(p)
    BY EdgeOfHost DEF Inv
  <2>2. Overtaken(p) = IF Asks(p) /\ stb(req) /\ g = Other(p)
                         THEN (IF overtaken[p] < 2 THEN overtaken[p] + 1 ELSE 2) ELSE 0
    BY Requests DEF Overtaken
  <2>3. CASE RoundRobin
    <3>1. overtaken[p] \in 0 .. 2 /\ overtaken[p] <= 1
      BY <2>3 DEF Inv, Turn, TypeOK, HostTypeOK
    <3>2. overtaken[p] = 1 => First = p
      BY <2>3 DEF Inv, Turn, First, TypeOK, SwitchTypeOK, Ports
    <3>3. p # Other(p)
      BY DEF Other, Ports
    <3>4. overtaken[p] = 1 => overtaken'[p] = 0
      BY <1>3, <2>1, <2>2, <3>2, <3>3
    <3>5. overtaken'[p] <= 1
      BY <2>1, <2>2, <3>1, <3>4
    <3>6. overtaken'[p] = 1 => Asks(p) /\ stb(req) /\ g = Other(p)
      BY <2>1, <2>2
    <3>7. overtaken'[p] = 1 => pending'[p] /\ sel_q' # p /\ state' # p
      BY <1>2, <1>4, <3>3, <3>6
    <3> QED
      BY <2>3, <3>5, <3>7 DEF Turn
  <2>4. CASE ~RoundRobin /\ p = "a"
    <3>1. First = p /\ p # Other(p)
      BY <2>4 DEF First, Other
    <3> QED
      BY <1>3, <2>1, <2>2, <2>4, <3>1 DEF Turn
  <2> QED
    BY <2>3, <2>4 DEF Turn
<1> QED
  BY <1>6, <1>7, <1>8, <1>9

\* An edge at which the switch serves a port: it goes on or becomes idle.
LEMMA BusyEdge ==
  ASSUME Inv, NEW ack \in BOOLEAN, Edge(ack), state # "S_IDLE", NEW p \in Ports
  PROVE  /\ state' = "S_IDLE" => dev' = "idle"
         /\ state' = p => Served(p)'
         /\ state' # p => Unserved(p)'
         /\ Turn(p)'
<1>0. PICK g \in Ports : g = state
  BY DEF Inv, TypeOK, SwitchTypeOK
<1> DEFINE h == host[g]
<1>1. g \in Ports /\ g = state /\ Served(g) /\ h \in Hosts /\ Shape(h)
  BY <1>0 DEF Inv, TypeOK, SwitchTypeOK, HostTypeOK
<1>2. /\ sel_q' = g /\ sel_q = g
      /\ dev' = IF Strobes(g) THEN g ELSE IF ack THEN "idle" ELSE dev
      /\ ack => h.phase = "wait"
      /\ state' = IF Released(g, req, Response(ack)) THEN "S_IDLE" ELSE g
  <2>1. ack => dev # "idle"
    BY EdgeOfSwitch DEF Inv
  <2>2. dev = IF h.phase = "wait" THEN g ELSE "idle"
    BY <1>1 DEF Served
  <2> QED
    BY <1>1, <2>1, <2>2, EdgeOfSwitch, Select DEF Inv, Served
<1>3. Released(g, req, Response(ack)) <=> IF lock[g] THEN ~h.locked ELSE ack
  BY <1>1, Requests DEF Released, Response
<1>4. host'[g] \in HostSteps(h, ack) /\ ~pending'[g] /\ (lock'[g] <=> lock[g])
  BY <1>1, <1>2, EdgeOfHost DEF Inv
<1>5. dev = IF h.phase = "wait" THEN g ELSE "idle"
  BY <1>1 DEF Served
<1>6. /\ state' = "S_IDLE" => dev' = "idle"
      /\ state' = g => Served(g)'
      /\ state' # g => Unserved(g)'
  <2>1. CASE lock[g] /\ h.phase = "idle"
    <3>1. state' = "S_IDLE" /\ dev' = "idle" /\ host'[g].phase \in {"idle", "strobe"}
      BY <1>1, <1>2, <1>3, <1>4, <1>5, <2>1, HostStep DEF Shape, Strobes
    <3> QED
      BY <1>1, <1>4, <3>1 DEF Unserved, Ports
  <2>2. CASE lock[g] /\ h.phase \in {"strobe", "held"}
    <3>1. h.locked /\ ~ack /\ state' = g
      BY <1>1, <1>2, <1>3, <2>2 DEF Served
    <3>2. CASE h.phase = "strobe"
      <4>1. dev' = g /\ host'[g].phase = "wait" /\ host'[g].locked
        BY <1>1, <1>2, <1>4, <3>1, <3>2, HostStep DEF Strobes
      <4> QED
        BY <1>1, <1>2, <1>4, <2>2, <3>1, <4>1 DEF Served, Ports
    <3>3. CASE h.phase = "held"
      <4>1. dev' = "idle" /\ host'[g].phase = "strobe" /\ host'[g].locked
        BY <1>1, <1>2, <1>4, <1>5, <3>1, <3>3, HostStep DEF Strobes
      <4> QED
        BY <1>1, <1>2, <1>4, <2>2, <3>1, <4>1 DEF Served, Ports
    <3> QED
      BY <2>2, <3>2, <3>3
  <2>3. CASE lock[g] /\ h.phase = "wait"
    <3>1. h.locked /\ state' = g /\ dev' = IF ack THEN "idle" ELSE g
      BY <1>1, <1>2, <1>3, <1>5, <2>3 DEF Served, Strobes
    <3>2. CASE ack
      <4>1. host'[g].phase = "idle" \/ (host'[g].phase = "held" /\ host'[g].locked)
        BY <1>1, <1>4, <2>3, <3>1, <3>2, HostStep
      <4> QED
        BY <1>1, <1>2, <1>4, <2>3, <3>1, <3>2, <4>1 DEF Served, Ports
    <3>3. CASE ~ack
      <4>1. host'[g].phase = "wait" /\ host'[g].locked
        BY <1>1, <1>4, <2>3, <3>1, <3>3, HostStep
      <4> QED
        BY <1>1, <1>2, <1>4, <2>3, <3>1, <3>3, <4>1 DEF Served, Ports
    <3> QED
      BY <3>2, <3>3
  <2>4. CASE ~lock[g]
    <3>1. h.phase = "wait" /\ ~h.locked
      BY <1>1, <2>4 DEF Served
    <3>2. CASE ack
      <4>1. state' = "S_IDLE" /\ dev' = "idle" /\ host'[g].phase \in {"idle", "strobe"}
        BY <1>1, <1>2, <1>3, <1>4, <2>4, <3>1, <3>2, HostStep DEF Strobes
      <4> QED
        BY <1>1, <1>4, <4>1 DEF Unserved, Ports
    <3>3. CASE ~ack
      <4>1. state' = g /\ dev' = g /\ host'[g].phase = "wait" /\ ~host'[g].locked
        BY <1>1, <1>2, <1>3, <1>4, <1>5, <2>4, <3>1, <3>3, HostStep DEF Strobes
      <4> QED
        BY <1>1, <1>2, <1>4, <2>4, <4>1 DEF Served, Ports
    <3> QED
      BY <3>2, <3>3
  <2> QED
    BY <1>1, <2>1, <2>2, <2>3, <2>4 DEF Hosts
<1>7. p # g => Unserved(p)'
  <2> SUFFICES ASSUME p # g PROVE Unserved(p)'
    OBVIOUS
  <2>1. host[p] \in Hosts /\ Shape(host[p]) /\ Unserved(p)
    BY <1>0 DEF Inv, TypeOK, HostTypeOK
  <2>2. host'[p] \in HostSteps(host[p], FALSE) /\ (pending'[p] <=> Asks(p))
    BY <1>0, <1>2, EdgeOfHost DEF Inv
  <2>3. CASE host[p].phase = "idle"
    BY <2>1, <2>2, <2>3, HostStep DEF Unserved, Asks, Strobes
  <2>4. CASE host[p].phase \in {"strobe", "wait"}
    BY <2>1, <2>2, <2>4, HostStep DEF Unserved, Asks, Strobes
  <2> QED
    BY <2>1, <2>3, <2>4 DEF Hosts, Unserved
<1>8. Turn(p)'
  <2>1. overtaken'[p] = overtaken[p]
    BY <1>0, EdgeOfHost DEF Inv, Overtaken
  <2>2. state' = g \/ state' = "S_IDLE"
    BY <1>2
  <2>3. p # g /\ pending[p] => pending'[p]
    BY <1>0, EdgeOfHost DEF Inv, Asks
  <2> QED
    BY <1>1, <1>2, <2>1, <2>2, <2>3 DEF Inv, Turn, Ports
<1> QED
  BY <1>1, <1>2, <1>6, <1>7 , <1>8 DEF Ports

-------------------------------------------------------------------------------
LEMMA InitInv == Init => Inv
<1> SUFFICES ASSUME Init PROVE Inv
  OBVIOUS
<1>1. Idle \in Hosts
  BY BurstAssumption DEF Idle, Hosts, BurstAssumption
<1>2. TypeOK
  BY <1>1 DEF Init, SwitchInit, TypeOK, SwitchTypeOK, HostTypeOK, Ports
<1>3. \A p \in Ports : /\ host[p] = Idle /\ pending[p] = FALSE
                        /\ state # p /\ overtaken[p] = 0
  BY DEF Init, SwitchInit, Ports
<1> QED
  BY <1>2, <1>3 DEF Inv, Init, Shape, Unserved, Turn, Idle

\* The inductive invariant: what the switch remembers fits what the hosts do.
THEOREM SwitchInvariance == Spec => []Inv
<1>1. Inv /\ [Next]_vars => Inv'
  <2> SUFFICES ASSUME Inv, [Next]_vars PROVE Inv'
    OBVIOUS
  <2>1. ASSUME NEW ack \in BOOLEAN, Edge(ack) PROVE Inv'
    <3>1. TypeOK'
      BY <2>1, EdgeKeepsTypes
    <3>2. ASSUME NEW p \in Ports PROVE Shape(host'[p])
      <4>1. host[p] \in Hosts /\ Shape(host[p])
        BY DEF Inv, TypeOK, HostTypeOK
      <4>2. host'[p] \in HostSteps(host[p], sel_q = p /\ ack) /\ (sel_q = p /\ ack) \in BOOLEAN
        BY <2>1, EdgeOfHost DEF Inv
      <4> QED
        BY <4>1, <4>2, HostStep
    <3>3. (state = "S_IDLE" => dev = "idle")'
      <4>1. "a" \in Ports
        BY DEF Ports
      <4> QED
        BY <2>1, <4>1, IdleEdge, BusyEdge
    <3>4. ASSUME NEW p \in Ports
          PROVE  (/\ Shape(host[p])
                  /\ state = p => Served(p)
                  /\ state # p => Unserved(p)
                  /\ Turn(p))'
      BY <2>1, <3>2, IdleEdge, BusyEdge
    <3> QED
      BY <3>1, <3>3, <3>4 DEF Inv
  <2>2. CASE UNCHANGED vars
    BY <2>2 DEF vars, switchVars, Inv, TypeOK, SwitchTypeOK, HostTypeOK, Served, Unserved, Turn
  <2> QED
    BY <2>1, <2>2 DEF Next
<1> QED
  BY <1>1, InitInv, PTL DEF Spec

\* The registers of the switch, its hosts and the device keep their types.
THEOREM SwitchTypes == Spec => []TypeOK
<1>1. Inv => TypeOK
  BY DEF Inv
<1> QED
  BY <1>1, SwitchInvariance, PTL

\* An answer goes to the host that waits for it, and to no other; the device sees
\* that host's request while it works.
THEOREM SwitchAnswers == Spec => []AnswerFindsOwner
<1>1. Inv => AnswerFindsOwner
  <2> SUFFICES ASSUME Inv, dev # "idle"
               PROVE  /\ host[dev].phase = "wait"
                      /\ x_req(req).meta = dev
                      /\ dev \notin ReadOnly => x_req(req).data = dev
                      /\ \A p \in Ports : rsp_o(p, Response(TRUE)).ack <=> p = dev
    BY DEF AnswerFindsOwner
  <2>1. state \in Ports /\ Served(state) /\ dev = state /\ sel_q = dev
    BY DEF Inv, TypeOK, SwitchTypeOK, Served
  <2>2. host[dev].phase = "wait"
    BY <2>1 DEF Served
  <2>3. sel(req) = dev
    BY <2>1, Select DEF Inv, Ports
  <2>4. x_req(req).meta = dev /\ x_req(req).data = req[DataPort(req)].data
    BY <2>1, <2>3 DEF x_req, req, Request
  <2>5. dev \notin ReadOnly => DataPort(req) = dev
    BY <2>1, <2>3, SwitchAssumption DEF DataPort, SwitchAssumption, Ports
  <2>6. dev \notin ReadOnly => x_req(req).data = dev
    BY <2>1, <2>4, <2>5 DEF req, Request
  <2>7. \A p \in Ports : rsp_o(p, Response(TRUE)).ack <=> p = dev
    BY <2>1 DEF rsp_o, Response
  <2> QED
    BY <2>2, <2>4, <2>6, <2>7
<1> QED
  BY <1>1, SwitchInvariance, PTL

\* A waiting host is being served or remembered, and only such a host is.
THEOREM SwitchRemembers == Spec => []NoRequestLost
<1>1. Inv => NoRequestLost
  <2> SUFFICES ASSUME Inv, NEW p \in Ports, host[p].phase # "strobe"
               PROVE  host[p].phase = "wait" <=> (dev = p \/ pending[p])
    BY DEF NoRequestLost
  <2>1. CASE state = p
    BY <2>1 DEF Inv, Served, Ports
  <2>2. CASE state # p
    <3>1. dev # p
      BY <2>2 DEF Inv, Served, TypeOK, SwitchTypeOK, Ports
    <3> QED
      BY <2>2, <3>1 DEF Inv, Unserved
  <2> QED
    BY <2>1, <2>2
<1> QED
  BY <1>1, SwitchInvariance, PTL

\* Between two strobes of a locked access the switch stays with its host.
THEOREM SwitchLocks == Spec => []LockExcludes
<1>1. Inv => LockExcludes
  BY DEF Inv, LockExcludes, Unserved
<1> QED
  BY <1>1, SwitchInvariance, PTL

\* No host is overtaken twice; the host with priority is never overtaken.
THEOREM SwitchIsFair == Spec => []OvertakenOnce
<1>1. Inv => OvertakenOnce
  BY DEF Inv, OvertakenOnce, Turn
<1> QED
  BY <1>1, SwitchInvariance, PTL

================================================================================

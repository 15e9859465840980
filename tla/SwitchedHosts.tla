----------------------------- MODULE SwitchedHosts -----------------------------
(***************************************************************************)
(* The bus switch between two hosts that follow the bus protocol and a      *)
(* device that answers when it likes.  A host strobes for one clock, waits  *)
(* for the acknowledge and, in a locked access, strobes again; it lowers    *)
(* lock for a clock after the last acknowledge.  An unlocked host (the      *)
(* instruction fetch) may strobe again in the clock after its acknowledge.  *)
(***************************************************************************)
EXTENDS BusSwitch, Naturals

CONSTANT MaxBurst   \* the most strobes of one locked access

ASSUME BurstAssumption == MaxBurst \in Nat \ {0}

VARIABLES
  host,      \* what each host is doing
  dev,       \* the host whose access the device works on, or "idle"
  overtaken  \* how often each waiting host saw the other one granted first

vars == <<switchVars, host, dev, overtaken>>

Hosts == [phase : {"idle", "strobe", "wait", "held"},
          locked : BOOLEAN, left : 0 .. MaxBurst]

Idle == [phase |-> "idle", locked |-> FALSE, left |-> 0]

\* A request as it starts: a single access, or a locked one of some strobes.
Starting == {h \in [phase : {"strobe"}, locked : BOOLEAN, left : 1 .. MaxBurst] :
               h.locked \/ h.left = 1}

\* The request bus of a host; `data' names the host, a reader drives zeros.
Request(p) ==
  [stb  |-> host[p].phase = "strobe",
   lock |-> host[p].locked,
   meta |-> p,
   data |-> IF p \in ReadOnly THEN "zero" ELSE p]

req == [p \in Ports |-> Request(p)]

\* What a host can do next, given whether it is acknowledged in this clock.
HostSteps(h, ack) ==
  IF h.phase = "idle" THEN {h} \union Starting
  ELSE IF h.phase = "held" THEN {[h EXCEPT !.phase = "strobe"]}
  ELSE IF ~ack THEN {[h EXCEPT !.phase = "wait"]}
  ELSE IF h.left > 1 THEN {[h EXCEPT !.phase = "held", !.left = @ - 1]}
  ELSE IF h.locked THEN {Idle}
  ELSE {Idle} \union Starting

Overtaken(p) ==
  IF state # "S_IDLE" THEN overtaken[p]
  ELSE IF Requested(p, req) /\ stb(req) /\ sel(req) = Other(p)
    THEN (IF overtaken[p] < 2 THEN overtaken[p] + 1 ELSE 2)
    ELSE 0

Response(ack) == [ack |-> ack, err |-> FALSE]

\* One clock edge of hosts, switch and device; `ack' is the device's answer.
Edge(ack) ==
  LET x == x_req(req)
      a == [p \in Ports |-> rsp_o(p, Response(ack)).ack]
  IN  /\ ack => dev # "idle"
      /\ arbiter_sync(req, Response(ack))
      /\ \E s \in HostSteps(host["a"], a["a"]), t \in HostSteps(host["b"], a["b"]) :
           host' = [p \in Ports |-> IF p = "a" THEN s ELSE t]
      /\ dev' = IF x.stb THEN x.meta ELSE IF ack THEN "idle" ELSE dev
      /\ overtaken' = [p \in Ports |-> Overtaken(p)]

Init ==
  /\ SwitchInit
  /\ host = [p \in Ports |-> Idle]
  /\ dev = "idle"
  /\ overtaken = [p \in Ports |-> 0]

Next == Edge(FALSE) \/ Edge(TRUE)

Spec == Init /\ [][Next]_vars

\* The clock ticks, and the device does not keep an access forever: the bus
\* monitor behind the switch ends every access it sees (see BusGateway).
FairSpec == Spec /\ WF_vars(Next) /\ WF_vars(Edge(TRUE))

-------------------------------------------------------------------------------
HostTypeOK ==
  /\ host \in [Ports -> Hosts]
  /\ dev \in Ports \union {"idle"}
  /\ overtaken \in [Ports -> 0 .. 2]

\* The registers of the switch and the state of its hosts stay in their types.
TypeOK == SwitchTypeOK /\ HostTypeOK

\* While the device works, the switch shows it the request of the host that
\* started the access, unchanged, and sends an answer to that host alone, which
\* waits for it (x_req_o, a_rsp_o and b_rsp_o of neorv32_bus_switch).
AnswerFindsOwner ==
  dev # "idle" =>
    /\ host[dev].phase = "wait"
    /\ x_req(req).meta = dev
    /\ dev \notin ReadOnly => x_req(req).data = dev
    /\ \A p \in Ports : rsp_o(p, Response(TRUE)).ack <=> p = dev

\* A host that waits is either being served or remembered (a_req, b_req); a
\* host that does not wait is not remembered.
NoRequestLost ==
  \A p \in Ports : host[p].phase # "strobe" =>
    (host[p].phase = "wait" <=> (dev = p \/ pending[p]))

\* Between two strobes of a locked access the switch stays with its host.
LockExcludes == \A p \in Ports : host[p].phase = "held" => state = p

\* Under round robin no host is overtaken twice; without it that holds for
\* port A, which has priority.
OvertakenOnce == \A p \in Ports : RoundRobin \/ p = "a" => overtaken[p] <= 1

\* Every request is answered, of port B too when the switch alternates.
EveryRequestAnswered ==
  \A p \in Ports : RoundRobin \/ p = "a" =>
    (host[p].phase = "wait" ~> host[p].phase # "wait")
================================================================================

----------------------------- MODULE Simulation -----------------------------
(***************************************************************************)
(* The cluster simulation that generates lease and eBPF data               *)
(* (kubernetes/simulation.go): every second it lets nodes fall ill and     *)
(* recover, drains nodes of rolling deployments and adds their             *)
(* replacements, and renews leases; at the end it cuts everything into     *)
(* files.  Times count thirds of a second from the start, because a burst  *)
(* of three leases is spread over five seconds.                            *)
(***************************************************************************)
EXTENDS Integers, Sequences, FiniteSets, SequencesExt, FiniteSetsExt

CONSTANTS
  NodeCount,    \* nodes at the start
  Ratios,       \* NamespaceRatios in tenths, as <<namespace, tenths>> sorted by name
  Profiles,     \* NamespaceProfiles: only "stable" differs from the others here
  Duration, Window,   \* length of the run and of a file, in seconds
  Scenarios,    \* rolling deployments: [trigger, count, stagger, delay], in seconds
  Base,         \* BaseInterval, in seconds
  Intervals,    \* outcomes of BaseInterval + drift + jitter: the jitter has no bound,
                \* and what is below 1 second is 1 second
  Outages,      \* outcomes of the duration of an outage, 5..120 s in the code
  MaxOutages    \* bound on the outages of a run

ASSUME SimulationAssumption ==
  /\ NodeCount \in Nat \ {0} /\ Duration \in Nat \ {0} /\ Window \in Nat \ {0}
  /\ Base \in Nat /\ MaxOutages \in Nat
  /\ \A i \in Intervals \cup Outages : i \in Nat \ {0}
  /\ Scenarios \in Seq([trigger : Nat, count : Nat, stagger : Nat, delay : Nat])

VARIABLES
  nodes,     \* se.nodes
  scens,     \* se.activeScenarios
  nextID,    \* se.nextNodeID
  clock,     \* se.clock
  phase,     \* which part of tick comes next, or "done"
  sc,        \* applyScenarios: the scenario it is at
  di         \* and the drained node it looks at, 0 while it drains nodes

vars == <<nodes, scens, nextID, clock, phase, sc, di>>

Second == 3

Node(name, ns, profile) ==
  [name |-> name, ns |-> ns, profile |-> profile, ready |-> TRUE, cause |-> "",
   until |-> 0, last |-> -1, leases |-> <<>>, ebpf |-> <<>>, outages |-> <<>>]

-----------------------------------------------------------------------------
(* NewSimulationEngine.                                                    *)

\* Rounded shares, as long as there are nodes left; the last namespace gets the
\* rest.  taken[i] nodes are in the first i namespaces.
Share(tenths) == (2 * tenths * NodeCount + 10) \div 20
taken[i \in 0..Len(Ratios)] ==
  CASE i = 0 -> 0
    [] i = Len(Ratios) -> NodeCount
    [] OTHER -> Min({taken[i - 1] + Share(Ratios[i][2]), NodeCount})

Namespace(m) == Ratios[Min({i \in DOMAIN Ratios : m <= taken[i]})][1]

distributeNodes ==
  [m \in 1..NodeCount |-> Node(<<"node", m - 1>>, Namespace(m), Profiles[Namespace(m)])]

Init ==
  /\ nodes = distributeNodes
  /\ scens = [k \in DOMAIN Scenarios |->
                [drainIndex |-> 0, next |-> Scenarios[k].trigger * Second, drained |-> <<>>]]
  /\ nextID = Len(nodes)
  /\ clock = 0 /\ phase = "health" /\ sc = 1 /\ di = 0

-----------------------------------------------------------------------------
(* applyHealthTransitions.                                                 *)

\* An outage and the event that goes with it: the kubelet's exit up to two
\* seconds before, the OOM killer's up to one second around; none for others.
Illnesses ==
  {<<"network_blip", d, 0>> : d \in Outages}
  \cup {<<"kubelet_restart", d, -o * Second>> : d \in Outages, o \in {0, 2}}
  \cup {<<"oom_kill", d, o * Second>> : d \in Outages, o \in {-1, 1}}

generateCorrelatedEbpf(n, ill) ==
  CASE ill[1] = "kubelet_restart" -> Append(n.ebpf, <<clock + ill[3], "exit">>)
    [] ill[1] = "oom_kill"        -> Append(n.ebpf, <<clock + ill[3], "kill">>)
    [] OTHER -> n.ebpf

FallIll(n, ill) ==
  [n EXCEPT !.ready = FALSE, !.cause = ill[1], !.until = clock + ill[2] * Second,
            !.outages = Append(@, <<clock, ill[1], clock + ill[2] * Second>>),
            !.ebpf = generateCorrelatedEbpf(n, ill)]

Recover(n) ==
  IF n.cause # "drain" /\ clock >= n.until THEN [n EXCEPT !.ready = TRUE, !.cause = ""] ELSE n

MayFallIll(n) == n.ready /\ n.profile # "stable"
Outbreaks == FoldLeft(LAMBDA k, n : k + Len(n.outages), 0, nodes)

applyHealthTransitions ==
  /\ phase = "health" /\ phase' = "scenarios"
  /\ \E who \in SUBSET {i \in DOMAIN nodes : MayFallIll(nodes[i])} :
       /\ Cardinality(who) + Outbreaks <= MaxOutages
       /\ \E ill \in [who -> Illnesses] :
            nodes' = [i \in DOMAIN nodes |->
              IF i \in who THEN FallIll(nodes[i], ill[i])
              ELSE IF nodes[i].ready THEN nodes[i] ELSE Recover(nodes[i])]
  /\ UNCHANGED <<scens, nextID, clock, sc, di>>

-----------------------------------------------------------------------------
(* applyScenarios, one step for each turn of its loops: scenario by         *)
(* scenario it drains nodes, then looks at every node it drained.          *)

Drains == UNION {{<<k, i>> : i \in DOMAIN scens[k].drained} : k \in DOMAIN scens}
DrainOf(x) == scens[x[1]].drained[x[2]]

isNodeDrained(name) == \E x \in Drains : DrainOf(x).name = name

Drainable == {i \in DOMAIN nodes : nodes[i].ready /\ ~isNodeDrained(nodes[i].name)}

MayDrain ==
  /\ scens[sc].drainIndex < Scenarios[sc].count
  /\ clock >= scens[sc].next
  /\ Drainable # {}

Drained(n) == [n EXCEPT !.ready = FALSE, !.cause = "drain", !.until = clock + Duration * Second]

\* The scenario's tracker once it has drained n.
Drain(as, cfg, n) ==
  [drainIndex |-> as.drainIndex + 1,
   next |-> (cfg.trigger + (as.drainIndex + 1) * cfg.stagger) * Second,
   drained |-> Append(as.drained,
     [name |-> n.name, at |-> clock, replacementAt |-> clock + cfg.delay * Second,
      by |-> <<>>])]

DrainTurn ==
  /\ phase = "scenarios" /\ sc <= Len(scens) /\ di = 0
  /\ IF MayDrain
     THEN LET i == Min(Drainable) IN
          /\ nodes' = [nodes EXCEPT ![i] = Drained(@)]
          /\ scens' = [scens EXCEPT ![sc] = Drain(@, Scenarios[sc], nodes[i])]
          /\ UNCHANGED di
     ELSE di' = 1 /\ UNCHANGED <<nodes, scens>>
  /\ UNCHANGED <<nextID, clock, phase, sc>>

\* generateBackgroundEbpf and generateReplacementForkEbpf.
WriteEvent(t) == <<t, "write">>
ForkEvent(offset) == <<clock + offset, "fork">>

\* generateBurstLeases and the fork of a replacement: leases at 0, 5/3 and
\* 10/3 seconds, each with its write event, and the fork within a second.
Burst(n, fork) ==
  LET ts == [i \in 1..3 |-> clock + (i - 1) * 5] IN
  [n EXCEPT !.leases = ts, !.last = ts[3],
            !.ebpf = [i \in 1..3 |-> WriteEvent(ts[i])] \o <<ForkEvent(fork)>>]

FaultDue(d) == clock >= d.replacementAt
Due(d) == d.by = <<>> /\ clock >= d.replacementAt

ReplaceTurn ==
  /\ phase = "scenarios" /\ sc <= Len(scens) /\ di \in DOMAIN scens[sc].drained
  /\ LET d == scens[sc].drained[di]
         name == <<"node-repl", nextID>>
         old == nodes[CHOOSE j \in DOMAIN nodes : nodes[j].name = d.name]
     IN IF Due(d)
        THEN /\ \E fork \in {0, Second} :
                  nodes' = Append(nodes, Burst(Node(name, old.ns, "normal"), fork))
             /\ scens' = [scens EXCEPT ![sc].drained[di].by = name]
             /\ nextID' = nextID + 1
        ELSE UNCHANGED <<nodes, scens, nextID>>
  /\ di' = di + 1
  /\ UNCHANGED <<clock, phase, sc>>

NextScenario ==
  /\ phase = "scenarios" /\ sc <= Len(scens) /\ di > Len(scens[sc].drained)
  /\ sc' = sc + 1 /\ di' = 0
  /\ UNCHANGED <<nodes, scens, nextID, clock, phase>>

ScenariosDone ==
  /\ phase = "scenarios" /\ sc > Len(scens)
  /\ phase' = "leases" /\ sc' = 1 /\ di' = 0
  /\ UNCHANGED <<nodes, scens, nextID, clock>>

applyScenarios == DrainTurn \/ ReplaceTurn \/ NextScenario \/ ScenariosDone

-----------------------------------------------------------------------------
(* generateLeaseForNode and Run.                                           *)

FaultMayRenew(n, interval) == n.last < 0 \/ clock - n.last >= interval * Second
MayRenew(n, interval) == n.ready /\ (n.last < 0 \/ clock - n.last >= interval * Second)

generateLeaseForNode(n, interval) ==
  IF MayRenew(n, interval)
  THEN [n EXCEPT !.last = clock, !.leases = Append(@, clock),
                 !.ebpf = Append(@, WriteEvent(clock))]
  ELSE n

generateLeases ==
  /\ phase = "leases"
  /\ \E interval \in [DOMAIN nodes -> Intervals] :
       nodes' = [i \in DOMAIN nodes |-> generateLeaseForNode(nodes[i], interval[i])]
  /\ IF clock < Duration * Second
     THEN clock' = clock + Second /\ phase' = "health"
     ELSE phase' = "done" /\ UNCHANGED clock
  /\ UNCHANGED <<scens, nextID, sc, di>>

Gap(n, i) == n.leases[i] - n.leases[i - 1]
NotReadyGaps(n) == {i \in 2..Len(n.leases) : Gap(n, i) > 2 * Base * Second}
hadNotReadyTransition(n) == NotReadyGaps(n) # {}

\* The file of a time: the quotient by the window, truncated toward zero.
NumFiles == Max({1, (Duration + Window - 1) \div Window})
FaultFile(t) == Min({t \div (Window * Second), NumFiles})
File(t) == Max({0, Min({t \div (Window * Second), NumFiles - 1})})

\* SegmentLeaseFiles and SegmentEbpfFiles: what each file holds, node by node.
Segment(items) ==
  FoldLeft(LAMBDA fs, x : [fs EXCEPT ![File(x[1])] = Append(@, x)],
           [f \in 0..NumFiles - 1 |-> <<>>], items)
LeaseItems == FlattenSeq([i \in DOMAIN nodes |->
  [j \in DOMAIN nodes[i].leases |-> <<nodes[i].leases[j], nodes[i].name, nodes[i].ns>>]])
EbpfItems == FlattenSeq([i \in DOMAIN nodes |->
  [j \in DOMAIN nodes[i].ebpf |-> nodes[i].ebpf[j] \o <<nodes[i].name>>]])

Next == applyHealthTransitions \/ applyScenarios \/ generateLeases

Spec == Init /\ [][Next]_vars

-----------------------------------------------------------------------------
(* Properties.                                                             *)

\* A node renews no lease while it is down, from the second it falls ill to the
\* one it recovers in, or for good once drained, and its leases never go back in
\* time.  Only the burst of a replacement, written ahead of the clock, may reach
\* into an outage or a drain that begins before the burst is over.
QuietWhileDown == \A i \in DOMAIN nodes :
  LET n == nodes[i]
      down == {<<n.outages[o][1], n.outages[o][3]>> : o \in DOMAIN n.outages}
              \cup {<<DrainOf(x).at, (Duration + 10) * Second>> :
                      x \in {y \in Drains : DrainOf(y).name = n.name}}
      InBurst(l) == n.name[1] = "node-repl" /\ l <= 3
  IN \A l \in DOMAIN n.leases :
       /\ l > 1 => n.leases[l] > n.leases[l - 1]
       /\ \A d \in down : n.leases[l] >= d[1] /\ n.leases[l] < d[2] => InBurst(l)

\* Every drained node is drained once, stays down, and gets exactly one
\* replacement, in its namespace and under a new name, as soon as the delay is
\* over, however the scenarios overlap.
DrainsAreReplaced ==
  /\ \A x, y \in Drains : DrainOf(x).name = DrainOf(y).name => x = y
  /\ \A i, j \in DOMAIN nodes : nodes[i].name = nodes[j].name => i = j
  /\ Len(nodes) = NodeCount + Cardinality({x \in Drains : DrainOf(x).by # <<>>})
  /\ \A x \in Drains :
       /\ \E i \in DOMAIN nodes : nodes[i].name = DrainOf(x).name /\ ~nodes[i].ready
       /\ DrainOf(x).by # <<>> => \E i, j \in DOMAIN nodes :
            /\ nodes[i].name = DrainOf(x).name /\ nodes[j].name = DrainOf(x).by
            /\ nodes[i].ns = nodes[j].ns
            /\ nodes[j].leases[1] = DrainOf(x).replacementAt
       /\ phase = "leases" /\ clock >= DrainOf(x).replacementAt => DrainOf(x).by # <<>>

\* The output holds each lease and event of each node exactly once, in the file
\* of its window (what lies before the start is in the first file, what the
\* bursts wrote beyond the end in the last).  A node counted as NotReady was down
\* in some gap between its leases, or drew an interval that fills the gap up to
\* one tick; longer gaps are outages.  Every event stands for a lease, an outage
\* or a replacement at its time.
OutputIsComplete == phase = "done" =>
  LET leaseFiles == Segment(LeaseItems)  ebpfFiles == Segment(EbpfItems)
      Times(s, x) == Cardinality({i \in DOMAIN s : s[i] = x})
      Holds(files, items) == \A i \in DOMAIN items :
        /\ FoldSet(LAMBDA f, k : k + Times(files[f], items[i]), 0, DOMAIN files)
             = Times(items, items[i])
        /\ \A f \in DOMAIN files : Times(files[f], items[i]) > 0 =>
             /\ f > 0 => items[i][1] >= f * Window * Second
             /\ f < NumFiles - 1 => items[i][1] < (f + 1) * Window * Second
      Kind(n, k) == SelectSeq(n.ebpf, LAMBDA e : e[2] = k)
  IN /\ Holds(leaseFiles, LeaseItems) /\ Holds(ebpfFiles, EbpfItems)
     /\ \A i \in DOMAIN nodes : LET n == nodes[i] IN
          /\ hadNotReadyTransition(n) => \A l \in NotReadyGaps(n) :
               \/ \E o \in DOMAIN n.outages :
                    n.outages[o][1] <= n.leases[l] /\ n.outages[o][3] > n.leases[l - 1]
               \/ \E k \in Intervals : Gap(n, l) < (k + 1) * Second
          /\ [e \in DOMAIN Kind(n, "write") |-> Kind(n, "write")[e][1]] = n.leases
          /\ Len(Kind(n, "fork")) = IF n.name[1] = "node-repl" THEN 1 ELSE 0
          /\ \A o \in DOMAIN n.outages : LET t == n.outages[o][1] IN
               /\ n.outages[o][2] = "oom_kill" => \E e \in DOMAIN Kind(n, "kill") :
                    Kind(n, "kill")[e][1] \in t - Second .. t + Second
               /\ n.outages[o][2] = "kubelet_restart" => \E e \in DOMAIN Kind(n, "exit") :
                    Kind(n, "exit")[e][1] \in t - 2 * Second .. t
=============================================================================

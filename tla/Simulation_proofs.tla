-------------------------- MODULE Simulation_proofs --------------------------
(***************************************************************************)
(* Proofs about Simulation, for any numbers of nodes, namespaces and       *)
(* outages, any rolling deployments and any lengths of the run.            *)
(***************************************************************************)
EXTENDS Simulation, FiniteSetTheorems, SequenceTheorems, NaturalsInduction, TLAPS

-----------------------------------------------------------------------------
(* The inductive invariant                                                 *)

Names == {"node", "node-repl"} \X Nat
Causes == {"network_blip", "kubelet_restart", "oom_kill"}

Namespaces == {Namespace(m) : m \in 1..NodeCount}
ProfileNames == {Profiles[ns] : ns \in Namespaces} \cup {"normal"}

NodeType ==
  [name : Names, ns : Namespaces, profile : ProfileNames,
   ready : BOOLEAN, cause : Causes \cup {"drain", ""}, until : Nat, last : Int,
   leases : Seq(Nat), ebpf : Seq(Int \X {"exit", "kill", "write", "fork"}),
   outages : Seq(Nat \X Causes \X Nat)]

DrainType ==
  [name : Names, at : Nat, replacementAt : Nat, by : Names \cup {<<>>}]

TrackerType == [drainIndex : Nat, next : Nat, drained : Seq(DrainType)]

TypeOK ==
  /\ nodes \in Seq(NodeType)
  /\ scens \in Seq(TrackerType) /\ Len(scens) = Len(Scenarios)
  /\ nextID \in Nat
  /\ clock \in Nat
  /\ phase \in {"health", "scenarios", "leases", "done"}
  /\ sc \in Nat \ {0} /\ di \in Nat

(* The clock and what is due are on whole seconds.                         *)
Whole(t) == \E s \in Nat : t = Second * s

(* Nodes are numbered as they come; a replacement has a name of its own.   *)
Numbered ==
  /\ nextID = Len(nodes) /\ NodeCount <= Len(nodes)
  /\ \A i \in DOMAIN nodes :
       nodes[i].name = IF i <= NodeCount THEN <<"node", i - 1>> ELSE <<"node-repl", i - 1>>

InBurst(n, l) == n.name[1] = "node-repl" /\ l <= 3

(* The leases of a node go forward, up to the last one.                    *)
Forward(n) ==
  /\ n.last < 0 => n.leases = <<>>
  /\ \A l \in DOMAIN n.leases : n.leases[l] <= n.last
  /\ \A l \in DOMAIN n.leases : l > 1 => n.leases[l] > n.leases[l - 1]

(* An outage is over when the node is ready, and when its time is up;      *)
(* nothing was renewed in it.                                              *)
Quiet(n, t) ==
  \A o \in DOMAIN n.outages :
    /\ n.ready => n.outages[o][3] <= t
    /\ ~n.ready /\ n.cause # "drain" => n.outages[o][3] <= n.until
    /\ \A l \in DOMAIN n.leases :
         InBurst(n, l) \/ n.leases[l] < n.outages[o][1] \/ n.leases[l] >= n.outages[o][3]

(* Before its turn in this second a node has no lease of it.               *)
Before(n, t) == \A l \in DOMAIN n.leases : InBurst(n, l) \/ n.leases[l] < t

Healthy ==
  \A i \in DOMAIN nodes :
    /\ Forward(nodes[i])
    /\ Quiet(nodes[i], clock)
    /\ phase # "done" => Before(nodes[i], clock)

(* A drained node is down for good, and renewed nothing since.             *)
HasDown(ns, d) ==
  \E i \in DOMAIN ns :
    /\ ns[i].name = d.name /\ ns[i].ready = FALSE /\ ns[i].cause = "drain"
    /\ Before(ns[i], d.at)

(* Its replacement is in its namespace, and began when it was due.         *)
HasReplacement(ns, d) ==
  \E i, j \in DOMAIN ns :
    /\ ns[i].name = d.name /\ ns[j].name = d.by
    /\ ns[i].ns = ns[j].ns
    /\ ns[j].leases # <<>> /\ ns[j].leases[1] = d.replacementAt

(* What the loop of this second has looked at.                             *)
LookedAt(x) ==
  \/ phase = "leases"
  \/ phase = "scenarios" /\ (x[1] < sc \/ (x[1] = sc /\ x[2] < di))

(* None that is looked at is left waiting, so none is ever late.           *)
OnTime(x) ==
  (DrainOf(x).by = <<>>) =>
    /\ clock <= DrainOf(x).replacementAt
    /\ Whole(DrainOf(x).replacementAt)
    /\ LookedAt(x) => clock < DrainOf(x).replacementAt

Drainage ==
  /\ \A x \in Drains :
       /\ HasDown(nodes, DrainOf(x))
       /\ DrainOf(x).by # <<>> => HasReplacement(nodes, DrainOf(x))
       /\ OnTime(x)
  /\ \A x, y \in Drains : DrainOf(x).name = DrainOf(y).name => x = y

Replaced == {x \in Drains : DrainOf(x).by # <<>>}

Counted == IsFiniteSet(Replaced) /\ Len(nodes) = NodeCount + Cardinality(Replaced)

Loop == phase # "scenarios" => di = 0 /\ sc = 1

IInv ==
  TypeOK /\ Whole(clock) /\ Numbered /\ Healthy /\ Drainage /\ Counted /\ Loop

-----------------------------------------------------------------------------
(* One node                                                                *)

LEMMA FieldsOf ==
  ASSUME NEW n \in NodeType
  PROVE  /\ n.name \in Names /\ n.ready \in BOOLEAN /\ n.until \in Nat /\ n.last \in Int
         /\ n.leases \in Seq(Nat)
         /\ n.ebpf \in Seq(Int \X {"exit", "kill", "write", "fork"})
         /\ n.outages \in Seq(Nat \X Causes \X Nat)
         /\ n.cause \in Causes \cup {"drain", ""}
BY DEF NodeType

(* Durations are whole numbers of seconds, and none is empty.              *)
LEMMA Durations ==
  /\ Duration \in Nat /\ NodeCount \in Nat /\ NodeCount >= 1
  /\ \A d \in Outages \cup Intervals : d \in Nat /\ d >= 1 /\ d * Second \in Nat /\ d * Second >= 3
BY SimulationAssumption DEF Second

LEMMA IllnessIs ==
  ASSUME NEW ill \in Illnesses
  PROVE  ill[1] \in Causes /\ ill[1] # "drain" /\ ill[2] \in Outages /\ ill[3] \in Int
BY DEF Illnesses, Causes, Second

LEMMA FallIllIs ==
  ASSUME NEW n \in NodeType, NEW ill \in Illnesses, clock \in Nat
  PROVE  LET m == FallIll(n, ill)
         IN  /\ m \in NodeType
             /\ m.name = n.name /\ m.ns = n.ns /\ m.leases = n.leases /\ m.last = n.last
             /\ m.ready = FALSE /\ m.cause # "drain"
             /\ m.until = clock + ill[2] * Second
             /\ m.outages = Append(n.outages, <<clock, ill[1], clock + ill[2] * Second>>)
<1> DEFINE end == clock + ill[2] * Second
           out == Append(n.outages, <<clock, ill[1], end>>)
           ev == generateCorrelatedEbpf(n, ill)
           m == [n EXCEPT !.ready = FALSE, !.cause = ill[1], !.until = end,
                          !.outages = out, !.ebpf = ev]
<1>1. ill[1] \in Causes /\ ill[1] # "drain" /\ ill[2] \in Outages /\ ill[3] \in Int
  BY IllnessIs
<1>2. end \in Nat
  BY <1>1, Durations
<1>3. out \in Seq(Nat \X Causes \X Nat)
  <2>1. <<clock, ill[1], end>> \in Nat \X Causes \X Nat
    BY <1>1, <1>2
  <2> QED
    BY <2>1, AppendProperties, FieldsOf
<1>4. ev \in Seq(Int \X {"exit", "kill", "write", "fork"})
  <2> DEFINE EType == Int \X {"exit", "kill", "write", "fork"}
  <2>1. <<clock + ill[3], "exit">> \in EType /\ <<clock + ill[3], "kill">> \in EType
    BY <1>1
  <2>2. n.ebpf \in Seq(EType)
    BY FieldsOf
  <2> HIDE DEF EType
  <2>3. /\ Append(n.ebpf, <<clock + ill[3], "exit">>) \in Seq(EType)
        /\ Append(n.ebpf, <<clock + ill[3], "kill">>) \in Seq(EType)
    BY <2>1, <2>2, AppendProperties
  <2>4. ev \in Seq(EType)
    BY <2>2, <2>3 DEF generateCorrelatedEbpf
  <2> QED
    BY <2>4 DEF EType
<1>5. FallIll(n, ill) = m
  BY DEF FallIll
<1> HIDE DEF end, out, ev
<1>6. m \in NodeType
  BY <1>1, <1>2, <1>3, <1>4 DEF NodeType
<1>7. /\ m.name = n.name /\ m.ns = n.ns /\ m.leases = n.leases /\ m.last = n.last
      /\ m.ready = FALSE /\ m.cause = ill[1] /\ m.until = end /\ m.outages = out
  BY DEF NodeType
<1> QED
  BY <1>1, <1>5, <1>6, <1>7 DEF end, out

LEMMA RecoverIs ==
  ASSUME NEW n \in NodeType
  PROVE  LET m == Recover(n)
         IN  /\ m \in NodeType
             /\ m.name = n.name /\ m.ns = n.ns /\ m.leases = n.leases /\ m.last = n.last
             /\ m.until = n.until /\ m.outages = n.outages
             /\ n.cause = "drain" => m = n
             /\ m # n => m.ready = TRUE /\ clock >= n.until /\ n.cause # "drain"
<1>1. CASE n.cause # "drain" /\ clock >= n.until
  <2> DEFINE m == [n EXCEPT !.ready = TRUE, !.cause = ""]
  <2>1. Recover(n) = m
    BY <1>1 DEF Recover
  <2>2. /\ m \in NodeType /\ m.ready = TRUE
        /\ m.name = n.name /\ m.ns = n.ns /\ m.leases = n.leases /\ m.last = n.last
        /\ m.until = n.until /\ m.outages = n.outages
    BY DEF NodeType
  <2> QED
    BY <1>1, <2>1, <2>2
<1>2. CASE ~(n.cause # "drain" /\ clock >= n.until)
  <2>1. Recover(n) = n
    BY <1>2 DEF Recover
  <2> QED
    BY <2>1
<1> QED
  BY <1>1, <1>2

LEMMA DrainedIs ==
  ASSUME NEW n \in NodeType, clock \in Nat
  PROVE  LET m == Drained(n)
         IN  /\ m \in NodeType
             /\ m.name = n.name /\ m.ns = n.ns /\ m.leases = n.leases /\ m.last = n.last
             /\ m.ready = FALSE /\ m.cause = "drain" /\ m.outages = n.outages
<1> DEFINE end == clock + Duration * Second
           m == [n EXCEPT !.ready = FALSE, !.cause = "drain", !.until = end]
<1>1. end \in Nat
  BY SimulationAssumption DEF Second
<1>2. Drained(n) = m
  BY DEF Drained
<1> HIDE DEF end
<1>3. /\ m \in NodeType
      /\ m.name = n.name /\ m.ns = n.ns /\ m.leases = n.leases /\ m.last = n.last
      /\ m.ready = FALSE /\ m.cause = "drain" /\ m.outages = n.outages
  BY <1>1 DEF NodeType
<1> QED
  BY <1>2, <1>3

LEMMA RenewIs ==
  ASSUME NEW n \in NodeType, NEW interval \in Intervals, clock \in Nat
  PROVE  LET m == generateLeaseForNode(n, interval)
         IN  \/ m = n
             \/ /\ m \in NodeType
                /\ n.ready /\ (n.last < 0 \/ n.last < clock)
                /\ m.name = n.name /\ m.ns = n.ns /\ m.until = n.until
                /\ m.ready = n.ready /\ m.cause = n.cause /\ m.outages = n.outages
                /\ m.last = clock /\ m.leases = Append(n.leases, clock)
<1> DEFINE ls == Append(n.leases, clock)
           ev == Append(n.ebpf, WriteEvent(clock))
           m == [n EXCEPT !.last = clock, !.leases = ls, !.ebpf = ev]
<1> SUFFICES ASSUME MayRenew(n, interval)
             PROVE  /\ m \in NodeType
                    /\ n.ready /\ (n.last < 0 \/ n.last < clock)
                    /\ m.name = n.name /\ m.ns = n.ns /\ m.until = n.until
                    /\ m.ready = n.ready /\ m.cause = n.cause /\ m.outages = n.outages
                    /\ m.last = clock /\ m.leases = ls
  BY DEF generateLeaseForNode
<1>1. n.ready
  BY DEF MayRenew
<1>2. n.last < 0 \/ n.last < clock
  <2>1. n.last < 0 \/ clock - n.last >= interval * Second
    BY DEF MayRenew
  <2>2. n.last \in Int /\ interval * Second \in Nat /\ interval * Second >= 3
    BY FieldsOf, Durations
  <2> QED
    BY <2>1, <2>2
<1>3. ls \in Seq(Nat)
  BY AppendProperties, FieldsOf
<1>4. ev \in Seq(Int \X {"exit", "kill", "write", "fork"})
  <2> DEFINE EType == Int \X {"exit", "kill", "write", "fork"}
  <2>1. WriteEvent(clock) \in EType
    BY DEF WriteEvent
  <2>2. n.ebpf \in Seq(EType)
    BY FieldsOf
  <2> HIDE DEF EType
  <2>3. ev \in Seq(EType)
    BY <2>1, <2>2, AppendProperties
  <2> QED
    BY <2>3 DEF EType
<1> HIDE DEF ls, ev
<1>5. m \in NodeType
  <2>1. clock \in Int
    OBVIOUS
  <2> QED
    BY <1>3, <1>4, <2>1 DEF NodeType
<1>6. /\ m.name = n.name /\ m.ns = n.ns /\ m.until = n.until
      /\ m.ready = n.ready /\ m.cause = n.cause /\ m.outages = n.outages
      /\ m.last = clock /\ m.leases = ls
  BY DEF NodeType
<1> QED
  BY <1>1, <1>2, <1>5, <1>6

LEMMA NodeIs ==
  ASSUME NEW name \in Names,
         NEW ns \in Namespaces, NEW profile \in ProfileNames
  PROVE  LET n == Node(name, ns, profile)
         IN  /\ n \in NodeType /\ n.name = name /\ n.ns = ns /\ n.ready = TRUE
             /\ n.last = -1 /\ n.leases = <<>> /\ n.ebpf = <<>> /\ n.outages = <<>>
<1>1. /\ <<>> \in Seq(Nat)
      /\ <<>> \in Seq(Int \X {"exit", "kill", "write", "fork"})
      /\ <<>> \in Seq(Nat \X Causes \X Nat)
  BY EmptySeq
<1>2. 0 \in Nat /\ -1 \in Int
  OBVIOUS
<1> QED
  BY <1>1, <1>2 DEF Node, NodeType

LEMMA BurstIs ==
  ASSUME NEW n \in NodeType, n.leases = <<>>, n.outages = <<>>, n.name[1] = "node-repl",
         NEW fork \in {0, Second}, clock \in Nat
  PROVE  LET m == Burst(n, fork)
         IN  /\ m \in NodeType /\ m.name = n.name /\ m.ns = n.ns
             /\ m.leases # <<>> /\ m.leases[1] = clock
             /\ \A t \in Nat : Forward(m) /\ Quiet(m, t) /\ Before(m, t)
<1> DEFINE ts == [i \in 1..3 |-> clock + (i - 1) * 5]
           ev == [i \in 1..3 |-> WriteEvent(ts[i])] \o <<ForkEvent(fork)>>
           m == [n EXCEPT !.leases = ts, !.last = ts[3], !.ebpf = ev]
<1>1. Burst(n, fork) = m
  BY DEF Burst
<1>2. /\ ts \in [1..3 -> Nat]
      /\ ts[1] = clock /\ ts[2] = clock + 5 /\ ts[3] = clock + 10
  OBVIOUS
<1>3. ts \in Seq(Nat) /\ Len(ts) = 3 /\ DOMAIN ts = 1..3
  BY <1>2
<1>4. ev \in Seq(Int \X {"exit", "kill", "write", "fork"})
  <2> DEFINE EType == Int \X {"exit", "kill", "write", "fork"}
             ws == [i \in 1..3 |-> WriteEvent(ts[i])]
  <2>1. \A i \in 1..3 : WriteEvent(ts[i]) \in EType
    BY <1>2 DEF WriteEvent
  <2>2. ForkEvent(fork) \in EType
    BY DEF ForkEvent, Second
  <2> HIDE DEF EType
  <2>3. ws \in [1..3 -> EType]
    BY <2>1
  <2>4. ws \in Seq(EType) /\ <<ForkEvent(fork)>> \in Seq(EType)
    BY <2>2, <2>3
  <2> HIDE DEF ws
  <2>5. ws \o <<ForkEvent(fork)>> \in Seq(EType)
    BY <2>4, ConcatProperties
  <2> QED
    BY <2>5 DEF EType, ws
<1> HIDE DEF ts, ev
<1>5. m \in NodeType
  <2>1. ts[3] \in Int
    BY <1>2
  <2> QED
    BY <1>3, <1>4, <2>1 DEF NodeType
<1>6. /\ m.name = n.name /\ m.ns = n.ns /\ m.leases = ts /\ m.last = ts[3]
      /\ m.outages = <<>>
  BY DEF NodeType
<1> HIDE DEF m
<1>7. ts # <<>>
  <2>1. Len(<<>>) = 0
    OBVIOUS
  <2>2. Len(ts) # 0
    BY <1>3
  <2> QED
    BY <2>1, <2>2
<1>8. Forward(m)
  BY <1>2, <1>3, <1>6 DEF Forward
<1>9. ASSUME NEW t \in Nat PROVE Quiet(m, t) /\ Before(m, t)
  <2>1. \A l \in DOMAIN m.leases : InBurst(m, l)
    BY <1>3, <1>6 DEF InBurst
  <2>2. DOMAIN m.outages = {}
    BY <1>6
  <2> QED
    BY <2>1, <2>2 DEF Quiet, Before
<1> QED
  BY <1>1, <1>2, <1>5, <1>6, <1>7, <1>8, <1>9

(* What any step may do to a node: its name and namespace stay, and so     *)
(* does its first lease; a drained one does not change.                    *)
Evolves(n, m) ==
  /\ m.name = n.name /\ m.ns = n.ns
  /\ n.ready = FALSE /\ n.cause = "drain" => m = n
  /\ n.leases # <<>> => m.leases # <<>> /\ m.leases[1] = n.leases[1]

Fit(n, t) == n \in NodeType /\ Forward(n) /\ Quiet(n, t)

LEMMA OutageIs ==
  ASSUME NEW n \in NodeType, NEW o \in DOMAIN n.outages
  PROVE  n.outages[o][1] \in Nat /\ n.outages[o][3] \in Nat
<1> DEFINE OType == Nat \X Causes \X Nat
<1>1. n.outages \in Seq(OType)
  BY FieldsOf
<1>2. n.outages[o] \in OType
  <2> HIDE DEF OType
  <2> QED
    BY <1>1, LenProperties, ElementOfSeq
<1> QED
  BY <1>2

LEMMA LeaseIs ==
  ASSUME NEW n \in NodeType
  PROVE  /\ Len(n.leases) \in Nat
         /\ \A l \in DOMAIN n.leases : n.leases[l] \in Nat /\ l \in Nat /\ l >= 1
<1>1. n.leases \in Seq(Nat)
  BY FieldsOf
<1>2. Len(n.leases) \in Nat
  BY <1>1, LenProperties
<1>3. DOMAIN n.leases = 1..Len(n.leases)
  BY <1>1, LenProperties
<1>4. ASSUME NEW l \in DOMAIN n.leases
      PROVE  n.leases[l] \in Nat /\ l \in Nat /\ l >= 1
  <2>1. l \in 1..Len(n.leases)
    BY <1>3
  <2>2. n.leases[l] \in Nat
    BY <1>1, <2>1, ElementOfSeq
  <2> QED
    BY <1>2, <2>1, <2>2
<1> QED
  BY <1>2, <1>4

LEMMA FallIllKeeps ==
  ASSUME NEW n, Fit(n, clock), Before(n, clock), n.ready,
         NEW ill \in Illnesses, clock \in Nat
  PROVE  LET m == FallIll(n, ill)
         IN  Fit(m, clock) /\ Before(m, clock) /\ Evolves(n, m)
<1> DEFINE m == FallIll(n, ill)
           end == clock + ill[2] * Second
           new == <<clock, ill[1], end>>
<1>1. n \in NodeType /\ Forward(n) /\ Quiet(n, clock)
  BY DEF Fit
<1>2. /\ m \in NodeType
      /\ m.name = n.name /\ m.ns = n.ns /\ m.leases = n.leases /\ m.last = n.last
      /\ m.ready = FALSE /\ m.cause # "drain" /\ m.until = end
      /\ m.outages = Append(n.outages, new)
  BY <1>1, FallIllIs
<1>3. ill[1] \in Causes /\ end \in Nat /\ end >= clock
  BY IllnessIs, Durations
<1>4. new[1] = clock /\ new[3] = end /\ new \in Nat \X Causes \X Nat
  BY <1>3
<1> HIDE DEF m, end, new
<1>5. \A o \in DOMAIN m.outages :
        \/ o \in DOMAIN n.outages /\ m.outages[o] = n.outages[o]
        \/ m.outages[o] = new
  <2> DEFINE OType == Nat \X Causes \X Nat
  <2>1. n.outages \in Seq(OType) /\ new \in OType
    BY <1>1, <1>4, FieldsOf
  <2> HIDE DEF OType
  <2>2. /\ m.outages \in Seq(OType) /\ Len(m.outages) = Len(n.outages) + 1
        /\ \A o \in 1..Len(n.outages) : m.outages[o] = n.outages[o]
        /\ m.outages[Len(n.outages) + 1] = new
    BY <1>2, <2>1, AppendProperties
  <2>3. /\ DOMAIN m.outages = 1..Len(m.outages) /\ DOMAIN n.outages = 1..Len(n.outages)
        /\ Len(n.outages) \in Nat
    BY <2>1, <2>2, LenProperties
  <2> QED
    BY <2>2, <2>3
<1>6. Forward(m)
  BY <1>1, <1>2 DEF Forward
<1>7. Before(m, clock)
  BY <1>2 DEF Before, InBurst
<1>8. Quiet(m, clock)
  <2>1. ASSUME NEW o \in DOMAIN m.outages
        PROVE  /\ m.outages[o][3] <= m.until
               /\ \A l \in DOMAIN m.leases :
                    InBurst(m, l) \/ m.leases[l] < m.outages[o][1]
                                  \/ m.leases[l] >= m.outages[o][3]
    <3>1. CASE o \in DOMAIN n.outages /\ m.outages[o] = n.outages[o]
      <4>1. n.outages[o][3] <= clock /\ n.outages[o][3] \in Nat
        BY <1>1, <3>1, OutageIs DEF Quiet
      <4>2. m.outages[o][3] <= m.until
        BY <1>2, <1>3, <3>1, <4>1
      <4> QED
        BY <1>1, <1>2, <3>1, <4>2 DEF Quiet, InBurst
    <3>2. CASE m.outages[o] = new
      <4>1. m.outages[o][3] <= m.until
        BY <1>2, <1>3, <1>4, <3>2
      <4>2. \A l \in DOMAIN m.leases : InBurst(m, l) \/ m.leases[l] < m.outages[o][1]
        BY <1>4, <1>7, <3>2 DEF Before
      <4> QED
        BY <4>1, <4>2
    <3> QED
      BY <1>5, <3>1, <3>2
  <2> QED
    BY <1>2, <2>1 DEF Quiet
<1>9. Evolves(n, m)
  BY <1>2 DEF Evolves
<1> QED
  BY <1>2, <1>6, <1>7, <1>8, <1>9 DEF Fit, m

LEMMA RecoverKeeps ==
  ASSUME NEW n, Fit(n, clock), Before(n, clock), ~n.ready, clock \in Nat
  PROVE  LET m == Recover(n)
         IN  Fit(m, clock) /\ Before(m, clock) /\ Evolves(n, m)
<1> DEFINE m == Recover(n)
<1>1. n \in NodeType /\ Forward(n) /\ Quiet(n, clock)
  BY DEF Fit
<1>2. /\ m \in NodeType
      /\ m.name = n.name /\ m.ns = n.ns /\ m.leases = n.leases /\ m.last = n.last
      /\ m.until = n.until /\ m.outages = n.outages
      /\ n.cause = "drain" => m = n
      /\ m # n => m.ready = TRUE /\ clock >= n.until /\ n.cause # "drain"
  BY <1>1, RecoverIs
<1> HIDE DEF m
<1>3. CASE m = n
  BY <1>3 DEF Evolves, m
<1>4. CASE m # n
  <2>1. m.ready = TRUE /\ clock >= n.until /\ n.cause # "drain"
    BY <1>2, <1>4
  <2>2. \A o \in DOMAIN m.outages : m.outages[o][3] <= clock
    <3> TAKE o \in DOMAIN m.outages
    <3>1. n.outages[o][3] <= n.until /\ n.outages[o][3] \in Nat /\ n.until \in Nat
      BY <1>1, <1>2, <2>1, OutageIs, FieldsOf DEF Quiet
    <3> QED
      BY <1>2, <2>1, <3>1
  <2>3. Quiet(m, clock)
    BY <1>1, <1>2, <2>1, <2>2 DEF Quiet, InBurst
  <2>4. Forward(m) /\ Before(m, clock) /\ Evolves(n, m)
    BY <1>1, <1>2, <2>1 DEF Forward, Before, InBurst, Evolves
  <2> QED
    BY <1>2, <2>3, <2>4 DEF Fit, m
<1> QED
  BY <1>3, <1>4

LEMMA DrainedKeeps ==
  ASSUME NEW n, Fit(n, clock), Before(n, clock), n.ready, clock \in Nat
  PROVE  LET m == Drained(n)
         IN  /\ Fit(m, clock) /\ Before(m, clock) /\ Evolves(n, m)
             /\ m.ready = FALSE /\ m.cause = "drain"
<1> DEFINE m == Drained(n)
<1>1. n \in NodeType /\ Forward(n) /\ Quiet(n, clock)
  BY DEF Fit
<1>2. /\ m \in NodeType
      /\ m.name = n.name /\ m.ns = n.ns /\ m.leases = n.leases /\ m.last = n.last
      /\ m.ready = FALSE /\ m.cause = "drain" /\ m.outages = n.outages
  BY <1>1, DrainedIs
<1> HIDE DEF m
<1>3. Forward(m) /\ Before(m, clock) /\ Evolves(n, m)
  BY <1>1, <1>2 DEF Forward, Before, InBurst, Evolves
<1>4. Quiet(m, clock)
  BY <1>1, <1>2 DEF Quiet, InBurst
<1> QED
  BY <1>2, <1>3, <1>4 DEF Fit, m

LEMMA RenewKeeps ==
  ASSUME NEW n, Fit(n, clock), Before(n, clock), NEW interval \in Intervals, clock \in Nat
  PROVE  LET m == generateLeaseForNode(n, interval)
         IN  Fit(m, clock) /\ Before(m, clock + Second) /\ Evolves(n, m)
<1> DEFINE m == generateLeaseForNode(n, interval)
<1>1. n \in NodeType /\ Forward(n) /\ Quiet(n, clock)
  BY DEF Fit
<1>2. \/ m = n
      \/ /\ m \in NodeType
         /\ n.ready /\ (n.last < 0 \/ n.last < clock)
         /\ m.name = n.name /\ m.ns = n.ns /\ m.until = n.until
         /\ m.ready = n.ready /\ m.cause = n.cause /\ m.outages = n.outages
         /\ m.last = clock /\ m.leases = Append(n.leases, clock)
  BY <1>1, RenewIs
<1>3. clock < clock + Second /\ clock + Second \in Nat
  BY DEF Second
<1> HIDE DEF m
<1>4. CASE m = n
  <2>1. Before(n, clock + Second)
    BY <1>1, <1>3, LeaseIs DEF Before
  <2> QED
    BY <1>4, <2>1 DEF Evolves, m
<1>5. CASE m # n
  <2>1. /\ m \in NodeType
        /\ n.ready /\ (n.last < 0 \/ n.last < clock)
        /\ m.name = n.name /\ m.ns = n.ns /\ m.until = n.until
        /\ m.ready = n.ready /\ m.cause = n.cause /\ m.outages = n.outages
        /\ m.last = clock /\ m.leases = Append(n.leases, clock)
    BY <1>2, <1>5
  <2>2. n.leases \in Seq(Nat) /\ m.leases \in Seq(Nat)
    BY <1>1, <2>1, FieldsOf
  <2>3. /\ Len(m.leases) = Len(n.leases) + 1
        /\ \A l \in 1..Len(n.leases) : m.leases[l] = n.leases[l]
        /\ m.leases[Len(n.leases) + 1] = clock
    BY <2>1, <2>2, AppendProperties
  <2>4. Len(n.leases) \in Nat
    BY <2>2, LenProperties
  <2>5. DOMAIN n.leases = 1..Len(n.leases) /\ DOMAIN m.leases = 1..Len(m.leases)
    BY <2>2, LenProperties
  <2>6. ASSUME NEW l \in DOMAIN m.leases
        PROVE  \/ l \in DOMAIN n.leases /\ m.leases[l] = n.leases[l]
               \/ l = Len(n.leases) + 1 /\ m.leases[l] = clock
    BY <2>3, <2>4, <2>5
  <2>7. Forward(m)
    <3>1. ASSUME NEW l \in DOMAIN m.leases PROVE m.leases[l] <= m.last
      <4>1. CASE l \in DOMAIN n.leases /\ m.leases[l] = n.leases[l]
        <5>1. n.leases[l] <= n.last /\ n.leases[l] \in Nat /\ n.last \in Int
          BY <1>1, <4>1, LeaseIs, FieldsOf DEF Forward
        <5> QED
          BY <2>1, <4>1, <5>1
      <4> QED
        BY <2>1, <2>6, <4>1
    <3>2. ASSUME NEW l \in DOMAIN m.leases, l > 1 PROVE m.leases[l] > m.leases[l - 1]
      <4>1. CASE l \in DOMAIN n.leases
        <5>1. l - 1 \in 1..Len(n.leases) /\ l \in 1..Len(n.leases)
          BY <2>4, <2>5, <3>2, <4>1
        <5> QED
          BY <1>1, <2>3, <3>2, <4>1, <5>1 DEF Forward
      <4>2. CASE l = Len(n.leases) + 1 /\ m.leases[l] = clock
        <5>1. l - 1 \in 1..Len(n.leases)
          BY <2>4, <3>2, <4>2
        <5>2. m.leases[l - 1] = n.leases[l - 1] /\ l - 1 \in DOMAIN n.leases
          BY <2>3, <2>5, <5>1
        <5>3. /\ n.leases[l - 1] <= n.last /\ n.leases[l - 1] \in Nat /\ n.last \in Int
          BY <1>1, <5>2, LeaseIs, FieldsOf DEF Forward
        <5> QED
          BY <2>1, <4>2, <5>2, <5>3
      <4> QED
        BY <2>6, <4>1, <4>2
    <3>3. ~(m.last < 0)
      BY <2>1
    <3> QED
      BY <3>1, <3>2, <3>3 DEF Forward
  <2>8. Before(m, clock + Second)
    <3> SUFFICES ASSUME NEW l \in DOMAIN m.leases
                 PROVE  InBurst(m, l) \/ m.leases[l] < clock + Second
      BY DEF Before
    <3>1. CASE l \in DOMAIN n.leases /\ m.leases[l] = n.leases[l]
      <4>1. InBurst(n, l) \/ (n.leases[l] < clock /\ n.leases[l] \in Nat)
        BY <1>1, <3>1, LeaseIs DEF Before
      <4> QED
        BY <1>3, <2>1, <3>1, <4>1 DEF InBurst
    <3> QED
      BY <1>3, <2>6, <3>1
  <2>9. Quiet(m, clock)
    <3>1. ASSUME NEW o \in DOMAIN m.outages, NEW l \in DOMAIN m.leases
          PROVE  InBurst(m, l) \/ m.leases[l] < m.outages[o][1]
                               \/ m.leases[l] >= m.outages[o][3]
      <4>1. CASE l \in DOMAIN n.leases /\ m.leases[l] = n.leases[l]
        BY <1>1, <2>1, <4>1 DEF Quiet, InBurst
      <4>2. CASE m.leases[l] = clock
        <5>1. n.outages[o][3] <= clock /\ n.outages[o][3] \in Nat
          BY <1>1, <2>1, OutageIs DEF Quiet
        <5> QED
          BY <2>1, <4>2, <5>1
      <4> QED
        BY <2>6, <4>1, <4>2
    <3> QED
      BY <1>1, <2>1, <3>1 DEF Quiet
  <2>10. Evolves(n, m)
    <3>1. ~(n.ready = FALSE)
      BY <2>1
    <3>2. ASSUME n.leases # <<>> PROVE m.leases # <<>> /\ m.leases[1] = n.leases[1]
      <4>1. 1 \in 1..Len(n.leases)
        BY <2>2, <2>4, <3>2, EmptySeq
      <4>2. m.leases # <<>>
        BY <2>3, <2>4, EmptySeq
      <4> QED
        BY <2>3, <4>1, <4>2
    <3> QED
      BY <2>1, <3>1, <3>2 DEF Evolves
  <2> QED
    BY <2>1, <2>7, <2>8, <2>9, <2>10 DEF Fit, m
<1> QED
  BY <1>4, <1>5

-----------------------------------------------------------------------------
(* The nodes and what was drained                                          *)

LEMMA EveryNode ==
  ASSUME IInv, NEW i \in DOMAIN nodes
  PROVE  Fit(nodes[i], clock) /\ (phase # "done" => Before(nodes[i], clock))
<1>1. nodes[i] \in NodeType
  BY LenProperties, ElementOfSeq DEF IInv, TypeOK
<1> QED
  BY <1>1 DEF IInv, Healthy, Fit

LEMMA DrainsIs ==
  ASSUME TypeOK
  PROVE  /\ \A x \in Drains :
              /\ x = <<x[1], x[2]>>
              /\ x[1] \in DOMAIN scens /\ x[2] \in DOMAIN scens[x[1]].drained
              /\ x[1] \in Nat /\ 1 <= x[1] /\ x[1] <= Len(scens)
              /\ x[2] \in Nat /\ 1 <= x[2] /\ x[2] <= Len(scens[x[1]].drained)
              /\ DrainOf(x) \in DrainType
         /\ \A k \in DOMAIN scens : \A i \in DOMAIN scens[k].drained : <<k, i>> \in Drains
<1>1. scens \in Seq(TrackerType)
  BY DEF TypeOK
<1>2. DOMAIN scens = 1..Len(scens) /\ Len(scens) \in Nat
  BY <1>1, LenProperties
<1>3. ASSUME NEW k \in DOMAIN scens
      PROVE  scens[k].drained \in Seq(DrainType)
  <2>1. scens[k] \in TrackerType
    BY <1>1, <1>2, ElementOfSeq
  <2> QED
    BY <2>1 DEF TrackerType
<1>4. ASSUME NEW x \in Drains
      PROVE  /\ x = <<x[1], x[2]>>
             /\ x[1] \in DOMAIN scens /\ x[2] \in DOMAIN scens[x[1]].drained
             /\ x[1] \in Nat /\ 1 <= x[1] /\ x[1] <= Len(scens)
             /\ x[2] \in Nat /\ 1 <= x[2] /\ x[2] <= Len(scens[x[1]].drained)
             /\ DrainOf(x) \in DrainType
  <2>1. PICK k \in DOMAIN scens : \E i \in DOMAIN scens[k].drained : x = <<k, i>>
    BY DEF Drains
  <2>2. PICK i \in DOMAIN scens[k].drained : x = <<k, i>>
    BY <2>1
  <2>3. x[1] = k /\ x[2] = i
    BY <2>2
  <2>4. scens[k].drained \in Seq(DrainType)
    BY <1>3
  <2>5. DOMAIN scens[k].drained = 1..Len(scens[k].drained) /\ Len(scens[k].drained) \in Nat
    BY <2>4, LenProperties
  <2>6. scens[k].drained[i] \in DrainType
    BY <2>4, <2>5, ElementOfSeq
  <2>7. k \in Nat /\ 1 <= k /\ k <= Len(scens)
    BY <1>2
  <2>8. i \in Nat /\ 1 <= i /\ i <= Len(scens[k].drained)
    BY <2>5
  <2> QED
    BY <2>2, <2>3, <2>6, <2>7, <2>8 DEF DrainOf
<1>5. \A k \in DOMAIN scens : \A i \in DOMAIN scens[k].drained : <<k, i>> \in Drains
  BY DEF Drains
<1> QED
  BY <1>4, <1>5

LEMMA DrainFields ==
  ASSUME NEW d \in DrainType
  PROVE  d.name \in Names /\ d.at \in Nat /\ d.replacementAt \in Nat
BY DEF DrainType

LEMMA StaysDown ==
  ASSUME NEW ns, NEW ms, DOMAIN ns \subseteq DOMAIN ms,
         \A i \in DOMAIN ns : Evolves(ns[i], ms[i]),
         NEW d, HasDown(ns, d)
  PROVE  HasDown(ms, d)
<1>1. PICK i \in DOMAIN ns :
        /\ ns[i].name = d.name /\ ns[i].ready = FALSE /\ ns[i].cause = "drain"
        /\ Before(ns[i], d.at)
  BY DEF HasDown
<1>2. ms[i] = ns[i] /\ i \in DOMAIN ms
  BY <1>1 DEF Evolves
<1> QED
  BY <1>1, <1>2 DEF HasDown

LEMMA StaysReplaced ==
  ASSUME NEW ns, NEW ms, DOMAIN ns \subseteq DOMAIN ms,
         \A i \in DOMAIN ns : Evolves(ns[i], ms[i]),
         NEW d, HasReplacement(ns, d)
  PROVE  HasReplacement(ms, d)
<1>1. PICK i, j \in DOMAIN ns :
        /\ ns[i].name = d.name /\ ns[j].name = d.by
        /\ ns[i].ns = ns[j].ns
        /\ ns[j].leases # <<>> /\ ns[j].leases[1] = d.replacementAt
  BY DEF HasReplacement
<1>2. i \in DOMAIN ms /\ j \in DOMAIN ms /\ Evolves(ns[i], ms[i]) /\ Evolves(ns[j], ms[j])
  BY <1>1
<1>3. /\ ms[i].name = d.name /\ ms[j].name = d.by /\ ms[i].ns = ms[j].ns
      /\ ms[j].leases # <<>> /\ ms[j].leases[1] = d.replacementAt
  BY <1>1, <1>2 DEF Evolves
<1> QED
  BY <1>2, <1>3 DEF HasReplacement

(* Steps that leave the scenarios' trackers alone keep what is said about  *)
(* them, as long as nodes only evolve and none becomes late.               *)
LEMMA DrainageKept ==
  ASSUME IInv, scens' = scens, nodes' \in Seq(NodeType), Len(nodes') = Len(nodes),
         \A i \in DOMAIN nodes : Evolves(nodes[i], nodes'[i]),
         \A x \in Drains : OnTime(x)'
  PROVE  Drainage' /\ Counted' /\ (nextID' = nextID => Numbered')
<1>1. nodes \in Seq(NodeType)
  BY DEF IInv, TypeOK
<1>2. DOMAIN nodes' = DOMAIN nodes
  BY <1>1, LenProperties
<1>3. Drains' = Drains /\ \A x \in Drains : DrainOf(x)' = DrainOf(x)
  BY DEF Drains, DrainOf
<1>4. \A x \in Drains : HasDown(nodes', DrainOf(x))
  BY <1>2, StaysDown DEF IInv, Drainage
<1>5. \A x \in Drains : DrainOf(x).by # <<>> => HasReplacement(nodes', DrainOf(x))
  BY <1>2, StaysReplaced DEF IInv, Drainage
<1>6. Drainage'
  <2>1. \A x, y \in Drains : DrainOf(x).name = DrainOf(y).name => x = y
    BY DEF IInv, Drainage
  <2>2. \A x \in Drains' : HasDown(nodes, DrainOf(x))'
    BY <1>3, <1>4 DEF HasDown, DrainOf
  <2>3. \A x \in Drains' : (DrainOf(x).by # <<>> => HasReplacement(nodes, DrainOf(x)))'
    BY <1>3, <1>5 DEF HasReplacement, DrainOf
  <2>4. \A x, y \in Drains' : (DrainOf(x).name = DrainOf(y).name)' => x = y
    BY <1>3, <2>1 DEF DrainOf
  <2>5. \A x \in Drains' : OnTime(x)'
    BY <1>3
  <2> QED
    BY <2>2, <2>3, <2>4, <2>5 DEF Drainage
<1>7. Counted'
  <2>1. Replaced' = Replaced
    BY <1>3 DEF Replaced, DrainOf
  <2> QED
    BY <2>1 DEF IInv, Counted
<1>8. ASSUME nextID' = nextID PROVE Numbered'
  <2>1. \A i \in DOMAIN nodes' :
          nodes'[i].name = IF i <= NodeCount THEN <<"node", i - 1>> ELSE <<"node-repl", i - 1>>
    BY <1>2 DEF IInv, Numbered, Evolves
  <2> QED
    BY <1>8, <2>1 DEF IInv, Numbered
<1> QED
  BY <1>6, <1>7, <1>8

-----------------------------------------------------------------------------
(* The invariant holds                                                     *)

LEMMA InitEstablishes == Init => IInv
<1> SUFFICES ASSUME Init PROVE IInv
  OBVIOUS
<1>1. /\ nodes = distributeNodes
      /\ scens = [k \in DOMAIN Scenarios |->
                    [drainIndex |-> 0, next |-> Scenarios[k].trigger * Second, drained |-> <<>>]]
      /\ nextID = Len(nodes)
      /\ clock = 0 /\ phase = "health" /\ sc = 1 /\ di = 0
  BY DEF Init
<1>2. NodeCount \in Nat /\ NodeCount >= 1
  BY Durations
<1>3. ASSUME NEW i \in 1..NodeCount
      PROVE  LET n == distributeNodes[i]
             IN  /\ n \in NodeType /\ n.name = <<"node", i - 1>>
                 /\ n.last = -1 /\ n.leases = <<>> /\ n.outages = <<>>
  <2> DEFINE ns == Namespace(i)
             profile == Profiles[ns]
             name == <<"node", i - 1>>
             n == Node(name, ns, profile)
  <2>1. distributeNodes[i] = n
    BY DEF distributeNodes
  <2>2. ns \in Namespaces /\ profile \in ProfileNames
    BY DEF Namespaces, ProfileNames
  <2>3. name \in Names
    <3>1. i - 1 \in Nat
      BY <1>2
    <3> QED
      BY <3>1 DEF Names
  <2> HIDE DEF ns, profile, name
  <2>4. n \in NodeType /\ n.name = name
    BY <2>2, <2>3, NodeIs
  <2>5. n.last = -1 /\ n.leases = <<>> /\ n.outages = <<>>
    BY DEF Node
  <2> HIDE DEF n
  <2> QED
    BY <2>1, <2>4, <2>5 DEF name
<1>4. nodes \in Seq(NodeType) /\ Len(nodes) = NodeCount /\ DOMAIN nodes = 1..NodeCount
  <2>1. nodes \in [1..NodeCount -> NodeType]
    <3>1. nodes = [m \in 1..NodeCount |-> distributeNodes[m]]
      BY <1>1 DEF distributeNodes
    <3> QED
      BY <1>3, <3>1
  <2> QED
    BY <1>2, <2>1
<1>5. scens \in Seq(TrackerType) /\ Len(scens) = Len(Scenarios)
      /\ \A k \in DOMAIN scens : scens[k].drained = <<>>
  <2>1. DOMAIN Scenarios = 1..Len(Scenarios) /\ Len(Scenarios) \in Nat
    BY SimulationAssumption, LenProperties
  <2>2. ASSUME NEW k \in 1..Len(Scenarios)
        PROVE  scens[k] \in TrackerType /\ scens[k].drained = <<>>
    <3>1. scens[k] = [drainIndex |-> 0, next |-> Scenarios[k].trigger * Second, drained |-> <<>>]
      BY <1>1, <2>1
    <3>2. Scenarios[k].trigger \in Nat
      <4> DEFINE SType == [trigger : Nat, count : Nat, stagger : Nat, delay : Nat]
      <4>1. Scenarios \in Seq(SType)
        BY SimulationAssumption
      <4> HIDE DEF SType
      <4>2. Scenarios[k] \in SType
        BY <4>1, ElementOfSeq
      <4> QED
        BY <4>2 DEF SType
    <3>3. Scenarios[k].trigger * Second \in Nat
      BY <3>2 DEF Second
    <3>4. <<>> \in Seq(DrainType)
      BY EmptySeq
    <3> QED
      BY <3>1, <3>3, <3>4 DEF TrackerType
  <2>3. scens \in [1..Len(Scenarios) -> TrackerType]
    <3>1. DOMAIN scens = 1..Len(Scenarios)
          /\ scens = [k \in 1..Len(Scenarios) |-> scens[k]]
      BY <1>1, <2>1
    <3> QED
      BY <2>2, <3>1
  <2> QED
    BY <2>1, <2>2, <2>3
<1>6. TypeOK
  <2>1. Len(nodes) \in Nat
    BY <1>2, <1>4
  <2> QED
    BY <1>1, <1>4, <1>5, <2>1 DEF TypeOK
<1>7. Whole(clock)
  <2>1. 0 \in Nat /\ clock = Second * 0
    BY <1>1 DEF Second
  <2> QED
    BY <2>1 DEF Whole
<1>8. \A i \in DOMAIN nodes :
        /\ nodes[i].name = <<"node", i - 1>> /\ nodes[i].last = -1
        /\ nodes[i].leases = <<>> /\ nodes[i].outages = <<>>
  BY <1>1, <1>3, <1>4
<1>9. Numbered
  <2>1. \A i \in DOMAIN nodes : i <= NodeCount
    BY <1>2, <1>4
  <2> QED
    BY <1>1, <1>2, <1>4, <1>8, <2>1 DEF Numbered
<1>10. Healthy
  BY <1>8 DEF Healthy, Forward, Quiet, Before
<1>11. Drains = {}
  BY <1>5 DEF Drains
<1>12. Drainage /\ Replaced = {}
  BY <1>11 DEF Drainage, Replaced
<1>13. Counted
  <2>1. IsFiniteSet({}) /\ Cardinality({}) = 0
    BY FS_EmptySet
  <2> QED
    BY <1>2, <1>4, <1>12, <2>1 DEF Counted
<1>14. Loop
  BY <1>1 DEF Loop
<1> QED
  BY <1>6, <1>7, <1>9, <1>10, <1>12, <1>13, <1>14 DEF IInv

LEMMA HealthKeeps ==
  ASSUME IInv, applyHealthTransitions
  PROVE  IInv'
<1>1. /\ phase = "health" /\ phase' = "scenarios" /\ scens' = scens /\ nextID' = nextID
      /\ clock' = clock /\ sc' = sc /\ di' = di
  BY DEF applyHealthTransitions
<1>0. PICK who \in SUBSET {i \in DOMAIN nodes : MayFallIll(nodes[i])} :
        \E ill \in [who -> Illnesses] :
          nodes' = [i \in DOMAIN nodes |->
                IF i \in who THEN FallIll(nodes[i], ill[i])
                ELSE IF nodes[i].ready THEN nodes[i] ELSE Recover(nodes[i])]
  BY DEF applyHealthTransitions
<1>2. PICK ill \in [who -> Illnesses] :
        nodes' = [i \in DOMAIN nodes |->
              IF i \in who THEN FallIll(nodes[i], ill[i])
              ELSE IF nodes[i].ready THEN nodes[i] ELSE Recover(nodes[i])]
  BY <1>0
<1>3. nodes \in Seq(NodeType) /\ clock \in Nat
  BY DEF IInv, TypeOK
<1>4. DOMAIN nodes = 1..Len(nodes) /\ Len(nodes) \in Nat
  BY <1>3, LenProperties
<1>5. ASSUME NEW i \in DOMAIN nodes
      PROVE  /\ Fit(nodes'[i], clock) /\ Before(nodes'[i], clock)
             /\ Evolves(nodes[i], nodes'[i])
  <2>1. Fit(nodes[i], clock) /\ Before(nodes[i], clock)
    BY <1>1, EveryNode
  <2>2. CASE i \in who
    <3>1. nodes'[i] = FallIll(nodes[i], ill[i]) /\ ill[i] \in Illnesses /\ nodes[i].ready
      BY <1>2, <2>2 DEF MayFallIll
    <3> QED
      BY <1>3, <2>1, <3>1, FallIllKeeps
  <2>3. CASE i \notin who /\ nodes[i].ready
    <3>1. nodes'[i] = nodes[i]
      BY <1>2, <2>3
    <3> QED
      BY <2>1, <3>1 DEF Evolves
  <2>4. CASE i \notin who /\ ~nodes[i].ready
    <3>1. nodes'[i] = Recover(nodes[i])
      BY <1>2, <2>4
    <3> QED
      BY <1>3, <2>1, <2>4, <3>1, RecoverKeeps
  <2> QED
    BY <2>2, <2>3, <2>4
<1>6. nodes' \in Seq(NodeType) /\ Len(nodes') = Len(nodes) /\ DOMAIN nodes' = DOMAIN nodes
  <2>1. DOMAIN nodes' = 1..Len(nodes) /\ nodes' = [i \in 1..Len(nodes) |-> nodes'[i]]
    BY <1>2, <1>4
  <2>2. \A i \in 1..Len(nodes) : nodes'[i] \in NodeType
    BY <1>4, <1>5 DEF Fit
  <2>3. nodes' \in [1..Len(nodes) -> NodeType]
    BY <2>1, <2>2
  <2> QED
    BY <1>4, <2>1, <2>3
<1>7. TypeOK'
  BY <1>1, <1>6 DEF IInv, TypeOK
<1>8. Whole(clock)'
  BY <1>1 DEF IInv, Whole
<1>9. Healthy'
  <2>1. \A i \in DOMAIN nodes' :
          Forward(nodes'[i]) /\ Quiet(nodes'[i], clock) /\ Before(nodes'[i], clock)
    BY <1>5, <1>6 DEF Fit
  <2> QED
    BY <1>1, <2>1 DEF Healthy, Forward, Quiet, Before, InBurst
<1>10. \A x \in Drains : OnTime(x)'
  <2> SUFFICES ASSUME NEW x \in Drains PROVE OnTime(x)'
    OBVIOUS
  <2>1. OnTime(x)
    BY DEF IInv, Drainage
  <2>2. DrainOf(x)' = DrainOf(x)
    BY <1>1 DEF DrainOf
  <2>3. ~LookedAt(x)'
    <3>1. sc' = 1 /\ di' = 0 /\ phase' = "scenarios"
      BY <1>1 DEF IInv, Loop
    <3>2. x[1] \in Nat /\ x[2] \in Nat /\ 1 <= x[1]
      BY DrainsIs DEF IInv
    <3> QED
      BY <3>1, <3>2 DEF LookedAt
  <2> QED
    BY <1>1, <2>1, <2>2, <2>3 DEF OnTime, Whole
<1>11. Drainage' /\ Counted' /\ Numbered'
  BY <1>1, <1>5, <1>6, <1>10, DrainageKept
<1>12. Loop'
  BY <1>1 DEF IInv, Loop
<1> QED
  BY <1>7, <1>8, <1>9, <1>11, <1>12 DEF IInv

LEMMA LeasesKeep ==
  ASSUME IInv, generateLeases
  PROVE  IInv'
<1>1. /\ phase = "leases" /\ scens' = scens /\ nextID' = nextID /\ sc' = sc /\ di' = di
      /\ \/ clock' = clock + Second /\ phase' = "health"
         \/ clock' = clock /\ phase' = "done"
  BY DEF generateLeases
<1>2. PICK interval \in [DOMAIN nodes -> Intervals] :
        nodes' = [i \in DOMAIN nodes |-> generateLeaseForNode(nodes[i], interval[i])]
  BY DEF generateLeases
<1>3. nodes \in Seq(NodeType) /\ clock \in Nat
  BY DEF IInv, TypeOK
<1>4. DOMAIN nodes = 1..Len(nodes) /\ Len(nodes) \in Nat
  BY <1>3, LenProperties
<1>5. ASSUME NEW i \in DOMAIN nodes
      PROVE  /\ Fit(nodes'[i], clock) /\ Before(nodes'[i], clock + Second)
             /\ Evolves(nodes[i], nodes'[i])
  <2>1. Fit(nodes[i], clock) /\ Before(nodes[i], clock)
    BY <1>1, EveryNode
  <2>2. nodes'[i] = generateLeaseForNode(nodes[i], interval[i]) /\ interval[i] \in Intervals
    BY <1>2
  <2> QED
    BY <1>3, <2>1, <2>2, RenewKeeps
<1>6. nodes' \in Seq(NodeType) /\ Len(nodes') = Len(nodes) /\ DOMAIN nodes' = DOMAIN nodes
  <2>1. DOMAIN nodes' = 1..Len(nodes) /\ nodes' = [i \in 1..Len(nodes) |-> nodes'[i]]
    BY <1>2, <1>4
  <2>2. \A i \in 1..Len(nodes) : nodes'[i] \in NodeType
    BY <1>4, <1>5 DEF Fit
  <2>3. nodes' \in [1..Len(nodes) -> NodeType]
    BY <2>1, <2>2
  <2> QED
    BY <1>4, <2>1, <2>3
<1>7. clock' \in Nat /\ clock <= clock'
  BY <1>1, <1>3 DEF Second
<1>8. TypeOK'
  BY <1>1, <1>6, <1>7 DEF IInv, TypeOK
<1>9. Whole(clock')
  <2>1. PICK s \in Nat : clock = Second * s
    BY DEF IInv, Whole
  <2>2. s + 1 \in Nat /\ clock + Second = Second * (s + 1)
    BY <2>1 DEF Second
  <2> QED
    BY <1>1, <2>1, <2>2 DEF Whole
<1>10. Healthy'
  <2>1. ASSUME NEW i \in DOMAIN nodes'
        PROVE  /\ Forward(nodes'[i]) /\ Quiet(nodes'[i], clock')
               /\ phase' # "done" => Before(nodes'[i], clock')
    <3>1. /\ nodes'[i] \in NodeType /\ Forward(nodes'[i]) /\ Quiet(nodes'[i], clock)
          /\ Before(nodes'[i], clock + Second)
      BY <1>5, <1>6 DEF Fit
    <3>2. \A o \in DOMAIN nodes'[i].outages :
            nodes'[i].outages[o][3] <= clock => nodes'[i].outages[o][3] <= clock'
      BY <1>3, <1>7, <3>1, OutageIs
    <3>3. Quiet(nodes'[i], clock')
      BY <3>1, <3>2 DEF Quiet
    <3> QED
      BY <1>1, <3>1, <3>3
  <2> QED
    BY <2>1 DEF Healthy, Forward, Quiet, Before, InBurst
<1>11. \A x \in Drains : OnTime(x)'
  <2> SUFFICES ASSUME NEW x \in Drains PROVE OnTime(x)'
    OBVIOUS
  <2> DEFINE r == DrainOf(x).replacementAt
  <2>1. OnTime(x) /\ LookedAt(x)
    BY <1>1 DEF IInv, Drainage, LookedAt
  <2>2. DrainOf(x)' = DrainOf(x)
    BY <1>1 DEF DrainOf
  <2>3. ~LookedAt(x)'
    BY <1>1 DEF LookedAt
  <2>4. ASSUME DrainOf(x).by = <<>> PROVE clock' <= r /\ Whole(r)
    <3>1. clock < r /\ Whole(r)
      BY <2>1, <2>4 DEF OnTime
    <3>2. PICK a \in Nat : clock = Second * a
      BY DEF IInv, Whole
    <3>3. PICK b \in Nat : r = Second * b
      BY <3>1 DEF Whole
    <3> HIDE DEF r
    <3>4. clock + Second <= r
      BY <3>1, <3>2, <3>3 DEF Second
    <3>5. clock \in Nat /\ r \in Nat
      BY <3>2, <3>3 DEF Second
    <3> QED
      BY <1>1, <3>1, <3>4, <3>5
  <2> QED
    BY <2>2, <2>3, <2>4 DEF OnTime, Whole
<1>12. Drainage' /\ Counted' /\ Numbered'
  BY <1>1, <1>5, <1>6, <1>11, DrainageKept
<1>13. Loop'
  BY <1>1 DEF IInv, Loop
<1> QED
  BY <1>8, <1>9, <1>10, <1>12, <1>13 DEF IInv, Whole

(* A step of the loop that changes neither nodes nor trackers.             *)
LEMMA LoopKeeps ==
  ASSUME IInv, UNCHANGED <<nodes, scens, nextID, clock>>,
         phase = "scenarios", phase' \in {"scenarios", "leases"},
         sc' \in Nat \ {0}, di' \in Nat, Loop',
         \A x \in Drains : OnTime(x)'
  PROVE  IInv'
<1>1. nodes' = nodes /\ scens' = scens /\ nextID' = nextID /\ clock' = clock
  OBVIOUS
<1>2. TypeOK'
  BY <1>1 DEF IInv, TypeOK
<1>3. Whole(clock)'
  BY <1>1 DEF IInv, Whole
<1>4. Healthy'
  BY <1>1 DEF IInv, Healthy, Forward, Quiet, Before, InBurst
<1>5. \A i \in DOMAIN nodes : Evolves(nodes[i], nodes'[i])
  BY <1>1 DEF Evolves
<1>6. nodes' \in Seq(NodeType) /\ Len(nodes') = Len(nodes)
  BY <1>1 DEF IInv, TypeOK
<1>7. Drainage' /\ Counted' /\ Numbered'
  BY <1>1, <1>5, <1>6, DrainageKept
<1> QED
  BY <1>2, <1>3, <1>4, <1>7 DEF IInv

LEMMA NextScenarioKeeps ==
  ASSUME IInv, NextScenario
  PROVE  IInv'
<1>1. /\ phase = "scenarios" /\ sc <= Len(scens) /\ di > Len(scens[sc].drained)
      /\ sc' = sc + 1 /\ di' = 0
      /\ UNCHANGED <<nodes, scens, nextID, clock, phase>>
  BY DEF NextScenario
<1>2. sc \in Nat /\ di \in Nat
  BY DEF IInv, TypeOK
<1>3. ASSUME NEW x \in Drains PROVE OnTime(x)'
  <2>1. OnTime(x)
    BY DEF IInv, Drainage
  <2>2. DrainOf(x)' = DrainOf(x)
    BY <1>1 DEF DrainOf
  <2>3. /\ x[1] \in Nat /\ x[2] \in Nat /\ 1 <= x[2]
        /\ x[2] <= Len(scens[x[1]].drained) /\ x[1] \in DOMAIN scens
    BY DrainsIs DEF IInv
  <2>4. Len(scens[x[1]].drained) \in Nat
    <3>1. scens[x[1]] \in TrackerType
      BY <2>3, LenProperties, ElementOfSeq DEF IInv, TypeOK
    <3> QED
      BY <3>1, LenProperties DEF TrackerType
  <2>5. ASSUME LookedAt(x)' PROVE LookedAt(x)
    <3>1. x[1] < sc + 1
      BY <1>1, <1>2, <2>3, <2>5 DEF LookedAt
    <3>2. CASE x[1] < sc
      BY <1>1, <3>2 DEF LookedAt
    <3>3. CASE x[1] = sc
      <4>1. x[2] < di
        BY <1>1, <1>2, <2>3, <2>4, <3>3
      <4> QED
        BY <1>1, <3>3, <4>1 DEF LookedAt
    <3> QED
      BY <1>2, <2>3, <3>1, <3>2, <3>3
  <2> QED
    BY <1>1, <2>1, <2>2, <2>5 DEF OnTime, Whole
<1>4. Loop'
  BY <1>1 DEF Loop
<1>5. sc' \in Nat \ {0} /\ di' \in Nat
  BY <1>1, <1>2
<1> QED
  BY <1>1, <1>3, <1>4, <1>5, LoopKeeps

LEMMA ScenariosDoneKeeps ==
  ASSUME IInv, ScenariosDone
  PROVE  IInv'
<1>1. /\ phase = "scenarios" /\ sc > Len(scens) /\ phase' = "leases" /\ sc' = 1 /\ di' = 0
      /\ UNCHANGED <<nodes, scens, nextID, clock>>
  BY DEF ScenariosDone
<1>2. sc \in Nat /\ Len(scens) \in Nat
  BY LenProperties DEF IInv, TypeOK
<1>3. ASSUME NEW x \in Drains PROVE OnTime(x)'
  <2>1. OnTime(x)
    BY DEF IInv, Drainage
  <2>2. DrainOf(x)' = DrainOf(x)
    BY <1>1 DEF DrainOf
  <2>3. x[1] \in Nat /\ x[1] <= Len(scens)
    BY DrainsIs DEF IInv
  <2>4. LookedAt(x)
    BY <1>1, <1>2, <2>3 DEF LookedAt
  <2> QED
    BY <1>1, <2>1, <2>2, <2>4 DEF OnTime, Whole
<1>4. Loop'
  BY <1>1 DEF Loop
<1> QED
  BY <1>1, <1>3, <1>4, LoopKeeps

(* Min of a set of numbers is in it.                                       *)
LEMMA MinIsIn ==
  ASSUME NEW N \in SUBSET Nat, N # {}
  PROVE  Min(N) \in N
<1> DEFINE Less == {ss \in Nat \X Nat : ss[1] < ss[2]}
<1>1. PICK n \in N : \A m \in N : ~(<<m, n>> \in Less)
  <2>1. IsWellFoundedOn(Less, Nat)
    BY NatLessThanWellFounded DEF OpToRel
  <2> QED
    BY <2>1, WFMin, Zenon
<1>2. \A m \in N : n <= m
  <2> TAKE m \in N
  <2>1. m \in Nat /\ n \in Nat
    OBVIOUS
  <2>2. ~(m < n)
    BY <1>1, <2>1
  <2> QED
    BY <2>1, <2>2
<1> QED
  BY <1>2 DEF Min

LEMMA SameLength ==
  ASSUME NEW S, NEW s \in Seq(S), NEW t \in [DOMAIN s -> S]
  PROVE  t \in Seq(S) /\ Len(t) = Len(s) /\ DOMAIN t = DOMAIN s
<1>1. DOMAIN s = 1..Len(s) /\ Len(s) \in Nat
  BY LenProperties
<1>2. t \in [1..Len(s) -> S] /\ DOMAIN t = 1..Len(s)
  BY <1>1
<1>3. t \in Seq(S)
  BY <1>1, <1>2, SeqDef
<1>4. Len(t) = Len(s)
  BY <1>1, <1>2, <1>3, LenProperties
<1> QED
  BY <1>1, <1>2, <1>3, <1>4

(* A tracker with one more drained node.                                   *)
LEMMA DrainAdds ==
  ASSUME TypeOK, NEW k \in DOMAIN scens, NEW tr \in TrackerType, NEW d \in DrainType,
         scens' = [scens EXCEPT ![k] = tr], tr.drained = Append(scens[k].drained, d),
         NEW z, z = <<k, Len(scens[k].drained) + 1>>
  PROVE  /\ scens' \in Seq(TrackerType) /\ Len(scens') = Len(scens)
         /\ Drains' = Drains \cup {z}
         /\ \A x \in Drains : DrainOf(x)' = DrainOf(x)
         /\ DrainOf(z)' = d
<1>1. scens \in Seq(TrackerType)
  BY DEF TypeOK
<1>2. DOMAIN scens = 1..Len(scens) /\ Len(scens) \in Nat
  BY <1>1, LenProperties
<1>3. scens[k].drained \in Seq(DrainType)
  <2>1. scens[k] \in TrackerType
    BY <1>1, <1>2, ElementOfSeq
  <2> QED
    BY <2>1 DEF TrackerType
<1> DEFINE ds == scens[k].drained
           es == Append(ds, d)
<1>4. ds \in Seq(DrainType)
  BY <1>3
<1>5. tr.drained = es
  OBVIOUS
<1>6. z = <<k, Len(ds) + 1>>
  OBVIOUS
<1>7. /\ scens' \in [DOMAIN scens -> TrackerType] /\ scens'[k] = tr
      /\ \A j \in DOMAIN scens : j # k => scens'[j] = scens[j]
  <2>1. scens \in [DOMAIN scens -> TrackerType]
    BY <1>1, <1>2, SeqDef
  <2> QED
    BY <2>1
<1>8. scens' \in Seq(TrackerType) /\ Len(scens') = Len(scens) /\ DOMAIN scens' = DOMAIN scens
  BY <1>1, <1>7, SameLength
<1> HIDE DEF ds
<1>9. /\ DOMAIN es = 1..(Len(ds) + 1) /\ DOMAIN ds = 1..Len(ds) /\ Len(ds) \in Nat
      /\ \A j \in 1..Len(ds) : es[j] = ds[j]
      /\ es[Len(ds) + 1] = d
  BY <1>4, AppendProperties, LenProperties
<1> HIDE DEF es
<1>10. DOMAIN es = DOMAIN ds \cup {Len(ds) + 1} /\ \A j \in DOMAIN ds : es[j] = ds[j]
  BY <1>9
<1>11. Drains' = Drains \cup {z}
  <2>1. ASSUME NEW x \in Drains' PROVE x \in Drains \cup {z}
    <3>1. PICK j \in DOMAIN scens : \E i \in DOMAIN scens'[j].drained : x = <<j, i>>
      BY <1>8 DEF Drains
    <3>2. PICK i \in DOMAIN scens'[j].drained : x = <<j, i>>
      BY <3>1
    <3>3. CASE j = k
      <4>1. i \in DOMAIN ds \cup {Len(ds) + 1}
        BY <1>5, <1>7, <1>10, <3>2, <3>3
      <4> QED
        BY <1>6, <3>2, <3>3, <4>1 DEF Drains, ds
    <3>4. CASE j # k
      BY <1>7, <3>2, <3>4 DEF Drains
    <3> QED
      BY <3>3, <3>4
  <2>2. ASSUME NEW x \in Drains PROVE x \in Drains'
    <3>1. PICK j \in DOMAIN scens : \E i \in DOMAIN scens[j].drained : x = <<j, i>>
      BY DEF Drains
    <3>2. PICK i \in DOMAIN scens[j].drained : x = <<j, i>>
      BY <3>1
    <3>3. i \in DOMAIN scens'[j].drained
      <4>1. CASE j = k
        BY <1>5, <1>7, <1>10, <3>2, <4>1 DEF ds
      <4>2. CASE j # k
        BY <1>7, <3>2, <4>2
      <4> QED
        BY <4>1, <4>2
    <3> QED
      BY <1>8, <3>2, <3>3 DEF Drains
  <2>3. z \in Drains'
    <3>1. Len(ds) + 1 \in DOMAIN scens'[k].drained
      BY <1>5, <1>7, <1>10
    <3> QED
      BY <1>6, <1>8, <3>1 DEF Drains
  <2> QED
    BY <2>1, <2>2, <2>3
<1>12. ASSUME NEW x \in Drains PROVE DrainOf(x)' = DrainOf(x)
  <2>1. x[1] \in DOMAIN scens /\ x[2] \in DOMAIN scens[x[1]].drained
    BY DrainsIs
  <2>2. CASE x[1] = k
    BY <1>5, <1>7, <1>10, <2>1, <2>2 DEF DrainOf, ds
  <2>3. CASE x[1] # k
    BY <1>7, <2>1, <2>3 DEF DrainOf
  <2> QED
    BY <2>2, <2>3
<1>13. DrainOf(z)' = d
  <2>1. z[1] = k /\ z[2] = Len(ds) + 1
    BY <1>6
  <2>2. es[Len(ds) + 1] = d
    BY <1>9
  <2> QED
    BY <1>5, <1>7, <2>1, <2>2 DEF DrainOf
<1> QED
  BY <1>8, <1>11, <1>12, <1>13

(* A tracker whose drained node x got the replacement r.                   *)
LEMMA ReplacementMarks ==
  ASSUME TypeOK, NEW x \in Drains, NEW r \in Names,
         scens' = [scens EXCEPT ![x[1]].drained[x[2]].by = r]
  PROVE  /\ scens' \in Seq(TrackerType) /\ Len(scens') = Len(scens)
         /\ Drains' = Drains
         /\ \A y \in Drains : y # x => DrainOf(y)' = DrainOf(y)
         /\ DrainOf(x)' = [DrainOf(x) EXCEPT !.by = r]
<1>1. scens \in Seq(TrackerType)
  BY DEF TypeOK
<1>2. DOMAIN scens = 1..Len(scens) /\ Len(scens) \in Nat
  BY <1>1, LenProperties
<1>3. /\ x = <<x[1], x[2]>> /\ x[1] \in DOMAIN scens /\ x[2] \in DOMAIN scens[x[1]].drained
      /\ DrainOf(x) \in DrainType
  BY DrainsIs
<1>4. PICK k : k = x[1]
  OBVIOUS
<1>5. PICK i : i = x[2]
  OBVIOUS
<1>6. scens[k] \in TrackerType /\ scens[k].drained \in Seq(DrainType)
  <2>1. scens[k] \in TrackerType
    BY <1>1, <1>2, <1>3, <1>4, ElementOfSeq
  <2> QED
    BY <2>1 DEF TrackerType
<1> DEFINE ds == scens[k].drained
           e == [ds[i] EXCEPT !.by = r]
           es == [ds EXCEPT ![i] = e]
           tr == [scens[k] EXCEPT !.drained = es]
<1>7. scens' = [scens EXCEPT ![k] = tr]
  BY <1>4, <1>5
<1>8. ds[i] = DrainOf(x) /\ i \in DOMAIN ds /\ k \in DOMAIN scens /\ x = <<k, i>>
  BY <1>3, <1>4, <1>5 DEF DrainOf
<1>9. ds \in Seq(DrainType) /\ scens[k] \in TrackerType
  BY <1>6
<1>10. e \in DrainType
  BY <1>3, <1>8 DEF DrainType
<1> HIDE DEF ds, e
<1>11. DOMAIN ds = 1..Len(ds) /\ Len(ds) \in Nat
  BY <1>9, LenProperties
<1>12. /\ es \in Seq(DrainType) /\ DOMAIN es = DOMAIN ds /\ es[i] = e
       /\ \A j \in DOMAIN ds : j # i => es[j] = ds[j]
  <2>1. ds \in [DOMAIN ds -> DrainType]
    BY <1>9, <1>11, SeqDef
  <2>2. es \in [DOMAIN ds -> DrainType]
    BY <1>10, <2>1
  <2>3. es[i] = e /\ \A j \in DOMAIN ds : j # i => es[j] = ds[j]
    BY <1>8, <2>1
  <2> HIDE DEF es
  <2> QED
    BY <1>9, <2>2, <2>3, SameLength
<1> HIDE DEF es
<1>13. tr \in TrackerType /\ tr.drained = es
  BY <1>9, <1>12 DEF TrackerType
<1> HIDE DEF tr
<1>14. /\ scens' \in [DOMAIN scens -> TrackerType] /\ scens'[k] = tr
       /\ \A j \in DOMAIN scens : j # k => scens'[j] = scens[j]
  <2>1. scens \in [DOMAIN scens -> TrackerType]
    BY <1>1, <1>2, SeqDef
  <2> QED
    BY <1>7, <1>8, <1>13, <2>1
<1>15. scens' \in Seq(TrackerType) /\ Len(scens') = Len(scens) /\ DOMAIN scens' = DOMAIN scens
  BY <1>1, <1>14, SameLength
<1>16. \A j \in DOMAIN scens : DOMAIN scens'[j].drained = DOMAIN scens[j].drained
  BY <1>12, <1>13, <1>14 DEF ds
<1>17. Drains' = Drains
  BY <1>15, <1>16 DEF Drains
<1>18. ASSUME NEW y \in Drains, y # x PROVE DrainOf(y)' = DrainOf(y)
  <2>1. /\ y = <<y[1], y[2]>> /\ y[1] \in DOMAIN scens /\ y[2] \in DOMAIN scens[y[1]].drained
    BY DrainsIs
  <2>2. CASE y[1] = k
    <3>1. y[2] # i /\ y[2] \in DOMAIN ds
      BY <1>8, <1>18, <2>1, <2>2 DEF ds
    <3> QED
      BY <1>12, <1>13, <1>14, <2>2, <3>1 DEF DrainOf, ds
  <2>3. CASE y[1] # k
    BY <1>14, <2>1, <2>3 DEF DrainOf
  <2> QED
    BY <2>2, <2>3
<1>19. DrainOf(x)' = e
  BY <1>4, <1>5, <1>12, <1>13, <1>14 DEF DrainOf
<1> QED
  BY <1>8, <1>15, <1>17, <1>18, <1>19 DEF e

(* A node is drained: it goes down, and one drained node is noted.         *)
LEMMA DrainingKeeps ==
  ASSUME IInv, phase = "scenarios", di = 0, UNCHANGED <<nextID, clock, phase, sc, di>>,
         NEW n \in Drainable, nodes' = [nodes EXCEPT ![n] = Drained(nodes[n])],
         NEW k \in DOMAIN scens, k = sc,
         NEW d \in DrainType, d.name = nodes[n].name, d.at = clock, d.by = <<>>,
         Whole(d.replacementAt), clock <= d.replacementAt,
         NEW tr \in TrackerType, tr.drained = Append(scens[k].drained, d),
         scens' = [scens EXCEPT ![k] = tr]
  PROVE  IInv'
<1>1. TypeOK /\ nodes \in Seq(NodeType) /\ clock \in Nat
  BY DEF IInv, TypeOK
<1>2. n \in DOMAIN nodes /\ nodes[n].ready /\ ~isNodeDrained(nodes[n].name)
  BY DEF Drainable
<1>3. /\ DOMAIN nodes' = DOMAIN nodes /\ nodes'[n] = Drained(nodes[n])
      /\ \A i \in DOMAIN nodes : i # n => nodes'[i] = nodes[i]
  BY <1>2
<1>4. ASSUME NEW i \in DOMAIN nodes
      PROVE  Fit(nodes[i], clock) /\ Before(nodes[i], clock)
  BY EveryNode
<1>5. /\ Fit(nodes'[n], clock) /\ Before(nodes'[n], clock) /\ Evolves(nodes[n], nodes'[n])
      /\ nodes'[n].ready = FALSE /\ nodes'[n].cause = "drain"
  BY <1>1, <1>2, <1>3, <1>4, DrainedKeeps
<1>6. ASSUME NEW i \in DOMAIN nodes
      PROVE  Fit(nodes'[i], clock) /\ Before(nodes'[i], clock) /\ Evolves(nodes[i], nodes'[i])
  <2>1. CASE i = n
    BY <1>5, <2>1
  <2>2. CASE i # n
    BY <1>3, <1>4, <2>2 DEF Evolves
  <2> QED
    BY <2>1, <2>2
<1>7. nodes' \in Seq(NodeType) /\ Len(nodes') = Len(nodes)
  <2>1. nodes' \in [DOMAIN nodes -> NodeType]
    BY <1>3, <1>6 DEF Fit
  <2> QED
    BY <1>1, <2>1, SameLength
<1>8. PICK z : z = <<k, Len(scens[k].drained) + 1>>
  OBVIOUS
<1>9. /\ scens' \in Seq(TrackerType) /\ Len(scens') = Len(scens)
      /\ Drains' = Drains \cup {z}
      /\ \A x \in Drains : DrainOf(x)' = DrainOf(x)
      /\ DrainOf(z)' = d
  BY <1>1, <1>8, DrainAdds, ZenonT(60)
<1>10. TypeOK'
  BY <1>7, <1>9 DEF IInv, TypeOK
<1>11. Whole(clock)'
  BY DEF IInv, Whole
<1>12. Numbered'
  <2>1. \A i \in DOMAIN nodes' :
          nodes'[i].name = IF i <= NodeCount THEN <<"node", i - 1>> ELSE <<"node-repl", i - 1>>
    BY <1>3, <1>6, ZenonT(60) DEF IInv, Numbered, Evolves
  <2> QED
    BY <1>7, <2>1 DEF IInv, Numbered
<1>13. Healthy'
  BY <1>3, <1>6 DEF Healthy, Fit, Forward, Quiet, Before, InBurst
<1>14. \A x \in Drains : HasDown(nodes', DrainOf(x))
  BY <1>3, <1>6, StaysDown DEF IInv, Drainage
<1>15. \A x \in Drains : DrainOf(x).by # <<>> => HasReplacement(nodes', DrainOf(x))
  BY <1>3, <1>6, StaysReplaced DEF IInv, Drainage
<1>16. HasDown(nodes', d)
  <2>1. nodes'[n].name = d.name
    BY <1>5 DEF Evolves
  <2> QED
    BY <1>2, <1>3, <1>5, <2>1 DEF HasDown
<1>17. ASSUME NEW x \in Drains PROVE OnTime(x)'
  <2>1. OnTime(x)
    BY DEF IInv, Drainage
  <2>2. ASSUME LookedAt(x)' PROVE LookedAt(x)
    BY <2>2 DEF LookedAt
  <2> QED
    BY <1>9, <2>1, <2>2 DEF OnTime, Whole
<1>18. OnTime(z)'
  <2>1. ~LookedAt(z)'
    <3>1. z[1] = sc' /\ z[2] = Len(scens[k].drained) + 1 /\ di' = 0
      BY <1>8
    <3>2. Len(scens[k].drained) \in Nat
      <4>1. scens[k] \in TrackerType
        BY LenProperties, ElementOfSeq DEF IInv, TypeOK
      <4> QED
        BY <4>1, LenProperties DEF TrackerType
    <3>3. sc' \in Nat /\ ~(z[1] < sc') /\ ~(z[2] < di')
      BY <1>10, <3>1, <3>2 DEF TypeOK
    <3> QED
      BY <3>3 DEF LookedAt
  <2> QED
    BY <1>9, <2>1 DEF OnTime, Whole
<1>19. \A x \in Drains : DrainOf(x).name # d.name
  BY <1>2 DEF isNodeDrained
<1>20. Drainage'
  <2>1. \A x \in Drains' : HasDown(nodes, DrainOf(x))'
    BY <1>9, <1>14, <1>16, SMTT(40) DEF HasDown, DrainOf
  <2>2. \A x \in Drains' : (DrainOf(x).by # <<>> => HasReplacement(nodes, DrainOf(x)))'
    <3>1. ASSUME NEW x \in Drains
          PROVE  (DrainOf(x).by # <<>> => HasReplacement(nodes, DrainOf(x)))'
      <4>1. DrainOf(x)' = DrainOf(x)
        BY <1>9
      <4>2. DrainOf(x).by # <<>> => HasReplacement(nodes', DrainOf(x))
        BY <1>15
      <4> QED
        BY <4>1, <4>2 DEF HasReplacement
    <3>2. DrainOf(z).by' = <<>>
      BY <1>9
    <3> QED
      BY <1>9, <3>1, <3>2
  <2>3. \A x \in Drains' : OnTime(x)'
    BY <1>9, <1>17, <1>18
  <2>4. \A x, y \in Drains' : (DrainOf(x).name = DrainOf(y).name)' => x = y
    <3>1. \A x, y \in Drains : DrainOf(x).name = DrainOf(y).name => x = y
      BY DEF IInv, Drainage
    <3> QED
      BY <1>9, <1>19, <3>1, SMTT(40) DEF DrainOf
  <2> QED
    BY <2>1, <2>2, <2>3, <2>4 DEF Drainage
<1>21. Counted'
  <2>1. Replaced' = Replaced
    BY <1>9 DEF Replaced, DrainOf
  <2> QED
    BY <1>7, <2>1 DEF IInv, Counted
<1>22. Loop'
  BY DEF IInv, Loop
<1> QED
  BY <1>10, <1>11, <1>12, <1>13, <1>20, <1>21, <1>22 DEF IInv

LEMMA DrainTurnKeeps ==
  ASSUME IInv, DrainTurn
  PROVE  IInv'
<1>1. /\ phase = "scenarios" /\ sc <= Len(scens) /\ di = 0
      /\ UNCHANGED <<nextID, clock, phase, sc>>
  BY DEF DrainTurn
<1>2. /\ TypeOK /\ sc \in Nat /\ sc >= 1 /\ clock \in Nat
      /\ scens \in Seq(TrackerType) /\ Len(scens) = Len(Scenarios)
      /\ nodes \in Seq(NodeType)
  BY DEF IInv, TypeOK
<1>3. CASE ~MayDrain
  <2>1. di' = 1 /\ UNCHANGED <<nodes, scens>>
    BY <1>3 DEF DrainTurn
  <2>2. ASSUME NEW x \in Drains PROVE OnTime(x)'
    <3>1. OnTime(x)
      BY DEF IInv, Drainage
    <3>2. DrainOf(x)' = DrainOf(x)
      BY <2>1 DEF DrainOf
    <3>3. x[2] \in Nat /\ 1 <= x[2]
      BY <1>2, DrainsIs
    <3>4. ASSUME LookedAt(x)' PROVE LookedAt(x)
      <4>1. ~(x[2] < di')
        BY <2>1, <3>3
      <4> QED
        BY <1>1, <3>4, <4>1 DEF LookedAt
    <3> QED
      BY <1>1, <3>1, <3>2, <3>4 DEF OnTime, Whole
  <2>3. Loop'
    BY <1>1 DEF Loop
  <2>4. sc' \in Nat \ {0} /\ di' \in Nat
    BY <1>1, <1>2, <2>1
  <2> QED
    BY <1>1, <2>1, <2>2, <2>3, <2>4, LoopKeeps
<1>4. CASE MayDrain
  <2>1. PICK n : n = Min(Drainable)
    OBVIOUS
  <2>2. n \in Drainable
    <3>1. Drainable \subseteq Nat
      <4>1. DOMAIN nodes \subseteq Nat
        BY <1>2, LenProperties
      <4> QED
        BY <4>1 DEF Drainable
    <3>2. Drainable # {}
      BY <1>4 DEF MayDrain
    <3> QED
      BY <2>1, <3>1, <3>2, MinIsIn
  <2>3. PICK k : k = sc
    OBVIOUS
  <2>4. k \in DOMAIN scens /\ k \in DOMAIN Scenarios /\ scens[k] \in TrackerType
    <3>1. k \in 1..Len(scens)
      BY <1>1, <1>2, <2>3, LenProperties
    <3>2. DOMAIN scens = 1..Len(scens) /\ DOMAIN Scenarios = 1..Len(scens)
      BY <1>2, SimulationAssumption, LenProperties
    <3> QED
      BY <1>2, <3>1, <3>2, ElementOfSeq
  <2>5. Scenarios[k].trigger \in Nat /\ Scenarios[k].stagger \in Nat /\ Scenarios[k].delay \in Nat
    <3> DEFINE SType == [trigger : Nat, count : Nat, stagger : Nat, delay : Nat]
    <3>1. Scenarios \in Seq(SType)
      BY SimulationAssumption
    <3> HIDE DEF SType
    <3>2. Scenarios[k] \in SType
      BY <2>4, <3>1, LenProperties, ElementOfSeq
    <3> QED
      BY <3>2 DEF SType
  <2>6. PICK d : d = [name |-> nodes[n].name, at |-> clock,
                      replacementAt |-> clock + Scenarios[k].delay * Second, by |-> <<>>]
    OBVIOUS
  <2>7. d \in DrainType /\ Whole(d.replacementAt) /\ clock <= d.replacementAt
    <3>1. nodes[n].name \in Names
      <4>1. n \in DOMAIN nodes
        BY <2>2 DEF Drainable
      <4>2. nodes[n] \in NodeType
        BY <1>2, <4>1, LenProperties, ElementOfSeq
      <4> QED
        BY <4>2, FieldsOf
    <3>2. PICK s \in Nat : clock = Second * s
      BY DEF IInv, Whole
    <3>3. PICK r : r = clock + Scenarios[k].delay * Second
      OBVIOUS
    <3>4. r \in Nat /\ clock <= r /\ s + Scenarios[k].delay \in Nat
          /\ r = Second * (s + Scenarios[k].delay)
      <4>1. PICK e \in Nat : e = Scenarios[k].delay
        BY <2>5
      <4>2. s + e \in Nat /\ clock = 3 * s /\ r = clock + e * 3
        BY <3>2, <3>3, <4>1 DEF Second
      <4>3. r = 3 * (s + e) /\ clock <= r /\ r \in Nat
        BY <4>2
      <4> QED
        BY <4>1, <4>2, <4>3 DEF Second
    <3>5. d.replacementAt = r
      BY <2>6, <3>3
    <3>6. d \in DrainType
      BY <1>2, <2>6, <3>1, <3>3, <3>4 DEF DrainType
    <3> QED
      BY <3>4, <3>5, <3>6 DEF Whole
  <2>8. PICK tr : tr = Drain(scens[k], Scenarios[k], nodes[n])
    OBVIOUS
  <2>9. tr \in TrackerType /\ tr.drained = Append(scens[k].drained, d)
    <3> DEFINE ds == scens[k].drained
               at == (Scenarios[k].trigger + (scens[k].drainIndex + 1) * Scenarios[k].stagger)
                       * Second
    <3>1. tr = [drainIndex |-> scens[k].drainIndex + 1, next |-> at, drained |-> Append(ds, d)]
      BY <2>6, <2>8 DEF Drain
    <3>2. ds \in Seq(DrainType) /\ scens[k].drainIndex \in Nat
      BY <2>4 DEF TrackerType
    <3>3. at \in Nat
      <4>1. (scens[k].drainIndex + 1) * Scenarios[k].stagger \in Nat
        BY <2>5, <3>2
      <4> QED
        BY <2>5, <4>1 DEF Second
    <3>4. Append(ds, d) \in Seq(DrainType)
      BY <2>7, <3>2, AppendProperties
    <3>5. scens[k].drainIndex + 1 \in Nat
      BY <3>2
    <3> HIDE DEF at, ds
    <3>6. tr \in TrackerType /\ tr.drained = Append(ds, d)
      BY <3>1, <3>3, <3>4, <3>5 DEF TrackerType
    <3> QED
      BY <3>6 DEF ds
  <2>10. /\ nodes' = [nodes EXCEPT ![n] = Drained(nodes[n])]
         /\ scens' = [scens EXCEPT ![k] = tr]
         /\ di' = di
    BY <1>4, <2>1, <2>3, <2>8 DEF DrainTurn
  <2>11. d.name = nodes[n].name /\ d.at = clock /\ d.by = <<>>
    BY <2>6
  <2> QED
    BY <1>1, <2>2, <2>3, <2>4, <2>7, <2>9, <2>10, <2>11, DrainingKeeps
<1> QED
  BY <1>3, <1>4

LEMMA HealthyNow ==
  ASSUME clock' = clock,
         \A i \in DOMAIN nodes' :
           Forward(nodes'[i]) /\ Quiet(nodes'[i], clock) /\ Before(nodes'[i], clock)
  PROVE  Healthy'
BY DEF Healthy, Forward, Quiet, Before, InBurst

LEMMA ReplacedNow ==
  ASSUME NEW y, NEW e, DrainOf(y)' = e, HasReplacement(nodes', e)
  PROVE  HasReplacement(nodes, DrainOf(y))'
BY DEF HasReplacement

(* A node is added for the drained node x, which was due.                  *)
LEMMA ReplacingKeeps ==
  ASSUME IInv, phase = "scenarios", UNCHANGED <<clock, phase, sc>>,
         di' = di + 1, nextID' = nextID + 1,
         NEW x \in Drains, x = <<sc, di>>, Due(DrainOf(x)),
         NEW r \in Names, r = <<"node-repl", nextID>>,
         NEW old \in DOMAIN nodes, nodes[old].name = DrainOf(x).name,
         NEW fork \in {0, Second},
         NEW m, m = Burst(Node(r, nodes[old].ns, "normal"), fork),
         nodes' = Append(nodes, m),
         scens' = [scens EXCEPT ![x[1]].drained[x[2]].by = r]
  PROVE  IInv'
<1>1. TypeOK /\ nodes \in Seq(NodeType) /\ clock \in Nat /\ sc \in Nat /\ di \in Nat
  BY DEF IInv, TypeOK
<1>2. NodeCount \in Nat /\ NodeCount >= 1
  BY Durations
<1>3. /\ nextID = Len(nodes) /\ NodeCount <= Len(nodes) /\ Len(nodes) \in Nat
      /\ \A i \in DOMAIN nodes :
           nodes[i].name = IF i <= NodeCount THEN <<"node", i - 1>> ELSE <<"node-repl", i - 1>>
  BY <1>1, LenProperties DEF IInv, Numbered
<1>4. /\ m \in NodeType /\ m.name = r /\ m.ns = nodes[old].ns
      /\ m.leases # <<>> /\ m.leases[1] = clock
      /\ Forward(m) /\ Quiet(m, clock) /\ Before(m, clock)
  <2> DEFINE n == Node(r, nodes[old].ns, "normal")
  <2>1. nodes[old].ns \in Namespaces
    <3>1. nodes[old] \in NodeType
      BY <1>1, LenProperties, ElementOfSeq
    <3> QED
      BY <3>1 DEF NodeType
  <2>2. "normal" \in ProfileNames
    BY DEF ProfileNames
  <2>3. n \in NodeType /\ n.name = r
    BY <2>1, <2>2, NodeIs, ZenonT(60)
  <2>4. n.ns = nodes[old].ns /\ n.leases = <<>> /\ n.outages = <<>>
    BY DEF Node
  <2>5. r[1] = "node-repl"
    OBVIOUS
  <2>6. m = Burst(n, fork)
    OBVIOUS
  <2> HIDE DEF n
  <2>7. n.name[1] = "node-repl"
    BY <2>3, <2>5
  <2> QED
    BY <1>1, <2>3, <2>4, <2>6, <2>7, BurstIs, ZenonT(60)
<1> DEFINE last == Len(nodes) + 1
<1>5. /\ nodes' \in Seq(NodeType) /\ Len(nodes') = last
      /\ \A i \in 1..Len(nodes) : nodes'[i] = nodes[i]
      /\ nodes'[last] = m
  BY <1>1, <1>4, AppendProperties
<1>6. DOMAIN nodes' = 1..last /\ DOMAIN nodes = 1..Len(nodes)
  BY <1>1, <1>5, LenProperties
<1>7. DOMAIN nodes' = DOMAIN nodes \cup {last} /\ last \notin DOMAIN nodes
  BY <1>3, <1>6
<1>8. \A i \in DOMAIN nodes : nodes'[i] = nodes[i] /\ Evolves(nodes[i], nodes'[i])
  BY <1>5, <1>6 DEF Evolves
<1>9. /\ scens' \in Seq(TrackerType) /\ Len(scens') = Len(scens)
      /\ Drains' = Drains
      /\ \A y \in Drains : y # x => DrainOf(y)' = DrainOf(y)
      /\ DrainOf(x)' = [DrainOf(x) EXCEPT !.by = r]
  BY <1>1, ReplacementMarks
<1>10. PICK d : d = DrainOf(x)
  OBVIOUS
<1>11. PICK e : e = [d EXCEPT !.by = r]
  OBVIOUS
<1>12. DrainOf(x)' = e
  BY <1>9, <1>10, <1>11
<1>13. /\ d \in DrainType /\ e.name = d.name /\ e.at = d.at
       /\ e.replacementAt = d.replacementAt /\ e.by = r
  <2>1. d \in DrainType
    BY <1>1, <1>10, DrainsIs
  <2> QED
    BY <1>11, <2>1 DEF DrainType
<1>14. d.by = <<>> /\ d.replacementAt = clock
  <2>1. d.by = <<>> /\ clock >= d.replacementAt
    BY <1>10 DEF Due
  <2>2. OnTime(x)
    BY DEF IInv, Drainage
  <2>3. clock <= d.replacementAt /\ d.replacementAt \in Nat
    BY <1>10, <1>13, <2>1, <2>2, DrainFields DEF OnTime
  <2> QED
    BY <1>1, <2>1, <2>3
<1>15. e.by # <<>>
  BY <1>13
<1>16. \A y \in Drains : /\ DrainOf(y).name' = DrainOf(y).name
                         /\ DrainOf(y).at' = DrainOf(y).at
  BY <1>9, <1>10, <1>12, <1>13
<1>17. TypeOK'
  <2>1. nextID' \in Nat /\ di' \in Nat
    BY <1>1, <1>3
  <2> QED
    BY <1>5, <1>9, <2>1 DEF IInv, TypeOK
<1>18. Whole(clock)'
  BY DEF IInv, Whole
<1>19. Numbered'
  <2>1. nextID' = Len(nodes') /\ NodeCount <= Len(nodes')
    BY <1>2, <1>3, <1>5
  <2>2. nodes'[last].name = <<"node-repl", last - 1>> /\ ~(last <= NodeCount)
    <3>1. last - 1 = nextID /\ ~(last <= NodeCount)
      BY <1>2, <1>3
    <3>2. nodes'[last].name = r
      BY <1>4, <1>5
    <3> HIDE DEF last
    <3> QED
      BY <3>1, <3>2
  <2>3. \A i \in DOMAIN nodes' :
          nodes'[i].name = IF i <= NodeCount THEN <<"node", i - 1>> ELSE <<"node-repl", i - 1>>
    BY <1>3, <1>7, <1>8, <2>2, ZenonT(60)
  <2> QED
    BY <2>1, <2>3 DEF Numbered
<1>20. Healthy'
  <2>1. ASSUME NEW i \in DOMAIN nodes'
        PROVE  Forward(nodes'[i]) /\ Quiet(nodes'[i], clock) /\ Before(nodes'[i], clock)
    <3>1. CASE i \in DOMAIN nodes
      <4>1. Fit(nodes[i], clock) /\ Before(nodes[i], clock)
        BY <3>1, EveryNode
      <4> QED
        BY <1>8, <3>1, <4>1 DEF Fit
    <3>2. CASE i = last
      BY <1>4, <1>5, <3>2
    <3> QED
      BY <1>7, <3>1, <3>2
  <2>2. clock' = clock
    OBVIOUS
  <2> QED
    BY <2>1, <2>2, HealthyNow
<1>21. \A y \in Drains : HasDown(nodes', DrainOf(y))
  BY <1>7, <1>8, StaysDown DEF IInv, Drainage
<1>22. \A y \in Drains : DrainOf(y).by # <<>> => HasReplacement(nodes', DrainOf(y))
  BY <1>7, <1>8, StaysReplaced DEF IInv, Drainage
<1>23. HasReplacement(nodes', e)
  <2>1. old \in DOMAIN nodes' /\ nodes'[old] = nodes[old]
    BY <1>7, <1>8
  <2>2. last \in DOMAIN nodes' /\ nodes'[last] = m
    BY <1>5, <1>7
  <2>3. nodes'[old].name = e.name
    BY <1>10, <1>13, <2>1
  <2>4. nodes'[last].name = e.by /\ nodes'[old].ns = nodes'[last].ns
        /\ nodes'[last].leases # <<>> /\ nodes'[last].leases[1] = e.replacementAt
    BY <1>4, <1>13, <1>14, <2>1, <2>2
  <2> QED
    BY <2>1, <2>2, <2>3, <2>4 DEF HasReplacement
<1>24. Drainage'
  <2>1. ASSUME NEW y \in Drains PROVE HasDown(nodes, DrainOf(y))'
    <3>1. DrainOf(y).name' = DrainOf(y).name /\ DrainOf(y).at' = DrainOf(y).at
      BY <1>16
    <3>2. HasDown(nodes', DrainOf(y))
      BY <1>21
    <3> QED
      BY <3>1, <3>2 DEF HasDown
  <2>2. ASSUME NEW y \in Drains
        PROVE  (DrainOf(y).by # <<>> => HasReplacement(nodes, DrainOf(y)))'
    <3>1. CASE y = x
      <4>1. DrainOf(y)' = e
        BY <1>12, <3>1 DEF DrainOf
      <4>2. HasReplacement(nodes, DrainOf(y))'
        BY <1>23, <4>1, ReplacedNow
      <4> QED
        BY <4>2
    <3>2. CASE y # x
      <4>1. DrainOf(y)' = DrainOf(y)
        BY <1>9, <3>2
      <4>2. DrainOf(y).by # <<>> => HasReplacement(nodes', DrainOf(y))
        BY <1>22
      <4>3. CASE DrainOf(y).by # <<>>
        <5>1. HasReplacement(nodes, DrainOf(y))'
          BY <4>1, <4>2, <4>3, ReplacedNow
        <5> QED
          BY <5>1
      <4>4. CASE DrainOf(y).by = <<>>
        <5>1. DrainOf(y).by' = <<>>
          BY <4>1, <4>4
        <5> QED
          BY <5>1
      <4> QED
        BY <4>3, <4>4
    <3> QED
      BY <3>1, <3>2
  <2>3. ASSUME NEW y \in Drains PROVE OnTime(y)'
    <3>1. CASE y = x
      <4>1. DrainOf(y).by' # <<>>
        BY <1>12, <1>15, <3>1
      <4> QED
        BY <4>1 DEF OnTime
    <3>2. CASE y # x
      <4>1. DrainOf(y)' = DrainOf(y)
        BY <1>9, <3>2
      <4>2. OnTime(y)
        BY DEF IInv, Drainage
      <4>3. ASSUME LookedAt(y)' PROVE LookedAt(y)
        <5>1. y = <<y[1], y[2]>> /\ y[1] \in Nat /\ y[2] \in Nat
          BY <1>1, DrainsIs
        <5>2. y[1] < sc \/ (y[1] = sc /\ y[2] < di + 1)
          BY <4>3 DEF LookedAt
        <5>3. ~(y[1] = sc /\ y[2] = di)
          BY <3>2, <5>1
        <5>4. y[1] < sc \/ (y[1] = sc /\ y[2] < di)
          BY <1>1, <5>1, <5>2, <5>3
        <5> QED
          BY <5>4 DEF LookedAt
      <4> QED
        BY <4>1, <4>2, <4>3 DEF OnTime, Whole
    <3> QED
      BY <3>1, <3>2
  <2>4. \A y, z \in Drains : (DrainOf(y).name = DrainOf(z).name)' => y = z
    <3>1. \A y, z \in Drains : DrainOf(y).name = DrainOf(z).name => y = z
      BY DEF IInv, Drainage
    <3> QED
      BY <1>16, <3>1
  <2> QED
    BY <1>9, <2>1, <2>2, <2>3, <2>4 DEF Drainage
<1>25. Counted'
  <2>1. x \notin Replaced
    BY <1>10, <1>14 DEF Replaced
  <2>2. Replaced' = Replaced \cup {x}
    <3>1. ASSUME NEW y \in Drains
          PROVE  DrainOf(y).by' # <<>> <=> (DrainOf(y).by # <<>> \/ y = x)
      <4>1. CASE y = x
        <5>1. DrainOf(x).by' # <<>>
          BY <1>12, <1>15
        <5> QED
          BY <4>1, <5>1
      <4>2. CASE y # x
        BY <1>9, <4>2
      <4> QED
        BY <4>1, <4>2
    <3> QED
      BY <1>9, <3>1 DEF Replaced
  <2>3. IsFiniteSet(Replaced) /\ Len(nodes) = NodeCount + Cardinality(Replaced)
    BY DEF IInv, Counted
  <2>4. /\ IsFiniteSet(Replaced \cup {x})
        /\ Cardinality(Replaced \cup {x}) = Cardinality(Replaced) + 1
    BY <2>1, <2>3, FS_AddElement
  <2>5. Cardinality(Replaced) \in Nat
    BY <2>3, FS_CardinalityType
  <2>6. Len(nodes') = NodeCount + (Cardinality(Replaced) + 1)
    BY <1>2, <1>5, <2>3, <2>5
  <2> QED
    BY <2>2, <2>4, <2>6 DEF Counted
<1>26. Loop'
  BY DEF Loop
<1> QED
  BY <1>17, <1>18, <1>19, <1>20, <1>24, <1>25, <1>26 DEF IInv

LEMMA ReplaceTurnKeeps ==
  ASSUME IInv, ReplaceTurn
  PROVE  IInv'
<1>1. /\ phase = "scenarios" /\ sc <= Len(scens) /\ di \in DOMAIN scens[sc].drained
      /\ di' = di + 1 /\ UNCHANGED <<clock, phase, sc>>
  BY DEF ReplaceTurn
<1>2. /\ TypeOK /\ sc \in Nat /\ sc >= 1 /\ di \in Nat
      /\ scens \in Seq(TrackerType) /\ nodes \in Seq(NodeType)
  BY DEF IInv, TypeOK
<1>3. PICK x : x = <<sc, di>>
  OBVIOUS
<1>4. x \in Drains /\ DrainOf(x) = scens[sc].drained[di] /\ x[1] = sc /\ x[2] = di
  <2>1. sc \in DOMAIN scens
    <3>1. sc \in 1..Len(scens)
      BY <1>1, <1>2, LenProperties
    <3> QED
      BY <1>2, <3>1, LenProperties
  <2> QED
    BY <1>1, <1>2, <1>3, <2>1, DrainsIs DEF DrainOf
<1>5. CASE ~Due(DrainOf(x))
  <2>1. UNCHANGED <<nodes, scens, nextID>>
    BY <1>4, <1>5 DEF ReplaceTurn
  <2>2. ASSUME NEW y \in Drains PROVE OnTime(y)'
    <3>1. OnTime(y)
      BY DEF IInv, Drainage
    <3>2. DrainOf(y)' = DrainOf(y)
      BY <2>1 DEF DrainOf
    <3>3. CASE y = x
      <4>1. DrainOf(x).by = <<>> => ~(clock >= DrainOf(x).replacementAt)
        BY <1>5 DEF Due
      <4>2. clock \in Nat /\ DrainOf(x).replacementAt \in Nat
        BY <1>2, <1>4, DrainsIs, DrainFields DEF TypeOK
      <4>3. DrainOf(x).by = <<>> => clock < DrainOf(x).replacementAt
        BY <4>1, <4>2
      <4> QED
        BY <1>1, <3>1, <3>2, <3>3, <4>3 DEF OnTime, Whole
    <3>4. CASE y # x
      <4>1. ASSUME LookedAt(y)' PROVE LookedAt(y)
        <5>1. y = <<y[1], y[2]>> /\ y[1] \in Nat /\ y[2] \in Nat
          BY <1>2, DrainsIs
        <5>2. y[1] < sc \/ (y[1] = sc /\ y[2] < di + 1)
          BY <1>1, <4>1 DEF LookedAt
        <5>3. ~(y[1] = sc /\ y[2] = di)
          BY <1>3, <3>4, <5>1
        <5>4. y[1] < sc \/ (y[1] = sc /\ y[2] < di)
          BY <1>2, <5>1, <5>2, <5>3
        <5> QED
          BY <1>1, <5>4 DEF LookedAt
      <4> QED
        BY <1>1, <3>1, <3>2, <4>1 DEF OnTime, Whole
    <3> QED
      BY <3>3, <3>4
  <2>3. Loop'
    BY <1>1 DEF Loop
  <2>4. sc' \in Nat \ {0} /\ di' \in Nat
    BY <1>1, <1>2
  <2> QED
    BY <1>1, <2>1, <2>2, <2>3, <2>4, LoopKeeps
<1>6. CASE Due(DrainOf(x))
  <2>1. PICK r : r = <<"node-repl", nextID>>
    OBVIOUS
  <2>2. PICK old : old = CHOOSE j \in DOMAIN nodes : nodes[j].name = DrainOf(x).name
    OBVIOUS
  <2>3. old \in DOMAIN nodes /\ nodes[old].name = DrainOf(x).name
    <3>1. HasDown(nodes, DrainOf(x))
      BY <1>4 DEF IInv, Drainage
    <3>2. \E j \in DOMAIN nodes : nodes[j].name = DrainOf(x).name
      BY <3>1 DEF HasDown
    <3> QED
      BY <2>2, <3>2
  <2>4. r \in Names
    BY <2>1 DEF IInv, TypeOK, Names
  <2>5. /\ \E fork \in {0, Second} :
             nodes' = Append(nodes, Burst(Node(r, nodes[old].ns, "normal"), fork))
        /\ scens' = [scens EXCEPT ![sc].drained[di].by = r]
        /\ nextID' = nextID + 1
    BY <1>4, <1>6, <2>1, <2>2, ZenonT(60) DEF ReplaceTurn
  <2>6. PICK fork \in {0, Second} :
          nodes' = Append(nodes, Burst(Node(r, nodes[old].ns, "normal"), fork))
    BY <2>5
  <2>7. scens' = [scens EXCEPT ![x[1]].drained[x[2]].by = r]
    BY <1>4, <2>5
  <2> QED
    BY <1>1, <1>3, <1>4, <1>6, <2>1, <2>3, <2>4, <2>5, <2>6, <2>7, ReplacingKeeps, ZenonT(60)
<1> QED
  BY <1>5, <1>6

LEMMA StepKeeps ==
  ASSUME IInv, [Next]_vars
  PROVE  IInv'
<1>1. CASE applyHealthTransitions
  BY <1>1, HealthKeeps
<1>2. CASE applyScenarios
  BY <1>2, DrainTurnKeeps, ReplaceTurnKeeps, NextScenarioKeeps, ScenariosDoneKeeps
     DEF applyScenarios
<1>3. CASE generateLeases
  BY <1>3, LeasesKeep
<1>4. CASE UNCHANGED vars
  <2>1. UNCHANGED <<nodes, scens, nextID, clock, phase, sc, di>>
    BY <1>4 DEF vars
  <2>2. TypeOK' /\ Whole(clock)' /\ Numbered' /\ Loop'
    BY <2>1 DEF IInv, TypeOK, Whole, Numbered, Loop
  <2>3. Healthy'
    BY <2>1 DEF IInv, Healthy, Forward, Quiet, Before, InBurst
  <2>4. \A x \in Drains : OnTime(x)'
    <3> SUFFICES ASSUME NEW x \in Drains PROVE OnTime(x)'
      OBVIOUS
    <3>1. OnTime(x)
      BY DEF IInv, Drainage
    <3> QED
      BY <2>1, <3>1 DEF OnTime, DrainOf, Whole, LookedAt
  <2>5. \A i \in DOMAIN nodes : Evolves(nodes[i], nodes'[i])
    BY <2>1 DEF Evolves
  <2>6. nodes' \in Seq(NodeType) /\ Len(nodes') = Len(nodes)
    BY <2>1 DEF IInv, TypeOK
  <2>7. Drainage' /\ Counted'
    BY <2>1, <2>4, <2>5, <2>6, DrainageKept
  <2> QED
    BY <2>2, <2>3, <2>7 DEF IInv
<1> QED
  BY <1>1, <1>2, <1>3, <1>4 DEF Next

(* The invariant of the engine: nodes numbered as they come, each with its *)
(* leases in order and outside its outages, each drained node down for     *)
(* good, and its replacement due now or later, never overdue.              *)
THEOREM Inductive == Spec => []IInv
<1>1. Init => IInv
  BY InitEstablishes
<1>2. IInv /\ [Next]_vars => IInv'
  BY StepKeeps
<1> QED
  BY <1>1, <1>2, PTL DEF Spec

-----------------------------------------------------------------------------
(* What it says                                                            *)

LEMMA NamesDiffer ==
  ASSUME IInv, NEW i \in DOMAIN nodes, NEW j \in DOMAIN nodes, nodes[i].name = nodes[j].name
  PROVE  i = j
<1>1. \A k \in DOMAIN nodes :
        nodes[k].name = IF k <= NodeCount THEN <<"node", k - 1>> ELSE <<"node-repl", k - 1>>
  BY DEF IInv, Numbered
<1>2. ASSUME NEW k \in DOMAIN nodes PROVE nodes[k].name[2] = k - 1
  <2>1. CASE k <= NodeCount
    <3>1. nodes[k].name = <<"node", k - 1>>
      BY <1>1, <2>1
    <3> QED
      BY <3>1
  <2>2. CASE ~(k <= NodeCount)
    <3>1. nodes[k].name = <<"node-repl", k - 1>>
      BY <1>1, <2>2
    <3> QED
      BY <3>1
  <2> QED
    BY <2>1, <2>2
<1>3. i \in Int /\ j \in Int
  BY LenProperties DEF IInv, TypeOK
<1> QED
  BY <1>2, <1>3

LEMMA Silent == IInv => QuietWhileDown
<1> SUFFICES ASSUME IInv, NEW i \in DOMAIN nodes, NEW l \in DOMAIN nodes[i].leases
             PROVE  /\ l > 1 => nodes[i].leases[l] > nodes[i].leases[l - 1]
                    /\ \A o \in DOMAIN nodes[i].outages :
                         /\ nodes[i].leases[l] >= nodes[i].outages[o][1]
                         /\ nodes[i].leases[l] < nodes[i].outages[o][3]
                         => InBurst(nodes[i], l)
                    /\ \A x \in Drains : DrainOf(x).name = nodes[i].name =>
                         (nodes[i].leases[l] >= DrainOf(x).at => InBurst(nodes[i], l))
  BY DEF QuietWhileDown, InBurst
<1> DEFINE n == nodes[i]
<1>1. n \in NodeType /\ Forward(n) /\ Quiet(n, clock)
  BY EveryNode DEF Fit
<1>2. n.leases[l] \in Nat
  BY <1>1, LeaseIs
<1>3. ASSUME NEW o \in DOMAIN n.outages,
             n.leases[l] >= n.outages[o][1], n.leases[l] < n.outages[o][3]
      PROVE  InBurst(n, l)
  <2>1. n.outages[o][1] \in Nat /\ n.outages[o][3] \in Nat
    BY <1>1, OutageIs
  <2>2. InBurst(n, l) \/ n.leases[l] < n.outages[o][1] \/ n.leases[l] >= n.outages[o][3]
    BY <1>1 DEF Quiet
  <2> QED
    BY <1>2, <1>3, <2>1, <2>2
<1>4. ASSUME NEW x \in Drains, DrainOf(x).name = n.name, n.leases[l] >= DrainOf(x).at
      PROVE  InBurst(n, l)
  <2>1. PICK j \in DOMAIN nodes : nodes[j].name = DrainOf(x).name /\ Before(nodes[j], DrainOf(x).at)
    BY DEF IInv, Drainage, HasDown
  <2>2. j = i
    BY <1>4, <2>1, NamesDiffer
  <2>3. DrainOf(x).at \in Nat
    BY DrainsIs, DrainFields DEF IInv
  <2>4. InBurst(n, l) \/ n.leases[l] < DrainOf(x).at
    BY <2>1, <2>2 DEF Before
  <2> QED
    BY <1>2, <1>4, <2>3, <2>4
<1>5. l > 1 => n.leases[l] > n.leases[l - 1]
  BY <1>1 DEF Forward
<1> QED
  BY <1>3, <1>4, <1>5

(* No node renews a lease in an outage or once drained, the burst of a      *)
(* replacement aside, and its leases go forward in time: whatever falls     *)
(* ill, recovers and is drained in one second, the lease pass of that       *)
(* second (generateLeaseForNode) skips the nodes that are down.             *)
THEOREM SilentWhileDown == Spec => []QuietWhileDown
<1>1. IInv => QuietWhileDown
  BY Silent
<1> QED
  BY <1>1, Inductive, PTL

LEMMA Replacements == IInv => DrainsAreReplaced
<1> SUFFICES ASSUME IInv PROVE DrainsAreReplaced
  OBVIOUS
<1>1. \A x, y \in Drains : DrainOf(x).name = DrainOf(y).name => x = y
  BY DEF IInv, Drainage
<1>2. \A i, j \in DOMAIN nodes : nodes[i].name = nodes[j].name => i = j
  BY NamesDiffer
<1>3. Len(nodes) = NodeCount + Cardinality({x \in Drains : DrainOf(x).by # <<>>})
  BY DEF IInv, Counted, Replaced
<1>4. ASSUME NEW x \in Drains
      PROVE  \E i \in DOMAIN nodes : nodes[i].name = DrainOf(x).name /\ ~nodes[i].ready
  BY DEF IInv, Drainage, HasDown
<1>5. ASSUME NEW x \in Drains, DrainOf(x).by # <<>>
      PROVE  \E i, j \in DOMAIN nodes :
               /\ nodes[i].name = DrainOf(x).name /\ nodes[j].name = DrainOf(x).by
               /\ nodes[i].ns = nodes[j].ns
               /\ nodes[j].leases[1] = DrainOf(x).replacementAt
  <2>1. HasReplacement(nodes, DrainOf(x))
    BY <1>5 DEF IInv, Drainage
  <2> QED
    BY <2>1 DEF HasReplacement
<1>6. ASSUME NEW x \in Drains, phase = "leases", clock >= DrainOf(x).replacementAt
      PROVE  DrainOf(x).by # <<>>
  <2>1. OnTime(x) /\ LookedAt(x)
    BY <1>6 DEF IInv, Drainage, LookedAt
  <2>2. clock \in Nat /\ DrainOf(x).replacementAt \in Nat
    BY DrainsIs, DrainFields DEF IInv, TypeOK
  <2>3. DrainOf(x).by = <<>> => clock < DrainOf(x).replacementAt
    BY <2>1 DEF OnTime
  <2> QED
    BY <1>6, <2>2, <2>3
<1> QED
  BY <1>1, <1>2, <1>3, <1>4, <1>5, <1>6 DEF DrainsAreReplaced

(* applyScenarios drains each node at most once and for good, and adds for  *)
(* each one exactly one node, in its namespace, under a name no other node  *)
(* has, in the first second in which the delay is over, whatever scenarios  *)
(* overlap and whatever nodes they took from each other.                    *)
THEOREM ReplacedOnTime == Spec => []DrainsAreReplaced
<1>1. IInv => DrainsAreReplaced
  BY Replacements
<1> QED
  BY <1>1, Inductive, PTL

-----------------------------------------------------------------------------
(* The files                                                               *)

LEMMA OfTwo ==
  ASSUME NEW a \in Int, NEW b \in Int
  PROVE  /\ Min({a, b}) = IF a <= b THEN a ELSE b
         /\ Max({a, b}) = IF a <= b THEN b ELSE a
<1> DEFINE lo == IF a <= b THEN a ELSE b
           hi == IF a <= b THEN b ELSE a
<1>1. lo \in {a, b} /\ \A y \in {a, b} : lo <= y
  OBVIOUS
<1>2. \A x \in {a, b} : (\A y \in {a, b} : x <= y) => x = lo
  OBVIOUS
<1>3. hi \in {a, b} /\ \A y \in {a, b} : hi >= y
  OBVIOUS
<1>4. \A x \in {a, b} : (\A y \in {a, b} : x >= y) => x = hi
  OBVIOUS
<1> HIDE DEF lo, hi
<1>5. Min({a, b}) = lo
  BY <1>1, <1>2 DEF Min
<1>6. Max({a, b}) = hi
  BY <1>3, <1>4 DEF Max
<1> QED
  BY <1>5, <1>6 DEF lo, hi

LEMMA Quotient ==
  ASSUME NEW a \in Int, NEW b \in Nat \ {0}
  PROVE  a \div b \in Int /\ (a \div b) * b <= a /\ a < (a \div b) * b + b
OBVIOUS

LEMMA Times ==
  ASSUME NEW i \in Int, NEW j \in Int, NEW w \in Nat, i <= j
  PROVE  i * w \in Int /\ j * w \in Int /\ i * w <= j * w
<1>1. PICK d \in Nat : j = i + d
  <2>1. j - i \in Nat /\ j = i + (j - i)
    OBVIOUS
  <2> QED
    BY <2>1
<1>2. i * w \in Int /\ d * w \in Nat
  OBVIOUS
<1>3. j * w = i * w + d * w
  BY <1>1
<1> QED
  BY <1>2, <1>3

LEMMA NumFilesIs == NumFiles \in Nat /\ NumFiles >= 1 /\ NumFiles * Window >= Duration
<1> DEFINE q == (Duration + Window - 1) \div Window
<1>1. Duration \in Nat /\ Window \in Nat \ {0} /\ Duration + Window - 1 \in Int
  BY SimulationAssumption
<1>2. q \in Int /\ Duration + Window - 1 < q * Window + Window
  BY <1>1, Quotient
<1> HIDE DEF q
<1>3. NumFiles = Max({1, q})
  BY DEF NumFiles, q
<1>4. NumFiles \in Int /\ NumFiles >= 1 /\ NumFiles >= q
  <2>1. 1 \in Int /\ q \in Int
    BY <1>2
  <2>2. Max({1, q}) = IF 1 <= q THEN q ELSE 1
    BY <2>1, OfTwo
  <2> QED
    BY <1>3, <2>1, <2>2
<1>5. q * Window \in Int /\ NumFiles * Window \in Int /\ q * Window <= NumFiles * Window
  BY <1>1, <1>2, <1>4, Times
<1>6. q * Window >= Duration
  BY <1>1, <1>2, <1>5
<1> QED
  BY <1>1, <1>4, <1>5, <1>6

(* SegmentLeaseFiles and SegmentEbpfFiles: the files cover the run, and     *)
(* every time, before the start or beyond the end too, belongs to one of    *)
(* them: it is not before that file's window unless the file is the first,  *)
(* and not after it unless it is the last.                                  *)
THEOREM FilesCoverTime ==
  /\ NumFiles * Window >= Duration
  /\ \A t \in Int :
       /\ File(t) \in 0..NumFiles - 1
       /\ File(t) > 0 => t >= File(t) * Window * Second
       /\ File(t) < NumFiles - 1 => t < (File(t) + 1) * Window * Second
<1>1. NumFiles * Window >= Duration
  BY NumFilesIs
<1>2. ASSUME NEW t \in Int
      PROVE  /\ File(t) \in 0..NumFiles - 1
             /\ File(t) > 0 => t >= File(t) * Window * Second
             /\ File(t) < NumFiles - 1 => t < (File(t) + 1) * Window * Second
  <2>1. PICK w : w = Window * Second
    OBVIOUS
  <2>2. w \in Nat \ {0} /\ Window \in Nat
    BY <2>1, SimulationAssumption DEF Second
  <2>3. PICK q : q = t \div w
    OBVIOUS
  <2>4. q \in Int /\ q * w <= t /\ t < q * w + w
    BY <2>2, <2>3, Quotient
  <2>5. PICK last : last = NumFiles - 1
    OBVIOUS
  <2>6. last \in Nat
    BY <2>5, NumFilesIs
  <2>7. PICK f : f = Max({0, Min({q, last})})
    OBVIOUS
  <2>8. f = File(t)
    BY <2>1, <2>3, <2>5, <2>7 DEF File
  <2>9. Min({q, last}) = IF q <= last THEN q ELSE last
    BY <2>4, <2>6, OfTwo
  <2>10. PICK m : m = Min({q, last})
    OBVIOUS
  <2>11. m \in Int /\ m <= q /\ m <= last /\ (m = q \/ m = last)
    BY <2>4, <2>6, <2>9, <2>10
  <2>12. f = IF 0 <= m THEN m ELSE 0
    <3>1. 0 \in Int /\ m \in Int
      BY <2>11
    <3>2. Max({0, m}) = IF 0 <= m THEN m ELSE 0
      BY <3>1, OfTwo
    <3> QED
      BY <2>7, <2>10, <3>2
  <2>13. f \in 0..last /\ (f > 0 => f <= q) /\ (f < last => q <= f)
    BY <2>6, <2>11, <2>12
  <2>14. \A k \in Int : k * Window * Second = k * w
    BY <2>1, <2>2 DEF Second
  <2>15. ASSUME f > 0 PROVE t >= f * w
    <3>1. f * w \in Int /\ q * w \in Int /\ f * w <= q * w
      BY <2>2, <2>4, <2>13, <2>15, Times
    <3> QED
      BY <2>4, <3>1
  <2>16. ASSUME f < last PROVE t < (f + 1) * w
    <3>1. q * w \in Int /\ f * w \in Int /\ q * w <= f * w
      BY <2>2, <2>4, <2>13, <2>16, Times
    <3>2. (f + 1) * w = f * w + w
      BY <2>2, <2>13
    <3> QED
      BY <2>2, <2>4, <3>1, <3>2
  <2>17. f \in Int /\ f + 1 \in Int
    BY <2>6, <2>13
  <2> QED
    BY <2>5, <2>8, <2>13, <2>14, <2>15, <2>16, <2>17
<1> QED
  BY <1>1, <1>2
=============================================================================

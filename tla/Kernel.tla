------------------------------- MODULE Kernel -------------------------------
(***************************************************************************)
(* Kernel events in the server (main.go, ebpfEventsHandler): for each      *)
(* event of a posted batch                                                 *)
(*     SaveKernelEvent; BroadcastEbpfEvent; Analyze; Record                *)
(* on a store, a list of predictions and a connection map that all posts   *)
(* share, and GET /api/network/topology, which reads the map.  Handlers    *)
(* run concurrently.  Record holds the map's lock while it announces a new *)
(* connection to the hub; Hub.tla shows that the announcement returns.     *)
(*                                                                         *)
(* Of an event the model keeps what the detectors and the map look at; its *)
(* kind is the one of their conditions it meets.                           *)
(* Confidence, time to failure and the event's node are left out; so are   *)
(* Expire, RecordOutcome and AnalyzeFromStore, which nothing calls.        *)
(***************************************************************************)
EXTENDS Naturals, Sequences, FiniteSets

CONSTANTS
  Posts,    \* POST /api/ebpf/events requests
  Gets,     \* GET /api/network/topology requests
  Batches,  \* the bodies they may have, sequences of events
  Conns,    \* connection keys: pod, namespace, address, port, protocol
  MaxTime,  \* bound: timestamps of events are 1..MaxTime
  MaxLevel, \* bound: latencies are 0..MaxLevel
  Free      \* the lock has no holder

Kinds == {"syscall", "retransmit", "rtt_high", "critical_exit", "filesystem_io",
          "oom_kill", "memory_pressure", "dns", "dns_timeout", "network_audit"}
Events == [kind : Kinds, level : 0..MaxLevel, at : 1..MaxTime, conn : Conns]

ASSUME KernelAssumption ==
  /\ MaxTime \in Nat /\ MaxLevel \in Nat
  /\ Batches \subseteq Seq(Events)
  /\ Free \notin Posts

VARIABLES
  storeType,   \* cfg.StoreType, chosen once: "memory" or "redis"
  pc,          \* pc[p]: where ebpfEventsHandler is
  batch, next, \* its events, and the number of the current one
  stored,      \* events in the store; an event is <<p, i>>, the i-th of p
  predictions, \* pe.predictions
  lastSeen,    \* m.connections: the LastSeen of each, 0 for no entry
  lock,        \* m.mu: the post that holds it, or Free
  feed,        \* what was handed to the hub, in order
  listed,      \* listed[g]: what g returned, or Free before it did
  failed       \* observer: events whose save returned an error

vars == <<storeType, pc, batch, next, stored, predictions, lastSeen, lock,
          feed, listed, failed>>
outside == <<storeType, batch, listed>>  \* what no step of a loop changes

Id(p) == <<p, next[p]>>
Event(p) == batch[p][next[p]]

Init ==
  /\ storeType \in {"memory", "redis"}
  /\ pc = [p \in Posts |-> "idle"]
  /\ batch = [p \in Posts |-> <<>>] /\ next = [p \in Posts |-> 1]
  /\ stored = {} /\ failed = {}
  /\ predictions = <<>>
  /\ lastSeen = [c \in Conns |-> 0] /\ lock = Free
  /\ feed = <<>>
  /\ listed = [g \in Gets |-> Free]

Message(type, p) == [type |-> type, of |-> Id(p)]
Goto(p, l) == pc' = [pc EXCEPT ![p] = l]

(* The end of an iteration: the next event, or 201.                        *)
EndOfEvent(p) ==
  /\ next' = [next EXCEPT ![p] = @ + 1]
  /\ Goto(p, IF next[p] < Len(batch[p]) THEN "saving" ELSE "answered")

-----------------------------------------------------------------------------
(* The detectors of prediction.go, on a window of events.                  *)

OfKind(w, kind) == SelectSeq(w, LAMBDA e : e.kind = kind)
Count(w, kind) == Len(OfKind(w, kind))

(* More than 6 of 10 positive latencies, of three or more, are rises.      *)
Rising(w, kind) ==
  LET s == SelectSeq(OfKind(w, kind), LAMBDA e : e.level > 0)
      rises == {i \in 2..Len(s) : s[i].level > s[i-1].level}
  IN Len(s) >= 3 /\ 10 * Cardinality(rises) > 6 * (Len(s) - 1)

MemoryEscalates(w) == Count(w, "oom_kill") >= 1 \/ Count(w, "memory_pressure") >= 2

DNSDegrades(w) == Count(w, "dns_timeout") >= 1 \/ Rising(w, "dns")

Patterns(w) ==
  {p \in {"syscall_latency_trend"} : Rising(w, "syscall")}
  \cup {p \in {"retransmit_spike"} : Count(w, "retransmit") >= 5}
  \cup {p \in {"critical_exit"} : Count(w, "critical_exit") >= 1}
  \cup {p \in {"high_rtt"} : Count(w, "rtt_high") >= 3}
  \cup {p \in {"filesystem_io_degradation"} : Rising(w, "filesystem_io")}
  \cup {p \in {"memory_pressure_escalation"} : MemoryEscalates(w)}
  \cup {p \in {"dns_resolution_degradation"} : DNSDegrades(w)}

(* The window the handler gives Analyze: the event at hand.                *)
Window(p) == <<Event(p)>>

-----------------------------------------------------------------------------
(* ebpfEventsHandler                                                       *)

Post(p) ==
  /\ pc[p] = "idle"
  /\ \E b \in Batches :
       /\ batch' = [batch EXCEPT ![p] = b]
       /\ Goto(p, IF b = <<>> THEN "answered" ELSE "saving")
  /\ UNCHANGED <<storeType, next, stored, predictions, lastSeen, lock, feed,
                 listed, failed>>

(* The body is no JSON array: 400.  (A single event is refused as well:    *)
(* the fallback parses the error message instead of the body.)             *)
Refuse(p) ==
  /\ pc[p] = "idle" /\ Goto(p, "refused")
  /\ UNCHANGED <<outside, next, stored, predictions, lastSeen, lock, feed, failed>>

Save(p) ==
  /\ pc[p] = "saving" /\ Goto(p, "broadcasting")
  /\ stored' = stored \cup {Id(p)}
  /\ UNCHANGED <<outside, next, predictions, lastSeen, lock, feed, failed>>

(* Faults: the error is logged and ignored; the error ends the request.    *)
SaveFailsAndGoesOn(p) ==
  /\ pc[p] = "saving" /\ storeType = "redis" /\ Goto(p, "broadcasting")
  /\ stored' \in {stored, stored \cup {Id(p)}}
  /\ failed' = failed \cup {Id(p)}
  /\ UNCHANGED <<outside, next, predictions, lastSeen, lock, feed>>

SaveFailsAndReturns(p) ==
  /\ pc[p] = "saving" /\ storeType = "redis" /\ Goto(p, "answered")
  /\ stored' \in {stored, stored \cup {Id(p)}}
  /\ failed' = failed \cup {Id(p)}
  /\ UNCHANGED <<outside, next, predictions, lastSeen, lock, feed>>

(* Redis failed, before or after it took the event: `continue'.            *)
SaveFails(p) ==
  /\ pc[p] = "saving" /\ storeType = "redis"
  /\ stored' \in {stored, stored \cup {Id(p)}}
  /\ failed' = failed \cup {Id(p)}
  /\ EndOfEvent(p)
  /\ UNCHANGED <<outside, predictions, lastSeen, lock, feed>>

Broadcast(p) ==
  /\ pc[p] = "broadcasting" /\ Goto(p, "analyzing")
  /\ feed' = Append(feed, Message("ebpf_event", p))
  /\ UNCHANGED <<outside, next, stored, predictions, lastSeen, lock, failed>>

AnalyzeQuiet(p) ==
  /\ pc[p] = "analyzing" /\ Patterns(Window(p)) = {}
  /\ Goto(p, "recording")
  /\ UNCHANGED <<outside, next, stored, predictions, lastSeen, lock, feed, failed>>

(* Fault: the prediction goes to the dashboards only.                      *)
AnalyzeForgets(p) ==
  /\ pc[p] = "analyzing" /\ Patterns(Window(p)) # {}
  /\ Goto(p, "predicting")
  /\ UNCHANGED <<outside, next, stored, predictions, lastSeen, lock, feed, failed>>

(* The prediction is kept under the engine's lock, and broadcast without.  *)
AnalyzePredicts(p) ==
  /\ pc[p] = "analyzing" /\ Patterns(Window(p)) # {}
  /\ Goto(p, "predicting")
  /\ predictions' = Append(predictions,
                           [of |-> Id(p), patterns |-> Patterns(Window(p))])
  /\ UNCHANGED <<outside, next, stored, lastSeen, lock, feed, failed>>

Predict(p) ==
  /\ pc[p] = "predicting" /\ Goto(p, "recording")
  /\ feed' = Append(feed, Message("prediction", p))
  /\ UNCHANGED <<outside, next, stored, predictions, lastSeen, lock, failed>>

RecordNothing(p) ==
  /\ pc[p] = "recording" /\ Event(p).kind # "network_audit"
  /\ EndOfEvent(p)
  /\ UNCHANGED <<outside, stored, predictions, lastSeen, lock, feed, failed>>

Recording(p) ==
  pc[p] = "recording" /\ Event(p).kind = "network_audit" /\ lock = Free

Seen(p) == lastSeen' = [lastSeen EXCEPT ![Event(p).conn] = Event(p).at]

RecordKnown(p) ==
  /\ Recording(p) /\ lastSeen[Event(p).conn] # 0
  /\ Seen(p) /\ EndOfEvent(p)
  /\ UNCHANGED <<outside, stored, predictions, lock, feed, failed>>

(* Fault: the lock is released before the broadcast.                       *)
RecordNewUnlocked(p) ==
  /\ Recording(p) /\ lastSeen[Event(p).conn] = 0
  /\ Seen(p) /\ Goto(p, "announcing")
  /\ UNCHANGED <<outside, next, stored, predictions, lock, feed, failed>>

(* A new connection; Record goes on to broadcast it with the lock held.    *)
RecordNew(p) ==
  /\ Recording(p) /\ lastSeen[Event(p).conn] = 0
  /\ Seen(p) /\ lock' = p /\ Goto(p, "announcing")
  /\ UNCHANGED <<outside, next, stored, predictions, feed, failed>>

(* Fault: no deferred unlock on this path.                                 *)
AnnounceLocked(p) ==
  /\ pc[p] = "announcing"
  /\ feed' = Append(feed, Message("network_topology_update", p))
  /\ EndOfEvent(p)
  /\ UNCHANGED <<outside, stored, predictions, lastSeen, lock, failed>>

Announce(p) ==
  /\ pc[p] = "announcing"
  /\ feed' = Append(feed, Message("network_topology_update", p))
  /\ lock' = Free /\ EndOfEvent(p)
  /\ UNCHANGED <<outside, stored, predictions, lastSeen, failed>>

(* GET /api/network/topology: Connections takes the read lock.             *)
Get(g) ==
  /\ listed[g] = Free /\ lock = Free
  /\ listed' = [listed EXCEPT ![g] = {c \in Conns : lastSeen[c] # 0}]
  /\ UNCHANGED <<storeType, pc, batch, next, stored, predictions, lastSeen,
                 lock, feed, failed>>

-----------------------------------------------------------------------------
Handle(p) ==
  \/ Save(p) \/ SaveFails(p) \/ Broadcast(p)
  \/ AnalyzeQuiet(p) \/ AnalyzePredicts(p) \/ Predict(p)
  \/ RecordNothing(p) \/ RecordKnown(p) \/ RecordNew(p) \/ Announce(p)

Next ==
  \/ \E p \in Posts : Post(p) \/ Refuse(p) \/ Handle(p)
  \/ \E g \in Gets : Get(g)

Spec == Init /\ [][Next]_vars

(* A handler that can go on does, calls of the store and the hub return,   *)
(* and Go's RWMutex lets a waiting reader or writer in before those that   *)
(* come after the current holder, so neither is overtaken for ever.        *)
FairSpec ==
  /\ Spec
  /\ \A p \in Posts : SF_vars(Handle(p))
  /\ \A g \in Gets : SF_vars(Get(g))

-----------------------------------------------------------------------------
(* Properties                                                              *)

PatternNames ==
  {"syscall_latency_trend", "retransmit_spike", "critical_exit", "high_rtt",
   "filesystem_io_degradation", "memory_pressure_escalation",
   "dns_resolution_degradation"}

EventIds == Posts \X (Nat \ {0})

Published(type) == {feed[k].of : k \in {i \in DOMAIN feed : feed[i].type = type}}
EventOf(x) == batch[x[1]][x[2]]

(* Dashboards see an event, in batch order, only once it is stored, and    *)
(* its prediction and its new connection only after the event itself; none *)
(* is repeated (main.go:60-72).                                            *)
FeedIsCausal ==
  \A k \in DOMAIN feed :
    LET x == feed[k].of IN
    /\ x \in stored
    /\ feed[k].type # "ebpf_event" =>
         \E i \in 1..(k-1) : feed[i] = [type |-> "ebpf_event", of |-> x]
    /\ \A i \in 1..(k-1) :
         feed[i] # feed[k] /\ (feed[i].of[1] = x[1] => feed[i].of[2] <= x[2])

(* An event whose save failed costs only itself, and nothing else costs an *)
(* event anything: of every other event handled so far, and of the whole   *)
(* batch once it is answered, all consequences happened, whatever other    *)
(* posts did meanwhile (`continue' in main.go:62).                         *)
OneFailureOneEvent ==
  \A p \in Posts :
    \A i \in IF pc[p] = "answered" THEN DOMAIN batch[p] ELSE 1..(next[p] - 1) :
      IF <<p, i>> \in failed
      THEN \A k \in DOMAIN feed : feed[k].of # <<p, i>>
      ELSE /\ <<p, i>> \in Published("ebpf_event")
           /\ Patterns(<<batch[p][i]>>) # {} => <<p, i>> \in Published("prediction")
           /\ batch[p][i].kind = "network_audit" => lastSeen[batch[p][i].conn] # 0

(* A prediction dashboards show is one the accuracy endpoint counts, and   *)
(* the other way round but for those on their way, although the list is    *)
(* locked and the broadcast is not (prediction.go:123-129).                *)
PredictionsMatchFeed ==
  LET kept == {predictions[i].of : i \in DOMAIN predictions} IN
  /\ Published("prediction") \subseteq kept
  /\ \A x \in kept \ Published("prediction") :
       pc[x[1]] = "predicting" /\ next[x[1]] = x[2]
  /\ Cardinality(kept) = Len(predictions)

(* A connection is announced once, however many batches bring it at the    *)
(* same time, and no reader of the map learns of it before: the lock is    *)
(* held over the look-up, the entry and the broadcast                      *)
(* (network_topology.go:47-68, 89).                                        *)
AnnouncedThenListed ==
  /\ \A x, y \in Published("network_topology_update") :
       EventOf(x).conn = EventOf(y).conn => x = y
  /\ \A g \in Gets : listed[g] # Free =>
       listed[g] \subseteq
         {EventOf(x).conn : x \in Published("network_topology_update")}

(* Every post is answered and so is every reader of the map, although they *)
(* wait for a lock that is held during a broadcast.                        *)
AllAnswered ==
  /\ \A p \in Posts : pc[p] = "saving" ~> pc[p] = "answered"
  /\ \A g \in Gets : <>(listed[g] # Free)
=============================================================================

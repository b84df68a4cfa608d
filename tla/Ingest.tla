------------------------------- MODULE Ingest -------------------------------
(***************************************************************************)
(* The life of a heartbeat in the server: POST /api/heartbeat              *)
(* (heartbeatHandler) and the live-simulation loop (main.go) each run      *)
(*     Save; BroadcastHeartbeat; Evaluate; Dispatch                        *)
(* on a store that all of them share.  Handlers run concurrently, one      *)
(* goroutine per request; the ticks of the simulation run one after the    *)
(* other.  The store is a MemoryStore, whose operations hold its mutex, or *)
(* a RedisStore, whose Save is a pipeline of commands: other clients'      *)
(* commands run between them, the connection may break after any of them,  *)
(* and go-redis may then send the whole pipeline again.                    *)
(*                                                                         *)
(* The feed is the hub's queue: Hub.tla shows that a call to a Broadcast   *)
(* function returns and what dashboards then see of it.  Key expiry (7     *)
(* days) is left out, so EXPIRE has no effect here; so are the kernel      *)
(* events Evaluate attaches to an alert it has already decided on.         *)
(***************************************************************************)
EXTENDS Naturals, Sequences, FiniteSets

CONSTANTS
  Handlers,   \* POST requests
  Ticks,      \* ticks of the simulation loop
  Nodes,      \* values of nodeName
  MaxTime,    \* bound: timestamps are 0..MaxTime
  Warning,    \* WarningThresholdS
  Critical,   \* CriticalThresholdS
  MaxRetries, \* bound on the pipelines re-sent (3 in go-redis)
  None

Requests == Handlers \cup Ticks
Times == 0..MaxTime

ASSUME IngestAssumption ==
  /\ Handlers \cap Ticks = {}
  /\ MaxTime \in Nat /\ Warning \in Nat /\ Critical \in Nat
  /\ MaxRetries \in Nat
  /\ None \notin Times
  /\ None \notin {"warning", "critical"}

VARIABLES
  storeType, \* cfg.StoreType, chosen once: "memory" or "redis"
  pc,       \* pc[r]: where the goroutine of r is
  node, ts, \* node[r], ts[r]: the heartbeat r carries
  tries,    \* tries[r]: pipelines re-sent
  stored,   \* stored[n]: timestamps of the heartbeats saved for n
  latest,   \* latest[n]: Redis key heartbeat:latest:n
  alert,    \* alert[r]: severity and reference time of the alert r raised
  feed,     \* calls to BroadcastHeartbeat and BroadcastAlert, in order
  webhook,  \* webhook[r]: the POST of r's alert
  \* Observers, which no guard reads:
  prev,     \* prev[r]: n's last heartbeat answered before r started
  sets,     \* how many SETs of latest keys Redis has executed
  setNo     \* setNo[r]: rank of r's last SET among them, 0 before

vars == <<storeType, pc, node, ts, tries, stored, latest, alert, feed, webhook,
          prev, sets, setNo>>
redis == <<latest, sets, setNo>>
store == <<stored, redis>>
fixed == <<storeType, node, ts>>

NoAlert == [severity |-> None, since |-> None]
Biggest(S) == CHOOSE x \in S : \A y \in S : y <= x
MaxOrNone(S) == IF S = {} THEN None ELSE Biggest(S)

Init ==
  /\ storeType \in {"memory", "redis"}
  /\ pc = [r \in Requests |-> "idle"]
  /\ node \in [Requests -> Nodes]
  /\ ts \in [Requests -> Times]
  /\ tries = [r \in Requests |-> 0]
  /\ stored = [n \in Nodes |-> {}]
  /\ latest = [n \in Nodes |-> None]
  /\ alert = [r \in Requests |-> NoAlert]
  /\ feed = <<>>
  /\ webhook = [r \in Requests |-> "none"]
  /\ prev = [r \in Requests |-> None]
  /\ sets = 0
  /\ setNo = [r \in Requests |-> 0]

-----------------------------------------------------------------------------
(* Seeded faults: bugs this code could plausibly have, each breaking one   *)
(* of the properties below when it replaces the definition it varies.      *)

(* Severity with both comparisons strict.                                 *)
SeverityHole(gap) ==
  IF gap > Critical THEN "critical"
  ELSE IF gap < Critical THEN "warning" ELSE ""

(* SaveZAdd that trims the sorted set to its newest member.                *)
SaveZAddTrim(r) ==
  /\ storeType = "redis"
  /\ pc[r] = "saving"
  /\ stored' = [stored EXCEPT ![node[r]] = {Biggest(@ \cup {ts[r]})}]
  /\ pc' = [pc EXCEPT ![r] = "setting"]
  /\ UNCHANGED <<fixed, prev, tries, redis, alert, feed, webhook>>

(* SaveReply that goes straight to Evaluate.                               *)
SaveReplyUnseen(r) ==
  /\ pc[r] = "replying"
  /\ pc' = [pc EXCEPT ![r] = "evaluating"]
  /\ UNCHANGED <<fixed, prev, tries, store, alert, feed, webhook>>

(* SaveError ignored by the handler as it is by the simulation.            *)
SaveErrorIgnored(r) ==
  /\ storeType = "redis" /\ pc[r] \in {"saving", "setting", "replying"}
  /\ pc' = [pc EXCEPT ![r] = "broadcasting"]
  /\ UNCHANGED <<fixed, prev, tries, store, alert, feed, webhook>>

(* Latest with Before instead of After in MemoryStore.GetLatestByNode.     *)
LatestIsOldest(n) ==
  IF storeType = "redis" THEN latest[n]
  ELSE IF stored[n] = {} THEN None
  ELSE CHOOSE x \in stored[n] : \A y \in stored[n] : x <= y

(* Late with `gap < ad.warningThreshold' as the early return.              *)
LateOrOnTime(r, t) == t # None /\ ts[r] >= t + Warning

-----------------------------------------------------------------------------
(* A request decodes, or is refused: wrong method, malformed JSON.  Its    *)
(* timestamp is the sender's; the simulation's is time.Now().              *)

Answered(n) == {ts[q] : q \in {q \in Requests : pc[q] = "done" /\ node[q] = n}}

Start(r) ==
  /\ pc[r] = "idle"
  /\ r \in Ticks => \A q \in Ticks \ {r} :
       \/ pc[q] = "idle" /\ ts[q] >= ts[r]
       \/ pc[q] = "done" /\ ts[q] <= ts[r]
  /\ pc' = [pc EXCEPT ![r] = "saving"]
  /\ prev' = [prev EXCEPT ![r] = MaxOrNone(Answered(node[r]))]
  /\ UNCHANGED <<fixed, tries, store, alert, feed, webhook>>

Refuse(r) ==
  /\ pc[r] = "idle"
  /\ r \in Handlers
  /\ pc' = [pc EXCEPT ![r] = "refused"]
  /\ UNCHANGED <<fixed, prev, tries, store, alert, feed, webhook>>

-----------------------------------------------------------------------------
(* store.Save                                                              *)

SaveMemory(r) ==
  /\ storeType = "memory"
  /\ pc[r] = "saving"
  /\ stored' = [stored EXCEPT ![node[r]] = @ \cup {ts[r]}]
  /\ pc' = [pc EXCEPT ![r] = "broadcasting"]
  /\ UNCHANGED <<fixed, prev, tries, redis, alert, feed, webhook>>

(* ZADD (a member that is already there is not added again) and EXPIRE.    *)
SaveZAdd(r) ==
  /\ storeType = "redis"
  /\ pc[r] = "saving"
  /\ stored' = [stored EXCEPT ![node[r]] = @ \cup {ts[r]}]
  /\ pc' = [pc EXCEPT ![r] = "setting"]
  /\ UNCHANGED <<fixed, prev, tries, redis, alert, feed, webhook>>

(* SET heartbeat:latest:<node>, whatever it held.                          *)
SaveSet(r) ==
  /\ pc[r] = "setting"
  /\ latest' = [latest EXCEPT ![node[r]] = ts[r]]
  /\ sets' = sets + 1
  /\ setNo' = [setNo EXCEPT ![r] = sets + 1]
  /\ pc' = [pc EXCEPT ![r] = "replying"]
  /\ UNCHANGED <<fixed, prev, tries, stored, alert, feed, webhook>>

SaveReply(r) ==
  /\ pc[r] = "replying"
  /\ pc' = [pc EXCEPT ![r] = "broadcasting"]
  /\ UNCHANGED <<fixed, prev, tries, store, alert, feed, webhook>>

InSave(r) == storeType = "redis" /\ pc[r] \in {"saving", "setting", "replying"}

(* The connection breaks and go-redis sends the pipeline again ...         *)
SaveRetry(r) ==
  /\ InSave(r)
  /\ tries[r] < MaxRetries
  /\ tries' = [tries EXCEPT ![r] = @ + 1]
  /\ pc' = [pc EXCEPT ![r] = "saving"]
  /\ UNCHANGED <<fixed, prev, store, alert, feed, webhook>>

(* ... or Save returns an error: the handler answers 500, the simulation   *)
(* ignores it.                                                             *)
SaveError(r) ==
  /\ InSave(r)
  /\ pc' = [pc EXCEPT ![r] = IF r \in Handlers THEN "failed" ELSE "broadcasting"]
  /\ UNCHANGED <<fixed, prev, tries, store, alert, feed, webhook>>

-----------------------------------------------------------------------------
(* hub.BroadcastHeartbeat, detector.Evaluate, dispatcher.Dispatch          *)

Broadcast(r) ==
  /\ pc[r] = "broadcasting"
  /\ feed' = Append(feed, [type |-> "heartbeat", of |-> r])
  /\ pc' = [pc EXCEPT ![r] = "evaluating"]
  /\ UNCHANGED <<fixed, prev, tries, store, alert, webhook>>

(* GetLatestByNode                                                         *)
Latest(n) == IF storeType = "memory" THEN MaxOrNone(stored[n]) ELSE latest[n]

Late(r, t) == t # None /\ ts[r] > t + Warning

Severity(gap) == IF gap > Critical THEN "critical" ELSE "warning"

(* No alert: nothing stored, the gap is small (or negative), or Redis did  *)
(* not answer.                                                             *)
EvaluateQuiet(r) ==
  /\ pc[r] = "evaluating"
  /\ ~Late(r, Latest(node[r])) \/ storeType = "redis"
  /\ pc' = [pc EXCEPT ![r] = "done"]
  /\ UNCHANGED <<fixed, prev, tries, store, alert, feed, webhook>>

EvaluateAlert(r) ==
  LET t == Latest(node[r]) IN
  /\ pc[r] = "evaluating"
  /\ Late(r, t)
  /\ alert' = [alert EXCEPT ![r] = [severity |-> Severity(ts[r] - t), since |-> t]]
  /\ pc' = [pc EXCEPT ![r] = "dispatching"]
  /\ UNCHANGED <<fixed, prev, tries, store, feed, webhook>>

(* The WebSocket broadcast, then a goroutine for the webhook.              *)
Dispatch(r) ==
  /\ pc[r] = "dispatching"
  /\ feed' = Append(feed, [type |-> "alert", of |-> r])
  /\ webhook' = [webhook EXCEPT ![r] = "posting"]
  /\ pc' = [pc EXCEPT ![r] = "done"]
  /\ UNCHANGED <<fixed, prev, tries, store, alert>>

(* One attempt; a timeout or a refused connection is only logged.          *)
Webhook(r) ==
  /\ webhook[r] = "posting"
  /\ \E outcome \in {"delivered", "lost"} :
       webhook' = [webhook EXCEPT ![r] = outcome]
  /\ UNCHANGED <<pc, fixed, prev, tries, store, alert, feed>>

-----------------------------------------------------------------------------
Save(r) == SaveMemory(r) \/ SaveZAdd(r) \/ SaveSet(r) \/ SaveReply(r)
             \/ SaveRetry(r) \/ SaveError(r)

Next == \E r \in Requests :
  \/ Start(r) \/ Refuse(r)
  \/ Save(r) \/ Broadcast(r)
  \/ EvaluateQuiet(r) \/ EvaluateAlert(r)
  \/ Dispatch(r) \/ Webhook(r)

Spec == Init /\ [][Next]_vars

-----------------------------------------------------------------------------
(* Properties                                                              *)

TypeOK ==
  /\ storeType \in {"memory", "redis"}
  /\ pc \in [Requests -> {"idle", "refused", "saving", "setting", "replying",
                          "failed", "broadcasting", "evaluating",
                          "dispatching", "done"}]
  /\ node \in [Requests -> Nodes]
  /\ ts \in [Requests -> Times]
  /\ tries \in [Requests -> 0..MaxRetries]
  /\ stored \in [Nodes -> SUBSET Times]
  /\ latest \in [Nodes -> Times \cup {None}]
  /\ alert \in [Requests -> [severity : {"warning", "critical", None},
                             since : Times \cup {None}]]
  /\ feed \in Seq([type : {"heartbeat", "alert"}, of : Requests])
  /\ webhook \in [Requests -> {"none", "posting", "delivered", "lost"}]
  /\ prev \in [Requests -> Times \cup {None}]
  /\ sets \in Nat
  /\ setNo \in [Requests -> Nat]

(* What an alert really says.  The handler saves before it evaluates, so   *)
(* an alert never compares a heartbeat with the one before it: it is only  *)
(* raised when an older heartbeat of the node overwrote the Redis key      *)
(* after this one did -- a late or overtaking request, not a silent node   *)
(* -- or when a tick of the simulation failed to write the key at all.     *)
AlertsAreOvertakings ==
  \A r \in Requests : alert[r].severity # None =>
    /\ setNo[r] = 0 => r \in Ticks
    /\ \E q \in Requests :
         /\ node[q] = node[r] /\ ts[q] = alert[r].since
         /\ ts[q] + Warning < ts[r]
         /\ setNo[q] > setNo[r]

(* With the default store no heartbeat ever raises an alert.               *)
MemoryNeverAlerts ==
  storeType = "memory" =>
    /\ \A r \in Requests : alert[r] = NoAlert
    /\ \A i \in 1..Len(feed) : feed[i].type = "heartbeat"

(* A dashboard that reloads loses nothing it saw live, except what the     *)
(* simulation broadcast without having saved it: a heartbeat in the feed   *)
(* that came by POST is in the store, whatever failed and was retried.     *)
SeenIsStored ==
  \A i \in 1..Len(feed) :
    LET r == feed[i].of IN r \in Handlers => ts[r] \in stored[node[r]]

(* The latest key never names a heartbeat that a range query cannot find,  *)
(* wherever a pipeline is cut.                                             *)
LatestIsStored ==
  \A n \in Nodes : latest[n] # None => latest[n] \in stored[n]

(* What dashboards and the detector were told of is in the store: after a  *)
(* failed, cut or repeated Save as well.                                   *)
ToldIsStored == SeenIsStored /\ LatestIsStored

(* In the feed an alert follows the heartbeat that raised it, and neither  *)
(* is repeated, however handlers interleave.                               *)
AlertFollowsHeartbeat ==
  \A j \in 1..Len(feed) :
    /\ feed[j].type = "alert" =>
         \E i \in 1..(j-1) : feed[i] = [type |-> "heartbeat", of |-> feed[j].of]
    /\ \A i \in 1..(j-1) : feed[i] # feed[j]

(* What the requirements ask (earthworm-improvements 7.2, 7.3): a          *)
(* heartbeat that comes more than the warning threshold after the node's   *)
(* last one raises an alert -- here on the default store, which never      *)
(* fails.                                                                  *)
SilenceRaisesAlert ==
  \A r \in Requests :
    storeType = "memory" /\ pc[r] = "done" /\ Late(r, prev[r])
      => alert[r].severity # None

=============================================================================

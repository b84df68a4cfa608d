--------------------------- MODULE Ingest_proofs ---------------------------
(***************************************************************************)
(* Proofs about Ingest, for any set of requests, ticks and nodes, any      *)
(* thresholds and either store.                                            *)
(***************************************************************************)
EXTENDS Ingest, SequenceTheorems, WellFoundedInduction, TLAPS

-----------------------------------------------------------------------------
(* The inductive invariant                                                 *)

Sent  == {"evaluating", "dispatching", "done"}  \* its heartbeat is in the feed
Saved == {"broadcasting"} \cup Sent             \* its call of Save is over

(* A heartbeat past Save is in the store, unless the simulation ignored an *)
(* error; one that is between ZADD and the reply is there already.         *)
StoredAt(r) ==
  /\ pc[r] \in Saved /\ (r \in Handlers \/ storeType = "memory")
       => ts[r] \in stored[node[r]]
  /\ pc[r] \in {"setting", "replying"}
       => storeType = "redis" /\ ts[r] \in stored[node[r]]

(* A request whose Save succeeded on Redis has a rank.                     *)
RankedAt(r) ==
  /\ setNo[r] <= sets
  /\ pc[r] = "replying" => setNo[r] > 0
  /\ pc[r] \in Saved /\ r \in Handlers /\ storeType = "redis" => setNo[r] > 0

(* Ranks differ, and the latest key holds the highest-ranked heartbeat.    *)
IsLatest(n, q) ==
  /\ node[q] = n /\ ts[q] = latest[n] /\ setNo[q] > 0
  /\ \A p \in Requests : node[p] = n => setNo[p] <= setNo[q]

RanksDiffer == \A p, q \in Requests : setNo[p] = setNo[q] /\ setNo[p] > 0 => p = q

LatestHasSource ==
  \A n \in Nodes : latest[n] # None => \E q \in Requests : IsLatest(n, q)

(* An alert is raised in the last steps only, and never on a MemoryStore.  *)
AlertAt(r) ==
  /\ pc[r] \notin {"dispatching", "done"} => alert[r] = NoAlert
  /\ storeType = "memory" => alert[r] = NoAlert /\ pc[r] # "dispatching"

(* The feed against the program counters.                                  *)
FeedAgrees ==
  /\ \A i \in 1..Len(feed) :
       /\ pc[feed[i].of] \in Sent
       /\ feed[i].type = "alert" => pc[feed[i].of] = "done" /\ storeType = "redis"
  /\ \A r \in Requests : pc[r] \in Sent =>
       \E i \in 1..Len(feed) : feed[i] = [type |-> "heartbeat", of |-> r]

IInv ==
  /\ TypeOK
  /\ \A r \in Requests : StoredAt(r) /\ RankedAt(r) /\ AlertAt(r)
  /\ RanksDiffer /\ LatestHasSource
  /\ LatestIsStored /\ AlertsAreOvertakings
  /\ FeedAgrees /\ AlertFollowsHeartbeat

-----------------------------------------------------------------------------
(* The newest of a set of timestamps                                       *)

USE IngestAssumption DEF Times

LEMMA LessThanIsWellFounded ==
  IsWellFoundedOn({ss \in Nat \X Nat : ss[1] < ss[2]}, Nat)
BY NatLessThanWellFounded DEF OpToRel

(* A non-empty set of timestamps has a biggest element.                    *)
LEMMA BiggestExists ==
  ASSUME NEW S \in SUBSET Times, S # {}
  PROVE  Biggest(S) \in S /\ \A y \in S : y <= Biggest(S)
<1> DEFINE Ages == {MaxTime - x : x \in S}
           Less == {ss \in Nat \X Nat : ss[1] < ss[2]}
<1>1. \A x \in S : MaxTime - x \in Nat
  OBVIOUS
<1>2. Ages \subseteq Nat /\ Ages # {}
  BY <1>1
<1>3. PICK a \in Ages : \A b \in Ages : ~(<<b, a>> \in Less)
  <2> HIDE DEF Ages, Less
  <2>1. IsWellFoundedOn(Less, Nat)
    BY LessThanIsWellFounded DEF Less
  <2> QED
    BY <1>2, <2>1, WFMin, Zenon
<1>4. \A b \in Ages : a <= b
  <2> TAKE b \in Ages
  <2>1. a \in Nat /\ b \in Nat
    BY <1>2
  <2>2. ~(b < a)
    BY <1>3, <2>1
  <2> QED
    BY <2>1, <2>2
<1>5. PICK x \in S : a = MaxTime - x
  BY <1>3
<1>6. \A y \in S : y <= x
  <2> TAKE y \in S
  <2>1. MaxTime - x <= MaxTime - y
    BY <1>4, <1>5
  <2>2. x \in Nat /\ y \in Nat /\ MaxTime \in Nat
    <3>1. x \in 0..MaxTime /\ y \in 0..MaxTime
      OBVIOUS
    <3> QED
      BY <3>1
  <2> HIDE IngestAssumption
  <2> HIDE DEF Times
  <2> QED
    BY <2>1, <2>2
<1> QED
  BY <1>6 DEF Biggest

LEMMA MaxOrNoneType ==
  ASSUME NEW S \in SUBSET Times
  PROVE  MaxOrNone(S) \in Times \cup {None}
BY BiggestExists DEF MaxOrNone

(* On a MemoryStore a heartbeat that is stored is not late.                *)
LEMMA StoredIsNotLate ==
  ASSUME TypeOK, NEW r \in Requests,
         storeType = "memory", ts[r] \in stored[node[r]]
  PROVE  ~Late(r, Latest(node[r]))
<1>1. stored[node[r]] \in SUBSET Times
  BY DEF TypeOK
<1> DEFINE b == Biggest(stored[node[r]])
<1>2. b \in Times /\ ts[r] <= b
  BY <1>1, BiggestExists
<1>3. Latest(node[r]) = b
  BY DEF Latest, MaxOrNone
<1>4. ts[r] \in Times
  BY DEF TypeOK
<1>5. ~(ts[r] > b + Warning)
  <2> HIDE DEF b
  <2> QED
    BY <1>2, <1>4
<1> QED
  BY <1>3, <1>5 DEF Late

-----------------------------------------------------------------------------
(* Type correctness                                                        *)

LEMMA InitIInv == Init => IInv
<1> SUFFICES ASSUME Init PROVE IInv
  OBVIOUS
<1>1. TypeOK
  BY DEF Init, TypeOK, NoAlert
<1>2. \A r \in Requests : StoredAt(r) /\ RankedAt(r) /\ AlertAt(r)
  BY DEF Init, StoredAt, RankedAt, AlertAt, Saved, Sent, NoAlert
<1>3. RanksDiffer /\ LatestHasSource /\ LatestIsStored
  BY DEF Init, RanksDiffer, LatestHasSource, LatestIsStored
<1>4. AlertsAreOvertakings
  BY DEF Init, AlertsAreOvertakings, NoAlert
<1>5. FeedAgrees /\ AlertFollowsHeartbeat
  BY DEF Init, FeedAgrees, AlertFollowsHeartbeat, Sent
<1> QED
  BY <1>1, <1>2, <1>3, <1>4, <1>5 DEF IInv

LEMMA TypeStep == TypeOK /\ [Next]_vars => TypeOK'
<1> SUFFICES ASSUME TypeOK, [Next]_vars
             PROVE  TypeOK'
  OBVIOUS
<1> USE DEF TypeOK, vars, store, redis, fixed
<1>1. ASSUME NEW r \in Requests, Start(r)
      PROVE  TypeOK'
  <2>1. Answered(node[r]) \in SUBSET Times
    BY DEF Answered
  <2>2. MaxOrNone(Answered(node[r])) \in Times \cup {None}
    BY <2>1, MaxOrNoneType
  <2> QED
    BY <1>1, <2>2 DEF Start
<1>2. ASSUME NEW r \in Requests, Refuse(r)
      PROVE  TypeOK'
  BY <1>2 DEF Refuse
<1>3. ASSUME NEW r \in Requests, SaveMemory(r)
      PROVE  TypeOK'
  BY <1>3 DEF SaveMemory
<1>4. ASSUME NEW r \in Requests, SaveZAdd(r)
      PROVE  TypeOK'
  BY <1>4 DEF SaveZAdd
<1>5. ASSUME NEW r \in Requests, SaveSet(r)
      PROVE  TypeOK'
  BY <1>5 DEF SaveSet
<1>6. ASSUME NEW r \in Requests, SaveReply(r)
      PROVE  TypeOK'
  BY <1>6 DEF SaveReply
<1>7. ASSUME NEW r \in Requests, SaveRetry(r)
      PROVE  TypeOK'
  BY <1>7 DEF SaveRetry
<1>8. ASSUME NEW r \in Requests, SaveError(r)
      PROVE  TypeOK'
  BY <1>8 DEF SaveError
<1>9. ASSUME NEW r \in Requests, Broadcast(r)
      PROVE  TypeOK'
  BY <1>9 DEF Broadcast
<1>10. ASSUME NEW r \in Requests, EvaluateQuiet(r)
       PROVE  TypeOK'
  BY <1>10 DEF EvaluateQuiet
<1>11. ASSUME NEW r \in Requests, EvaluateAlert(r)
       PROVE  TypeOK'
  <2>1. Latest(node[r]) \in Times \cup {None}
    BY MaxOrNoneType DEF Latest
  <2>2. Severity(ts[r] - Latest(node[r])) \in {"warning", "critical", None}
    BY DEF Severity
  <2> QED
    BY <1>11, <2>1, <2>2 DEF EvaluateAlert
<1>12. ASSUME NEW r \in Requests, Dispatch(r)
       PROVE  TypeOK'
  BY <1>12 DEF Dispatch
<1>13. ASSUME NEW r \in Requests, Webhook(r)
       PROVE  TypeOK'
  BY <1>13 DEF Webhook
<1> QED
  BY <1>1, <1>2, <1>3, <1>4, <1>5, <1>6, <1>7, <1>8, <1>9, <1>10, <1>11,
     <1>12, <1>13 DEF Next, Save

HIDE IngestAssumption DEF Times

-----------------------------------------------------------------------------
(* Inductiveness                                                           *)

Step(r) ==
  \/ Start(r) \/ Refuse(r)
  \/ Save(r) \/ Broadcast(r)
  \/ EvaluateQuiet(r) \/ EvaluateAlert(r)
  \/ Dispatch(r) \/ Webhook(r)

(* A step is one request's: it leaves the others where they are, changes   *)
(* no heartbeat and takes nothing out of the store.                        *)
LEMMA Frame ==
  ASSUME TypeOK, NEW r \in Requests, Step(r)
  PROVE  /\ UNCHANGED <<storeType, node, ts>>
         /\ \A q \in Requests \ {r} : /\ pc'[q] = pc[q]
                                      /\ setNo'[q] = setNo[q]
                                      /\ alert'[q] = alert[q]
         /\ \A n \in Nodes : stored[n] \subseteq stored'[n]
         /\ sets' \in Nat /\ sets <= sets'
<1> USE DEF TypeOK, store, redis, fixed
<1>1. UNCHANGED <<storeType, node, ts>>
  BY DEF Step, Save, Start, Refuse, SaveMemory, SaveZAdd, SaveSet, SaveReply,
         SaveRetry, SaveError, Broadcast, EvaluateQuiet, EvaluateAlert,
         Dispatch, Webhook
<1>2. \A q \in Requests \ {r} : pc'[q] = pc[q]
  BY DEF Step, Save, Start, Refuse, SaveMemory, SaveZAdd, SaveSet, SaveReply,
         SaveRetry, SaveError, Broadcast, EvaluateQuiet, EvaluateAlert,
         Dispatch, Webhook
<1>3. /\ \A q \in Requests \ {r} : setNo'[q] = setNo[q]
      /\ sets' \in Nat /\ sets <= sets'
  <2>1. CASE SaveSet(r)
    BY <2>1 DEF SaveSet
  <2>2. CASE ~SaveSet(r)
    BY <2>2 DEF Step, Save, Start, Refuse, SaveMemory, SaveZAdd, SaveReply,
         SaveRetry, SaveError, Broadcast, EvaluateQuiet, EvaluateAlert,
         Dispatch, Webhook
  <2> QED
    BY <2>1, <2>2
<1>4. \A q \in Requests \ {r} : alert'[q] = alert[q]
  BY DEF Step, Save, Start, Refuse, SaveMemory, SaveZAdd, SaveSet, SaveReply,
         SaveRetry, SaveError, Broadcast, EvaluateQuiet, EvaluateAlert,
         Dispatch, Webhook
<1>5. \A n \in Nodes : stored[n] \subseteq stored'[n]
  <2>1. CASE SaveMemory(r) \/ SaveZAdd(r)
    <3>1. stored' = [stored EXCEPT ![node[r]] = stored[node[r]] \cup {ts[r]}]
      BY <2>1 DEF SaveMemory, SaveZAdd
    <3>2. stored \in [Nodes -> SUBSET Times]
      OBVIOUS
    <3>3. \A n \in Nodes : stored'[n] = stored[n] \cup {ts[r]} \/ stored'[n] = stored[n]
      BY <3>1, <3>2
    <3> QED
      BY <3>3
  <2>2. CASE ~(SaveMemory(r) \/ SaveZAdd(r))
    <3>1. stored' = stored
      BY <2>2 DEF Step, Save, Start, Refuse, SaveSet, SaveReply, SaveRetry,
         SaveError, Broadcast, EvaluateQuiet, EvaluateAlert, Dispatch, Webhook
    <3> QED
      BY <3>1
  <2> QED
    BY <2>1, <2>2
<1> QED
  BY <1>1, <1>2, <1>3, <1>4, <1>5

LEMMA StoredStep ==
  ASSUME IInv, NEW r \in Requests, Step(r)
  PROVE  (\A q \in Requests : StoredAt(q)') /\ LatestIsStored'
<1>1. TypeOK
  BY DEF IInv
<1>2. StoredAt(r)'
  <2> USE <1>1 DEF TypeOK, store, redis, fixed, IInv, StoredAt, Saved, Sent
  <2>1. CASE Start(r) \/ Refuse(r) \/ Webhook(r)
    BY <2>1 DEF Start, Refuse, Webhook
  <2>2. CASE SaveMemory(r) \/ SaveZAdd(r)
    BY <2>2 DEF SaveMemory, SaveZAdd
  <2>3. CASE SaveSet(r) \/ SaveReply(r)
    BY <2>3 DEF SaveSet, SaveReply
  <2>4. CASE SaveRetry(r) \/ SaveError(r)
    BY <2>4 DEF SaveRetry, SaveError, InSave
  <2>5. CASE Broadcast(r) \/ Dispatch(r)
    BY <2>5 DEF Broadcast, Dispatch
  <2>6. CASE EvaluateQuiet(r) \/ EvaluateAlert(r)
    BY <2>6 DEF EvaluateQuiet, EvaluateAlert
  <2> QED
    BY <2>1, <2>2, <2>3, <2>4, <2>5, <2>6 DEF Step, Save
<1>3. \A q \in Requests \ {r} : StoredAt(q)'
  BY <1>1, Frame DEF IInv, StoredAt, TypeOK
<1>4. LatestIsStored'
  <2>1. CASE SaveSet(r)
    BY <1>1, <2>1 DEF SaveSet, LatestIsStored, IInv, StoredAt, TypeOK
  <2>2. CASE ~SaveSet(r)
    <3>1. latest' = latest
      BY <2>2 DEF Step, Save, Start, Refuse, SaveMemory, SaveZAdd, SaveReply,
         SaveRetry, SaveError, Broadcast, EvaluateQuiet, EvaluateAlert,
         Dispatch, Webhook, store, redis
    <3> QED
      BY <1>1, <3>1, Frame DEF LatestIsStored, IInv
  <2> QED
    BY <2>1, <2>2
<1> QED
  BY <1>2, <1>3, <1>4

LEMMA RankStep ==
  ASSUME IInv, NEW r \in Requests, Step(r)
  PROVE  (\A q \in Requests : RankedAt(q)') /\ RanksDiffer' /\ LatestHasSource'
<1>1. TypeOK
  BY DEF IInv
<1>2. \A q \in Requests \ {r} : RankedAt(q)'
  <2> TAKE q \in Requests \ {r}
  <2>1. RankedAt(q) /\ setNo[q] \in Nat /\ sets \in Nat
    BY <1>1 DEF IInv, TypeOK
  <2> QED
    BY <1>1, <2>1, Frame DEF RankedAt
<1>3. CASE SaveSet(r)
  <2>1. /\ setNo'[r] = sets + 1 /\ sets' = sets + 1
        /\ pc'[r] = "replying"
        /\ latest'[node[r]] = ts[r]
        /\ \A n \in Nodes \ {node[r]} : latest'[n] = latest[n]
        /\ UNCHANGED <<storeType, node, ts>>
    BY <1>1, <1>3 DEF SaveSet, fixed, TypeOK
  <2>2. \A q \in Requests \ {r} : setNo'[q] = setNo[q] /\ setNo[q] <= sets
    BY <1>1, Frame DEF IInv, RankedAt
  <2>3. sets \in Nat /\ \A q \in Requests : setNo[q] \in Nat
    BY <1>1 DEF TypeOK
  <2>4. RankedAt(r)'
    BY <2>1, <2>3 DEF RankedAt, Saved, Sent
  <2>5. \A q \in Requests \ {r} : setNo'[q] \in Nat /\ setNo'[q] < setNo'[r]
    BY <2>1, <2>2, <2>3
  <2>6. RanksDiffer'
    <3>1. RanksDiffer
      BY DEF IInv
    <3> SUFFICES ASSUME NEW p \in Requests, NEW q \in Requests,
                        setNo'[p] = setNo'[q], setNo'[p] > 0
                 PROVE  p = q
      BY DEF RanksDiffer
    <3>2. setNo'[r] \in Nat
      BY <2>1, <2>3
    <3>3. CASE p # r /\ q # r
      BY <2>2, <3>1, <3>3 DEF RanksDiffer
    <3>4. CASE p = r \/ q = r
      BY <2>5, <3>2, <3>4
    <3> QED
      BY <3>3, <3>4
  <2>7. ASSUME NEW n \in Nodes, latest'[n] # None
        PROVE  \E q \in Requests : IsLatest(n, q)'
    <3>1. CASE n = node[r]
      <4>1. node'[r] = n /\ ts'[r] = latest'[n]
        BY <2>1, <3>1
      <4>2. \A p \in Requests : setNo'[p] <= setNo'[r]
        BY <2>1, <2>3, <2>5
      <4>3. setNo'[r] > 0
        BY <2>1, <2>3
      <4> QED
        BY <4>1, <4>2, <4>3 DEF IsLatest
    <3>2. CASE n # node[r]
      <4>1. PICK q \in Requests : IsLatest(n, q)
        BY <2>1, <2>7, <3>2 DEF IInv, LatestHasSource
      <4>2. q # r /\ \A p \in Requests : node[p] = n => p # r
        BY <3>2, <4>1 DEF IsLatest
      <4>3. node'[q] = n /\ ts'[q] = latest'[n] /\ setNo'[q] > 0
        BY <2>1, <2>2, <3>2, <4>1, <4>2 DEF IsLatest
      <4>4. \A p \in Requests : node'[p] = n => setNo'[p] <= setNo'[q]
        BY <2>1, <2>2, <4>1, <4>2 DEF IsLatest
      <4> QED
        BY <4>3, <4>4 DEF IsLatest
    <3> QED
      BY <3>1, <3>2
  <2>8. LatestHasSource'
    BY <2>7 DEF LatestHasSource
  <2> QED
    BY <1>2, <2>4, <2>6, <2>8
<1>4. CASE ~SaveSet(r)
  <2>1. UNCHANGED <<latest, sets, setNo, storeType, node, ts>>
    BY <1>4 DEF Step, Save, Start, Refuse, SaveMemory, SaveZAdd, SaveReply,
       SaveRetry, SaveError, Broadcast, EvaluateQuiet, EvaluateAlert,
       Dispatch, Webhook, store, redis, fixed
  <2>2. RankedAt(r)'
    <3> USE <1>1, <2>1 DEF TypeOK, IInv, RankedAt, Saved, Sent
    <3>1. CASE Start(r) \/ Refuse(r) \/ Webhook(r)
      BY <3>1 DEF Start, Refuse, Webhook
    <3>2. CASE SaveMemory(r) \/ SaveZAdd(r)
      BY <3>2 DEF SaveMemory, SaveZAdd
    <3>3. CASE SaveReply(r)
      BY <3>3 DEF SaveReply
    <3>4. CASE SaveRetry(r) \/ SaveError(r)
      BY <3>4 DEF SaveRetry, SaveError
    <3>5. CASE Broadcast(r) \/ Dispatch(r)
      BY <3>5 DEF Broadcast, Dispatch
    <3>6. CASE EvaluateQuiet(r) \/ EvaluateAlert(r)
      BY <3>6 DEF EvaluateQuiet, EvaluateAlert
    <3> QED
      BY <1>4, <3>1, <3>2, <3>3, <3>4, <3>5, <3>6 DEF Step, Save
  <2>3. RanksDiffer' /\ LatestHasSource'
    BY <2>1 DEF IInv, RanksDiffer, LatestHasSource, IsLatest
  <2> QED
    BY <1>2, <2>2, <2>3
<1> QED
  BY <1>3, <1>4

LEMMA AlertStep ==
  ASSUME IInv, NEW r \in Requests, Step(r)
  PROVE  (\A q \in Requests : AlertAt(q)') /\ AlertsAreOvertakings'
<1>1. TypeOK
  BY DEF IInv
<1>2. \A q \in Requests \ {r} : AlertAt(q)'
  BY <1>1, Frame DEF IInv, AlertAt, NoAlert
<1>3. CASE EvaluateAlert(r)
  <2> DEFINE t == Latest(node[r])
  <2>1. /\ pc[r] = "evaluating" /\ pc'[r] = "dispatching"
        /\ t # None /\ ts[r] > t + Warning
        /\ alert'[r].since = t
        /\ UNCHANGED <<storeType, node, ts, setNo>>
    BY <1>1, <1>3 DEF EvaluateAlert, Late, TypeOK, store, redis, fixed
  <2>2. storeType = "redis"
    <3> SUFFICES ASSUME storeType = "memory" PROVE FALSE
      BY <1>1 DEF TypeOK
    <3>1. ts[r] \in stored[node[r]]
      BY <2>1 DEF IInv, StoredAt, Saved, Sent
    <3>2. ~Late(r, t)
      BY <1>1, <3>1, StoredIsNotLate
    <3> QED
      BY <2>1, <3>2 DEF Late
  <2>3. node[r] \in Nodes /\ t = latest[node[r]]
    BY <1>1, <2>2 DEF Latest, TypeOK
  <2>4. PICK q \in Requests : IsLatest(node[r], q)
    BY <2>1, <2>3 DEF IInv, LatestHasSource
  <2>5. ts[q] = t /\ ts[q] \in Nat /\ ts[r] \in Nat /\ Warning \in Nat
    BY <1>1, <2>3, <2>4, IngestAssumption DEF IsLatest, TypeOK, Times
  <2>6. ts[q] + Warning < ts[r] /\ q # r
    BY <2>1, <2>5
  <2>7. setNo[r] = 0 => r \in Ticks
    <3>1. r \in Handlers => setNo[r] > 0
      BY <2>1, <2>2 DEF IInv, RankedAt, Saved, Sent
    <3> QED
      BY <3>1 DEF Requests
  <2>8. setNo[q] > setNo[r]
    <3>1. setNo[q] \in Nat /\ setNo[r] \in Nat
      BY <1>1 DEF TypeOK
    <3>2. setNo[r] <= setNo[q]
      BY <2>4 DEF IsLatest
    <3>3. ~(setNo[r] = setNo[q] /\ setNo[r] > 0)
      BY <2>6 DEF IInv, RanksDiffer
    <3>4. setNo[q] > 0
      BY <2>4 DEF IsLatest
    <3> QED
      BY <3>1, <3>2, <3>3, <3>4
  <2>9. /\ setNo'[r] = 0 => r \in Ticks
        /\ \E p \in Requests :
             /\ node'[p] = node'[r] /\ ts'[p] = alert'[r].since
             /\ ts'[p] + Warning < ts'[r]
             /\ setNo'[p] > setNo'[r]
    BY <2>1, <2>4, <2>5, <2>6, <2>7, <2>8 DEF IsLatest
  <2>10. AlertsAreOvertakings'
    BY <1>1, <2>1, <2>9, Frame DEF IInv, AlertsAreOvertakings
  <2>11. AlertAt(r)'
    BY <2>1, <2>2 DEF AlertAt
  <2> QED
    BY <1>2, <2>10, <2>11
<1>4. CASE ~EvaluateAlert(r)
  <2>1. alert' = alert /\ UNCHANGED <<storeType, node, ts>>
    BY <1>4 DEF Step, Save, Start, Refuse, SaveMemory, SaveZAdd, SaveSet,
       SaveReply, SaveRetry, SaveError, Broadcast, EvaluateQuiet, Dispatch,
       Webhook, fixed
  <2>2. AlertAt(r)'
    <3> USE <1>1, <2>1 DEF TypeOK, IInv, AlertAt, NoAlert
    <3>1. CASE Start(r) \/ Refuse(r) \/ Webhook(r)
      BY <3>1 DEF Start, Refuse, Webhook
    <3>2. CASE SaveMemory(r) \/ SaveZAdd(r)
      BY <3>2 DEF SaveMemory, SaveZAdd
    <3>3. CASE SaveSet(r) \/ SaveReply(r)
      BY <3>3 DEF SaveSet, SaveReply
    <3>4. CASE SaveRetry(r) \/ SaveError(r)
      BY <3>4 DEF SaveRetry, SaveError, InSave
    <3>5. CASE Broadcast(r) \/ Dispatch(r)
      BY <3>5 DEF Broadcast, Dispatch
    <3>6. CASE EvaluateQuiet(r)
      BY <3>6 DEF EvaluateQuiet
    <3> QED
      BY <1>4, <3>1, <3>2, <3>3, <3>4, <3>5, <3>6 DEF Step, Save
  <2>3. AlertsAreOvertakings'
    <3>1. CASE SaveSet(r)
      <4>1. alert[r] = NoAlert
        BY <3>1 DEF SaveSet, IInv, AlertAt
      <4>2. setNo'[r] = sets + 1 /\ \A q \in Requests : setNo[q] <= sets
        BY <1>1, <3>1 DEF SaveSet, IInv, RankedAt, TypeOK
      <4>3. \A q \in Requests : setNo[q] \in Nat /\ sets \in Nat
        BY <1>1 DEF TypeOK
      <4>4. \A q \in Requests \ {r} : setNo'[q] = setNo[q]
        BY <1>1, Frame
      <4>5. \A q \in Requests : setNo[q] <= setNo'[q] /\ setNo'[q] \in Nat
        BY <4>2, <4>3, <4>4
      <4> SUFFICES ASSUME NEW p \in Requests, alert[p].severity # None
                   PROVE  /\ setNo'[p] = 0 => p \in Ticks
                          /\ \E q \in Requests :
                               /\ node[q] = node[p] /\ ts[q] = alert[p].since
                               /\ ts[q] + Warning < ts[p]
                               /\ setNo'[q] > setNo'[p]
        BY <2>1 DEF AlertsAreOvertakings
      <4>6. p # r
        BY <4>1 DEF NoAlert
      <4>7. setNo'[p] = setNo[p]
        BY <4>4, <4>6
      <4>8. PICK q \in Requests :
              /\ node[q] = node[p] /\ ts[q] = alert[p].since
              /\ ts[q] + Warning < ts[p]
              /\ setNo[q] > setNo[p]
        BY DEF IInv, AlertsAreOvertakings
      <4>9. setNo'[q] > setNo'[p]
        BY <4>3, <4>5, <4>7, <4>8
      <4>10. setNo'[p] = 0 => p \in Ticks
        BY <4>7 DEF IInv, AlertsAreOvertakings
      <4> QED
        BY <4>8, <4>9, <4>10
    <3>2. CASE ~SaveSet(r)
      <4>1. setNo' = setNo
        BY <3>2 DEF Step, Save, Start, Refuse, SaveMemory, SaveZAdd,
           SaveReply, SaveRetry, SaveError, Broadcast, EvaluateQuiet,
           EvaluateAlert, Dispatch, Webhook, store, redis
      <4> QED
        BY <2>1, <4>1 DEF IInv, AlertsAreOvertakings
    <3> QED
      BY <3>1, <3>2
  <2> QED
    BY <1>2, <2>2, <2>3
<1> QED
  BY <1>3, <1>4

LEMMA FeedStep ==
  ASSUME IInv, NEW r \in Requests, Step(r)
  PROVE  FeedAgrees' /\ AlertFollowsHeartbeat'
<1> DEFINE Beat(q) == [type |-> "heartbeat", of |-> q]
           Alarm(q) == [type |-> "alert", of |-> q]
<1>1. /\ TypeOK
      /\ feed \in Seq([type : {"heartbeat", "alert"}, of : Requests])
      /\ Len(feed) \in Nat
      /\ pc \in [Requests -> {"idle", "refused", "saving", "setting",
                              "replying", "failed", "broadcasting",
                              "evaluating", "dispatching", "done"}]
  BY LenProperties DEF IInv, TypeOK
<1>2. \A i \in 1..Len(feed) :
        /\ feed[i] \in [type : {"heartbeat", "alert"}, of : Requests]
        /\ feed[i].of \in Requests
        /\ pc[feed[i].of] \in Sent
        /\ feed[i].type = "alert" => pc[feed[i].of] = "done" /\ storeType = "redis"
  <2>1. \A i \in 1..Len(feed) : feed[i] \in [type : {"heartbeat", "alert"}, of : Requests]
    BY <1>1, ElementOfSeq
  <2>2. \A i \in 1..Len(feed) : feed[i].of \in Requests
    BY <2>1
  <2> QED
    BY <2>1, <2>2 DEF IInv, FeedAgrees
<1>3. \A q \in Requests : pc[q] \in Sent =>
        \E i \in 1..Len(feed) : feed[i] = Beat(q)
  BY DEF IInv, FeedAgrees
<1>4. storeType' = storeType /\ \A q \in Requests \ {r} : pc'[q] = pc[q]
  BY <1>1, Frame
<1>5. CASE Broadcast(r)
  <2>1. /\ pc[r] = "broadcasting" /\ pc'[r] = "evaluating"
        /\ feed' = Append(feed, Beat(r))
    BY <1>1, <1>5 DEF Broadcast
  <2>2. /\ Len(feed') = Len(feed) + 1
        /\ feed'[Len(feed) + 1] = Beat(r)
        /\ \A i \in 1..Len(feed) : feed'[i] = feed[i]
    BY <1>1, <2>1, AppendProperties
  <2>3. \A i \in 1..Len(feed) : feed[i].of # r
    BY <1>2, <2>1 DEF Sent
  <2>4. FeedAgrees'
    <3>1. ASSUME NEW i \in 1..Len(feed')
          PROVE  /\ pc'[feed'[i].of] \in Sent
                 /\ feed'[i].type = "alert"
                      => pc'[feed'[i].of] = "done" /\ storeType = "redis"
      <4>1. CASE i = Len(feed) + 1
        BY <2>1, <2>2, <4>1 DEF Sent
      <4>2. CASE i \in 1..Len(feed)
        BY <1>2, <1>4, <2>2, <2>3, <4>2
      <4>3. Len(feed) \in Nat
        BY <1>1, LenProperties
      <4>4. i \in 1..Len(feed) \/ i = Len(feed) + 1
        BY <2>2, <3>1, <4>3
      <4> QED
        BY <4>1, <4>2, <4>4
    <3>2. ASSUME NEW q \in Requests, pc'[q] \in Sent
          PROVE  \E i \in 1..Len(feed') : feed'[i] = Beat(q)
      <4>1. CASE q = r
        BY <1>1, <2>2, <4>1
      <4>2. CASE q # r
        <5>1. PICK i \in 1..Len(feed) : feed[i] = Beat(q)
          BY <1>3, <1>4, <3>2, <4>2
        <5>2. i \in 1..Len(feed') /\ feed'[i] = Beat(q)
          BY <1>1, <2>2, <5>1
        <5> QED
          BY <5>2
      <4> QED
        BY <4>1, <4>2
    <3> QED
      BY <1>4, <3>1, <3>2 DEF FeedAgrees
  <2>5. AlertFollowsHeartbeat'
    <3> SUFFICES ASSUME NEW j \in 1..Len(feed')
                 PROVE  /\ feed'[j].type = "alert" =>
                             \E i \in 1..(j-1) : feed'[i] = Beat(feed'[j].of)
                        /\ \A i \in 1..(j-1) : feed'[i] # feed'[j]
      BY DEF AlertFollowsHeartbeat
    <3>1. CASE j = Len(feed) + 1
      <4>1. \A i \in 1..(j-1) : feed'[i].of # r
        BY <1>1, <2>2, <2>3, <3>1
      <4> QED
        BY <2>2, <3>1, <4>1
    <3>2. CASE j \in 1..Len(feed)
      <4>1. \A i \in 1..(j-1) : i \in 1..Len(feed) /\ feed'[i] = feed[i]
        BY <1>1, <2>2, <3>2
      <4>2. feed'[j] = feed[j]
        BY <2>2, <3>2
      <4>3. /\ feed[j].type = "alert" =>
                 \E i \in 1..(j-1) : feed[i] = Beat(feed[j].of)
            /\ \A i \in 1..(j-1) : feed[i] # feed[j]
        BY <3>2 DEF IInv, AlertFollowsHeartbeat
      <4> QED
        BY <4>1, <4>2, <4>3
    <3> QED
      BY <1>1, <2>2, <3>1, <3>2
  <2> QED
    BY <2>4, <2>5
<1>6. CASE Dispatch(r)
  <2>1. /\ pc[r] = "dispatching" /\ pc'[r] = "done"
        /\ feed' = Append(feed, Alarm(r))
    BY <1>1, <1>6 DEF Dispatch
  <2>2. /\ Len(feed') = Len(feed) + 1
        /\ feed'[Len(feed) + 1] = Alarm(r)
        /\ \A i \in 1..Len(feed) : feed'[i] = feed[i]
    BY <1>1, <2>1, AppendProperties
  <2>3. storeType = "redis"
    BY <1>1, <2>1 DEF IInv, AlertAt, TypeOK
  <2>4. \A i \in 1..Len(feed) : feed[i] # Alarm(r)
    BY <1>2, <2>1
  <2>5. PICK b \in 1..Len(feed) : feed[b] = Beat(r)
    BY <1>3, <2>1 DEF Sent
  <2>6. FeedAgrees'
    <3>1. ASSUME NEW i \in 1..Len(feed')
          PROVE  /\ pc'[feed'[i].of] \in Sent
                 /\ feed'[i].type = "alert"
                      => pc'[feed'[i].of] = "done" /\ storeType = "redis"
      <4>1. CASE i = Len(feed) + 1
        BY <2>1, <2>2, <2>3, <4>1 DEF Sent
      <4>2. CASE i \in 1..Len(feed)
        BY <1>2, <1>4, <2>1, <2>2, <4>2 DEF Sent
      <4>3. Len(feed) \in Nat
        BY <1>1, LenProperties
      <4>4. i \in 1..Len(feed) \/ i = Len(feed) + 1
        BY <2>2, <3>1, <4>3
      <4> QED
        BY <4>1, <4>2, <4>4
    <3>2. ASSUME NEW q \in Requests, pc'[q] \in Sent
          PROVE  \E i \in 1..Len(feed') : feed'[i] = Beat(q)
      <4>1. pc[q] \in Sent
        BY <1>4, <2>1, <3>2 DEF Sent
      <4>2. PICK i \in 1..Len(feed) : feed[i] = Beat(q)
        BY <1>3, <4>1
      <4>3. i \in 1..Len(feed') /\ feed'[i] = Beat(q)
        BY <1>1, <2>2, <4>2
      <4> QED
        BY <4>3
    <3> QED
      BY <1>4, <3>1, <3>2 DEF FeedAgrees
  <2>7. AlertFollowsHeartbeat'
    <3> SUFFICES ASSUME NEW j \in 1..Len(feed')
                 PROVE  /\ feed'[j].type = "alert" =>
                             \E i \in 1..(j-1) : feed'[i] = Beat(feed'[j].of)
                        /\ \A i \in 1..(j-1) : feed'[i] # feed'[j]
      BY DEF AlertFollowsHeartbeat
    <3>1. CASE j = Len(feed) + 1
      <4>1. b \in 1..(j-1) /\ feed'[b] = Beat(feed'[j].of)
        BY <1>1, <2>2, <2>5, <3>1
      <4>2. \A i \in 1..(j-1) : feed'[i] # feed'[j]
        BY <1>1, <2>2, <2>4, <3>1
      <4> QED
        BY <4>1, <4>2
    <3>2. CASE j \in 1..Len(feed)
      <4>1. \A i \in 1..(j-1) : i \in 1..Len(feed) /\ feed'[i] = feed[i]
        BY <1>1, <2>2, <3>2
      <4>2. feed'[j] = feed[j]
        BY <2>2, <3>2
      <4>3. /\ feed[j].type = "alert" =>
                 \E i \in 1..(j-1) : feed[i] = Beat(feed[j].of)
            /\ \A i \in 1..(j-1) : feed[i] # feed[j]
        BY <3>2 DEF IInv, AlertFollowsHeartbeat
      <4> QED
        BY <4>1, <4>2, <4>3
    <3> QED
      BY <1>1, <2>2, <3>1, <3>2
  <2> QED
    BY <2>6, <2>7
<1>7. CASE ~(Broadcast(r) \/ Dispatch(r))
  <2>1. feed' = feed
    BY <1>7 DEF Step, Save, Start, Refuse, SaveMemory, SaveZAdd, SaveSet,
       SaveReply, SaveRetry, SaveError, EvaluateQuiet, EvaluateAlert, Webhook
  <2>2. /\ pc'[r] \in Sent <=> pc[r] \in Sent
        /\ pc[r] = "done" => pc'[r] = "done"
    <3>1. CASE Start(r) \/ Refuse(r) \/ Webhook(r)
      BY <1>1, <3>1 DEF Start, Refuse, Webhook, Sent
    <3>2. CASE SaveMemory(r) \/ SaveZAdd(r) \/ SaveSet(r) \/ SaveReply(r)
      BY <1>1, <3>2 DEF SaveMemory, SaveZAdd, SaveSet, SaveReply, Sent
    <3>3. CASE SaveRetry(r) \/ SaveError(r)
      BY <1>1, <3>3 DEF SaveRetry, SaveError, InSave, Sent
    <3>4. CASE EvaluateQuiet(r) \/ EvaluateAlert(r)
      BY <1>1, <3>4 DEF EvaluateQuiet, EvaluateAlert, Sent
    <3> QED
      BY <1>7, <3>1, <3>2, <3>3, <3>4 DEF Step, Save
  <2>3. \A q \in Requests : /\ pc'[q] \in Sent <=> pc[q] \in Sent
                            /\ pc[q] = "done" => pc'[q] = "done"
    BY <1>4, <2>2
  <2>4. FeedAgrees'
    BY <1>2, <1>3, <1>4, <2>1, <2>3 DEF FeedAgrees
  <2>5. AlertFollowsHeartbeat'
    BY <2>1 DEF AlertFollowsHeartbeat, IInv
  <2> QED
    BY <2>4, <2>5
<1> QED
  BY <1>5, <1>6, <1>7

-----------------------------------------------------------------------------
(* Theorems                                                                *)

(* Every reachable state satisfies the inductive invariant.                *)
THEOREM Inductive == Spec => []IInv
<1>1. IInv /\ [Next]_vars => IInv'
  <2> SUFFICES ASSUME IInv, [Next]_vars
               PROVE  IInv'
    OBVIOUS
  <2>1. TypeOK'
    BY TypeStep DEF IInv
  <2>2. CASE Next
    <3>1. PICK r \in Requests : Step(r)
      BY <2>2 DEF Next, Step
    <3> QED
      BY <2>1, <3>1, StoredStep, RankStep, AlertStep, FeedStep DEF IInv
  <2>3. CASE UNCHANGED vars
    BY <2>3 DEF vars, store, redis, fixed, IInv, TypeOK, StoredAt, RankedAt,
       AlertAt, RanksDiffer, LatestHasSource, IsLatest, LatestIsStored,
       AlertsAreOvertakings, FeedAgrees, AlertFollowsHeartbeat
  <2> QED
    BY <2>2, <2>3
<1> QED
  BY <1>1, InitIInv, PTL DEF Spec

(* Every variable of the ingest path stays in its range.                   *)
THEOREM TypeCorrect == Spec => []TypeOK
<1>1. IInv => TypeOK
  BY DEF IInv
<1> QED
  BY <1>1, Inductive, PTL

(* An alert is only ever raised against an older heartbeat that overwrote  *)
(* the node's latest key after the alerting one (or instead of a tick's).  *)
THEOREM OnlyOvertakingsAlert == Spec => []AlertsAreOvertakings
<1>1. IInv => AlertsAreOvertakings
  BY DEF IInv
<1> QED
  BY <1>1, Inductive, PTL

(* On a MemoryStore no heartbeat raises an alert and none is broadcast.    *)
THEOREM MemoryStoreNeverAlerts == Spec => []MemoryNeverAlerts
<1>1. IInv => MemoryNeverAlerts
  <2> SUFFICES ASSUME IInv, storeType = "memory"
               PROVE  /\ \A r \in Requests : alert[r] = NoAlert
                      /\ \A i \in 1..Len(feed) : feed[i].type = "heartbeat"
    BY DEF MemoryNeverAlerts
  <2>1. \A r \in Requests : alert[r] = NoAlert
    BY DEF IInv, AlertAt
  <2>2. \A i \in 1..Len(feed) : feed[i] \in [type : {"heartbeat", "alert"}, of : Requests]
    BY ElementOfSeq DEF IInv, TypeOK
  <2>3. \A i \in 1..Len(feed) : feed[i].type # "alert"
    BY DEF IInv, FeedAgrees
  <2> QED
    BY <2>1, <2>2, <2>3
<1> QED
  BY <1>1, Inductive, PTL

(* A posted heartbeat that was broadcast is in the store.                  *)
THEOREM BroadcastIsStored == Spec => []SeenIsStored
<1>1. IInv => SeenIsStored
  <2> SUFFICES ASSUME IInv, NEW i \in 1..Len(feed), feed[i].of \in Handlers
               PROVE  ts[feed[i].of] \in stored[node[feed[i].of]]
    BY DEF SeenIsStored
  <2>1. pc[feed[i].of] \in Saved /\ feed[i].of \in Requests
    BY DEF IInv, FeedAgrees, Saved, Requests
  <2> QED
    BY <2>1 DEF IInv, StoredAt
<1> QED
  BY <1>1, Inductive, PTL

(* The latest key never points past what a range query returns.            *)
THEOREM LatestKeyIsStored == Spec => []LatestIsStored
<1>1. IInv => LatestIsStored
  BY DEF IInv
<1> QED
  BY <1>1, Inductive, PTL

(* So the store has what dashboards and the detector were told of.         *)
THEOREM ToldIsInStore == Spec => []ToldIsStored
BY BroadcastIsStored, LatestKeyIsStored, PTL DEF ToldIsStored

(* In the feed an alert comes after its fixed, and each comes once.    *)
THEOREM FeedIsOrdered == Spec => []AlertFollowsHeartbeat
<1>1. IInv => AlertFollowsHeartbeat
  BY DEF IInv
<1> QED
  BY <1>1, Inductive, PTL

=============================================================================

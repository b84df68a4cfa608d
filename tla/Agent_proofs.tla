---------------------------- MODULE Agent_proofs ----------------------------
(***************************************************************************)
(* Proofs about Agent, for any events, workers, channel capacity and batch *)
(* size, whatever fails, times out or is cut off.                          *)
(***************************************************************************)
EXTENDS Agent, FiniteSetTheorems, SequenceTheorems, TLAPS

-----------------------------------------------------------------------------
(* The inductive invariant                                                 *)

(* The forwarder collects while there is room, and stops with nothing in   *)
(* hand; only a post in progress has arrived; main leaves gracefully only  *)
(* after the forwarder has stopped.                                        *)
Control ==
  /\ arrived # 0 => Posting
  /\ forwarder = "select" => Len(batch) < BatchSize
  /\ forwarder = "stopped" => batch = <<>>
  /\ graceful => forwarder = "stopped" /\ main = "exited"
  /\ main = "exited" => ~loaded

(* An event enters the channel during its one call.                        *)
Returned == {e \in Events : call[e] = "returned"}

Counted ==
  /\ IsFiniteSet(Returned)
  /\ Cardinality(Returned) = droppedCnt + Len(accepted)
  /\ \A i \in 1..Len(accepted) : call[accepted[i]] = "returned"
  /\ \A i, j \in 1..Len(accepted) : accepted[i] = accepted[j] => i = j

(* What the server was sent are events of finished posts, and the batch    *)
(* once it arrived, of which it has the rest in that request.              *)
Sent == Range(finished) \cup (IF arrived # 0 THEN Range(batch) ELSE {})

Sources ==
  /\ Range(saved) \subseteq Sent /\ Range(unsaved) \subseteq Sent
  /\ \A k \in DOMAIN requests :
       Range(requests[k]) \subseteq (IF k = arrived THEN Range(batch) ELSE Range(finished))
  /\ \A b \in late : Range(b) \subseteq Range(finished) \cap givenUp

(* An event is in one place, on the wire or at the server, or in none.     *)
Apart ==
  /\ Range(saved) \cap Range(unsaved) = {}
  /\ \A k \in DOMAIN requests :
       Range(requests[k]) \cap (Range(saved) \cup Range(unsaved)) = {}
  /\ \A k, l \in DOMAIN requests :
       k # l => Range(requests[k]) \cap Range(requests[l]) = {}
  /\ \A b \in late : Range(b) \cap (Range(saved) \cup Range(unsaved)) = {}
  /\ \A b \in late, k \in DOMAIN requests : Range(b) \cap Range(requests[k]) = {}
  /\ \A b, c \in late : b # c => Range(b) \cap Range(c) = {}
  /\ \A i, j \in 1..Len(saved) : saved[i] = saved[j] => i = j

(* The order of the channel.                                               *)
Precedes(e, f) ==
  \E i, j \in 1..Len(accepted) : i < j /\ accepted[i] = e /\ accepted[j] = f

Ascending(s) == \A i, j \in 1..Len(s) : i < j => Precedes(s[i], s[j])

(* f may be stored after e.                                                *)
Timely(e, f) == Precedes(e, f) \/ f \in givenUp

(* A request holds its events in that order, on the wire and at the        *)
(* server.  The one whose answer the agent waits for follows what is       *)
(* stored; whatever is left of another was given up on.                    *)
InOrder ==
  /\ \A k \in DOMAIN requests : Ascending(requests[k])
  /\ \A b \in late : Ascending(b)
  /\ \A i, j \in 1..Len(saved) : i < j => Timely(saved[i], saved[j])
  /\ \A k \in DOMAIN requests : k = arrived \/ Range(requests[k]) \subseteq givenUp
  /\ \A k \in DOMAIN requests :
       \A e \in Range(saved), f \in Range(requests[k]) : Timely(e, f)

IInv == TypeOK /\ Control /\ Counted /\ NothingVanishes /\ Sources /\ Apart /\ InOrder

-----------------------------------------------------------------------------
(* Sequences and positions                                                 *)

USE AgentAssumption DEF AgentAssumption

(* A channel or slice grows at its end and shrinks at its head.            *)
LEMMA Growing ==
  ASSUME NEW S, NEW s \in Seq(S), NEW e \in S
  PROVE  /\ Append(s, e) \in Seq(S) /\ Len(Append(s, e)) = Len(s) + 1
         /\ \A i \in 1..Len(s) : Append(s, e)[i] = s[i]
         /\ Append(s, e)[Len(s) + 1] = e
         /\ Range(Append(s, e)) = Range(s) \cup {e}
<1>1. /\ Append(s, e) \in Seq(S) /\ Len(Append(s, e)) = Len(s) + 1
      /\ \A i \in 1..Len(s) : Append(s, e)[i] = s[i]
      /\ Append(s, e)[Len(s) + 1] = e
  BY AppendProperties
<1>2. Len(s) \in Nat /\ DOMAIN s = 1..Len(s) /\ DOMAIN Append(s, e) = 1..(Len(s) + 1)
  BY <1>1, LenProperties
<1>3. Range(Append(s, e)) = Range(s) \cup {e}
  BY <1>1, <1>2 DEF Range
<1> QED
  BY <1>1, <1>3

(* Taking the head leaves the rest, one position further on.               *)
LEMMA Shrinking ==
  ASSUME NEW S, NEW s \in Seq(S), s # <<>>
  PROVE  /\ Head(s) \in S /\ Head(s) = s[1] /\ Len(s) >= 1
         /\ Tail(s) \in Seq(S) /\ Len(Tail(s)) = Len(s) - 1
         /\ \A i \in 1..(Len(s) - 1) : Tail(s)[i] = s[i + 1]
         /\ Range(s) = {Head(s)} \cup Range(Tail(s))
<1>1. /\ Head(s) \in S /\ Head(s) = s[1]
      /\ Tail(s) \in Seq(S) /\ Len(Tail(s)) = Len(s) - 1
      /\ \A i \in 1..(Len(s) - 1) : Tail(s)[i] = s[i + 1]
  BY HeadTailProperties
<1>2. /\ Len(s) \in Nat /\ Len(s) >= 1
      /\ DOMAIN s = 1..Len(s) /\ DOMAIN Tail(s) = 1..(Len(s) - 1)
  BY <1>1, LenProperties, EmptySeq
<1>3. Range(s) \subseteq {Head(s)} \cup Range(Tail(s))
  <2> SUFFICES ASSUME NEW i \in 1..Len(s)
               PROVE  s[i] = Head(s) \/ \E j \in 1..(Len(s) - 1) : s[i] = Tail(s)[j]
    BY <1>2 DEF Range
  <2>1. CASE i = 1
    BY <1>1, <2>1
  <2>2. CASE i # 1
    <3>1. i - 1 \in 1..(Len(s) - 1) /\ (i - 1) + 1 = i
      BY <1>2, <2>2
    <3> QED
      BY <1>1, <3>1
  <2> QED
    BY <2>1, <2>2
<1>4. {Head(s)} \cup Range(Tail(s)) \subseteq Range(s)
  BY <1>1, <1>2 DEF Range
<1> QED
  BY <1>1, <1>2, <1>3, <1>4

(* What entered the channel, by position.                                  *)
LEMMA Layout ==
  ASSUME TypeOK, NothingVanishes
  PROVE  /\ Len(accepted) = Len(finished) + Len(batch) + Len(eventCh)
         /\ \A i \in 1..Len(finished) : accepted[i] = finished[i]
         /\ \A i \in 1..Len(batch) : accepted[Len(finished) + i] = batch[i]
         /\ \A i \in 1..Len(eventCh) :
              accepted[Len(finished) + Len(batch) + i] = eventCh[i]
<1>1. /\ finished \in Seq(Events) /\ batch \in Seq(Events) /\ eventCh \in Seq(Events)
      /\ Len(finished) \in Nat /\ Len(batch) \in Nat /\ Len(eventCh) \in Nat
  BY LenProperties DEF TypeOK
<1> DEFINE front == finished \o batch
<1>2. /\ front \in Seq(Events) /\ Len(front) = Len(finished) + Len(batch)
      /\ \A i \in 1..(Len(finished) + Len(batch)) :
           front[i] = IF i <= Len(finished) THEN finished[i] ELSE batch[i - Len(finished)]
  BY <1>1, ConcatProperties
<1>3. accepted = front \o eventCh
  BY DEF NothingVanishes
<1> HIDE DEF front
<1>4. /\ Len(accepted) = Len(front) + Len(eventCh)
      /\ \A i \in 1..(Len(front) + Len(eventCh)) :
           accepted[i] = IF i <= Len(front) THEN front[i] ELSE eventCh[i - Len(front)]
  <2> DEFINE all == front \o eventCh
  <2>1. /\ Len(all) = Len(front) + Len(eventCh)
        /\ \A i \in 1..(Len(front) + Len(eventCh)) :
             all[i] = IF i <= Len(front) THEN front[i] ELSE eventCh[i - Len(front)]
    <3>1. front \in Seq(Events) /\ eventCh \in Seq(Events)
      BY <1>1, <1>2
    <3> QED
      BY <3>1, ConcatProperties
  <2>2. accepted = all
    BY <1>3
  <2> HIDE DEF all
  <2> QED
    BY <2>1, <2>2
<1> QED
  BY <1>1, <1>2, <1>4, SMTT(30)

(* The invariant holds at the start.                                       *)
LEMMA InitIInv == Init => IInv
<1> SUFFICES ASSUME Init PROVE IInv
  OBVIOUS
<1>1. TypeOK
  <2>1. /\ <<>> \in Seq(Events) /\ <<>> \in Seq(Seq(Events)) /\ Len(<<>>) = 0
    BY EmptySeq
  <2>2. 0 <= ChanCap /\ 0 <= BatchSize
    OBVIOUS
  <2>3. arrived \in 0..Len(requests) /\ late \subseteq Seq(Events) /\ givenUp \subseteq Events
    BY <2>1 DEF Init
  <2> QED
    BY <2>1, <2>2, <2>3 DEF Init, TypeOK
<1>2. Control
  BY DEF Init, Control
<1>3. Counted
  <2>1. Returned = {}
    BY DEF Init, Returned
  <2> QED
    BY <2>1, FS_EmptySet DEF Init, Counted
<1>4. NothingVanishes
  BY EmptySeq, ConcatEmptySeq DEF Init, NothingVanishes
<1>5. Sources /\ Apart /\ InOrder
  BY DEF Init, Sources, Apart, InOrder, Sent, Ascending, Range
<1> QED
  BY <1>1, <1>2, <1>3, <1>4, <1>5 DEF IInv

-----------------------------------------------------------------------------
(* Types, and who is where                                                 *)

(* The members of a sequence.                                              *)
LEMMA RangeType ==
  ASSUME NEW S, NEW s \in Seq(S)
  PROVE  Range(s) \subseteq S
BY LenProperties DEF Range

(* Every step keeps the types and the bounds of channel and batch.         *)
LEMMA TypeStep == TypeOK /\ Control /\ [Next]_vars => TypeOK'
<1> SUFFICES ASSUME TypeOK, Control, [Next]_vars
             PROVE  TypeOK'
  OBVIOUS
<1> USE DEF TypeOK, agentVars, serverVars, postVars
<1>1. ASSUME NEW e \in Events, Reject(e) \/ Enrich(e) \/ Drop(e) PROVE TypeOK'
  <2>1. CASE Reject(e)
    BY <2>1 DEF Reject
  <2>2. CASE Enrich(e)
    BY <2>2 DEF Enrich
  <2>3. CASE Drop(e)
    BY <2>3 DEF Drop
  <2> QED
    BY <1>1, <2>1, <2>2, <2>3
<1>2. ASSUME NEW e \in Events, Deliver(e) PROVE TypeOK'
  BY <1>2, Growing, LenProperties DEF Deliver
<1>3. ASSUME Take PROVE TypeOK'
  <2>1. /\ Head(eventCh) \in Events
        /\ eventCh' \in Seq(Events) /\ Len(eventCh') = Len(eventCh) - 1
    BY <1>3, Shrinking DEF Take
  <2>2. batch' \in Seq(Events) /\ Len(batch') = Len(batch) + 1
    BY <1>3, <2>1, Growing DEF Take
  <2>3. Len(batch) < BatchSize /\ Len(batch) \in Nat /\ Len(eventCh) \in Nat
    BY <1>3, LenProperties DEF Take, Control
  <2> QED
    BY <1>3, <2>1, <2>2, <2>3 DEF Take
<1>4. ASSUME Tick \/ Cancelled \/ Signal PROVE TypeOK'
  BY <1>4 DEF Tick, Cancelled, Signal
<1>5. ASSUME Exit PROVE TypeOK'
  BY <1>5 DEF Exit, AllStopped
<1>6. ASSUME NEW w \in Workers, WorkerStops(w) PROVE TypeOK'
  BY <1>6 DEF WorkerStops
<1>7. ASSUME Arrive \/ ArriveLate PROVE TypeOK'
  <2>1. PICK b \in Seq(Events) : requests' = Append(requests, b)
    BY <1>7 DEF Arrive, ArriveLate
  <2>2. /\ requests' \in Seq(Seq(Events)) /\ Len(requests) \in Nat
        /\ Len(requests') = Len(requests) + 1
    BY <2>1, AppendProperties, LenProperties
  <2>3. CASE Arrive
    BY <2>2, <2>3 DEF Arrive
  <2>4. CASE ArriveLate
    BY <2>2, <2>4 DEF ArriveLate
  <2> QED
    BY <1>7, <2>3, <2>4
<1>8. ASSUME NEW k \in DOMAIN requests, HandleEvent(k) PROVE TypeOK'
  <2>1. k \in 1..Len(requests) /\ requests[k] \in Seq(Events)
    BY LenProperties, ElementOfSeq
  <2>2. Head(requests[k]) \in Events /\ Tail(requests[k]) \in Seq(Events)
    BY <1>8, <2>1, Shrinking DEF HandleEvent
  <2>3. requests' \in Seq(Seq(Events)) /\ Len(requests') = Len(requests)
    BY <1>8, <2>1, <2>2, ExceptSeq DEF HandleEvent
  <2>4. saved' \in Seq(Events) /\ unsaved' \in Seq(Events)
    <3>1. /\ Append(saved, Head(requests[k])) \in Seq(Events)
          /\ Append(unsaved, Head(requests[k])) \in Seq(Events)
      BY <2>2, AppendProperties
    <3> QED
      BY <1>8, <3>1 DEF HandleEvent
  <2> QED
    BY <1>8, <2>3, <2>4 DEF HandleEvent
<1>9. ASSUME PostOver
      PROVE  /\ batch' \in Seq(Events) /\ Len(batch') <= BatchSize
             /\ finished' \in Seq(Events)
             /\ forwarder' \in {"select", "posting", "flushing", "stopped"}
             /\ arrived' \in 0..Len(requests)
  <2>1. finished \o batch \in Seq(Events)
    BY ConcatProperties
  <2>2. <<>> \in Seq(Events) /\ Len(<<>>) <= BatchSize
    BY EmptySeq
  <2>3. Len(requests) \in Nat
    BY LenProperties
  <2> QED
    BY <1>9, <2>1, <2>2, <2>3 DEF PostOver
<1>10. ASSUME PostAnswered \/ PostFails PROVE TypeOK'
  BY <1>9, <1>10 DEF PostAnswered, PostFails, PostOver
<1>11. ASSUME GiveUp PROVE TypeOK'
  <2>1. Range(batch) \subseteq Events
    BY RangeType
  <2>2. arrived # 0 => Range(requests[arrived]) \subseteq Events
    <3>1. arrived # 0 => arrived \in 1..Len(requests)
      BY LenProperties
    <3>2. arrived # 0 => requests[arrived] \in Seq(Events)
      BY <3>1, ElementOfSeq
    <3> QED
      BY <3>2, RangeType
  <2>3. late' \subseteq Seq(Events) /\ givenUp' \subseteq Events
    BY <1>11, <2>1, <2>2 DEF GiveUp
  <2> QED
    BY <1>9, <1>11, <2>3 DEF GiveUp, PostOver
<1>12. CASE UNCHANGED vars
  BY <1>12 DEF vars
<1> QED
  BY <1>1, <1>2, <1>3, <1>4, <1>5, <1>6, <1>7, <1>8, <1>10, <1>11, <1>12
     DEF Next, Forward, Post

(* Every step keeps what the forwarder and main agree on.                  *)
LEMMA ControlStep == TypeOK /\ Control /\ [Next]_vars => Control'
<1> SUFFICES ASSUME TypeOK, Control, [Next]_vars
             PROVE  Control'
  OBVIOUS
<1> USE DEF Control, agentVars, serverVars, postVars, Alive, Posting
<1>1. ASSUME NEW e \in Events, Reject(e) \/ Enrich(e) \/ Drop(e) \/ Deliver(e)
      PROVE  Control'
  BY <1>1 DEF Reject, Enrich, Drop, Deliver
<1>2. ASSUME Take PROVE Control'
  <2>1. Len(batch') \in Nat
    <3>1. Head(eventCh) \in Events
      BY <1>2, Shrinking DEF Take, TypeOK
    <3> QED
      BY <1>2, <3>1, AppendProperties, LenProperties DEF Take, TypeOK
  <2> QED
    BY <1>2, <2>1 DEF Take
<1>3. ASSUME Tick \/ Cancelled \/ Signal PROVE Control'
  BY <1>3 DEF Tick, Cancelled, Signal
<1>4. ASSUME Exit PROVE Control'
  BY <1>4 DEF Exit, AllStopped
<1>5. ASSUME NEW w \in Workers, WorkerStops(w) PROVE Control'
  BY <1>5 DEF WorkerStops
<1>6. ASSUME Arrive \/ ArriveLate \/ \E k \in DOMAIN requests : HandleEvent(k)
      PROVE  Control'
  BY <1>6 DEF Arrive, ArriveLate, HandleEvent
<1>7. ASSUME Post PROVE Control'
  BY <1>7, EmptySeq DEF Post, PostAnswered, PostFails, GiveUp, PostOver
<1>8. CASE UNCHANGED vars
  BY <1>8 DEF vars
<1> QED
  BY <1>1, <1>2, <1>3, <1>4, <1>5, <1>6, <1>7, <1>8 DEF Next, Forward

-----------------------------------------------------------------------------
(* The accounts                                                            *)

(* Every step keeps the count of the drops.                                *)
LEMMA CountedStep == TypeOK /\ Counted /\ [Next]_vars => Counted'
<1> SUFFICES ASSUME TypeOK, Counted, [Next]_vars
             PROVE  Counted'
  OBVIOUS
<1> USE DEF agentVars, serverVars, postVars
<1>0. /\ Len(accepted) \in Nat /\ droppedCnt \in Nat
      /\ \A i \in 1..Len(accepted) : accepted[i] \in Events
  BY LenProperties, ElementOfSeq DEF TypeOK
(* A call that returns nil adds its event to Returned.                     *)
<1>1. ASSUME NEW e \in Events, call[e] = "enriched",
             call' = [call EXCEPT ![e] = "returned"]
      PROVE  /\ IsFiniteSet(Returned')
             /\ Cardinality(Returned') = Cardinality(Returned) + 1
             /\ e \notin Returned
             /\ \A f \in Events : call[f] = "returned" => call'[f] = "returned"
  <2>1. Returned' = Returned \cup {e} /\ e \notin Returned
    BY <1>1 DEF Returned, TypeOK
  <2>2. \A f \in Events : call[f] = "returned" => call'[f] = "returned"
    BY <1>1 DEF TypeOK
  <2> QED
    BY <2>1, <2>2, FS_AddElement DEF Counted
<1>2. ASSUME NEW e \in Events, Deliver(e) PROVE Counted'
  <2>1. /\ Len(accepted') = Len(accepted) + 1
        /\ \A i \in 1..Len(accepted) : accepted'[i] = accepted[i]
        /\ accepted'[Len(accepted) + 1] = e
    BY <1>2, Growing DEF Deliver, TypeOK
  <2>2. /\ IsFiniteSet(Returned')
        /\ Cardinality(Returned') = Cardinality(Returned) + 1
        /\ e \notin Returned /\ call'[e] = "returned"
        /\ \A f \in Events : call[f] = "returned" => call'[f] = "returned"
    BY <1>1, <1>2 DEF Deliver, TypeOK
  <2>3. \A i \in 1..Len(accepted) : accepted[i] \in Returned
    BY <1>0 DEF Counted, Returned
  <2>4. Cardinality(Returned') = droppedCnt' + Len(accepted')
    BY <1>0, <1>2, <2>1, <2>2 DEF Deliver, Counted
  <2>5. \A i \in 1..Len(accepted') : call'[accepted'[i]] = "returned"
    BY <1>0, <2>1, <2>2, <2>3 DEF Returned
  <2>6. \A i, j \in 1..Len(accepted') : accepted'[i] = accepted'[j] => i = j
    BY <1>0, <2>1, <2>2, <2>3 DEF Counted
  <2> QED
    BY <2>2, <2>4, <2>5, <2>6 DEF Counted
<1>3. ASSUME NEW e \in Events, Drop(e) PROVE Counted'
  <2>1. /\ IsFiniteSet(Returned')
        /\ Cardinality(Returned') = Cardinality(Returned) + 1
        /\ \A f \in Events : call[f] = "returned" => call'[f] = "returned"
    BY <1>1, <1>3 DEF Drop
  <2> QED
    BY <1>0, <1>3, <2>1 DEF Drop, Counted
<1>4. ASSUME NEW e \in Events, Reject(e) \/ Enrich(e) PROVE Counted'
  <2>1. \A f \in Events : call'[f] = "returned" <=> call[f] = "returned"
    BY <1>4 DEF Reject, Enrich, TypeOK
  <2>2. Returned' = Returned
    BY <2>1 DEF Returned
  <2>3. UNCHANGED <<droppedCnt, accepted>>
    BY <1>4 DEF Reject, Enrich
  <2> QED
    BY <1>0, <2>1, <2>2, <2>3 DEF Counted
<1>5. ASSUME UNCHANGED <<call, droppedCnt, accepted>> PROVE Counted'
  BY <1>5 DEF Counted, Returned
<1>6. ASSUME \/ Forward \/ Arrive \/ ArriveLate \/ Post \/ Signal \/ Exit
             \/ \E k \in DOMAIN requests : HandleEvent(k)
             \/ \E w \in Workers : WorkerStops(w)
             \/ UNCHANGED vars
      PROVE  UNCHANGED <<call, droppedCnt, accepted>>
  BY <1>6 DEF Forward, Take, Tick, Cancelled, Arrive, ArriveLate, Post, PostAnswered,
              PostFails, GiveUp, PostOver, Signal, Exit, HandleEvent, WorkerStops, vars
<1> QED
  BY <1>2, <1>3, <1>4, <1>5, <1>6 DEF Next

(* What only moves control.                                                *)
data == <<eventCh, batch, arrived, late, requests, saved, unsaved, givenUp,
          accepted, finished>>

(* The steps that touch the pipeline, and what they leave alone.           *)
LEMMA Steps ==
  ASSUME [Next]_vars
  PROVE  \/ UNCHANGED data
         \/ \E e \in Events : Deliver(e)
         \/ Take \/ Arrive \/ ArriveLate \/ Post
         \/ \E k \in DOMAIN requests : HandleEvent(k)
<1> USE DEF data, agentVars, serverVars, postVars
<1>1. ASSUME NEW e \in Events, Reject(e) \/ Enrich(e) \/ Drop(e) PROVE UNCHANGED data
  BY <1>1 DEF Reject, Enrich, Drop
<1>2. ASSUME Tick \/ Cancelled \/ Signal \/ Exit \/ UNCHANGED vars PROVE UNCHANGED data
  BY <1>2 DEF Tick, Cancelled, Signal, Exit, vars
<1>3. ASSUME NEW w \in Workers, WorkerStops(w) PROVE UNCHANGED data
  BY <1>3 DEF WorkerStops
<1> QED
  BY <1>1, <1>2, <1>3 DEF Next, Forward

(* No step loses or reorders an accepted event.                            *)
LEMMA VanishStep == TypeOK /\ NothingVanishes /\ [Next]_vars => NothingVanishes'
<1> SUFFICES ASSUME TypeOK, NothingVanishes, [Next]_vars
             PROVE  NothingVanishes'
  OBVIOUS
<1> USE DEF agentVars, serverVars, postVars
<1> DEFINE front == finished \o batch
<1>0. /\ finished \in Seq(Events) /\ batch \in Seq(Events) /\ eventCh \in Seq(Events)
      /\ front \in Seq(Events) /\ accepted = front \o eventCh
  BY ConcatProperties DEF TypeOK, NothingVanishes
<1>1. ASSUME NEW e \in Events, Deliver(e) PROVE NothingVanishes'
  <2>1. accepted' = Append(accepted, e) /\ front' = front /\ eventCh' = Append(eventCh, e)
    BY <1>1 DEF Deliver
  <2> HIDE DEF front
  <2>2. accepted \in Seq(Events) /\ <<e>> \in Seq(Events)
    BY DEF TypeOK
  <2>3. Append(accepted, e) = accepted \o <<e>> /\ Append(eventCh, e) = eventCh \o <<e>>
    BY <1>0, <2>2, AppendIsConcat
  <2>4. (front \o eventCh) \o <<e>> = front \o (eventCh \o <<e>>)
    BY <1>0, <2>2, ConcatAssociative
  <2>5. accepted' = front' \o eventCh'
    BY <1>0, <2>1, <2>3, <2>4
  <2> QED
    BY <2>5 DEF NothingVanishes, front
<1>2. ASSUME Take PROVE NothingVanishes'
  <2> DEFINE e == Head(eventCh)
  <2>1. e \in Events /\ Tail(eventCh) \in Seq(Events) /\ <<e>> \in Seq(Events)
    BY <1>0, <1>2, HeadTailProperties DEF Take
  <2>2. eventCh = <<e>> \o Tail(eventCh)
    <3>1. /\ Len(eventCh) >= 1 /\ Len(eventCh) \in Nat /\ e = eventCh[1]
          /\ Len(Tail(eventCh)) = Len(eventCh) - 1
          /\ \A i \in 1..(Len(eventCh) - 1) : Tail(eventCh)[i] = eventCh[i + 1]
      BY <1>0, <1>2, Shrinking, LenProperties DEF Take
    <3>2. /\ <<e>> \o Tail(eventCh) \in Seq(Events)
          /\ Len(<<e>> \o Tail(eventCh)) = 1 + Len(Tail(eventCh))
          /\ \A i \in 1..(1 + Len(Tail(eventCh))) : (<<e>> \o Tail(eventCh))[i] =
               IF i <= 1 THEN <<e>>[i] ELSE Tail(eventCh)[i - 1]
      <4>1. Len(<<e>>) = 1
        OBVIOUS
      <4> HIDE DEF e
      <4> QED
        BY <2>1, <4>1, ConcatProperties
    <3>3. \A i \in 1..Len(eventCh) : eventCh[i] = (<<e>> \o Tail(eventCh))[i]
      <4> SUFFICES ASSUME NEW i \in 1..Len(eventCh)
                   PROVE  eventCh[i] = (<<e>> \o Tail(eventCh))[i]
        OBVIOUS
      <4>1. CASE i = 1
        BY <3>1, <3>2, <4>1
      <4>2. CASE i # 1
        <5>1. i - 1 \in 1..(Len(eventCh) - 1) /\ (i - 1) + 1 = i
          BY <3>1, <4>2
        <5> HIDE DEF e
        <5> QED
          BY <3>1, <3>2, <4>2, <5>1
      <4> QED
        BY <4>1, <4>2
    <3> HIDE DEF e
    <3> QED
      BY <1>0, <3>1, <3>2, <3>3, SeqEqual
  <2>3. batch' = batch \o <<e>> /\ eventCh' = Tail(eventCh) /\ UNCHANGED <<accepted, finished>>
    BY <1>0, <1>2, <2>1, AppendIsConcat DEF Take
  <2> HIDE DEF e
  <2>4. finished \o (batch \o <<e>>) = front \o <<e>>
    BY <1>0, <2>1, ConcatAssociative
  <2> HIDE DEF front
  <2>5. (front \o <<e>>) \o Tail(eventCh) = front \o (<<e>> \o Tail(eventCh))
    BY <1>0, <2>1, ConcatAssociative
  <2>6. accepted' = (finished' \o batch') \o eventCh'
    BY <1>0, <2>2, <2>3, <2>4, <2>5
  <2> QED
    BY <2>6 DEF NothingVanishes
<1>3. ASSUME Post PROVE NothingVanishes'
  <2>1. finished' = front /\ batch' = <<>> /\ UNCHANGED <<accepted, eventCh>>
    BY <1>3 DEF Post, PostAnswered, PostFails, GiveUp, PostOver
  <2> HIDE DEF front
  <2>2. front \o <<>> = front
    BY <1>0, ConcatEmptySeq
  <2>3. accepted' = (finished' \o batch') \o eventCh'
    BY <1>0, <2>1, <2>2
  <2> QED
    BY <2>3 DEF NothingVanishes
<1>4. ASSUME \/ UNCHANGED data \/ Arrive \/ ArriveLate
             \/ \E k \in DOMAIN requests : HandleEvent(k)
      PROVE  NothingVanishes'
  BY <1>4 DEF data, Arrive, ArriveLate, HandleEvent, NothingVanishes
<1> QED
  BY <1>1, <1>2, <1>3, <1>4, Steps

-----------------------------------------------------------------------------
(* The server                                                              *)

(* An event is in a finished post, in the batch or in the channel.         *)
LEMMA Separate ==
  ASSUME TypeOK, NothingVanishes, Counted
  PROVE  /\ Range(finished) \cap Range(batch) = {}
         /\ (Range(finished) \cup Range(batch)) \cap Range(eventCh) = {}
<1>1. /\ Len(finished) \in Nat /\ DOMAIN finished = 1..Len(finished)
      /\ Len(batch) \in Nat /\ DOMAIN batch = 1..Len(batch)
      /\ Len(eventCh) \in Nat /\ DOMAIN eventCh = 1..Len(eventCh)
  BY LenProperties DEF TypeOK
<1> DEFINE f == Len(finished)
           b == Len(batch)
<1>2. /\ Len(accepted) = f + b + Len(eventCh)
      /\ \A i \in 1..f : accepted[i] = finished[i]
      /\ \A i \in 1..b : accepted[f + i] = batch[i]
      /\ \A i \in 1..Len(eventCh) : accepted[f + b + i] = eventCh[i]
  BY Layout
<1>3. \A i, j \in 1..Len(accepted) : accepted[i] = accepted[j] => i = j
  BY DEF Counted
<1>4. \A i \in 1..f, j \in 1..b : finished[i] # batch[j]
  <2> SUFFICES ASSUME NEW i \in 1..f, NEW j \in 1..b PROVE finished[i] # batch[j]
    OBVIOUS
  <2>1. i \in 1..Len(accepted) /\ f + j \in 1..Len(accepted) /\ i # f + j
    BY <1>1, <1>2
  <2> QED
    BY <1>2, <1>3, <2>1
<1>5. \A i \in 1..f, j \in 1..Len(eventCh) : finished[i] # eventCh[j]
  <2> SUFFICES ASSUME NEW i \in 1..f, NEW j \in 1..Len(eventCh)
               PROVE  finished[i] # eventCh[j]
    OBVIOUS
  <2>1. i \in 1..Len(accepted) /\ f + b + j \in 1..Len(accepted) /\ i # f + b + j
    BY <1>1, <1>2
  <2> QED
    BY <1>2, <1>3, <2>1
<1>6. \A i \in 1..b, j \in 1..Len(eventCh) : batch[i] # eventCh[j]
  <2> SUFFICES ASSUME NEW i \in 1..b, NEW j \in 1..Len(eventCh)
               PROVE  batch[i] # eventCh[j]
    OBVIOUS
  <2>1. f + i \in 1..Len(accepted) /\ f + b + j \in 1..Len(accepted) /\ f + i # f + b + j
    BY <1>1, <1>2
  <2> QED
    BY <1>2, <1>3, <2>1
<1> QED
  BY <1>1, <1>4, <1>5, <1>6 DEF Range

(* A post that is over has moved the batch to the finished events.         *)
LEMMA Joining ==
  ASSUME NEW S, NEW s \in Seq(S), NEW t \in Seq(S)
  PROVE  Range(s \o t) = Range(s) \cup Range(t)
<1>1. /\ Len(s) \in Nat /\ DOMAIN s = 1..Len(s)
      /\ Len(t) \in Nat /\ DOMAIN t = 1..Len(t)
  BY LenProperties
<1>2. /\ DOMAIN (s \o t) = 1..(Len(s) + Len(t))
      /\ \A i \in 1..(Len(s) + Len(t)) :
           (s \o t)[i] = IF i <= Len(s) THEN s[i] ELSE t[i - Len(s)]
  BY ConcatProperties, LenProperties
<1>3. \A i \in 1..Len(s) : i \in DOMAIN (s \o t) /\ (s \o t)[i] = s[i]
  BY <1>1, <1>2
<1>4. \A i \in 1..Len(t) : Len(s) + i \in DOMAIN (s \o t) /\ (s \o t)[Len(s) + i] = t[i]
  BY <1>1, <1>2
<1>5. \A i \in DOMAIN (s \o t) :
        (s \o t)[i] \in Range(s) \cup Range(t)
  <2> SUFFICES ASSUME NEW i \in 1..(Len(s) + Len(t))
               PROVE  (s \o t)[i] \in Range(s) \cup Range(t)
    BY <1>2
  <2>1. CASE i <= Len(s)
    <3>1. i \in DOMAIN s /\ (s \o t)[i] = s[i]
      BY <1>1, <1>2, <2>1
    <3> QED
      BY <3>1 DEF Range
  <2>2. CASE ~(i <= Len(s))
    <3>1. i - Len(s) \in DOMAIN t /\ (s \o t)[i] = t[i - Len(s)]
      BY <1>1, <1>2, <2>2
    <3> QED
      BY <3>1 DEF Range
  <2> QED
    BY <2>1, <2>2
<1> QED
  <2>1. Range(s) \subseteq Range(s \o t)
    BY <1>1, <1>3 DEF Range
  <2>2. Range(t) \subseteq Range(s \o t)
    BY <1>1, <1>4 DEF Range
  <2>3. Range(s \o t) \subseteq Range(s) \cup Range(t)
    BY <1>5 DEF Range
  <2> QED
    BY <2>1, <2>2, <2>3

(* The server receives a batch: one more request.                          *)
LEMMA Receiving ==
  ASSUME TypeOK, NEW b \in Seq(Events), requests' = Append(requests, b)
  PROVE  /\ DOMAIN requests = 1..Len(requests) /\ Len(requests) \in Nat
         /\ DOMAIN requests' = 1..(Len(requests) + 1)
         /\ \A k \in 1..Len(requests) : requests'[k] = requests[k]
         /\ requests'[Len(requests) + 1] = b
<1>1. requests \in Seq(Seq(Events))
  BY DEF TypeOK
<1>2. requests' \in Seq(Seq(Events))
  BY <1>1, AppendProperties
<1> QED
  BY <1>1, <1>2, AppendProperties, LenProperties

(* It handles the first event of a request.                                *)
LEMMA Handling ==
  ASSUME TypeOK, NEW k \in DOMAIN requests, HandleEvent(k)
  PROVE  /\ requests[k] \in Seq(Events) /\ requests[k] # <<>>
         /\ Head(requests[k]) \in Range(requests[k])
         /\ Range(requests[k]) = {Head(requests[k])} \cup Range(Tail(requests[k]))
         /\ DOMAIN requests' = DOMAIN requests /\ Len(requests') = Len(requests)
         /\ requests'[k] = Tail(requests[k])
         /\ \A l \in DOMAIN requests : l # k => requests'[l] = requests[l]
         /\ \/ /\ Range(saved') = Range(saved) \cup {Head(requests[k])}
               /\ saved' = Append(saved, Head(requests[k])) /\ unsaved' = unsaved
            \/ /\ Range(unsaved') = Range(unsaved) \cup {Head(requests[k])}
               /\ saved' = saved
         /\ UNCHANGED <<eventCh, batch, arrived, late, givenUp, accepted, finished>>
<1>1. requests[k] \in Seq(Events) /\ requests[k] # <<>>
  BY LenProperties, ElementOfSeq DEF TypeOK, HandleEvent
<1>2. /\ Head(requests[k]) \in Events
      /\ Range(requests[k]) = {Head(requests[k])} \cup Range(Tail(requests[k]))
  BY <1>1, Shrinking
<1>3. /\ requests' = [requests EXCEPT ![k] = Tail(requests[k])]
      /\ \/ saved' = Append(saved, Head(requests[k])) /\ unsaved' = unsaved
         \/ unsaved' = Append(unsaved, Head(requests[k])) /\ saved' = saved
      /\ UNCHANGED <<eventCh, batch, arrived, late, givenUp, accepted, finished>>
  BY DEF HandleEvent, agentVars, postVars
<1>4. saved \in Seq(Events) /\ unsaved \in Seq(Events) /\ requests \in Seq(Seq(Events))
  BY DEF TypeOK
<1>5. Tail(requests[k]) \in Seq(Events)
  BY <1>1, Shrinking
<1>6. Len(requests') = Len(requests)
  <2>1. k \in 1..Len(requests)
    BY <1>4, LenProperties
  <2> QED
    BY <1>3, <1>4, <1>5, <2>1, ExceptSeq
<1> DEFINE e == Head(requests[k])
<1>7. /\ Range(Append(saved, e)) = Range(saved) \cup {e}
      /\ Range(Append(unsaved, e)) = Range(unsaved) \cup {e}
  BY <1>2, <1>4, Growing
<1> HIDE DEF e
<1> QED
  BY <1>1, <1>2, <1>3, <1>6, <1>7 DEF e

(* Every step keeps the server to what was posted.                         *)
LEMMA SourcesStep ==
  TypeOK /\ Control /\ Sources /\ [Next]_vars => Sources'
<1> SUFFICES ASSUME TypeOK, Control, Sources, [Next]_vars
             PROVE  Sources'
  OBVIOUS
<1>0. 0 \notin DOMAIN requests
  BY LenProperties DEF TypeOK
<1>1. ASSUME UNCHANGED data PROVE Sources'
  BY <1>1 DEF data, Sources, Sent
<1>2. ASSUME NEW e \in Events, Deliver(e) PROVE Sources'
  BY <1>2 DEF Deliver, serverVars, postVars, Sources, Sent
<1>3. ASSUME Take PROVE Sources'
  <2>1. arrived = 0 /\ UNCHANGED <<serverVars, postVars>>
    BY <1>3 DEF Take, Control, Posting
  <2>2. \A k \in DOMAIN requests : Range(requests[k]) \subseteq Range(finished)
    BY <1>0, <2>1 DEF Sources
  <2> QED
    BY <1>0, <2>1, <2>2 DEF serverVars, postVars, Sources, Sent
<1>4. ASSUME Arrive PROVE Sources'
  <2>1. /\ Sent' = Sent \cup Range(batch) /\ arrived = 0 /\ arrived' = Len(requests) + 1
        /\ requests' = Append(requests, batch) /\ batch \in Seq(Events)
        /\ UNCHANGED <<saved, unsaved, late, givenUp, finished, batch>>
    <3>1. Len(requests) \in Nat
      BY LenProperties DEF TypeOK
    <3> QED
      BY <1>4, <3>1 DEF Arrive, agentVars, Sent, TypeOK
  <2>2. /\ DOMAIN requests = 1..Len(requests) /\ Len(requests) \in Nat
        /\ DOMAIN requests' = 1..(Len(requests) + 1)
        /\ \A k \in 1..Len(requests) : requests'[k] = requests[k]
        /\ requests'[Len(requests) + 1] = batch
    BY <2>1, Receiving
  <2>3. \A k \in 1..Len(requests) : Range(requests[k]) \subseteq Range(finished)
    BY <2>1, <2>2 DEF Sources
  <2>4. \A k \in DOMAIN requests' :
          Range(requests'[k]) \subseteq (IF k = arrived' THEN Range(batch) ELSE Range(finished))
    BY <2>1, <2>2, <2>3
  <2> QED
    BY <2>1, <2>4 DEF Sources
<1>5. ASSUME NEW b \in late, requests' = Append(requests, b), ArriveLate PROVE Sources'
  <2>1. /\ b \in Seq(Events) /\ arrived \in 0..Len(requests)
        /\ Range(b) \subseteq Range(finished)
        /\ UNCHANGED <<saved, unsaved, arrived, givenUp, finished, batch>>
        /\ late' \subseteq late
    BY <1>5 DEF ArriveLate, agentVars, TypeOK, Sources
  <2>2. /\ DOMAIN requests = 1..Len(requests) /\ Len(requests) \in Nat
        /\ DOMAIN requests' = 1..(Len(requests) + 1)
        /\ \A k \in 1..Len(requests) : requests'[k] = requests[k]
        /\ requests'[Len(requests) + 1] = b
    BY <1>5, <2>1, Receiving
  <2>3. \A k \in DOMAIN requests' :
          Range(requests'[k]) \subseteq (IF k = arrived THEN Range(batch) ELSE Range(finished))
    BY <2>1, <2>2 DEF Sources
  <2> QED
    BY <2>1, <2>3 DEF Sources, Sent
<1>6. ASSUME NEW k \in DOMAIN requests, HandleEvent(k) PROVE Sources'
  <2>1. Sent' = Sent /\ UNCHANGED <<batch, arrived, late, givenUp, finished>>
    BY <1>6, Handling DEF Sent
  <2>2. Head(requests[k]) \in Sent
    <3>1. Head(requests[k]) \in (IF k = arrived THEN Range(batch) ELSE Range(finished))
      BY <1>6, Handling DEF Sources
    <3> QED
      BY <1>0, <3>1 DEF Sent
  <2>3. Range(saved') \subseteq Sent /\ Range(unsaved') \subseteq Sent
    BY <1>6, <2>2, Handling DEF Sources
  <2>4. \A l \in DOMAIN requests' :
          Range(requests'[l]) \subseteq (IF l = arrived THEN Range(batch) ELSE Range(finished))
    <3>1. /\ DOMAIN requests' = DOMAIN requests
          /\ \A l \in DOMAIN requests : Range(requests'[l]) \subseteq Range(requests[l])
      BY <1>6, Handling
    <3> QED
      BY <3>1, Zenon DEF Sources
  <2> QED
    BY <2>1, <2>3, <2>4 DEF Sources
<1>7. ASSUME Post PROVE Sources'
  <2>1. /\ Range(finished') = Range(finished) \cup Range(batch) /\ arrived' = 0
        /\ UNCHANGED serverVars /\ givenUp \subseteq givenUp'
        /\ \/ late' = late
           \/ late' = late \cup {batch} /\ Range(batch) \subseteq givenUp'
    <3>1. Range(finished \o batch) = Range(finished) \cup Range(batch)
      BY Joining DEF TypeOK
    <3>2. PostOver
      BY <1>7 DEF Post, PostAnswered, PostFails, GiveUp
    <3>3. /\ UNCHANGED serverVars /\ givenUp \subseteq givenUp'
          /\ \/ late' = late
             \/ late' = late \cup {batch} /\ Range(batch) \subseteq givenUp'
      <4>1. CASE PostAnswered \/ PostFails
        BY <4>1 DEF PostAnswered, PostFails
      <4>2. CASE GiveUp
        BY <4>2 DEF GiveUp
      <4> QED
        BY <1>7, <4>1, <4>2 DEF Post
    <3> QED
      BY <3>1, <3>2, <3>3 DEF PostOver
  <2>2. \A k \in DOMAIN requests' : Range(requests'[k]) \subseteq Range(finished')
    BY <2>1 DEF Sources, serverVars
  <2>3. \A b \in late' : Range(b) \subseteq Range(finished') \cap givenUp'
    BY <2>1 DEF Sources
  <2>4. Range(saved') \subseteq Range(finished') /\ Range(unsaved') \subseteq Range(finished')
    BY <2>1 DEF Sources, Sent, serverVars
  <2>5. 0 \notin DOMAIN requests'
    BY <1>0, <2>1 DEF serverVars
  <2> QED
    BY <2>1, <2>2, <2>3, <2>4, <2>5 DEF Sources, Sent
<1>8. ArriveLate => \E b \in late : requests' = Append(requests, b)
  BY DEF ArriveLate
<1> QED
  BY <1>1, <1>2, <1>3, <1>4, <1>5, <1>6, <1>7, <1>8, Steps

(* Nothing precedes itself, so a request holds each of its events once.    *)
LEMMA Irreflexive == ASSUME Counted, NEW e PROVE ~Precedes(e, e)
<1> SUFFICES ASSUME NEW i \in 1..Len(accepted), NEW j \in 1..Len(accepted),
                    i < j, accepted[i] = e, accepted[j] = e
             PROVE  FALSE
  BY DEF Precedes
<1>1. i = j
  BY DEF Counted
<1>2. i \in Nat
  OBVIOUS
<1> QED
  BY <1>1, <1>2

(* The head of what is in order precedes the rest, which stays in order.   *)
LEMMA Once ==
  ASSUME Counted, NEW s \in Seq(Events), s # <<>>, Ascending(s)
  PROVE  /\ Head(s) \notin Range(Tail(s))
         /\ \A e \in Range(Tail(s)) : Precedes(Head(s), e)
         /\ Ascending(Tail(s))
<1>1. /\ Head(s) = s[1] /\ Len(s) >= 1 /\ Len(Tail(s)) = Len(s) - 1
      /\ Tail(s) \in Seq(Events) /\ Len(s) \in Nat
      /\ \A i \in 1..(Len(s) - 1) : Tail(s)[i] = s[i + 1]
  BY Shrinking, LenProperties
<1>2. DOMAIN Tail(s) = 1..(Len(s) - 1)
  BY <1>1, LenProperties
<1>3. \A i, j \in 1..Len(s) : i < j => Precedes(s[i], s[j])
  BY DEF Ascending
<1>4. ASSUME NEW i \in 1..(Len(s) - 1) PROVE Precedes(Head(s), Tail(s)[i])
  <2>1. 1 \in 1..Len(s) /\ i + 1 \in 1..Len(s) /\ 1 < i + 1
    BY <1>1
  <2>2. Precedes(s[1], s[i + 1])
    BY <1>3, <2>1
  <2> QED
    BY <1>1, <2>2
<1>5. \A e \in Range(Tail(s)) : Precedes(Head(s), e)
  BY <1>2, <1>4 DEF Range
<1>6. Ascending(Tail(s))
  <2> SUFFICES ASSUME NEW i \in 1..(Len(s) - 1), NEW j \in 1..(Len(s) - 1), i < j
               PROVE  Precedes(Tail(s)[i], Tail(s)[j])
    BY <1>1 DEF Ascending
  <2>1. i + 1 \in 1..Len(s) /\ j + 1 \in 1..Len(s) /\ i + 1 < j + 1
    BY <1>1
  <2>2. Precedes(s[i + 1], s[j + 1])
    BY <1>3, <2>1
  <2> QED
    BY <1>1, <2>2
<1> QED
  BY <1>5, <1>6, Irreflexive

(* No step brings an event to a second place.                              *)
LEMMA ApartStep ==
  TypeOK /\ Control /\ Counted /\ NothingVanishes /\ Sources /\ Apart /\ InOrder
    /\ [Next]_vars => Apart'
<1> SUFFICES ASSUME TypeOK, Control, Counted, NothingVanishes, Sources, Apart,
                    InOrder, [Next]_vars
             PROVE  Apart'
  OBVIOUS
<1>0. Range(finished) \cap Range(batch) = {}
  BY Separate
<1>1. ASSUME UNCHANGED data PROVE Apart'
  BY <1>1 DEF data, Apart
<1>2. ASSUME Take \/ \E e \in Events : Deliver(e) PROVE Apart'
  BY <1>2 DEF Take, Deliver, serverVars, postVars, Apart
(* A batch that the server has not had yet is apart from what it had.      *)
<1>3. ASSUME arrived = 0
      PROVE  /\ Range(batch) \cap (Range(saved) \cup Range(unsaved)) = {}
             /\ \A k \in DOMAIN requests : Range(batch) \cap Range(requests[k]) = {}
             /\ \A b \in late : Range(batch) \cap Range(b) = {}
  <2>1. \A k \in DOMAIN requests : Range(requests[k]) \subseteq Range(finished)
    <3>1. 0 \notin DOMAIN requests
      BY LenProperties DEF TypeOK
    <3> QED
      BY <1>3, <3>1 DEF Sources
  <2>2. Range(saved) \subseteq Range(finished) /\ Range(unsaved) \subseteq Range(finished)
    BY <1>3 DEF Sources, Sent
  <2> QED
    BY <1>0, <2>1, <2>2 DEF Sources
(* A request that is apart from everything else may arrive.                *)
<1>4. ASSUME NEW b \in Seq(Events), requests' = Append(requests, b),
             UNCHANGED <<saved, unsaved>>, late' \subseteq late,
             Range(b) \cap (Range(saved) \cup Range(unsaved)) = {},
             \A k \in DOMAIN requests : Range(b) \cap Range(requests[k]) = {},
             \A c \in late' : Range(b) \cap Range(c) = {}
      PROVE  Apart'
  <2>1. \A k \in DOMAIN requests' :
          \/ k \in DOMAIN requests /\ requests'[k] = requests[k]
          \/ k = Len(requests) + 1 /\ requests'[k] = b
    BY <1>4, Receiving
  <2>2. \A k \in DOMAIN requests' :
          Range(requests'[k]) \cap (Range(saved) \cup Range(unsaved)) = {}
    BY <1>4, <2>1 DEF Apart
  <2>3. \A k, l \in DOMAIN requests' :
          k # l => Range(requests'[k]) \cap Range(requests'[l]) = {}
    BY <1>4, <2>1 DEF Apart
  <2>4. \A c \in late', k \in DOMAIN requests' : Range(c) \cap Range(requests'[k]) = {}
    BY <1>4, <2>1 DEF Apart
  <2> QED
    BY <1>4, <2>2, <2>3, <2>4 DEF Apart
<1>5. ASSUME Arrive PROVE Apart'
  <2>1. /\ arrived = 0 /\ requests' = Append(requests, batch) /\ batch \in Seq(Events)
        /\ UNCHANGED <<saved, unsaved>> /\ late' = late
    BY <1>5 DEF Arrive, TypeOK
  <2> QED
    BY <1>3, <1>4, <2>1
<1>6. ASSUME ArriveLate PROVE Apart'
  <2>1. PICK b \in late :
          /\ late' = late \ {b} /\ requests' = Append(requests, b)
          /\ UNCHANGED <<saved, unsaved>>
    BY <1>6 DEF ArriveLate
  <2>2. /\ b \in Seq(Events)
        /\ Range(b) \cap (Range(saved) \cup Range(unsaved)) = {}
        /\ \A k \in DOMAIN requests : Range(b) \cap Range(requests[k]) = {}
        /\ \A c \in late' : Range(b) \cap Range(c) = {}
    BY <2>1 DEF Apart, TypeOK
  <2> QED
    BY <1>4, <2>1, <2>2
<1>7. ASSUME NEW k \in DOMAIN requests, HandleEvent(k) PROVE Apart'
  <2> DEFINE e == Head(requests[k])
  <2>1. /\ e \in Range(requests[k]) /\ e \notin Range(requests'[k])
        /\ \A l \in DOMAIN requests : Range(requests'[l]) \subseteq Range(requests[l])
        /\ DOMAIN requests' = DOMAIN requests /\ late' = late
    <3>1. Ascending(requests[k])
      BY DEF InOrder
    <3> QED
      BY <1>7, <3>1, Handling, Once
  <2>2. /\ e \notin Range(saved) \cup Range(unsaved)
        /\ \A l \in DOMAIN requests : l # k => e \notin Range(requests[l])
        /\ \A b \in late : e \notin Range(b)
    BY <2>1 DEF Apart
  <2>3. \A l \in DOMAIN requests' : e \notin Range(requests'[l])
    BY <2>1, <2>2
  <2>4. \/ /\ Range(saved') = Range(saved) \cup {e} /\ saved' = Append(saved, e)
           /\ unsaved' = unsaved
        \/ Range(unsaved') = Range(unsaved) \cup {e} /\ saved' = saved
    BY <1>7, Handling
  <2>5. e \in Events /\ saved \in Seq(Events) /\ Len(saved) \in Nat
    BY <1>7, Shrinking, Handling, LenProperties DEF TypeOK
  <2> HIDE DEF e
  <2>6. Range(saved') \cup Range(unsaved') = Range(saved) \cup Range(unsaved) \cup {e}
    BY <2>4
  <2>7. Range(saved') \cap Range(unsaved') = {}
    BY <2>2, <2>4 DEF Apart
  <2>8. /\ \A l \in DOMAIN requests' :
             Range(requests'[l]) \cap (Range(saved') \cup Range(unsaved')) = {}
        /\ \A b \in late' : Range(b) \cap (Range(saved') \cup Range(unsaved')) = {}
    BY <2>1, <2>2, <2>3, <2>6 DEF Apart
  <2>9. /\ \A l, m \in DOMAIN requests' :
             l # m => Range(requests'[l]) \cap Range(requests'[m]) = {}
        /\ \A b \in late', l \in DOMAIN requests' : Range(b) \cap Range(requests'[l]) = {}
        /\ \A b, c \in late' : b # c => Range(b) \cap Range(c) = {}
    BY <2>1 DEF Apart
  <2>10. \A i, j \in 1..Len(saved') : saved'[i] = saved'[j] => i = j
    <3>1. CASE saved' = saved
      BY <3>1 DEF Apart
    <3>2. CASE saved' = Append(saved, e)
      <4>1. \A i \in 1..Len(saved) : saved[i] # e
        BY <2>2, <2>5, LenProperties DEF Range
      <4>2. /\ Len(saved') = Len(saved) + 1 /\ saved'[Len(saved) + 1] = e
            /\ \A i \in 1..Len(saved) : saved'[i] = saved[i]
        BY <2>5, <3>2, Growing
      <4> QED
        BY <2>5, <4>1, <4>2 DEF Apart
    <3> QED
      BY <2>4, <3>1, <3>2
  <2> QED
    BY <2>7, <2>8, <2>9, <2>10 DEF Apart
<1>8. ASSUME Post PROVE Apart'
  <2>1. /\ UNCHANGED serverVars
        /\ late' = late \/ (arrived = 0 /\ late' = late \cup {batch})
    BY <1>8 DEF Post, PostAnswered, PostFails, GiveUp
  <2>2. CASE late' = late
    BY <2>1, <2>2 DEF Apart, serverVars
  <2>3. CASE arrived = 0 /\ late' = late \cup {batch}
    BY <1>3, <2>1, <2>3 DEF Apart, serverVars
  <2> QED
    BY <2>1, <2>2, <2>3
<1> QED
  BY <1>1, <1>2, <1>5, <1>6, <1>7, <1>8, Steps

-----------------------------------------------------------------------------
(* The order of the channel is kept                                        *)

(* A batch is in that order, behind the posts that are over.               *)
LEMMA BatchFollows ==
  ASSUME TypeOK, NothingVanishes
  PROVE  /\ Ascending(batch)
         /\ \A e \in Range(finished), f \in Range(batch) : Precedes(e, f)
<1>1. /\ Len(finished) \in Nat /\ DOMAIN finished = 1..Len(finished)
      /\ Len(batch) \in Nat /\ DOMAIN batch = 1..Len(batch) /\ Len(eventCh) \in Nat
  BY LenProperties DEF TypeOK
<1>2. /\ Len(accepted) = Len(finished) + Len(batch) + Len(eventCh)
      /\ \A i \in 1..Len(finished) : accepted[i] = finished[i]
      /\ \A i \in 1..Len(batch) : accepted[Len(finished) + i] = batch[i]
  BY Layout
<1>3. Ascending(batch)
  <2> SUFFICES ASSUME NEW i \in 1..Len(batch), NEW j \in 1..Len(batch), i < j
               PROVE  Precedes(batch[i], batch[j])
    BY DEF Ascending
  <2>1. /\ Len(finished) + i \in 1..Len(accepted)
        /\ Len(finished) + j \in 1..Len(accepted)
        /\ Len(finished) + i < Len(finished) + j
    BY <1>1, <1>2
  <2> QED
    BY <1>2, <2>1 DEF Precedes
<1>4. ASSUME NEW i \in 1..Len(finished), NEW j \in 1..Len(batch)
      PROVE  Precedes(finished[i], batch[j])
  <2>1. /\ i \in 1..Len(accepted) /\ Len(finished) + j \in 1..Len(accepted)
        /\ i < Len(finished) + j
    BY <1>1, <1>2
  <2> QED
    BY <1>2, <2>1 DEF Precedes
<1> QED
  BY <1>1, <1>3, <1>4 DEF Range

(* No step lets an event overtake another that was not given up on.        *)
LEMMA OrderStep ==
  TypeOK /\ Control /\ Counted /\ NothingVanishes /\ Sources /\ InOrder /\ [Next]_vars
    => InOrder'
<1> SUFFICES ASSUME TypeOK, Control, Counted, NothingVanishes, Sources, InOrder,
                    [Next]_vars
             PROVE  InOrder'
  OBVIOUS
<1>0. /\ DOMAIN requests = 1..Len(requests) /\ Len(requests) \in Nat
      /\ arrived \in 0..Len(requests)
  BY LenProperties DEF TypeOK
<1>1. ASSUME UNCHANGED <<accepted, saved, requests, arrived, late, givenUp>>
      PROVE  InOrder'
  BY <1>1 DEF InOrder, Ascending, Precedes, Timely
<1>2. ASSUME NEW e \in Events, Deliver(e) PROVE InOrder'
  <2>1. /\ accepted' = Append(accepted, e)
        /\ UNCHANGED <<saved, requests, arrived, late, givenUp>>
    BY <1>2 DEF Deliver, serverVars, postVars
  <2>2. /\ Len(accepted) \in Nat /\ Len(accepted') = Len(accepted) + 1
        /\ \A i \in 1..Len(accepted) : accepted'[i] = accepted[i]
    BY <2>1, Growing, LenProperties DEF TypeOK
  <2>3. \A f, g : Precedes(f, g) => Precedes(f, g)'
    BY <2>2 DEF Precedes
  <2>4. \A s : Ascending(s) => Ascending(s)'
    BY <2>3 DEF Ascending
  <2>5. \A f, g : Timely(f, g) => Timely(f, g)'
    BY <2>1, <2>3 DEF Timely
  <2> QED
    BY <2>1, <2>4, <2>5 DEF InOrder
(* A request may arrive whose events may be stored after the stored ones.  *)
<1>3. ASSUME NEW b \in Seq(Events), requests' = Append(requests, b),
             UNCHANGED <<accepted, saved, givenUp>>, late' \subseteq late, Ascending(b),
             \A e \in Range(saved), f \in Range(b) : Timely(e, f),
             arrived' = Len(requests) + 1 \/ Range(b) \subseteq givenUp,
             \A k \in DOMAIN requests : k = arrived' \/ Range(requests[k]) \subseteq givenUp
      PROVE  InOrder'
  <2>1. \A k \in DOMAIN requests' :
          \/ k \in DOMAIN requests /\ requests'[k] = requests[k]
          \/ k = Len(requests) + 1 /\ requests'[k] = b
    BY <1>3, Receiving
  <2>2. \A k \in DOMAIN requests' : Ascending(requests'[k])
    BY <1>3, <2>1 DEF InOrder
  <2>3. \A k \in DOMAIN requests' : k = arrived' \/ Range(requests'[k]) \subseteq givenUp
    BY <1>3, <2>1
  <2>4. \A k \in DOMAIN requests' :
          \A e \in Range(saved), f \in Range(requests'[k]) : Timely(e, f)
    BY <1>3, <2>1 DEF InOrder
  <2>5. /\ \A c \in late' : Ascending(c)
        /\ \A i, j \in 1..Len(saved) : i < j => Timely(saved[i], saved[j])
    BY <1>3 DEF InOrder
  <2>6. /\ \A s : Ascending(s)' <=> Ascending(s)
        /\ \A e, f : Timely(e, f)' <=> Timely(e, f)
    BY <1>3 DEF Ascending, Precedes, Timely
  <2> QED
    BY <1>3, <2>2, <2>3, <2>4, <2>5, <2>6 DEF InOrder
<1>4. ASSUME Arrive PROVE InOrder'
  <2>1. /\ arrived = 0 /\ arrived' = Len(requests) + 1
        /\ requests' = Append(requests, batch) /\ batch \in Seq(Events)
        /\ UNCHANGED <<accepted, saved, givenUp>> /\ late' = late
    BY <1>4 DEF Arrive, agentVars, TypeOK
  <2>2. \A e \in Range(saved), f \in Range(batch) : Timely(e, f)
    BY <2>1, BatchFollows DEF Sources, Sent, Timely
  <2>3. \A k \in DOMAIN requests : Range(requests[k]) \subseteq givenUp
    BY <1>0, <2>1 DEF InOrder
  <2> QED
    BY <1>3, <2>1, <2>2, <2>3, BatchFollows
<1>5. ASSUME ArriveLate PROVE InOrder'
  <2>1. PICK b \in late :
          /\ late' = late \ {b} /\ requests' = Append(requests, b)
          /\ UNCHANGED <<accepted, saved, arrived, givenUp>>
    BY <1>5 DEF ArriveLate, agentVars
  <2>2. /\ b \in Seq(Events) /\ Ascending(b) /\ Range(b) \subseteq givenUp
        /\ \A e \in Range(saved), f \in Range(b) : Timely(e, f)
        /\ \A k \in DOMAIN requests : k = arrived' \/ Range(requests[k]) \subseteq givenUp
    BY <2>1 DEF InOrder, Sources, TypeOK, Timely
  <2> QED
    BY <1>3, <2>1, <2>2
<1>6. ASSUME NEW k \in DOMAIN requests, HandleEvent(k) PROVE InOrder'
  <2> DEFINE e == Head(requests[k])
  <2>1. Ascending(requests[k])
    BY DEF InOrder
  <2>2. /\ UNCHANGED <<arrived, accepted, late, givenUp>> /\ requests[k] # <<>>
        /\ DOMAIN requests' = DOMAIN requests
        /\ requests'[k] = Tail(requests[k])
        /\ \A l \in DOMAIN requests : l # k => requests'[l] = requests[l]
        /\ saved' = saved \/ saved' = Append(saved, e)
        /\ e \in Range(requests[k])
        /\ Range(requests[k]) = {e} \cup Range(Tail(requests[k]))
    BY <1>6, Handling
  <2>3. /\ e \in Events /\ saved \in Seq(Events) /\ requests[k] \in Seq(Events)
    BY <1>6, Shrinking, Handling DEF TypeOK
  <2>4. /\ Ascending(Tail(requests[k]))
        /\ \A f \in Range(Tail(requests[k])) : Precedes(e, f)
    BY <2>1, <2>2, <2>3, Once
  (* What the server does of one request may precede the rest of another.  *)
  <2>5. \A l \in DOMAIN requests : l # k => \A f \in Range(requests[l]) : Timely(e, f)
    <3> SUFFICES ASSUME NEW l \in DOMAIN requests, l # k, NEW f \in Range(requests[l])
                 PROVE  Timely(e, f)
      OBVIOUS
    <3>1. CASE l = arrived
      <4>1. e \in Range(finished) /\ f \in Range(batch)
        <5>1. /\ Range(requests[k]) \subseteq Range(finished)
              /\ Range(requests[l]) \subseteq Range(batch)
          BY <3>1 DEF Sources
        <5> QED
          BY <2>2, <5>1
      <4> QED
        BY <4>1, BatchFollows DEF Timely
    <3>2. CASE l # arrived
      BY <3>2 DEF InOrder, Timely
    <3> QED
      BY <3>1, <3>2
  <2> HIDE DEF e
  <2>6. \A l \in DOMAIN requests' : Ascending(requests'[l])
    BY <2>2, <2>4 DEF InOrder
  <2>7. \A l \in DOMAIN requests' : Range(requests'[l]) \subseteq Range(requests[l])
    BY <2>2
  <2>8. \A l \in DOMAIN requests' : l = arrived \/ Range(requests'[l]) \subseteq givenUp
    BY <2>2, <2>7 DEF InOrder
  <2>9. \A l \in DOMAIN requests' :
          \A d \in Range(saved'), f \in Range(requests'[l]) : Timely(d, f)
    <3>1. Range(saved') \subseteq Range(saved) \cup {e}
      <4>1. Range(Append(saved, e)) = Range(saved) \cup {e}
        BY <2>3, Growing
      <4> QED
        BY <2>2, <4>1
    <3>2. \A l \in DOMAIN requests' : \A f \in Range(requests'[l]) : Timely(e, f)
      BY <2>2, <2>4, <2>5 DEF Timely
    <3>3. \A l \in DOMAIN requests :
            \A d \in Range(saved), f \in Range(requests[l]) : Timely(d, f)
      BY DEF InOrder
    <3> QED
      BY <2>2, <2>7, <3>1, <3>2, <3>3
  <2>10. \A i, j \in 1..Len(saved') : i < j => Timely(saved'[i], saved'[j])
    <3>1. CASE saved' = saved
      BY <3>1 DEF InOrder
    <3>2. CASE saved' = Append(saved, e)
      <4>1. /\ Len(saved) \in Nat /\ Len(saved') = Len(saved) + 1
            /\ saved'[Len(saved) + 1] = e
            /\ \A i \in 1..Len(saved) : saved'[i] = saved[i] /\ saved[i] \in Range(saved)
        BY <2>3, <3>2, Growing, LenProperties DEF Range
      <4>2. \A i \in 1..Len(saved) : Timely(saved[i], e)
        BY <2>2, <4>1 DEF InOrder
      <4>3. \A i, j \in 1..Len(saved) : i < j => Timely(saved[i], saved[j])
        BY DEF InOrder
      <4> QED
        BY <4>1, <4>2, <4>3
    <3> QED
      BY <2>2, <3>1, <3>2
  <2> QED
    BY <2>2, <2>6, <2>8, <2>9, <2>10 DEF InOrder, Ascending, Precedes, Timely
<1>7. ASSUME Post PROVE InOrder'
  <2>1. /\ UNCHANGED <<accepted, saved, requests>> /\ arrived' = 0
        /\ givenUp \subseteq givenUp'
        /\ late' = late \/ late' = late \cup {batch}
    BY <1>7 DEF Post, PostAnswered, PostFails, GiveUp, PostOver, serverVars
  <2>2. arrived # 0 => Range(requests[arrived]) \subseteq givenUp'
    <3>1. CASE PostAnswered
      BY <3>1 DEF PostAnswered, Range
    <3>2. CASE PostFails \/ GiveUp
      BY <3>2 DEF PostFails, GiveUp
    <3> QED
      BY <1>7, <3>1, <3>2 DEF Post
  <2>3. \A k \in DOMAIN requests : Range(requests[k]) \subseteq givenUp'
    BY <1>0, <2>1, <2>2 DEF InOrder
  <2>4. \A b \in late' : Ascending(b)
    BY <2>1, BatchFollows DEF InOrder
  <2>5. \A e, f : Timely(e, f) => Timely(e, f)'
    BY <2>1 DEF Timely, Precedes
  <2>6. \A b : Ascending(b) => Ascending(b)'
    BY <2>1 DEF Ascending, Precedes
  <2>7. /\ \A k \in DOMAIN requests : Ascending(requests[k])
        /\ \A i, j \in 1..Len(saved) : i < j => Timely(saved[i], saved[j])
        /\ \A k \in DOMAIN requests :
             \A e \in Range(saved), f \in Range(requests[k]) : Timely(e, f)
    BY DEF InOrder
  <2> QED
    BY <2>1, <2>3, <2>4, <2>5, <2>6, <2>7 DEF InOrder
<1>8. Take => UNCHANGED <<accepted, saved, requests, arrived, late, givenUp>>
  BY DEF Take, serverVars, postVars
<1>9. UNCHANGED data => UNCHANGED <<accepted, saved, requests, arrived, late, givenUp>>
  BY DEF data
<1> QED
  BY <1>1, <1>2, <1>4, <1>5, <1>6, <1>7, <1>8, <1>9, Steps

-----------------------------------------------------------------------------
(* Theorems                                                                *)

(* What the pipeline and the server keep true together: the forwarder's    *)
(* control, the drop counter, the places an event can be in, and the order *)
(* events left the channel in, whatever sendBatch's client gives up on.    *)
THEOREM Inductive == Spec => []IInv
<1>1. Init => IInv
  BY InitIInv
<1>2. IInv /\ [Next]_vars => IInv'
  BY TypeStep, ControlStep, CountedStep, VanishStep, SourcesStep, ApartStep, OrderStep
     DEF IInv
<1> QED
  BY <1>1, <1>2, PTL DEF Spec

(* The variables keep their types: eventCh never exceeds its capacity, and *)
(* forwardEvents never holds more than BatchSize events.                   *)
THEOREM TypeCorrect == Spec => []TypeOK
<1>1. IInv => TypeOK
  BY DEF IInv
<1> QED
  BY <1>1, Inductive, PTL

(* Every event for which ProcessRawEvent returned nil was counted by       *)
(* recordDrop, or entered eventCh and is still in it, in forwardEvents'    *)
(* batch, or in a post that is over: in that order, once.                  *)
THEOREM EveryEventIsAccounted == Spec => []EventsAreAccounted
<1>1. IInv => EventsAreAccounted
  BY DEF IInv, EventsAreAccounted, Counted, DropsAreCounted, Returned
<1> QED
  BY <1>1, Inductive, PTL

(* Where an accepted event is, by its position.                            *)
LEMMA PositionIs ==
  ASSUME Counted, NEW i \in 1..Len(accepted)
  PROVE  Position(accepted[i]) = i
<1> DEFINE At(j) == accepted[j] = accepted[i]
<1>1. \E j \in 1..Len(accepted) : At(j)
  OBVIOUS
<1>2. /\ Position(accepted[i]) \in 1..Len(accepted)
      /\ accepted[Position(accepted[i])] = accepted[i]
  BY <1>1 DEF Position
<1> QED
  BY <1>2 DEF Counted

(* ebpfEventsHandler stores an event at most once, and in the order of     *)
(* eventCh, although what sendBatch's client gave up on may still reach    *)
(* it: only such an event is ever stored behind a later one.               *)
THEOREM StoredOnce == Spec => []StoredOnceInOrder
<1>1. IInv => StoredOnceInOrder
  <2> SUFFICES ASSUME IInv PROVE StoredOnceInOrder
    OBVIOUS
  <2> USE DEF IInv
  <2>1. /\ Len(saved) \in Nat /\ DOMAIN saved = 1..Len(saved)
        /\ DOMAIN requests = 1..Len(requests)
        /\ \A i \in 1..Len(saved) : saved[i] \in Range(saved)
    BY LenProperties DEF TypeOK, Range
  <2>2. Range(saved) \cap Range(eventCh) = {}
    BY Separate DEF Sources, Sent
  <2>3. AtMostOnce
    <3>1. \A i \in 1..Len(saved) :
            /\ \A k \in 1..Len(requests) : saved[i] \notin Range(requests[k])
            /\ \A b \in late : saved[i] \notin Range(b)
            /\ saved[i] \notin Range(unsaved)
      BY <2>1 DEF Apart
    <3>2. \A i \in 1..Len(saved) : saved[i] \notin Range(eventCh)
      BY <2>1, <2>2
    <3> QED
      BY <3>1, <3>2 DEF Apart, AtMostOnce
  <2>4. ASSUME NEW e, NEW f, Precedes(e, f) PROVE Position(e) < Position(f)
    <3>1. PICK i \in 1..Len(accepted), j \in 1..Len(accepted) :
            i < j /\ accepted[i] = e /\ accepted[j] = f
      BY <2>4 DEF Precedes
    <3>2. Position(e) = i /\ Position(f) = j
      BY <3>1, PositionIs
    <3> QED
      BY <3>1, <3>2
  <2>5. StoredInOrder
    BY <2>4 DEF StoredInOrder, InOrder, Timely
  <2> QED
    BY <2>3, <2>5 DEF StoredOnceInOrder
<1> QED
  BY <1>1, Inductive, PTL

(* When main sees all goroutines end, forwardEvents has nothing in hand;   *)
(* the programs are detached by the time main is gone.                     *)
THEOREM ExitIsClean == Spec => []CleanExit
<1>1. IInv => CleanExit
  BY DEF IInv, Control, CleanExit, Posting
<1> QED
  BY <1>1, Inductive, PTL

=============================================================================

---------------------------- MODULE Kernel_proofs ----------------------------
(***************************************************************************)
(* Proofs about Kernel, for any posts, readers, batches and connections,   *)
(* however the handlers interleave and whichever saves fail.  What a       *)
(* detector looks for plays no part: Patterns is opaque here.              *)
(***************************************************************************)
EXTENDS Kernel, FiniteSetTheorems, SequenceTheorems, TLAPS

-----------------------------------------------------------------------------
(* The inductive invariant                                                 *)

Busy == {"saving", "broadcasting", "analyzing", "predicting", "recording", "announcing"}

MessageTypes == {"ebpf_event", "prediction", "network_topology_update"}

TypeOK ==
  /\ storeType \in {"memory", "redis"}
  /\ pc \in [Posts -> Busy \cup {"idle", "refused", "answered"}]
  /\ batch \in [Posts -> Seq(Events)]
  /\ next \in [Posts -> Nat \ {0}]
  /\ stored \subseteq EventIds
  /\ predictions \in Seq([of : EventIds, patterns : SUBSET PatternNames])
  /\ lastSeen \in [Conns -> 0..MaxTime]
  /\ lock \in Posts \cup {Free}
  /\ feed \in Seq([type : MessageTypes, of : EventIds])
  /\ listed \in [Gets -> (SUBSET Conns) \cup {Free}]
  /\ failed \subseteq EventIds

(* A handler that works has an event at hand.                              *)
Cursor ==
  \A p \in Posts :
    /\ pc[p] \in {"idle", "refused"} => next[p] = 1 /\ batch[p] = <<>>
    /\ pc[p] \in Busy => next[p] <= Len(batch[p])
    /\ pc[p] = "answered" => next[p] = Len(batch[p]) + 1

(* The handler of x is done with it, or is at one of the given places.     *)
Reached(x, places) ==
  \/ x[2] < next[x[1]]
  \/ x[2] = next[x[1]] /\ pc[x[1]] \in places

Predicted == {"recording", "announcing"}
Analyzed == {"predicting"} \cup Predicted
Shown == {"analyzing"} \cup Analyzed

(* Where a handler is after it published a message.                        *)
After(type) ==
  {l \in Shown : type = "ebpf_event"} \cup {l \in Predicted : type = "prediction"}

Sent == {feed[k] : k \in DOMAIN feed}
Kept == {predictions[i].of : i \in DOMAIN predictions}
Says(type, x) == [type |-> type, of |-> x] \in Sent

(* What a message that was published says of its event ...                 *)
Messages ==
  \A m \in Sent :
    /\ m.of \in stored /\ m.of \notin failed
    /\ Reached(m.of, After(m.type))
    /\ m.type = "prediction" => m.of \in Kept
    /\ m.type = "network_topology_update" => lastSeen[EventOf(m.of).conn] # 0

(* ... and what was published of the event at hand, ...                    *)
AtHand ==
  \A p \in Posts :
    /\ pc[p] \in {"broadcasting"} \cup Shown => Id(p) \in stored
    /\ pc[p] \in Shown => Says("ebpf_event", Id(p))
    /\ pc[p] = "predicting" => Id(p) \in Kept /\ Patterns(Window(p)) # {}
    /\ pc[p] \in Predicted /\ Patterns(Window(p)) # {} => Says("prediction", Id(p))

(* ... and of those before it.                                             *)
Handled ==
  /\ \A x \in failed : x[2] < next[x[1]]
  /\ \A p \in Posts : \A i \in 1..(next[p] - 1) :
       <<p, i>> \notin failed =>
         /\ Says("ebpf_event", <<p, i>>)
         /\ Patterns(<<batch[p][i]>>) # {} => Says("prediction", <<p, i>>)
         /\ batch[p][i].kind = "network_audit" => lastSeen[batch[p][i].conn] # 0

(* A prediction is kept once, and published next.                          *)
Predictions ==
  /\ IsFiniteSet(Kept) /\ Cardinality(Kept) = Len(predictions)
  /\ \A x \in Kept :
       /\ Reached(x, Analyzed)
       /\ Says("prediction", x) \/ (pc[x[1]] = "predicting" /\ next[x[1]] = x[2])

(* Who announces a connection holds the lock; the map holds what was       *)
(* announced and what is being announced.                                  *)
Announcing(p) == pc[p] = "announcing"

Map ==
  /\ \A p \in Posts : lock = p <=> Announcing(p)
  /\ \A p \in Posts : Announcing(p) => lastSeen[Event(p).conn] # 0
  /\ \A c \in Conns : lastSeen[c] # 0 =>
       \/ \E x \in EventIds : Says("network_topology_update", x) /\ EventOf(x).conn = c
       \/ \E p \in Posts : Announcing(p) /\ Event(p).conn = c
  /\ \A x, y \in EventIds :
       Says("network_topology_update", x) /\ Says("network_topology_update", y)
         /\ EventOf(x).conn = EventOf(y).conn => x = y
  /\ \A p \in Posts, x \in EventIds :
       Announcing(p) /\ Says("network_topology_update", x)
         => EventOf(x).conn # Event(p).conn
  /\ \A g \in Gets : listed[g] # Free =>
       \A c \in listed[g] : \E x \in EventIds :
         Says("network_topology_update", x) /\ EventOf(x).conn = c

IInv == /\ TypeOK /\ Cursor /\ FeedIsCausal /\ Messages /\ AtHand /\ Handled
        /\ Predictions /\ Map

-----------------------------------------------------------------------------
(* What a step does to the post that takes it                              *)

USE KernelAssumption DEF KernelAssumption

(* The invariant holds at the start.                                       *)
LEMMA InitIInv == Init => IInv
<1> SUFFICES ASSUME Init PROVE IInv
  OBVIOUS
<1> USE DEF Init
<1>1. TypeOK
  <2>1. /\ <<>> \in Seq(Events)
        /\ <<>> \in Seq([of : EventIds, patterns : SUBSET PatternNames])
        /\ <<>> \in Seq([type : MessageTypes, of : EventIds])
    BY EmptySeq
  <2>2. 0 \in 0..MaxTime /\ 1 \in Nat \ {0}
    OBVIOUS
  <2> QED
    BY <2>1, <2>2 DEF TypeOK
<1>2. Cursor
  BY DEF Cursor, Busy
<1>3. Sent = {} /\ Kept = {} /\ DOMAIN feed = {} /\ Len(predictions) = 0
  BY EmptySeq DEF Sent, Kept
<1>4. FeedIsCausal /\ Messages
  BY <1>3 DEF FeedIsCausal, Messages
<1>5. AtHand
  BY DEF AtHand, Shown, Analyzed, Predicted
<1>6. Handled
  BY DEF Handled
<1>7. Predictions
  BY <1>3, FS_EmptySet DEF Predictions
<1>8. Map
  BY <1>3 DEF Map, Announcing, Says
<1> QED
  BY <1>1, <1>2, <1>4, <1>5, <1>6, <1>7, <1>8 DEF IInv

(* What is known of the event at hand.                                     *)
LEMMA Working ==
  ASSUME TypeOK, Cursor, NEW p \in Posts, pc[p] \in Busy
  PROVE  /\ next[p] \in 1..Len(batch[p]) /\ Len(batch[p]) \in Nat /\ next[p] \in Nat
         /\ Event(p) \in Events /\ Id(p) \in EventIds
         /\ Event(p).conn \in Conns /\ Event(p).at \in 1..MaxTime
         /\ Patterns(Window(p)) \subseteq PatternNames
<1>1. batch[p] \in Seq(Events) /\ next[p] \in Nat \ {0} /\ next[p] <= Len(batch[p])
  BY DEF TypeOK, Cursor
<1>2. Len(batch[p]) \in Nat /\ next[p] \in 1..Len(batch[p])
  BY <1>1, LenProperties
<1>3. Event(p) \in Events
  BY <1>1, <1>2, ElementOfSeq DEF Event
<1>4. Event(p).conn \in Conns /\ Event(p).at \in 1..MaxTime
  BY <1>3 DEF Events
<1>5. Patterns(Window(p)) \subseteq PatternNames
  BY DEF Patterns, PatternNames
<1> QED
  BY <1>1, <1>2, <1>3, <1>4, <1>5 DEF Id, EventIds

(* A handler moves itself only, to a later place or to the next event.     *)
LEMMA Moves ==
  ASSUME TypeOK, Cursor, NEW p \in Posts, Handle(p)
  PROVE  /\ pc[p] \in Busy
         /\ UNCHANGED outside
         /\ pc' \in [Posts -> Busy \cup {"idle", "refused", "answered"}]
         /\ next' \in [Posts -> Nat \ {0}]
         /\ \A q \in Posts : q # p => pc'[q] = pc[q] /\ next'[q] = next[q]
         /\ \/ pc'[p] \in Busy /\ next'[p] = next[p]
            \/ /\ next'[p] = next[p] + 1
               /\ pc'[p] = IF next[p] < Len(batch[p]) THEN "saving" ELSE "answered"
<1> USE DEF TypeOK, Busy
<1>1. ASSUME NEW l \in Busy, Goto(p, l), next' = next
      PROVE  /\ pc' \in [Posts -> Busy \cup {"idle", "refused", "answered"}]
             /\ next' \in [Posts -> Nat \ {0}]
             /\ \A q \in Posts : q # p => pc'[q] = pc[q] /\ next'[q] = next[q]
             /\ pc'[p] \in Busy /\ next'[p] = next[p]
  BY <1>1 DEF Goto
<1>2. ASSUME EndOfEvent(p)
      PROVE  /\ pc' \in [Posts -> Busy \cup {"idle", "refused", "answered"}]
             /\ next' \in [Posts -> Nat \ {0}]
             /\ \A q \in Posts : q # p => pc'[q] = pc[q] /\ next'[q] = next[q]
             /\ next'[p] = next[p] + 1
             /\ pc'[p] = IF next[p] < Len(batch[p]) THEN "saving" ELSE "answered"
  BY <1>2 DEF EndOfEvent, Goto
<1>3. CASE \/ Save(p) \/ Broadcast(p) \/ AnalyzeQuiet(p) \/ AnalyzePredicts(p)
           \/ Predict(p) \/ RecordNew(p)
  <2>1. UNCHANGED outside /\ pc[p] \in Busy
    BY <1>3 DEF Save, Broadcast, AnalyzeQuiet, AnalyzePredicts, Predict, RecordNew,
                Recording
  <2>2. next' = next /\ \E l \in Busy : Goto(p, l)
    BY <1>3 DEF Save, Broadcast, AnalyzeQuiet, AnalyzePredicts, Predict, RecordNew
  <2> QED
    BY <1>1, <2>1, <2>2
<1>4. CASE SaveFails(p) \/ RecordNothing(p) \/ RecordKnown(p) \/ Announce(p)
  <2>1. UNCHANGED outside /\ pc[p] \in Busy /\ EndOfEvent(p)
    BY <1>4 DEF SaveFails, RecordNothing, RecordKnown, Announce, Recording
  <2> QED
    BY <1>2, <2>1
<1> QED
  BY <1>3, <1>4 DEF Handle

(* Every step keeps a working handler at an event of its batch.            *)
LEMMA CursorStep == TypeOK /\ Cursor /\ [Next]_vars => Cursor'
<1> SUFFICES ASSUME TypeOK, Cursor, [Next]_vars PROVE Cursor'
  OBVIOUS
<1>1. ASSUME NEW p \in Posts, Handle(p) PROVE Cursor'
  <2>1. Len(batch[p]) \in Nat /\ next[p] \in 1..Len(batch[p])
    BY <1>1, Moves, Working
  <2>2. batch' = batch
    BY <1>1, Moves DEF outside
  <2> SUFFICES ASSUME NEW q \in Posts
               PROVE  /\ pc'[q] \in {"idle", "refused"} => next'[q] = 1 /\ batch[q] = <<>>
                      /\ pc'[q] \in Busy => next'[q] <= Len(batch[q])
                      /\ pc'[q] = "answered" => next'[q] = Len(batch[q]) + 1
    BY <2>2 DEF Cursor
  <2>3. CASE q # p
    BY <1>1, <2>3, Moves DEF Cursor
  <2>4. CASE q = p
    BY <1>1, <2>1, <2>4, Moves DEF Busy
  <2> QED
    BY <2>3, <2>4
<1>2. ASSUME NEW p \in Posts, Post(p) PROVE Cursor'
  <2>1. PICK b \in Batches : /\ batch' = [batch EXCEPT ![p] = b]
                             /\ Goto(p, IF b = <<>> THEN "answered" ELSE "saving")
    BY <1>2 DEF Post
  <2>2. b \in Seq(Events) /\ Len(b) \in Nat /\ (b # <<>> => Len(b) >= 1) /\ Len(<<>>) = 0
    <3>1. b \in Seq(Events)
      OBVIOUS
    <3> QED
      BY <3>1, LenProperties, EmptySeq
  <2>3. next' = next /\ next[p] = 1
    BY <1>2 DEF Post, Cursor
  <2> QED
    BY <2>1, <2>2, <2>3 DEF Goto, Cursor, TypeOK, Busy
<1>3. ASSUME NEW p \in Posts, Refuse(p) PROVE Cursor'
  BY <1>3 DEF Refuse, outside, Goto, Cursor, TypeOK, Busy
<1>4. CASE UNCHANGED vars \/ \E g \in Gets : Get(g)
  BY <1>4 DEF vars, Get, Cursor
<1> QED
  BY <1>1, <1>2, <1>3, <1>4 DEF Next

(* Every step keeps the types.                                             *)
LEMMA TypeStep == TypeOK /\ Cursor /\ [Next]_vars => TypeOK'
<1> SUFFICES ASSUME TypeOK, Cursor, [Next]_vars PROVE TypeOK'
  OBVIOUS
<1>1. ASSUME NEW p \in Posts, Handle(p) PROVE TypeOK'
  <2>1. /\ pc' \in [Posts -> Busy \cup {"idle", "refused", "answered"}]
        /\ next' \in [Posts -> Nat \ {0}]
        /\ storeType' = storeType /\ batch' = batch /\ listed' = listed
    BY <1>1, Moves DEF outside
  <2>2. /\ Id(p) \in EventIds /\ Event(p).at \in 0..MaxTime
        /\ Patterns(Window(p)) \in SUBSET PatternNames
    BY <1>1, Moves, Working
  <2>3. stored' \subseteq EventIds /\ failed' \subseteq EventIds
    BY <1>1, <2>2
       DEF TypeOK, Handle, Save, SaveFails, Broadcast, AnalyzeQuiet, AnalyzePredicts,
           Predict, RecordNothing, RecordKnown, RecordNew, Announce
  <2>4. predictions' \in Seq([of : EventIds, patterns : SUBSET PatternNames])
    <3> DEFINE S == [of : EventIds, patterns : SUBSET PatternNames]
               x == [of |-> Id(p), patterns |-> Patterns(Window(p))]
    <3>1. x \in S
      BY <2>2
    <3>2. predictions' = predictions \/ predictions' = Append(predictions, x)
      BY <1>1
         DEF Handle, Save, SaveFails, Broadcast, AnalyzeQuiet, AnalyzePredicts,
             Predict, RecordNothing, RecordKnown, RecordNew, Announce
    <3>3. predictions \in Seq(S)
      BY DEF TypeOK
    <3> HIDE DEF S, x
    <3>4. predictions' \in Seq(S)
      BY <3>1, <3>2, <3>3, AppendProperties
    <3> QED
      BY <3>4 DEF S
  <2>5. feed' \in Seq([type : MessageTypes, of : EventIds])
    <3> DEFINE S == [type : MessageTypes, of : EventIds]
    <3>1. \A t \in MessageTypes : Message(t, p) \in S
      BY <2>2 DEF Message
    <3>2. feed' = feed \/ \E t \in MessageTypes : feed' = Append(feed, Message(t, p))
      BY <1>1
         DEF MessageTypes, Handle, Save, SaveFails, Broadcast, AnalyzeQuiet,
             AnalyzePredicts, Predict, RecordNothing, RecordKnown, RecordNew, Announce
    <3>3. feed \in Seq(S)
      BY DEF TypeOK
    <3> HIDE DEF S
    <3>4. feed' \in Seq(S)
      BY <3>1, <3>2, <3>3, AppendProperties
    <3> QED
      BY <3>4 DEF S
  <2>6. lastSeen' \in [Conns -> 0..MaxTime]
    <3>1. lastSeen' = lastSeen \/ Seen(p)
      BY <1>1
         DEF Handle, Save, SaveFails, Broadcast, AnalyzeQuiet, AnalyzePredicts,
             Predict, RecordNothing, RecordKnown, RecordNew, Announce
    <3> QED
      BY <2>2, <3>1 DEF Seen, TypeOK
  <2>7. lock' \in Posts \cup {Free}
    BY <1>1
       DEF TypeOK, Handle, Save, SaveFails, Broadcast, AnalyzeQuiet, AnalyzePredicts,
           Predict, RecordNothing, RecordKnown, RecordNew, Announce
  <2> QED
    BY <2>1, <2>3, <2>4, <2>5, <2>6, <2>7 DEF TypeOK
<1>2. ASSUME NEW p \in Posts, Post(p) \/ Refuse(p) PROVE TypeOK'
  BY <1>2 DEF Post, Refuse, Goto, outside, TypeOK, Busy
<1>3. ASSUME NEW g \in Gets, Get(g) PROVE TypeOK'
  BY <1>3 DEF Get, TypeOK
<1>4. CASE UNCHANGED vars
  BY <1>4 DEF vars, TypeOK
<1> QED
  BY <1>1, <1>2, <1>3, <1>4 DEF Next

-----------------------------------------------------------------------------
(* What lasts                                                              *)

Places == {Shown, Analyzed, Predicted, {}}

(* A handler that stays at its event stays past the places it reached.     *)
LEMMA Later ==
  ASSUME TypeOK, Cursor, NEW p \in Posts, Handle(p), next'[p] = next[p],
         NEW places \in Places, pc[p] \in places
  PROVE  pc'[p] \in places
<1> USE DEF Places, Shown, Analyzed, Predicted, TypeOK
<1>0. next[p] + 1 # next[p]
  OBVIOUS
<1>1. ~EndOfEvent(p)
  BY <1>0 DEF EndOfEvent
<1>2. CASE Save(p)
  BY <1>2 DEF Save
<1>3. CASE Broadcast(p)
  BY <1>3 DEF Broadcast
<1>4. CASE AnalyzeQuiet(p) \/ AnalyzePredicts(p)
  BY <1>4 DEF AnalyzeQuiet, AnalyzePredicts, Goto
<1>5. CASE Predict(p)
  BY <1>5 DEF Predict, Goto
<1>6. CASE RecordNew(p)
  BY <1>6 DEF RecordNew, Recording, Goto
<1> QED
  BY <1>1, <1>2, <1>3, <1>4, <1>5, <1>6
     DEF Handle, SaveFails, RecordNothing, RecordKnown, Announce

(* A handler never goes back.                                              *)
LEMMA Progress ==
  ASSUME TypeOK, Cursor, [Next]_vars, NEW x \in EventIds, NEW places \in Places,
         Reached(x, places)
  PROVE  Reached(x, places)'
<1>0. x[1] \in Posts /\ x[2] \in Nat \ {0} /\ next[x[1]] \in Nat
  BY DEF EventIds, TypeOK
<1>1. ASSUME NEW p \in Posts, Handle(p) PROVE Reached(x, places)'
  <2>1. CASE x[1] # p
    BY <1>0, <1>1, <2>1, Moves DEF Reached
  <2>2. CASE x[1] = p
    <3>1. CASE next'[p] = next[p]
      BY <1>1, <2>2, <3>1, Later DEF Reached
    <3>2. CASE next'[p] = next[p] + 1
      BY <1>0, <2>2, <3>2 DEF Reached
    <3> QED
      BY <1>1, <3>1, <3>2, Moves
  <2> QED
    BY <2>1, <2>2
<1>2. ASSUME NEW p \in Posts, Post(p) \/ Refuse(p) PROVE Reached(x, places)'
  <2>1. next' = next /\ pc[p] = "idle" /\ \A q \in Posts : q # p => pc'[q] = pc[q]
    BY <1>2 DEF Post, Refuse, Goto, TypeOK
  <2>2. "idle" \notin places
    BY DEF Places, Shown, Analyzed, Predicted
  <2> QED
    BY <1>0, <2>1, <2>2 DEF Reached
<1>3. CASE UNCHANGED vars \/ \E g \in Gets : Get(g)
  BY <1>3 DEF vars, Get, Reached
<1> QED
  BY <1>1, <1>2, <1>3 DEF Next

(* A message published joins the feed.                                     *)
LEMMA Publishing ==
  ASSUME TypeOK, NEW m, feed' = Append(feed, m), m \in [type : MessageTypes, of : EventIds]
  PROVE  /\ Len(feed) \in Nat /\ DOMAIN feed = 1..Len(feed)
         /\ DOMAIN feed' = 1..(Len(feed) + 1)
         /\ \A k \in 1..Len(feed) : feed'[k] = feed[k]
         /\ feed'[Len(feed) + 1] = m
         /\ Sent' = Sent \cup {m}
<1> DEFINE S == [type : MessageTypes, of : EventIds]
<1>1. feed \in Seq(S) /\ m \in S
  BY DEF TypeOK
<1> HIDE DEF S
<1>2. /\ Len(feed) \in Nat /\ DOMAIN feed = 1..Len(feed)
      /\ DOMAIN feed' = 1..(Len(feed) + 1)
      /\ \A k \in 1..Len(feed) : feed'[k] = feed[k]
      /\ feed'[Len(feed) + 1] = m
  BY <1>1, AppendProperties, LenProperties
<1> QED
  BY <1>2 DEF Sent

(* A prediction recorded joins those kept.                                 *)
LEMMA Keeping ==
  ASSUME TypeOK, NEW r, predictions' = Append(predictions, r),
         r \in [of : EventIds, patterns : SUBSET PatternNames]
  PROVE  /\ Len(predictions) \in Nat /\ Len(predictions') = Len(predictions) + 1
         /\ Kept' = Kept \cup {r.of}
<1> DEFINE S == [of : EventIds, patterns : SUBSET PatternNames]
<1>1. predictions \in Seq(S) /\ r \in S
  BY DEF TypeOK
<1> HIDE DEF S
<1>2. /\ Len(predictions) \in Nat /\ DOMAIN predictions = 1..Len(predictions)
      /\ Len(predictions') = Len(predictions) + 1
      /\ DOMAIN predictions' = 1..(Len(predictions) + 1)
      /\ \A k \in 1..Len(predictions) : predictions'[k] = predictions[k]
      /\ predictions'[Len(predictions) + 1] = r
  BY <1>1, AppendProperties, LenProperties
<1> QED
  BY <1>2 DEF Kept

(* The message that a step publishes.                                      *)
LEMMA Said ==
  ASSUME TypeOK, Cursor, NEW p \in Posts
  PROVE  /\ \A t \in MessageTypes :
              pc[p] \in Busy => Message(t, p) \in [type : MessageTypes, of : EventIds]
         /\ Broadcast(p) => Sent' = Sent \cup {Message("ebpf_event", p)}
         /\ Predict(p) => Sent' = Sent \cup {Message("prediction", p)}
         /\ Announce(p) => Sent' = Sent \cup {Message("network_topology_update", p)}
         /\ \/ Save(p) \/ SaveFails(p) \/ AnalyzeQuiet(p) \/ AnalyzePredicts(p)
            \/ RecordNothing(p) \/ RecordKnown(p) \/ RecordNew(p)
            => Sent' = Sent
<1>1. ASSUME NEW t \in MessageTypes, pc[p] \in Busy
      PROVE  Message(t, p) \in [type : MessageTypes, of : EventIds]
  BY <1>1, Working DEF Message
<1>2. ASSUME NEW t \in MessageTypes, pc[p] \in Busy, feed' = Append(feed, Message(t, p))
      PROVE  Sent' = Sent \cup {Message(t, p)}
  BY <1>1, <1>2, Publishing
<1>3. /\ Broadcast(p) => Sent' = Sent \cup {Message("ebpf_event", p)}
      /\ Predict(p) => Sent' = Sent \cup {Message("prediction", p)}
      /\ Announce(p) => Sent' = Sent \cup {Message("network_topology_update", p)}
  BY <1>2 DEF Broadcast, Predict, Announce, MessageTypes, Busy
<1>4. feed' = feed => Sent' = Sent
  BY DEF Sent
<1> QED
  BY <1>1, <1>3, <1>4
     DEF Save, SaveFails, AnalyzeQuiet, AnalyzePredicts, RecordNothing, RecordKnown,
         RecordNew

(* The prediction that a step keeps.                                       *)
LEMMA Noted ==
  ASSUME TypeOK, Cursor, NEW p \in Posts, Handle(p)
  PROVE  \/ /\ AnalyzePredicts(p) /\ Kept' = Kept \cup {Id(p)}
            /\ Len(predictions) \in Nat /\ Len(predictions') = Len(predictions) + 1
         \/ ~AnalyzePredicts(p) /\ Kept' = Kept /\ predictions' = predictions
<1>1. CASE AnalyzePredicts(p)
  <2> DEFINE r == [of |-> Id(p), patterns |-> Patterns(Window(p))]
  <2>1. predictions' = Append(predictions, r)
    BY <1>1 DEF AnalyzePredicts
  <2>2. r \in [of : EventIds, patterns : SUBSET PatternNames] /\ r.of = Id(p)
    BY Moves, Working
  <2> HIDE DEF r
  <2> QED
    BY <1>1, <2>1, <2>2, Keeping
<1>2. CASE ~AnalyzePredicts(p)
  <2>1. predictions' = predictions
    BY <1>2
       DEF Handle, Save, SaveFails, Broadcast, AnalyzeQuiet, Predict, RecordNothing,
           RecordKnown, RecordNew, Announce
  <2> QED
    BY <1>2, <2>1 DEF Kept
<1> QED
  BY <1>1, <1>2

(* What a step that is no handler's leaves alone.                          *)
LEMMA Others ==
  ASSUME TypeOK, [Next]_vars, ~\E p \in Posts : Handle(p)
  PROVE  /\ UNCHANGED <<next, stored, predictions, lastSeen, lock, feed, failed>>
         /\ Sent' = Sent /\ Kept' = Kept
         /\ \A q \in Posts : pc[q] \in Busy => pc'[q] = pc[q] /\ batch'[q] = batch[q]
         /\ \A q \in Posts : pc'[q] \in Busy \ {"saving"} => pc'[q] = pc[q]
<1>1. UNCHANGED <<next, stored, predictions, lastSeen, lock, feed, failed>>
  BY DEF Next, Post, Refuse, Get, outside, vars
<1>2. ASSUME NEW p \in Posts, Post(p) \/ Refuse(p), NEW q \in Posts
      PROVE  /\ pc[q] \in Busy => pc'[q] = pc[q] /\ batch'[q] = batch[q]
             /\ pc'[q] \in Busy \ {"saving"} => pc'[q] = pc[q]
  <2>1. CASE Refuse(p)
    BY <2>1 DEF Refuse, Goto, outside, TypeOK, Busy
  <2>2. CASE Post(p)
    <3>1. PICK b \in Batches : /\ batch' = [batch EXCEPT ![p] = b]
                               /\ Goto(p, IF b = <<>> THEN "answered" ELSE "saving")
      BY <2>2 DEF Post
    <3> QED
      BY <2>2, <3>1 DEF Post, Goto, TypeOK, Busy
  <2> QED
    BY <1>2, <2>1, <2>2
<1>3. CASE UNCHANGED vars \/ \E g \in Gets : Get(g)
  BY <1>1, <1>3 DEF vars, Get, Sent, Kept
<1> QED
  BY <1>1, <1>2, <1>3 DEF Next, Sent, Kept

(* Nothing is forgotten, and an event that was shown stays what it is.     *)
LEMMA Lasting ==
  ASSUME TypeOK, Cursor, [Next]_vars
  PROVE  /\ Sent \subseteq Sent' /\ Kept \subseteq Kept'
         /\ stored \subseteq stored' /\ failed \subseteq failed'
         /\ \A c \in Conns : lastSeen[c] # 0 => lastSeen'[c] # 0
         /\ \A x \in EventIds : Reached(x, Shown) => EventOf(x)' = EventOf(x)
<1>1. ASSUME NEW p \in Posts, Handle(p)
      PROVE  /\ Sent \subseteq Sent' /\ Kept \subseteq Kept'
             /\ stored \subseteq stored' /\ failed \subseteq failed'
             /\ \A c \in Conns : lastSeen[c] # 0 => lastSeen'[c] # 0
             /\ batch' = batch
  <2>1. Sent \subseteq Sent' /\ Kept \subseteq Kept' /\ batch' = batch
    BY <1>1, Said, Noted, Moves DEF Handle, outside
  <2>2. stored \subseteq stored' /\ failed \subseteq failed'
    BY <1>1
       DEF Handle, Save, SaveFails, Broadcast, AnalyzeQuiet, AnalyzePredicts,
           Predict, RecordNothing, RecordKnown, RecordNew, Announce
  <2>3. lastSeen' = lastSeen \/ Seen(p)
    BY <1>1
       DEF Handle, Save, SaveFails, Broadcast, AnalyzeQuiet, AnalyzePredicts,
           Predict, RecordNothing, RecordKnown, RecordNew, Announce
  <2>4. Event(p).at \in 1..MaxTime
    BY <1>1, Moves, Working
  <2>5. \A c \in Conns : lastSeen[c] # 0 => lastSeen'[c] # 0
    BY <2>3, <2>4 DEF Seen, TypeOK
  <2> QED
    BY <2>1, <2>2, <2>5
<1>2. CASE ~\E p \in Posts : Handle(p)
  <2>1. /\ Sent' = Sent /\ Kept' = Kept
        /\ UNCHANGED <<stored, failed, lastSeen>>
    BY <1>2, Others
  <2>2. ASSUME NEW x \in EventIds, Reached(x, Shown) PROVE EventOf(x)' = EventOf(x)
    <3>0. x[1] \in Posts /\ x[2] \in Nat \ {0} /\ next[x[1]] \in Nat
      BY DEF EventIds, TypeOK
    <3>1. pc[x[1]] # "idle"
      BY <2>2, <3>0 DEF Reached, Cursor, Shown, Analyzed, Predicted
    <3>2. batch'[x[1]] = batch[x[1]]
      BY <1>2, <3>0, <3>1 DEF Next, Post, Refuse, Get, outside, vars, TypeOK
    <3> QED
      BY <3>2 DEF EventOf
  <2> QED
    BY <2>1, <2>2
<1> QED
  BY <1>1, <1>2 DEF EventOf

-----------------------------------------------------------------------------
(* The feed                                                                *)

(* The members of a sequence.                                              *)
LEMMA Elements ==
  ASSUME NEW S, NEW s \in Seq(S)
  PROVE  \A i \in DOMAIN s : s[i] \in S
BY LenProperties, ElementOfSeq

(* What is on the feed are messages.                                       *)
LEMMA SentType ==
  ASSUME TypeOK
  PROVE  /\ Sent \subseteq [type : MessageTypes, of : EventIds]
         /\ Kept \subseteq EventIds
         /\ \A m \in Sent : After(m.type) \in Places
<1>1. Sent \subseteq [type : MessageTypes, of : EventIds]
  <2> DEFINE S == [type : MessageTypes, of : EventIds]
  <2>1. feed \in Seq(S)
    BY DEF TypeOK
  <2> HIDE DEF S
  <2>2. Sent \subseteq S
    BY <2>1, Elements DEF Sent
  <2> QED
    BY <2>2 DEF S
<1>2. Kept \subseteq EventIds
  <2>1. \A i \in DOMAIN predictions :
          predictions[i] \in [of : EventIds, patterns : SUBSET PatternNames]
    <3> DEFINE S == [of : EventIds, patterns : SUBSET PatternNames]
    <3>1. predictions \in Seq(S)
      BY DEF TypeOK
    <3> HIDE DEF S
    <3>2. \A i \in DOMAIN predictions : predictions[i] \in S
      BY <3>1, Elements
    <3> QED
      BY <3>2 DEF S
  <2> QED
    BY <2>1 DEF Kept
<1>3. \A t \in MessageTypes : After(t) \in Places
  <2>1. After("ebpf_event") = Shown
    BY DEF After
  <2>2. After("prediction") = Predicted
    BY DEF After
  <2>3. After("network_topology_update") = {}
    BY DEF After
  <2> QED
    BY <2>1, <2>2, <2>3 DEF MessageTypes, Places
<1> QED
  BY <1>1, <1>2, <1>3

(* What a handler has passed is in its batch.                              *)
LEMMA Passed ==
  ASSUME TypeOK, Cursor, NEW q \in Posts, NEW i \in Nat \ {0}, i < next[q]
  PROVE  batch[q][i] \in Events /\ batch[q][i].conn \in Conns
<1>1. batch[q] \in Seq(Events) /\ Len(batch[q]) \in Nat /\ next[q] \in Nat \ {0}
  BY LenProperties DEF TypeOK
<1>2. next[q] <= Len(batch[q]) + 1
  <2>1. pc[q] \in Busy \cup {"idle", "refused", "answered"} /\ Len(<<>>) = 0
    BY EmptySeq DEF TypeOK
  <2> QED
    BY <1>1, <2>1 DEF Cursor
<1>3. i \in 1..Len(batch[q])
  BY <1>1, <1>2
<1>4. batch[q][i] \in Events
  BY <1>1, <1>3, ElementOfSeq
<1> QED
  BY <1>4 DEF Events

(* Every step keeps what a published message says true.                    *)
LEMMA MessagesStep ==
  TypeOK /\ Cursor /\ Messages /\ AtHand /\ Handled /\ Predictions /\ Map /\ [Next]_vars
    => Messages'
<1> SUFFICES ASSUME TypeOK, Cursor, Messages, AtHand, Handled, Predictions, Map,
                    [Next]_vars
             PROVE  Messages'
  OBVIOUS
(* What was published before.                                              *)
<1>1. ASSUME NEW m \in Sent
      PROVE  /\ m.of \in stored' /\ m.of \notin failed'
             /\ Reached(m.of, After(m.type))'
             /\ m.type = "prediction" => m.of \in Kept'
             /\ m.type = "network_topology_update" => lastSeen'[EventOf(m.of)'.conn] # 0
  <2>1. /\ m.of \in EventIds /\ After(m.type) \in Places /\ m.of[1] \in Posts
        /\ m.of[2] \in Nat /\ next[m.of[1]] \in Nat \ {0}
    BY SentType DEF EventIds, TypeOK
  <2>2. m.of \in stored /\ m.of \notin failed /\ Reached(m.of, After(m.type))
    BY DEF Messages
  <2>3. Reached(m.of, Shown)
    BY <2>2 DEF Reached, After, Shown, Analyzed, Predicted
  <2>4. m.of \notin failed'
    <3>1. CASE \E p \in Posts : SaveFails(p)
      <4>1. PICK p \in Posts : SaveFails(p)
        BY <3>1
      <4>2. failed' = failed \cup {Id(p)} /\ pc[p] = "saving"
        BY <4>1 DEF SaveFails
      <4>3. m.of # Id(p)
        BY <2>1, <2>3, <4>2 DEF Reached, Id, Shown, Analyzed, Predicted
      <4> QED
        BY <2>2, <4>2, <4>3
    <3>2. CASE ~\E p \in Posts : SaveFails(p)
      <4>1. failed' = failed
        BY <3>2
           DEF Next, vars, Post, Refuse, Get, Handle, Save, Broadcast, AnalyzeQuiet,
               AnalyzePredicts, Predict, RecordNothing, RecordKnown, RecordNew, Announce
      <4> QED
        BY <2>2, <4>1
    <3> QED
      BY <3>1, <3>2
  <2>5. m.type = "network_topology_update" => lastSeen'[EventOf(m.of)'.conn] # 0
    <3>1. ASSUME m.type = "network_topology_update"
          PROVE  lastSeen[EventOf(m.of).conn] # 0 /\ EventOf(m.of).conn \in Conns
      <4>1. m.of[2] < next[m.of[1]] /\ m.of[2] \in Nat \ {0}
        BY <2>1, <2>2, <3>1 DEF Reached, After, Shown, Predicted, EventIds
      <4>2. EventOf(m.of) \in Events
        BY <2>1, <4>1, Passed DEF EventOf
      <4> QED
        BY <3>1, <4>2 DEF Messages, Events
    <3> QED
      BY <2>1, <2>3, <3>1, Lasting
  <2> QED
    BY <2>1, <2>2, <2>4, <2>5, Progress, Lasting DEF Messages
(* What is published now.                                                  *)
<1>2. ASSUME NEW p \in Posts, Handle(p), NEW m \in Sent' \ Sent
      PROVE  /\ m.of \in stored' /\ m.of \notin failed'
             /\ Reached(m.of, After(m.type))'
             /\ m.type = "prediction" => m.of \in Kept'
             /\ m.type = "network_topology_update" => lastSeen'[EventOf(m.of)'.conn] # 0
  <2>1. Id(p) \notin failed /\ Id(p)[1] = p /\ Id(p)[2] = next[p] /\ next[p] \in Nat
    BY <1>2 DEF Handled, Id, TypeOK
  <2>2. CASE Broadcast(p)
    <3>1. m = Message("ebpf_event", p) /\ stored' = stored /\ failed' = failed
      BY <1>2, <2>2, Said DEF Broadcast
    <3>2. pc'[p] = "analyzing" /\ next' = next
      BY <2>2 DEF Broadcast, Goto, TypeOK
    <3>3. Id(p) \in stored
      BY <2>2 DEF Broadcast, AtHand
    <3> QED
      BY <2>1, <3>1, <3>2, <3>3 DEF Message, Reached, After, Shown
  <2>3. CASE Predict(p)
    <3>1. m = Message("prediction", p) /\ stored' = stored /\ failed' = failed
      BY <1>2, <2>3, Said DEF Predict
    <3>2. pc'[p] = "recording" /\ next' = next
      BY <2>3 DEF Predict, Goto, TypeOK
    <3>3. Id(p) \in stored /\ Id(p) \in Kept'
      <4>1. pc[p] = "predicting"
        BY <2>3 DEF Predict
      <4>2. Id(p) \in Kept
        BY <4>1 DEF AtHand
      <4> QED
        BY <4>1, <4>2, Lasting DEF AtHand, Shown, Analyzed
    <3> QED
      BY <2>1, <3>1, <3>2, <3>3 DEF Message, Reached, After, Shown, Analyzed, Predicted
  <2>4. CASE Announce(p)
    <3>1. m = Message("network_topology_update", p) /\ stored' = stored /\ failed' = failed
      BY <1>2, <2>4, Said DEF Announce
    <3>2. next'[p] = next[p] + 1 /\ batch' = batch /\ lastSeen' = lastSeen
      BY <2>4 DEF Announce, EndOfEvent, outside, TypeOK
    <3>3. Id(p) \in stored
      BY <2>4 DEF Announce, AtHand, Shown, Analyzed, Predicted
    <3>4. lastSeen[Event(p).conn] # 0 /\ EventOf(Id(p)) = Event(p)
      BY <2>4 DEF Announce, Map, Announcing, EventOf, Event, Id
    <3> QED
      BY <2>1, <3>1, <3>2, <3>3, <3>4 DEF Message, Reached, EventOf
  <2> QED
    BY <1>2, <2>2, <2>3, <2>4, Said DEF Handle
<1>3. (~\E p \in Posts : Handle(p)) => Sent' = Sent
  BY Others
<1> QED
  BY <1>1, <1>2, <1>3 DEF Messages

(* No step shows a consequence before its cause.                           *)
LEMMA CausalStep ==
  TypeOK /\ Cursor /\ FeedIsCausal /\ Messages /\ AtHand /\ [Next]_vars => FeedIsCausal'
<1> SUFFICES ASSUME TypeOK, Cursor, FeedIsCausal, Messages, AtHand, [Next]_vars
             PROVE  FeedIsCausal'
  OBVIOUS
<1>1. ASSUME feed' = feed PROVE FeedIsCausal'
  BY <1>1, Lasting DEF FeedIsCausal
<1>2. ASSUME NEW p \in Posts, NEW type \in MessageTypes, pc[p] \in {"broadcasting"} \cup Shown,
             type # "ebpf_event" => pc[p] \in Shown, pc[p] \notin After(type),
             feed' = Append(feed, Message(type, p))
      PROVE  FeedIsCausal'
  <2> DEFINE m == Message(type, p)
  <2>0. m.type = type /\ m.of = Id(p) /\ Id(p)[1] = p /\ Id(p)[2] = next[p] /\ next[p] \in Nat
    BY DEF Message, Id, TypeOK
  <2>1. m \in [type : MessageTypes, of : EventIds]
    BY <1>2, Said DEF Busy, Shown, Analyzed, Predicted
  <2> HIDE DEF m
  <2>2. /\ Len(feed) \in Nat /\ DOMAIN feed = 1..Len(feed)
        /\ DOMAIN feed' = 1..(Len(feed) + 1)
        /\ \A k \in 1..Len(feed) : feed'[k] = feed[k]
        /\ feed'[Len(feed) + 1] = m
    BY <1>2, <2>1, Publishing DEF m
  <2>3. Id(p) \in stored /\ stored \subseteq stored'
    BY <1>2, Lasting DEF AtHand
  <2>4. type # "ebpf_event" =>
          \E i \in 1..Len(feed) : feed[i] = [type |-> "ebpf_event", of |-> Id(p)]
    BY <1>2, <2>2 DEF AtHand, Says, Sent
  <2>5. ASSUME NEW i \in 1..Len(feed)
        PROVE  feed[i] # m /\ (feed[i].of[1] = p => feed[i].of[2] <= next[p])
    <3>1. feed[i] \in Sent /\ feed[i].of[2] \in Nat
      BY <2>2, SentType DEF Sent, EventIds
    <3>2. Reached(feed[i].of, After(feed[i].type))
      BY <3>1 DEF Messages
    <3> QED
      BY <1>2, <2>0, <3>1, <3>2 DEF Reached
  <2> SUFFICES ASSUME NEW k \in 1..(Len(feed) + 1)
               PROVE  /\ feed'[k].of \in stored'
                      /\ feed'[k].type # "ebpf_event" =>
                           \E i \in 1..(k-1) :
                             feed'[i] = [type |-> "ebpf_event", of |-> feed'[k].of]
                      /\ \A i \in 1..(k-1) :
                           /\ feed'[i] # feed'[k]
                           /\ feed'[i].of[1] = feed'[k].of[1]
                                => feed'[i].of[2] <= feed'[k].of[2]
    BY <2>2 DEF FeedIsCausal
  <2>6. CASE k = Len(feed) + 1
    <3>1. k - 1 = Len(feed)
      BY <2>2, <2>6
    <3> QED
      BY <2>0, <2>2, <2>3, <2>4, <2>5, <2>6, <3>1
  <2>7. CASE k # Len(feed) + 1
    <3>1. /\ k \in DOMAIN feed /\ feed'[k] = feed[k]
          /\ \A i \in 1..(k-1) : feed'[i] = feed[i]
      BY <2>2, <2>7
    <3> QED
      BY <2>3, <3>1 DEF FeedIsCausal
  <2> QED
    BY <2>6, <2>7
<1>3. ASSUME NEW p \in Posts, Handle(p) PROVE FeedIsCausal'
  <2> USE DEF MessageTypes, After, Shown, Analyzed, Predicted
  <2>1. CASE Broadcast(p)
    BY <1>2, <2>1 DEF Broadcast
  <2>2. CASE Predict(p)
    BY <1>2, <2>2 DEF Predict
  <2>3. CASE Announce(p)
    BY <1>2, <2>3 DEF Announce
  <2>4. CASE \/ Save(p) \/ SaveFails(p) \/ AnalyzeQuiet(p) \/ AnalyzePredicts(p)
             \/ RecordNothing(p) \/ RecordKnown(p) \/ RecordNew(p)
    <3>1. feed' = feed
      BY <2>4 DEF Save, SaveFails, AnalyzeQuiet, AnalyzePredicts, RecordNothing,
                  RecordKnown, RecordNew
    <3> QED
      BY <1>1, <3>1
  <2> QED
    BY <1>3, <2>1, <2>2, <2>3, <2>4 DEF Handle
<1>4. CASE ~\E p \in Posts : Handle(p)
  BY <1>1, <1>4, Others
<1> QED
  BY <1>3, <1>4

-----------------------------------------------------------------------------
(* The event at hand, and those before it                                  *)

(* Every step keeps what is known of the event at hand.                    *)
LEMMA AtHandStep ==
  TypeOK /\ Cursor /\ AtHand /\ [Next]_vars => AtHand'
<1> SUFFICES ASSUME TypeOK, Cursor, AtHand, [Next]_vars, NEW q \in Posts
             PROVE  /\ pc'[q] \in {"broadcasting"} \cup Shown => Id(q)' \in stored'
                    /\ pc'[q] \in Shown => Says("ebpf_event", Id(q))'
                    /\ pc'[q] = "predicting" =>
                         Id(q)' \in Kept' /\ Patterns(Window(q))' # {}
                    /\ pc'[q] \in Predicted /\ Patterns(Window(q))' # {}
                         => Says("prediction", Id(q))'
  BY DEF AtHand
<1> USE DEF Shown, Analyzed, Predicted
<1>1. /\ stored \subseteq stored' /\ Sent \subseteq Sent' /\ Kept \subseteq Kept'
  BY Lasting
(* A handler stands where it stood.                                        *)
<1>2. CASE pc'[q] = pc[q] /\ next'[q] = next[q] /\ (pc[q] \in Busy => batch'[q] = batch[q])
  <2>1. Id(q)' = Id(q) /\ (pc[q] \in Busy => Window(q)' = Window(q))
    BY <1>2 DEF Id, Window, Event
  <2>2. pc[q] \in {"broadcasting"} \cup Shown => pc[q] \in Busy
    BY DEF Busy
  <2> QED
    BY <1>1, <1>2, <2>1, <2>2 DEF AtHand, Says
(* It goes on with its event.                                              *)
<1>3. ASSUME Handle(q), next' = next PROVE
        /\ pc'[q] \in {"broadcasting"} \cup Shown => Id(q)' \in stored'
        /\ pc'[q] \in Shown => Says("ebpf_event", Id(q))'
        /\ pc'[q] = "predicting" => Id(q)' \in Kept' /\ Patterns(Window(q))' # {}
        /\ pc'[q] \in Predicted /\ Patterns(Window(q))' # {}
             => Says("prediction", Id(q))'
  <2>1. Id(q)' = Id(q) /\ Window(q)' = Window(q) /\ next[q] \in Nat
    BY <1>3, Moves DEF outside, Id, Window, Event, TypeOK
  <2>2. CASE Save(q)
    BY <1>3, <2>1, <2>2 DEF Save, Goto, TypeOK
  <2>3. CASE Broadcast(q)
    <3>1. pc[q] = "broadcasting" /\ pc'[q] = "analyzing"
      BY <2>3 DEF Broadcast, Goto, TypeOK
    <3>2. Message("ebpf_event", q) \in Sent'
      BY <2>3, Said
    <3> QED
      BY <1>1, <2>1, <3>1, <3>2 DEF AtHand, Says, Message
  <2>4. CASE AnalyzeQuiet(q)
    <3>1. pc[q] = "analyzing" /\ pc'[q] = "recording" /\ Patterns(Window(q)) = {}
      BY <2>4 DEF AnalyzeQuiet, Goto, TypeOK
    <3> QED
      BY <1>1, <2>1, <3>1 DEF AtHand, Says
  <2>5. CASE AnalyzePredicts(q)
    <3>1. pc[q] = "analyzing" /\ pc'[q] = "predicting" /\ Patterns(Window(q)) # {}
      BY <2>5 DEF AnalyzePredicts, Goto, TypeOK
    <3>2. Id(q) \in Kept'
      BY <1>3, <2>5, Noted
    <3> QED
      BY <1>1, <2>1, <3>1, <3>2 DEF AtHand, Says
  <2>6. CASE Predict(q)
    <3>1. pc[q] = "predicting" /\ pc'[q] = "recording"
      BY <2>6 DEF Predict, Goto, TypeOK
    <3>2. Message("prediction", q) \in Sent'
      BY <2>6, Said
    <3> QED
      BY <1>1, <2>1, <3>1, <3>2 DEF AtHand, Says, Message
  <2>7. CASE RecordNew(q)
    <3>1. pc[q] = "recording" /\ pc'[q] = "announcing"
      BY <2>7 DEF RecordNew, Recording, Goto, TypeOK
    <3> QED
      BY <1>1, <2>1, <3>1 DEF AtHand, Says
  <2>8. ~EndOfEvent(q)
    <3>1. next[q] + 1 # next[q]
      BY <2>1
    <3> QED
      BY <1>3, <2>1, <3>1 DEF EndOfEvent, TypeOK
  <2> QED
    BY <1>3, <2>2, <2>3, <2>4, <2>5, <2>6, <2>7, <2>8
       DEF Handle, SaveFails, RecordNothing, RecordKnown, Announce
(* It goes on to the next event, or a batch arrives.                       *)
<1>4. CASE pc'[q] \in {"saving", "answered", "refused"}
  BY <1>4
<1>5. ASSUME NEW p \in Posts, Handle(p), p # q
      PROVE  pc'[q] = pc[q] /\ next'[q] = next[q] /\ batch'[q] = batch[q]
  BY <1>5, Moves DEF outside
<1>6. ASSUME Handle(q) PROVE next' = next \/ pc'[q] \in {"saving", "answered"}
  <2>1. EndOfEvent(q) => pc'[q] \in {"saving", "answered"}
    BY DEF EndOfEvent, Goto, TypeOK
  <2> QED
    BY <1>6, <2>1
       DEF Handle, Save, SaveFails, Broadcast, AnalyzeQuiet, AnalyzePredicts,
           Predict, RecordNothing, RecordKnown, RecordNew, Announce
<1>7. CASE ~\E p \in Posts : Handle(p)
  <2>1. next' = next /\ (pc[q] \in Busy => pc'[q] = pc[q] /\ batch'[q] = batch[q])
    BY <1>7, Others
  <2>2. pc'[q] \in Busy \ {"saving"} => pc'[q] = pc[q]
    BY <1>7, Others
  <2> QED
    BY <1>2, <1>4, <2>1, <2>2 DEF Busy
<1> QED
  BY <1>2, <1>3, <1>4, <1>5, <1>6, <1>7

(* Every step keeps what is known of the events handled.                   *)
LEMMA HandledStep ==
  TypeOK /\ Cursor /\ AtHand /\ Handled /\ Map /\ [Next]_vars => Handled'
<1> SUFFICES ASSUME TypeOK, Cursor, AtHand, Handled, Map, [Next]_vars
             PROVE  Handled'
  OBVIOUS
<1>0. \A q \in Posts : next[q] \in Nat \ {0}
  BY DEF TypeOK
<1>1. \A x \in failed' : x[2] < next'[x[1]]
  <2> SUFFICES ASSUME NEW x \in failed' PROVE x[2] < next'[x[1]]
    OBVIOUS
  <2>1. CASE x \in failed
    <3>1. x \in EventIds /\ {} \in Places /\ Reached(x, {})
      BY <2>1 DEF TypeOK, Places, Reached, Handled
    <3>2. Reached(x, {})'
      BY <3>1, Progress
    <3> QED
      BY <3>2 DEF Reached
  <2>2. CASE x \notin failed
    <3>1. PICK p \in Posts : SaveFails(p)
      BY <2>2
         DEF Next, vars, Post, Refuse, Get, Handle, Save, Broadcast, AnalyzeQuiet,
             AnalyzePredicts, Predict, RecordNothing, RecordKnown, RecordNew, Announce
    <3>2. x = Id(p) /\ next'[p] = next[p] + 1
      BY <2>2, <3>1 DEF SaveFails, EndOfEvent, TypeOK
    <3> QED
      BY <1>0, <3>2 DEF Id
  <2> QED
    BY <2>1, <2>2
<1>2. ASSUME NEW q \in Posts, NEW i \in 1..(next'[q] - 1), <<q, i>> \notin failed'
      PROVE  /\ Says("ebpf_event", <<q, i>>)'
             /\ Patterns(<<batch'[q][i]>>) # {} => Says("prediction", <<q, i>>)'
             /\ batch'[q][i].kind = "network_audit" => lastSeen'[batch'[q][i].conn] # 0
  <2>0. next'[q] \in Nat \ {0} /\ i \in Nat \ {0} /\ i < next'[q]
    <3>1. TypeOK'
      BY TypeStep
    <3>2. next'[q] \in Nat \ {0}
      BY <3>1 DEF TypeOK
    <3> QED
      BY <3>2
  <2>1. CASE i < next[q]
    <3>1. <<q, i>> \notin failed /\ i \in 1..(next[q] - 1)
      BY <1>0, <1>2, <2>0, <2>1, Lasting
    <3>2. /\ Says("ebpf_event", <<q, i>>)
          /\ Patterns(<<batch[q][i]>>) # {} => Says("prediction", <<q, i>>)
          /\ batch[q][i].kind = "network_audit" => lastSeen[batch[q][i].conn] # 0
      BY <3>1 DEF Handled
    <3>3. batch'[q][i] = batch[q][i]
      <4>1. <<q, i>> \in EventIds /\ Reached(<<q, i>>, Shown)
        BY <2>0, <2>1 DEF EventIds, Reached
      <4>2. EventOf(<<q, i>>)' = EventOf(<<q, i>>)
        BY <4>1, Lasting
      <4> QED
        BY <4>2 DEF EventOf
    <3>4. batch[q][i].conn \in Conns
      BY <2>0, <2>1, Passed
    <3> QED
      BY <3>2, <3>3, <3>4, Lasting DEF Says
  <2>2. CASE ~(i < next[q])
    <3>1. Handle(q)
      <4>1. next'[q] # next[q]
        BY <1>0, <2>0, <2>2
      <4>2. \E p \in Posts : Handle(p)
        BY <4>1, Others
      <4> QED
        BY <4>1, <4>2, Moves
    <3>2. next'[q] = next[q] + 1 /\ i = next[q] /\ <<q, i>> = Id(q) /\ batch' = batch
      BY <1>0, <2>0, <2>2, <3>1, Moves DEF Id, outside
    <3>3. ~SaveFails(q)
      BY <1>2, <3>2 DEF SaveFails
    <3>4. CASE RecordNothing(q) \/ RecordKnown(q)
      <4>1. pc[q] = "recording" /\ Event(q) = batch[q][i] /\ Window(q) = <<batch[q][i]>>
        BY <3>2, <3>4 DEF RecordNothing, RecordKnown, Recording, Event, Window
      <4>2. /\ Says("ebpf_event", <<q, i>>)
            /\ Patterns(<<batch[q][i]>>) # {} => Says("prediction", <<q, i>>)
        BY <3>2, <4>1 DEF AtHand, Shown, Analyzed, Predicted
      <4>3. batch[q][i].kind = "network_audit" => lastSeen'[batch[q][i].conn] # 0
        <5>1. Event(q).conn \in Conns
          BY <3>1, Moves, Working
        <5> QED
          BY <3>4, <4>1, <5>1, Lasting DEF RecordNothing, RecordKnown
      <4> QED
        BY <3>2, <4>2, <4>3, Lasting DEF Says
    <3>5. CASE Announce(q)
      <4>1. pc[q] = "announcing" /\ Event(q) = batch[q][i] /\ Window(q) = <<batch[q][i]>>
        BY <3>2, <3>5 DEF Announce, Event, Window
      <4>2. /\ Says("ebpf_event", <<q, i>>)
            /\ Patterns(<<batch[q][i]>>) # {} => Says("prediction", <<q, i>>)
        BY <3>2, <4>1 DEF AtHand, Shown, Analyzed, Predicted
      <4>3. lastSeen'[batch[q][i].conn] # 0
        <5>1. Event(q).conn \in Conns
          BY <3>1, Moves, Working
        <5> QED
          BY <4>1, <5>1, Lasting DEF Map, Announcing
      <4> QED
        BY <3>2, <4>2, <4>3, Lasting DEF Says
    <3>6. /\ ~Save(q) /\ ~Broadcast(q) /\ ~AnalyzeQuiet(q) /\ ~AnalyzePredicts(q)
          /\ ~Predict(q) /\ ~RecordNew(q)
      <4>1. next' # next
        BY <1>0, <3>2
      <4> QED
        BY <4>1 DEF Save, Broadcast, AnalyzeQuiet, AnalyzePredicts, Predict, RecordNew
    <3> QED
      BY <3>1, <3>3, <3>4, <3>5, <3>6 DEF Handle
  <2> QED
    BY <2>1, <2>2
<1> QED
  BY <1>1, <1>2 DEF Handled

-----------------------------------------------------------------------------
(* The predictions that are kept                                           *)

(* No step keeps a prediction twice or unpublished.                        *)
LEMMA PredictionsStep ==
  TypeOK /\ Cursor /\ AtHand /\ Predictions /\ [Next]_vars => Predictions'
<1> SUFFICES ASSUME TypeOK, Cursor, AtHand, Predictions, [Next]_vars
             PROVE  Predictions'
  OBVIOUS
(* A prediction kept before: its handler publishes it next.                *)
<1>1. ASSUME NEW x \in Kept
      PROVE  /\ Reached(x, Analyzed)'
             /\ Says("prediction", x)' \/ (pc'[x[1]] = "predicting" /\ next'[x[1]] = x[2])
  <2>1. x \in EventIds /\ x[1] \in Posts /\ Analyzed \in Places
    BY SentType DEF EventIds, Places
  <2>2. Reached(x, Analyzed)'
    BY <2>1, Progress DEF Predictions
  <2>3. CASE Says("prediction", x)
    BY <2>2, <2>3, Lasting DEF Says
  <2>4. CASE pc[x[1]] = "predicting" /\ next[x[1]] = x[2]
    <3>1. ASSUME NEW p \in Posts, Handle(p)
          PROVE  Says("prediction", x)' \/ (pc'[x[1]] = "predicting" /\ next'[x[1]] = x[2])
      <4>1. CASE p # x[1]
        BY <2>1, <2>4, <3>1, <4>1, Moves
      <4>2. CASE p = x[1]
        <5>1. Predict(p)
          BY <2>4, <3>1, <4>2
             DEF Handle, Save, SaveFails, Broadcast, AnalyzeQuiet, AnalyzePredicts,
                 RecordNothing, RecordKnown, RecordNew, Announce, Recording
        <5>2. Message("prediction", p) \in Sent'
          BY <5>1, Said
        <5>3. Id(p) = x
          BY <2>1, <2>4, <4>2 DEF Id, EventIds
        <5> QED
          BY <5>2, <5>3 DEF Message, Says
      <4> QED
        BY <4>1, <4>2
    <3>2. CASE ~\E p \in Posts : Handle(p)
      <4>1. next' = next /\ pc'[x[1]] = pc[x[1]]
        BY <2>1, <2>4, <3>2, Others DEF Busy
      <4> QED
        BY <2>2, <2>4, <4>1
    <3> QED
      BY <2>2, <3>1, <3>2
  <2> QED
    BY <2>3, <2>4 DEF Predictions
<1>2. ASSUME NEW p \in Posts, AnalyzePredicts(p) PROVE Predictions'
  <2>1. Handle(p)
    BY <1>2 DEF Handle
  <2>2. /\ Kept' = Kept \cup {Id(p)}
        /\ Len(predictions) \in Nat /\ Len(predictions') = Len(predictions) + 1
    BY <1>2, <2>1, Noted
  <2>3. Id(p) \notin Kept
    <3>1. ~Reached(Id(p), Analyzed)
      BY <1>2 DEF AnalyzePredicts, Reached, Id, Analyzed, Predicted, TypeOK
    <3> QED
      BY <3>1 DEF Predictions
  <2>4. IsFiniteSet(Kept') /\ Cardinality(Kept') = Len(predictions')
    BY <2>2, <2>3, FS_AddElement DEF Predictions
  <2>5. pc'[p] = "predicting" /\ next'[p] = next[p]
    BY <1>2 DEF AnalyzePredicts, Goto, TypeOK
  <2>6. ASSUME NEW x, x = Id(p)
        PROVE  /\ Reached(x, Analyzed)'
               /\ pc'[x[1]] = "predicting" /\ next'[x[1]] = x[2]
    BY <2>5, <2>6 DEF Id, Reached, Analyzed
  <2>7. \A x \in Kept' :
          /\ Reached(x, Analyzed)'
          /\ Says("prediction", x)' \/ (pc'[x[1]] = "predicting" /\ next'[x[1]] = x[2])
    <3> SUFFICES ASSUME NEW x \in Kept'
                 PROVE  /\ Reached(x, Analyzed)'
                        /\ Says("prediction", x)' \/
                             (pc'[x[1]] = "predicting" /\ next'[x[1]] = x[2])
      OBVIOUS
    <3>1. CASE x \in Kept
      BY <1>1, <3>1
    <3>2. CASE x = Id(p)
      BY <2>6, <3>2
    <3> QED
      BY <2>2, <3>1, <3>2
  <2> QED
    BY <2>4, <2>7 DEF Predictions
<1>3. CASE ~\E p \in Posts : AnalyzePredicts(p)
  <2>1. Kept' = Kept /\ predictions' = predictions
    BY <1>3, Noted, Others
  <2> QED
    BY <1>1, <2>1 DEF Predictions
<1> QED
  BY <1>2, <1>3

-----------------------------------------------------------------------------
(* The connection map                                                      *)

Topology(x) == Says("network_topology_update", x)

(* A step that announces nothing and enters no connection.                 *)
LEMMA MapKept ==
  ASSUME TypeOK, Cursor, Messages, Map, [Next]_vars,
         \A x \in EventIds : Topology(x)' <=> Topology(x),
         \A c \in Conns : lastSeen'[c] # 0 => lastSeen[c] # 0,
         lock' = lock,
         \A p \in Posts : Announcing(p)' <=> Announcing(p),
         \A p \in Posts : Announcing(p) => batch'[p] = batch[p] /\ next'[p] = next[p]
  PROVE  Map'
<1>1. ASSUME NEW x \in EventIds, Topology(x) PROVE EventOf(x)' = EventOf(x)
  <2>1. Reached(x, Shown)
    <3> DEFINE m == [type |-> "network_topology_update", of |-> x]
    <3>1. m \in Sent /\ m.type = "network_topology_update" /\ m.of = x
      BY <1>1 DEF Topology, Says
    <3> HIDE DEF m
    <3> QED
      BY <3>1 DEF Messages, Reached, After, Shown, Predicted
  <2> QED
    BY <2>1, Lasting
<1>2. ASSUME NEW p \in Posts, Announcing(p)
      PROVE  Event(p)' = Event(p) /\ Event(p).conn \in Conns
  <2>1. Event(p)' = Event(p)
    BY <1>2 DEF Event
  <2> QED
    BY <1>2, <2>1, Working DEF Announcing, Busy
<1>3. \A p \in Posts : lock' = p <=> Announcing(p)'
  BY DEF Map
<1>4. \A p \in Posts : Announcing(p)' => lastSeen'[Event(p)'.conn] # 0
  BY <1>2, Lasting DEF Map
<1>5. \A c \in Conns : lastSeen'[c] # 0 =>
        \/ \E x \in EventIds : Topology(x)' /\ EventOf(x)'.conn = c
        \/ \E p \in Posts : Announcing(p)' /\ Event(p)'.conn = c
  <2> SUFFICES ASSUME NEW c \in Conns, lastSeen'[c] # 0
               PROVE  \/ \E x \in EventIds : Topology(x)' /\ EventOf(x)'.conn = c
                      \/ \E p \in Posts : Announcing(p)' /\ Event(p)'.conn = c
    OBVIOUS
  <2>1. CASE \E x \in EventIds : Topology(x) /\ EventOf(x).conn = c
    BY <1>1, <2>1
  <2>2. CASE \E p \in Posts : Announcing(p) /\ Event(p).conn = c
    BY <1>2, <2>2
  <2> QED
    BY <2>1, <2>2 DEF Map, Topology
<1>6. \A x, y \in EventIds :
        Topology(x)' /\ Topology(y)' /\ EventOf(x)'.conn = EventOf(y)'.conn => x = y
  BY <1>1 DEF Map, Topology
<1>7. \A p \in Posts, x \in EventIds :
        Announcing(p)' /\ Topology(x)' => EventOf(x)'.conn # Event(p)'.conn
  BY <1>1, <1>2 DEF Map, Topology
<1>8. \A g \in Gets : listed'[g] # Free =>
        \A c \in listed'[g] : \E x \in EventIds : Topology(x)' /\ EventOf(x)'.conn = c
  <2> SUFFICES ASSUME NEW g \in Gets, listed'[g] # Free, NEW c \in listed'[g]
               PROVE  \E x \in EventIds : Topology(x)' /\ EventOf(x)'.conn = c
    OBVIOUS
  <2>1. CASE listed'[g] = listed[g]
    <3>1. PICK x \in EventIds : Topology(x) /\ EventOf(x).conn = c
      BY <2>1 DEF Map, Topology
    <3> QED
      BY <1>1, <3>1
  <2>2. CASE listed'[g] # listed[g]
    <3>1. Get(g)
      <4>1. ASSUME NEW p \in Posts, Handle(p) \/ Post(p) \/ Refuse(p) PROVE listed' = listed
        BY <4>1, Moves DEF outside, Post, Refuse
      <4> QED
        BY <2>2, <4>1 DEF Next, vars, Get, TypeOK
    <3>2. lock = Free /\ c \in Conns /\ lastSeen[c] # 0
      BY <3>1 DEF Get, TypeOK
    <3>3. \A p \in Posts : ~Announcing(p)
      BY <3>2 DEF Map
    <3>4. PICK x \in EventIds : Topology(x) /\ EventOf(x).conn = c
      BY <3>2, <3>3 DEF Map, Topology
    <3> QED
      BY <1>1, <3>4
  <2> QED
    BY <2>1, <2>2
<1> QED
  BY <1>3, <1>4, <1>5, <1>6, <1>7, <1>8 DEF Map, Topology

(* A handler enters a new connection, and holds the lock.                  *)
LEMMA MapEntered ==
  ASSUME TypeOK, Cursor, Messages, Map, [Next]_vars, NEW p \in Posts, RecordNew(p)
  PROVE  Map'
<1>1. /\ UNCHANGED <<batch, listed, next>> /\ Sent' = Sent
      /\ lock = Free /\ lock' = p /\ lastSeen[Event(p).conn] = 0 /\ Seen(p)
      /\ pc[p] = "recording" /\ pc' = [pc EXCEPT ![p] = "announcing"]
  BY Said DEF RecordNew, Recording, Goto, outside
<1>2. /\ \A x \in EventIds : Topology(x)' <=> Topology(x)
      /\ \A x \in EventIds : EventOf(x)' = EventOf(x)
      /\ \A q \in Posts : Event(q)' = Event(q)
  BY <1>1 DEF Topology, Says, EventOf, Event
<1>3. Event(p).conn \in Conns /\ Event(p).at \in 1..MaxTime
  BY <1>1, Working DEF Busy
<1>4. \A q \in Posts : ~Announcing(q) /\ (Announcing(q)' <=> q = p)
  <2>1. \A q \in Posts : ~Announcing(q)
    BY <1>1 DEF Map
  <2> QED
    BY <1>1, <2>1 DEF Announcing, TypeOK
<1>5. /\ lastSeen'[Event(p).conn] # 0
      /\ \A c \in Conns : lastSeen'[c] # 0 => lastSeen[c] # 0 \/ c = Event(p).conn
  BY <1>1, <1>3 DEF Seen, TypeOK
<1>6. \A q \in Posts : lock' = q <=> Announcing(q)'
  BY <1>1, <1>4
<1>7. \A q \in Posts : Announcing(q)' => lastSeen'[Event(q)'.conn] # 0
  BY <1>2, <1>4, <1>5
<1>8. \A c \in Conns : lastSeen'[c] # 0 =>
        \/ \E x \in EventIds : Topology(x)' /\ EventOf(x)'.conn = c
        \/ \E q \in Posts : Announcing(q)' /\ Event(q)'.conn = c
  <2> SUFFICES ASSUME NEW c \in Conns, lastSeen'[c] # 0
               PROVE  \/ \E x \in EventIds : Topology(x)' /\ EventOf(x)'.conn = c
                      \/ \E q \in Posts : Announcing(q)' /\ Event(q)'.conn = c
    OBVIOUS
  <2>1. CASE c = Event(p).conn
    BY <1>2, <1>4, <2>1
  <2>2. CASE c # Event(p).conn
    <3>1. PICK x \in EventIds : Topology(x) /\ EventOf(x).conn = c
      BY <1>4, <1>5, <2>2 DEF Map, Topology
    <3> QED
      BY <1>2, <3>1
  <2> QED
    BY <2>1, <2>2
<1>9. \A x, y \in EventIds :
        Topology(x)' /\ Topology(y)' /\ EventOf(x)'.conn = EventOf(y)'.conn => x = y
  BY <1>2 DEF Map, Topology
<1>10. ASSUME NEW q \in Posts, NEW x \in EventIds, Announcing(q)', Topology(x)'
       PROVE  EventOf(x)'.conn # Event(q)'.conn
  <2>1. q = p /\ Topology(x)
    BY <1>2, <1>4, <1>10
  <2>2. lastSeen[EventOf(x).conn] # 0
    <3> DEFINE m == [type |-> "network_topology_update", of |-> x]
    <3>1. m \in Sent /\ m.type = "network_topology_update" /\ m.of = x
      BY <2>1 DEF Topology, Says
    <3> HIDE DEF m
    <3> QED
      BY <3>1 DEF Messages
  <2> QED
    BY <1>1, <1>2, <2>1, <2>2
<1>11. \A g \in Gets : listed'[g] # Free =>
         \A c \in listed'[g] : \E x \in EventIds : Topology(x)' /\ EventOf(x)'.conn = c
  <2> SUFFICES ASSUME NEW g \in Gets, listed'[g] # Free, NEW c \in listed'[g]
               PROVE  \E x \in EventIds : Topology(x)' /\ EventOf(x)'.conn = c
    OBVIOUS
  <2>1. PICK x \in EventIds : Topology(x) /\ EventOf(x).conn = c
    BY <1>1 DEF Map, Topology
  <2> QED
    BY <1>2, <2>1
<1> QED
  BY <1>6, <1>7, <1>8, <1>9, <1>10, <1>11 DEF Map, Topology

(* It announces that connection, and releases the lock.                    *)
LEMMA MapAnnounced ==
  ASSUME TypeOK, Cursor, Map, [Next]_vars, NEW p \in Posts, Announce(p)
  PROVE  Map'
<1>0. Handle(p)
  BY DEF Handle
<1>1. /\ UNCHANGED <<batch, listed, lastSeen>>
      /\ Sent' = Sent \cup {Message("network_topology_update", p)}
      /\ pc[p] = "announcing" /\ lock' = Free
      /\ pc'[p] \in {"saving", "answered"}
  BY Said DEF Announce, EndOfEvent, Goto, outside, TypeOK
<1>2. Announcing(p) /\ lock = p /\ \A q \in Posts : q # p => ~Announcing(q)
  BY <1>1 DEF Map, Announcing
<1>3. \A q \in Posts : ~Announcing(q)'
  BY <1>0, <1>1, <1>2, Moves DEF Announcing
<1>4. /\ Id(p) \in EventIds /\ EventOf(Id(p)) = Event(p)
      /\ \A x \in EventIds : EventOf(x)' = EventOf(x)
  BY <1>0, <1>1, Moves, Working DEF EventOf, Event, Id
<1>5. \A x \in EventIds : Topology(x)' <=> Topology(x) \/ x = Id(p)
  <2>1. \A x \in EventIds : [type |-> "network_topology_update", of |-> x]
                              = Message("network_topology_update", p) <=> x = Id(p)
    BY DEF Message
  <2> QED
    BY <1>1, <2>1 DEF Topology, Says
<1>6. \A q \in Posts : lock' = q <=> Announcing(q)'
  BY <1>1, <1>3
<1>7. \A c \in Conns : lastSeen'[c] # 0 =>
        \E x \in EventIds : Topology(x)' /\ EventOf(x)'.conn = c
  <2> SUFFICES ASSUME NEW c \in Conns, lastSeen[c] # 0
               PROVE  \E x \in EventIds : Topology(x)' /\ EventOf(x)'.conn = c
    BY <1>1
  <2>1. CASE \E x \in EventIds : Topology(x) /\ EventOf(x).conn = c
    BY <1>4, <1>5, <2>1
  <2>2. CASE \E q \in Posts : Announcing(q) /\ Event(q).conn = c
    <3>1. EventOf(Id(p)).conn = c
      BY <1>2, <1>4, <2>2
    <3>2. \E x \in EventIds : x = Id(p)
      BY <1>4
    <3>3. PICK x \in EventIds : x = Id(p)
      BY <3>2
    <3>4. Topology(x)' /\ EventOf(x)'.conn = c
      BY <1>4, <1>5, <3>1, <3>3
    <3> QED
      BY <3>4
  <2> QED
    BY <2>1, <2>2 DEF Map, Topology
<1>8. ASSUME NEW x \in EventIds, NEW y \in EventIds, Topology(x)', Topology(y)',
             EventOf(x)'.conn = EventOf(y)'.conn
      PROVE  x = y
  <2>1. EventOf(x).conn = EventOf(y).conn
    BY <1>4, <1>8
  <2>2. ASSUME NEW z \in EventIds, Topology(z) PROVE EventOf(z).conn # EventOf(Id(p)).conn
    BY <1>2, <1>4, <2>2 DEF Map, Topology
  <2>3. CASE Topology(x) /\ Topology(y)
    BY <2>1, <2>3 DEF Map, Topology
  <2>4. CASE ~(Topology(x) /\ Topology(y))
    BY <1>5, <1>8, <2>1, <2>2, <2>4
  <2> QED
    BY <2>3, <2>4
<1>9. \A g \in Gets : listed'[g] # Free =>
        \A c \in listed'[g] : \E x \in EventIds : Topology(x)' /\ EventOf(x)'.conn = c
  <2> SUFFICES ASSUME NEW g \in Gets, listed'[g] # Free, NEW c \in listed'[g]
               PROVE  \E x \in EventIds : Topology(x)' /\ EventOf(x)'.conn = c
    OBVIOUS
  <2>1. PICK x \in EventIds : Topology(x) /\ EventOf(x).conn = c
    BY <1>1 DEF Map, Topology
  <2> QED
    BY <1>4, <1>5, <2>1
<1> QED
  BY <1>3, <1>6, <1>7, <1>8, <1>9 DEF Map, Topology

(* Every step keeps the map to what was or is being announced.             *)
LEMMA MapStep ==
  TypeOK /\ Cursor /\ Messages /\ Map /\ [Next]_vars => Map'
<1> SUFFICES ASSUME TypeOK, Cursor, Messages, Map, [Next]_vars PROVE Map'
  OBVIOUS
<1>1. ASSUME NEW p \in Posts, Handle(p), ~RecordNew(p), ~Announce(p) PROVE Map'
  <2>1. \A x \in EventIds : Topology(x)' <=> Topology(x)
    <3>1. CASE Sent' = Sent
      BY <3>1 DEF Topology, Says
    <3>2. CASE Broadcast(p) \/ Predict(p)
      <4>1. PICK t \in {"ebpf_event", "prediction"} : Sent' = Sent \cup {Message(t, p)}
        BY <3>2, Said
      <4>2. \A x \in EventIds : [type |-> "network_topology_update", of |-> x]
                                  # Message(t, p)
        BY DEF Message
      <4> QED
        BY <4>1, <4>2 DEF Topology, Says
    <3> QED
      BY <1>1, <3>1, <3>2, Said DEF Handle
  <2>2. \A c \in Conns : lastSeen'[c] # 0 => lastSeen[c] # 0
    <3>1. CASE RecordKnown(p)
      <4>1. Event(p).at \in 1..MaxTime
        BY <1>1, Moves, Working
      <4> QED
        BY <3>1, <4>1 DEF RecordKnown, Seen, TypeOK
    <3>2. CASE ~RecordKnown(p)
      <4>1. lastSeen' = lastSeen
        BY <1>1, <3>2
           DEF Handle, Save, SaveFails, Broadcast, AnalyzeQuiet, AnalyzePredicts,
               Predict, RecordNothing
      <4> QED
        BY <4>1
    <3> QED
      BY <3>1, <3>2
  <2>3. lock' = lock
    BY <1>1
       DEF Handle, Save, SaveFails, Broadcast, AnalyzeQuiet, AnalyzePredicts,
           Predict, RecordNothing, RecordKnown
  <2>4. ~Announcing(p) /\ ~Announcing(p)'
    <3>1. EndOfEvent(p) => pc'[p] # "announcing"
      BY DEF EndOfEvent, Goto, TypeOK
    <3> QED
      BY <1>1, <3>1
         DEF Announcing, Handle, Save, SaveFails, Broadcast, AnalyzeQuiet,
             AnalyzePredicts, Predict, RecordNothing, RecordKnown, Recording, Goto, TypeOK
  <2>5. \A q \in Posts : Announcing(q)' <=> Announcing(q)
    BY <1>1, <2>4, Moves DEF Announcing
  <2>6. \A q \in Posts : Announcing(q) => batch'[q] = batch[q] /\ next'[q] = next[q]
    BY <1>1, <2>4, Moves DEF outside
  <2> QED
    BY <2>1, <2>2, <2>3, <2>5, <2>6, MapKept
<1>2. CASE ~\E p \in Posts : Handle(p)
  <2>1. /\ Sent' = Sent /\ lastSeen' = lastSeen /\ lock' = lock /\ next' = next
        /\ \A q \in Posts : pc[q] \in Busy => pc'[q] = pc[q] /\ batch'[q] = batch[q]
        /\ \A q \in Posts : pc'[q] \in Busy \ {"saving"} => pc'[q] = pc[q]
    BY <1>2, Others
  <2>2. \A x \in EventIds : Topology(x)' <=> Topology(x)
    BY <2>1 DEF Topology, Says
  <2>3. \A q \in Posts : Announcing(q)' <=> Announcing(q)
    BY <2>1 DEF Announcing, Busy
  <2>4. \A q \in Posts : Announcing(q) => batch'[q] = batch[q] /\ next'[q] = next[q]
    BY <2>1 DEF Announcing, Busy
  <2> QED
    BY <2>1, <2>2, <2>3, <2>4, MapKept
<1> QED
  BY <1>1, <1>2, MapEntered, MapAnnounced

-----------------------------------------------------------------------------
(* Theorems                                                                *)

(* What the store, the feed, the predictions and the connection map keep   *)
(* true together, event by event of every handler.                         *)
THEOREM Inductive == Spec => []IInv
<1>1. Init => IInv
  BY InitIInv
<1>2. IInv /\ [Next]_vars => IInv'
  BY TypeStep, CursorStep, CausalStep, MessagesStep, AtHandStep, HandledStep,
     PredictionsStep, MapStep DEF IInv
<1> QED
  BY <1>1, <1>2, PTL DEF Spec

(* The variables keep their types.                                         *)
THEOREM TypeCorrect == Spec => []TypeOK
<1>1. IInv => TypeOK
  BY DEF IInv
<1> QED
  BY <1>1, Inductive, PTL

(* Of several concurrent ebpfEventsHandlers, each shows its events in      *)
(* order, once, after they were stored, and its prediction and its new     *)
(* connection after the event.                                             *)
THEOREM ShownAfterStored == Spec => []FeedIsCausal
<1>1. IInv => FeedIsCausal
  BY DEF IInv
<1> QED
  BY <1>1, Inductive, PTL

(* What the feed says of an event is published.                            *)
LEMMA PublishedIs ==
  ASSUME NEW type, NEW x
  PROVE  Says(type, x) => x \in Published(type)
<1> DEFINE m == [type |-> type, of |-> x]
<1>1. m.type = type /\ m.of = x
  OBVIOUS
<1> HIDE DEF m
<1>2. m \in Sent => x \in Published(type)
  BY <1>1 DEF Sent, Published
<1> QED
  BY <1>2 DEF Says, m

(* What is published was said on the feed, of an event of a post.          *)
LEMMA PublishedSaid ==
  ASSUME TypeOK, NEW type, NEW x \in Published(type)
  PROVE  Says(type, x) /\ x \in EventIds
<1>1. PICK k \in DOMAIN feed : feed[k].type = type /\ feed[k].of = x
  BY DEF Published
<1>2. feed[k] \in Sent /\ feed[k] \in [type : MessageTypes, of : EventIds]
  BY SentType DEF Sent
<1>3. feed[k] = [type |-> type, of |-> x]
  BY <1>1, <1>2
<1> QED
  BY <1>1, <1>2, <1>3 DEF Says

(* `continue' after a failed save costs the one event; every other event   *)
(* that a handler is done with was shown, predicted about and recorded.    *)
THEOREM FailuresAreContained == Spec => []OneFailureOneEvent
<1>1. IInv => OneFailureOneEvent
  <2> SUFFICES ASSUME IInv, NEW p \in Posts,
                      NEW i \in IF pc[p] = "answered" THEN DOMAIN batch[p]
                                ELSE 1..(next[p] - 1)
               PROVE  IF <<p, i>> \in failed
                      THEN \A k \in DOMAIN feed : feed[k].of # <<p, i>>
                      ELSE /\ <<p, i>> \in Published("ebpf_event")
                           /\ Patterns(<<batch[p][i]>>) # {} =>
                                <<p, i>> \in Published("prediction")
                           /\ batch[p][i].kind = "network_audit" =>
                                lastSeen[batch[p][i].conn] # 0
    BY DEF OneFailureOneEvent
  <2>1. i \in 1..(next[p] - 1)
    <3>1. batch[p] \in Seq(Events) /\ next[p] \in Nat
      BY DEF IInv, TypeOK
    <3>2. DOMAIN batch[p] = 1..Len(batch[p]) /\ Len(batch[p]) \in Nat
      BY <3>1, LenProperties
    <3>3. pc[p] = "answered" => next[p] = Len(batch[p]) + 1
      BY DEF IInv, Cursor
    <3> QED
      BY <3>1, <3>2, <3>3
  <2>2. <<p, i>> \in failed => \A k \in DOMAIN feed : feed[k].of # <<p, i>>
    BY DEF IInv, Messages, Sent
  <2>3. <<p, i>> \notin failed =>
          /\ Says("ebpf_event", <<p, i>>)
          /\ Patterns(<<batch[p][i]>>) # {} => Says("prediction", <<p, i>>)
          /\ batch[p][i].kind = "network_audit" => lastSeen[batch[p][i].conn] # 0
    BY <2>1 DEF IInv, Handled
  <2> QED
    BY <2>2, <2>3, PublishedIs
<1> QED
  BY <1>1, Inductive, PTL

(* PredictionEngine's list and the feed hold the same predictions, but for *)
(* those a handler is about to broadcast; none is kept twice.              *)
THEOREM PredictionsAgree == Spec => []PredictionsMatchFeed
<1>1. IInv => PredictionsMatchFeed
  <2> SUFFICES ASSUME IInv
               PROVE  /\ Published("prediction") \subseteq Kept
                      /\ \A x \in Kept \ Published("prediction") :
                           pc[x[1]] = "predicting" /\ next[x[1]] = x[2]
                      /\ Cardinality(Kept) = Len(predictions)
    BY DEF PredictionsMatchFeed, Kept
  <2>1. ASSUME NEW x \in Published("prediction") PROVE x \in Kept
    <3> DEFINE m == [type |-> "prediction", of |-> x]
    <3>1. m \in Sent /\ m.type = "prediction" /\ m.of = x
      BY PublishedSaid DEF IInv, Says
    <3> HIDE DEF m
    <3> QED
      BY <3>1 DEF IInv, Messages
  <2>2. \A x \in Kept \ Published("prediction") :
          pc[x[1]] = "predicting" /\ next[x[1]] = x[2]
    BY PublishedIs DEF IInv, Predictions
  <2> QED
    BY <2>1, <2>2 DEF IInv, Predictions
<1> QED
  BY <1>1, Inductive, PTL

(* ConnectionMap.Record announces a connection once, and Connections lists *)
(* none that was not announced, because the lock is held over the look-up, *)
(* the entry and the broadcast.                                            *)
THEOREM ListedOnceAnnounced == Spec => []AnnouncedThenListed
<1>1. IInv => AnnouncedThenListed
  <2> SUFFICES ASSUME IInv PROVE AnnouncedThenListed
    OBVIOUS
  <2> DEFINE T == Published("network_topology_update")
  <2>1. \A x \in T : x \in EventIds /\ Says("network_topology_update", x)
    BY PublishedSaid DEF IInv
  <2>2. \A x, y \in T : EventOf(x).conn = EventOf(y).conn => x = y
    BY <2>1 DEF IInv, Map
  <2>3. ASSUME NEW g \in Gets, listed[g] # Free
        PROVE  listed[g] \subseteq {EventOf(x).conn : x \in T}
    <3> SUFFICES ASSUME NEW c \in listed[g] PROVE \E x \in T : EventOf(x).conn = c
      OBVIOUS
    <3>1. PICK x \in EventIds : Says("network_topology_update", x) /\ EventOf(x).conn = c
      BY <2>3 DEF IInv, Map
    <3> QED
      BY <3>1, PublishedIs
  <2> QED
    BY <2>2, <2>3 DEF AnnouncedThenListed
<1> QED
  BY <1>1, Inductive, PTL

=============================================================================

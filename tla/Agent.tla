------------------------------- MODULE Agent -------------------------------
(***************************************************************************)
(* The agent's event pipeline (agent/main.go, probe_manager.go) and the    *)
(* server handler at its far end (server/main.go, ebpfEventsHandler):      *)
(*                                                                         *)
(*   ProcessRawEvent -> eventCh -> forwardEvents -> POST -> the store      *)
(*                                                                         *)
(* Producers decode and enrich a raw event and put it on the bounded       *)
(* channel without blocking; the forwarder collects a batch and posts it   *)
(* when it is full, when its ticker fires, or once more at shutdown.  It   *)
(* waits for the answer, but never repeats a post.  Its HTTP client gives  *)
(* up after 10 s: the server may go on with what it received, and what is  *)
(* on the wire may reach it later, behind other posts, or never.  main     *)
(* waits at most 5 s for the goroutines and then ends the process.         *)
(*                                                                         *)
(* Which pod an event is attributed to, and what the server does with a    *)
(* stored event (broadcast, prediction, topology), change no step here.    *)
(***************************************************************************)
EXTENDS Naturals, Sequences, FiniteSets, Functions

CONSTANTS
  Events,     \* raw events
  Malformed,  \* those that do not decode, or whose payload does not
  Workers,    \* the goroutines main waits for besides the forwarder
  ChanCap,    \* capacity of eventCh (1024 in the code)
  BatchSize   \* (100 in the code)

ASSUME AgentAssumption ==
  /\ Malformed \subseteq Events
  /\ ChanCap \in Nat \ {0}
  /\ BatchSize \in Nat \ {0}

VARIABLES
  call,       \* call[e]: ProcessRawEvent on e
  droppedCnt, \* pm.droppedCnt
  eventCh,    \* contents of the channel
  batch,      \* forwardEvents' batch
  forwarder,  \* "select", "posting", "flushing" (the last post), "stopped"
  arrived,    \* the post in progress is the server's arrived-th, or 0
  late,       \* batches given up on that are still on the wire
  requests,   \* requests[k]: what the server has still to do of its k-th
  working,    \* the workers that have not stopped
  main,       \* "running", "waiting" (cancelled), "exited"
  loaded,     \* the BPF programs are attached (the agent runs without, too)
  saved,      \* events the server stored, in order
  \* Observers, which no guard reads:
  unsaved,    \* events the server could not store
  givenUp,    \* events the client gave up on before the server did them
  accepted,   \* events in the order they entered eventCh
  finished,   \* events of the posts that are over, in order
  graceful    \* main saw all goroutines end

agentVars == <<call, droppedCnt, eventCh, batch, forwarder, working, main,
               loaded, accepted, graceful>>
serverVars == <<requests, saved, unsaved>>
postVars == <<arrived, late, givenUp, finished>>
vars == <<agentVars, serverVars, postVars>>

Init ==
  /\ call = [e \in Events |-> "none"]
  /\ droppedCnt = 0
  /\ eventCh = <<>>
  /\ batch = <<>>
  /\ forwarder = "select"
  /\ arrived = 0
  /\ late = {}
  /\ requests = <<>>
  /\ working = Workers
  /\ main = "running"
  /\ loaded \in BOOLEAN
  /\ saved = <<>>
  /\ unsaved = <<>>
  /\ givenUp = {}
  /\ accepted = <<>>
  /\ finished = <<>>
  /\ graceful = FALSE

Alive == main # "exited"

-----------------------------------------------------------------------------
(* Seeded faults: bugs this code could plausibly have, each breaking one   *)
(* of the properties below when it replaces the definition it varies.      *)

(* Deliver on an unbounded channel.                                        *)
DeliverUnbounded(e) ==
  /\ Alive
  /\ call[e] = "enriched"
  /\ eventCh' = Append(eventCh, e)
  /\ accepted' = Append(accepted, e)
  /\ call' = [call EXCEPT ![e] = "returned"]
  /\ UNCHANGED <<droppedCnt, batch, forwarder, working, main, loaded, graceful,
                 serverVars, postVars>>

(* Tick that resets the batch before it is posted.                         *)
TickReset ==
  /\ Alive
  /\ forwarder = "select"
  /\ batch # <<>>
  /\ batch' = <<>>
  /\ forwarder' = "posting"
  /\ UNCHANGED <<call, droppedCnt, eventCh, working, main, loaded, accepted,
                 graceful, serverVars, postVars>>

(* Tick that waits for a full batch.                                       *)
TickWhenFull ==
  /\ Alive
  /\ forwarder = "select"
  /\ Len(batch) >= BatchSize
  /\ forwarder' = "posting"
  /\ UNCHANGED <<call, droppedCnt, eventCh, batch, working, main, loaded,
                 accepted, graceful, serverVars, postVars>>

(* PostAnswered as soon as the server has the request.                     *)
PostAnsweredEarly ==
  /\ arrived # 0
  /\ main # "exited"
  /\ forwarder \in {"posting", "flushing"}
  /\ batch' = <<>>
  /\ finished' = finished \o batch
  /\ arrived' = 0
  /\ forwarder' = IF forwarder = "flushing" THEN "stopped" ELSE "select"
  /\ UNCHANGED <<call, droppedCnt, eventCh, working, main, loaded, accepted,
                 graceful, serverVars, late, givenUp>>

(* main does not wait for the forwarder ...                                *)
WorkersStopped == working = {}

(* ... or waits for everybody, however long it takes.                      *)
ExitWhenStopped ==
  /\ main = "waiting"
  /\ working = {} /\ forwarder = "stopped"
  /\ main' = "exited"
  /\ graceful' = TRUE
  /\ loaded' = FALSE
  /\ UNCHANGED <<call, droppedCnt, eventCh, batch, forwarder, working,
                 accepted, serverVars, postVars>>

-----------------------------------------------------------------------------
(* ProcessRawEvent                                                         *)

(* Decoding or enrichment fails: the caller gets an error.                 *)
Reject(e) ==
  /\ Alive
  /\ call[e] = "none"
  /\ e \in Malformed
  /\ call' = [call EXCEPT ![e] = "error"]
  /\ UNCHANGED <<droppedCnt, eventCh, batch, forwarder, working, main, loaded,
                 accepted, graceful, serverVars, postVars>>

(* The event is decoded and enriched, and not yet on the channel.          *)
Enrich(e) ==
  /\ Alive
  /\ call[e] = "none"
  /\ e \notin Malformed
  /\ call' = [call EXCEPT ![e] = "enriched"]
  /\ UNCHANGED <<droppedCnt, eventCh, batch, forwarder, working, main, loaded,
                 accepted, graceful, serverVars, postVars>>

(* `case pm.eventCh <- enriched'                                           *)
Deliver(e) ==
  /\ Alive
  /\ call[e] = "enriched"
  /\ Len(eventCh) < ChanCap
  /\ eventCh' = Append(eventCh, e)
  /\ accepted' = Append(accepted, e)
  /\ call' = [call EXCEPT ![e] = "returned"]
  /\ UNCHANGED <<droppedCnt, batch, forwarder, working, main, loaded, graceful,
                 serverVars, postVars>>

(* `default: pm.recordDrop()'                                              *)
Drop(e) ==
  /\ Alive
  /\ call[e] = "enriched"
  /\ Len(eventCh) >= ChanCap
  /\ droppedCnt' = droppedCnt + 1
  /\ call' = [call EXCEPT ![e] = "returned"]
  /\ UNCHANGED <<eventCh, batch, forwarder, working, main, loaded, accepted,
                 graceful, serverVars, postVars>>

-----------------------------------------------------------------------------
(* forwardEvents                                                           *)

Take ==
  /\ Alive
  /\ forwarder = "select"
  /\ eventCh # <<>>
  /\ batch' = Append(batch, Head(eventCh))
  /\ eventCh' = Tail(eventCh)
  /\ forwarder' = IF Len(batch') >= BatchSize THEN "posting" ELSE "select"
  /\ UNCHANGED <<call, droppedCnt, working, main, loaded, accepted, graceful,
                 serverVars, postVars>>

Tick ==
  /\ Alive
  /\ forwarder = "select"
  /\ batch # <<>>
  /\ forwarder' = "posting"
  /\ UNCHANGED <<call, droppedCnt, eventCh, batch, working, main, loaded,
                 accepted, graceful, serverVars, postVars>>

(* `case <-ctx.Done()': what is in the batch is posted, what is still in   *)
(* eventCh is left there.                                                  *)
Cancelled ==
  /\ main = "waiting"
  /\ forwarder = "select"
  /\ forwarder' = IF batch = <<>> THEN "stopped" ELSE "flushing"
  /\ UNCHANGED <<call, droppedCnt, eventCh, batch, working, main, loaded,
                 accepted, graceful, serverVars, postVars>>

-----------------------------------------------------------------------------
(* sendBatch, and the server                                               *)

Posting == forwarder \in {"posting", "flushing"}

(* The request reaches the handler, perhaps after the agent ended.         *)
Arrive ==
  /\ Posting
  /\ arrived = 0
  /\ arrived' = Len(requests) + 1
  /\ requests' = Append(requests, batch)
  /\ UNCHANGED <<agentVars, saved, unsaved, late, givenUp, finished>>

(* A request whose client has given up reaches it all the same.            *)
ArriveLate ==
  \E b \in late :
    /\ late' = late \ {b}
    /\ requests' = Append(requests, b)
    /\ UNCHANGED <<agentVars, saved, unsaved, arrived, givenUp, finished>>

(* One iteration of the loop in ebpfEventsHandler.  A store error skips    *)
(* the event; the answer will be 201 all the same.                         *)
HandleEvent(k) ==
  /\ requests[k] # <<>>
  /\ requests' = [requests EXCEPT ![k] = Tail(@)]
  /\ \/ saved' = Append(saved, Head(requests[k])) /\ UNCHANGED unsaved
     \/ unsaved' = Append(unsaved, Head(requests[k])) /\ UNCHANGED saved
  /\ UNCHANGED <<agentVars, postVars>>

(* `batch = batch[:0]', whatever became of the post.                       *)
PostOver ==
  /\ Alive
  /\ Posting
  /\ batch' = <<>>
  /\ finished' = finished \o batch
  /\ arrived' = 0
  /\ forwarder' = IF forwarder = "flushing" THEN "stopped" ELSE "select"
  /\ UNCHANGED <<call, droppedCnt, eventCh, working, main, loaded, accepted,
                 graceful>>

(* The answer to a request the server has finished.                        *)
PostAnswered ==
  /\ arrived # 0 /\ requests[arrived] = <<>>
  /\ PostOver
  /\ UNCHANGED <<serverVars, late, givenUp>>

(* The post ends with nothing done and nothing under way: no connection,   *)
(* or a status of 400 or more from a server that handled nothing of it.    *)
PostFails ==
  /\ arrived = 0
  /\ PostOver
  /\ UNCHANGED <<serverVars, late, givenUp>>

(* The client's timeout, or the connection breaks: the server goes on with *)
(* a request it has, and one it does not have yet stays on the wire.       *)
GiveUp ==
  /\ PostOver
  /\ \/ /\ arrived # 0
        /\ givenUp' = givenUp \cup Range(requests[arrived])
        /\ UNCHANGED late
     \/ /\ arrived = 0
        /\ givenUp' = givenUp \cup Range(batch)
        /\ late' = late \cup {batch}
  /\ UNCHANGED serverVars

-----------------------------------------------------------------------------
(* main                                                                    *)

(* SIGINT or SIGTERM.                                                      *)
Signal ==
  /\ main = "running"
  /\ main' = "waiting"
  /\ UNCHANGED <<call, droppedCnt, eventCh, batch, forwarder, working, loaded,
                 accepted, graceful, serverVars, postVars>>

(* pm.Start and resolver.StartRefresh see ctx.Done().                      *)
WorkerStops(w) ==
  /\ main = "waiting"
  /\ w \in working
  /\ working' = working \ {w}
  /\ UNCHANGED <<call, droppedCnt, eventCh, batch, forwarder, main, loaded,
                 accepted, graceful, serverVars, postVars>>

AllStopped == working = {} /\ forwarder = "stopped"

(* `<-shutdownDone' or 5 s have passed; then loader.Close().               *)
Exit ==
  /\ main = "waiting"
  /\ main' = "exited"
  /\ graceful' \in {AllStopped, FALSE}
  /\ loaded' = FALSE
  /\ UNCHANGED <<call, droppedCnt, eventCh, batch, forwarder, working,
                 accepted, serverVars, postVars>>

-----------------------------------------------------------------------------
Forward == Take \/ Tick \/ Cancelled
Post == PostAnswered \/ PostFails \/ GiveUp

Next ==
  \/ \E e \in Events : Reject(e) \/ Enrich(e) \/ Deliver(e) \/ Drop(e)
  \/ Forward \/ Arrive \/ ArriveLate \/ Post
  \/ \E k \in DOMAIN requests : HandleEvent(k)
  \/ Signal \/ Exit
  \/ \E w \in Workers : WorkerStops(w)

Spec == Init /\ [][Next]_vars

(* The forwarder's select serves a ready case sooner or later, a post ends *)
(* (the client's timeout), and so does main's wait (time.After).  Nothing  *)
(* is assumed of producers, of the network and the server, or of the other *)
(* workers.                                                                *)
FairSpec ==
  /\ Spec
  /\ WF_vars(Forward)
  /\ WF_vars(Post)
  /\ WF_vars(Exit)

-----------------------------------------------------------------------------
(* Properties                                                              *)

TypeOK ==
  /\ call \in [Events -> {"none", "error", "enriched", "returned"}]
  /\ droppedCnt \in Nat
  /\ eventCh \in Seq(Events) /\ Len(eventCh) <= ChanCap
  /\ batch \in Seq(Events) /\ Len(batch) <= BatchSize
  /\ forwarder \in {"select", "posting", "flushing", "stopped"}
  /\ arrived \in 0..Len(requests)
  /\ late \subseteq Seq(Events)
  /\ requests \in Seq(Seq(Events))
  /\ working \subseteq Workers
  /\ main \in {"running", "waiting", "exited"}
  /\ loaded \in BOOLEAN
  /\ saved \in Seq(Events)
  /\ unsaved \in Seq(Events)
  /\ givenUp \subseteq Events
  /\ accepted \in Seq(Events)
  /\ finished \in Seq(Events)
  /\ graceful \in BOOLEAN

(* Inside the agent nothing is lost, repeated or reordered: the events     *)
(* that entered the channel are, in that order, those of finished posts,   *)
(* those of the batch, and those still in the channel -- also after a      *)
(* forced exit, when the last two are what dies with the process.          *)
NothingVanishes == accepted = finished \o batch \o eventCh

(* The drop counter is exact: events whose call returned nil either        *)
(* entered the channel or were counted.                                    *)
DropsAreCounted ==
  Cardinality({e \in Events : call[e] = "returned"}) = droppedCnt + Len(accepted)

(* Every event that a producer handed over is somewhere, once: posted, on  *)
(* its way, or counted as dropped.                                         *)
EventsAreAccounted == NothingVanishes /\ DropsAreCounted

(* The server never stores an event twice, nor keeps a second copy that it *)
(* might store yet, although posts time out, overlap and arrive late.      *)
AtMostOnce ==
  /\ \A i, j \in 1..Len(saved) : saved[i] = saved[j] => i = j
  /\ \A i \in 1..Len(saved) :
       /\ \A k \in 1..Len(requests) : saved[i] \notin Range(requests[k])
       /\ \A b \in late : saved[i] \notin Range(b)
       /\ saved[i] \notin Range(unsaved)
       /\ saved[i] \notin Range(eventCh)

Position(e) == CHOOSE i \in 1..Len(accepted) : accepted[i] = e

(* Events are stored in the order in which producers delivered them; only  *)
(* one that the client gave up on before the server had dealt with it can  *)
(* be stored after one that was delivered later.                           *)
StoredInOrder ==
  \A i, j \in 1..Len(saved) :
    i < j => Position(saved[i]) < Position(saved[j]) \/ saved[j] \in givenUp

(* What forwardEvents, the network and the server make of a batch,         *)
(* whatever times out and whenever it arrives.                             *)
StoredOnceInOrder == AtMostOnce /\ StoredInOrder

(* When main sees all goroutines end, every event taken from the channel   *)
(* has been posted; the programs are detached by the time main is gone.    *)
CleanExit ==
  /\ main = "exited" => ~loaded
  /\ graceful => batch = <<>> /\ ~Posting

(* After a signal the agent ends even if the server never answers.         *)
ShutdownEnds == main = "waiting" ~> main = "exited"

(* Until then an accepted event does not get stuck: whatever the server    *)
(* does, it is posted.                                                     *)
Posted(e) == e \in Range(finished)
EventsMove == \A e \in Events : e \in Range(accepted) ~> (Posted(e) \/ main # "running")

(* Neither the events nor the shutdown of the agent wait for the server.   *)
NothingHangs == ShutdownEnds /\ EventsMove

=============================================================================

-------------------------------- MODULE Hub --------------------------------
(***************************************************************************)
(* The WebSocket hub of the server (server/ws.go): goroutines call one of  *)
(* the Broadcast functions, which send on the bounded channel `broadcast'; *)
(* Hub.Run hands each message to the buffered channel `send' of every      *)
(* registered client without blocking, and drops a client whose buffer is  *)
(* full; each connection has a writer goroutine (send -> socket) and a     *)
(* reader goroutine that notices the disconnection and unregisters.        *)
(*                                                                         *)
(* Atomicity: one action per channel operation or socket call.  Fan-out is *)
(* one action per client, so writers, readers and callers run between two  *)
(* clients of the same message, as they do between two iterations of the   *)
(* loop in Run.                                                            *)
(***************************************************************************)
EXTENDS Naturals, Sequences, FiniteSets

CONSTANTS
  Conns,     \* connections that may be opened; a reconnection is another one
  Prompt,    \* those whose peer keeps reading: their writes always return
  Callers,   \* goroutines that call a Broadcast function
  MaxCalls,  \* bound: calls made by each of them
  QueueCap,  \* capacity of Hub.broadcast (256 in the code)
  SendCap,   \* capacity of Client.send (256 in the code)
  NoMsg      \* what a writer holds when it holds no message

ASSUME HubAssumption ==
  /\ Prompt \subseteq Conns
  /\ MaxCalls \in Nat
  /\ QueueCap \in Nat \ {0}
  /\ SendCap \in Nat \ {0}
  /\ NoMsg \notin Callers \X Nat

VARIABLES
  calls,      \* calls[h]: Broadcast calls h has begun
  busy,       \* busy[h]: h is inside a Broadcast call
  broadcast,  \* contents of the channel Hub.broadcast
  clients,    \* Hub.clients
  msg,        \* the message Run is fanning out
  todo,       \* clients the fan-out loop has not visited; {} at the select
  send,       \* send[c]: contents of Client.send
  closes,     \* closes[c]: times Client.send was closed
  conn,       \* conn[c]: the socket: "none", "up", "gone" (peer left), "closed"
  writer,     \* writer[c]: the writer goroutine
  hand,       \* hand[c]: the message WriteMessage was called with
  reader,     \* reader[c]: ServeWS, then the reader goroutine
  \* Observers, which no guard reads:
  log,        \* messages in the order Run took them
  joined,     \* joined[c]: Len(log) when Run registered c
  taken,      \* taken[c]: messages the writer took from send[c]
  received    \* received[c]: messages the dashboard got

callVars == <<calls, busy>>
hubVars  == <<broadcast, clients, msg, todo>>
sockVars == <<conn, writer, hand, reader>>
seenVars == <<log, joined, taken, received>>
vars == <<callVars, hubVars, send, closes, sockVars, seenVars>>

Msgs == Callers \X (1..MaxCalls)

Init ==
  /\ calls = [h \in Callers |-> 0]
  /\ busy = [h \in Callers |-> FALSE]
  /\ broadcast = <<>>
  /\ clients = {}
  /\ msg = NoMsg
  /\ todo = {}
  /\ send = [c \in Conns |-> <<>>]
  /\ closes = [c \in Conns |-> 0]
  /\ conn = [c \in Conns |-> "none"]
  /\ writer = [c \in Conns |-> "none"]
  /\ hand = [c \in Conns |-> NoMsg]
  /\ reader = [c \in Conns |-> "none"]
  /\ log = <<>>
  /\ joined = [c \in Conns |-> 0]
  /\ taken = [c \in Conns |-> 0]
  /\ received = [c \in Conns |-> <<>>]

-----------------------------------------------------------------------------
(* Seeded faults: bugs this code could plausibly have, each breaking one   *)
(* of the properties below when it replaces the action it is a variant of. *)

(* Enqueue on an unbounded queue.                                          *)
EnqueueUnbounded(h) ==
  /\ busy[h]
  /\ broadcast' = Append(broadcast, <<h, calls[h]>>)
  /\ busy' = [busy EXCEPT ![h] = FALSE]
  /\ UNCHANGED <<calls, clients, msg, todo, send, closes, sockVars, seenVars>>

(* Unregister without `if _, ok := h.clients[client]; ok'.                 *)
UnregisterUnchecked(c) ==
  /\ todo = {}
  /\ reader[c] = "leaving"
  /\ reader' = [reader EXCEPT ![c] = "closing"]
  /\ closes' = [closes EXCEPT ![c] = @ + 1]
  /\ clients' = clients \ {c}
  /\ UNCHANGED <<callVars, broadcast, msg, todo, send, conn, writer, hand,
                 seenVars>>

(* FanoutDrop skips the message but keeps the client.                      *)
FanoutSkip(c) ==
  /\ c \in todo
  /\ Len(send[c]) >= SendCap
  /\ todo' = todo \ {c}
  /\ UNCHANGED <<callVars, broadcast, clients, msg, send, closes, sockVars,
                 seenVars>>

(* FanoutDrop cuts a client off while one place is left.                   *)
FanoutDropEarly(c) ==
  /\ c \in todo
  /\ Len(send[c]) + 1 >= SendCap
  /\ closes' = [closes EXCEPT ![c] = @ + 1]
  /\ clients' = clients \ {c}
  /\ todo' = todo \ {c}
  /\ UNCHANGED <<callVars, broadcast, msg, send, sockVars, seenVars>>

(* FanoutDrop without a `default' case: the loop blocks on a full buffer.  *)
FanoutBlock(c) ==
  /\ c \in todo
  /\ Len(send[c]) >= SendCap
  /\ FALSE
  /\ UNCHANGED vars

(* FanoutSend leaves the loop after the first client.                      *)
FanoutSendAndBreak(c) ==
  /\ c \in todo
  /\ Len(send[c]) < SendCap
  /\ send' = [send EXCEPT ![c] = Append(@, msg)]
  /\ todo' = {}
  /\ UNCHANGED <<callVars, broadcast, clients, msg, closes, sockVars, seenVars>>

(* Dequeue that leaves the message in the queue.                           *)
DequeuePeek ==
  /\ todo = {}
  /\ broadcast # <<>>
  /\ msg' = Head(broadcast)
  /\ todo' = clients
  /\ log' = Append(log, Head(broadcast))
  /\ UNCHANGED <<callVars, broadcast, clients, send, closes, sockVars, joined,
                 taken, received>>

(* The reader's deferred function does not unregister.                     *)
ReaderFailsSilently(c) ==
  /\ reader[c] = "reading"
  /\ conn[c] \in {"gone", "closed"}
  /\ reader' = [reader EXCEPT ![c] = "closing"]
  /\ UNCHANGED <<callVars, hubVars, send, closes, conn, writer, hand, seenVars>>

-----------------------------------------------------------------------------
(* Callers of BroadcastHeartbeat, BroadcastAlert, BroadcastEbpfEvent, ...  *)

Call(h) ==
  /\ ~busy[h]
  /\ calls[h] < MaxCalls
  /\ calls' = [calls EXCEPT ![h] = @ + 1]
  /\ busy' = [busy EXCEPT ![h] = TRUE]
  /\ UNCHANGED <<hubVars, send, closes, sockVars, seenVars>>

(* `h.broadcast <- data': blocks while the channel is full.                *)
Enqueue(h) ==
  /\ busy[h]
  /\ Len(broadcast) < QueueCap
  /\ broadcast' = Append(broadcast, <<h, calls[h]>>)
  /\ busy' = [busy EXCEPT ![h] = FALSE]
  /\ UNCHANGED <<calls, clients, msg, todo, send, closes, sockVars, seenVars>>

-----------------------------------------------------------------------------
(* Hub.Run                                                                 *)

AtSelect == todo = {}

(* Rendezvous with ServeWS, which then starts the two goroutines.          *)
Register(c) ==
  /\ AtSelect
  /\ reader[c] = "registering"
  /\ clients' = clients \cup {c}
  /\ reader' = [reader EXCEPT ![c] = "reading"]
  /\ writer' = [writer EXCEPT ![c] = "ranging"]
  /\ joined' = [joined EXCEPT ![c] = Len(log)]
  /\ UNCHANGED <<callVars, broadcast, msg, todo, send, closes, conn, hand,
                 log, taken, received>>

(* Rendezvous with the reader's deferred function.  A client that was      *)
(* already dropped is left alone: its channel is closed.                   *)
Unregister(c) ==
  /\ AtSelect
  /\ reader[c] = "leaving"
  /\ reader' = [reader EXCEPT ![c] = "closing"]
  /\ closes' = IF c \in clients THEN [closes EXCEPT ![c] = @ + 1] ELSE closes
  /\ clients' = clients \ {c}
  /\ UNCHANGED <<callVars, broadcast, msg, todo, send, conn, writer, hand,
                 seenVars>>

Dequeue ==
  /\ AtSelect
  /\ broadcast # <<>>
  /\ msg' = Head(broadcast)
  /\ broadcast' = Tail(broadcast)
  /\ todo' = clients
  /\ log' = Append(log, Head(broadcast))
  /\ UNCHANGED <<callVars, clients, send, closes, sockVars, joined, taken,
                 received>>

(* `case client.send <- message'                                           *)
FanoutSend(c) ==
  /\ c \in todo
  /\ Len(send[c]) < SendCap
  /\ send' = [send EXCEPT ![c] = Append(@, msg)]
  /\ todo' = todo \ {c}
  /\ UNCHANGED <<callVars, broadcast, clients, msg, closes, sockVars, seenVars>>

(* `default': the buffer is full, the client is cut off.                   *)
FanoutDrop(c) ==
  /\ c \in todo
  /\ Len(send[c]) >= SendCap
  /\ closes' = [closes EXCEPT ![c] = @ + 1]
  /\ clients' = clients \ {c}
  /\ todo' = todo \ {c}
  /\ UNCHANGED <<callVars, broadcast, msg, send, sockVars, seenVars>>

Fanout(c) == FanoutSend(c) \/ FanoutDrop(c)

-----------------------------------------------------------------------------
(* One connection: ServeWS, its writer and its reader                      *)

(* ServeWS upgraded the request and now sends on hub.register.             *)
Upgrade(c) ==
  /\ reader[c] = "none"
  /\ conn' = [conn EXCEPT ![c] = "up"]
  /\ reader' = [reader EXCEPT ![c] = "registering"]
  /\ UNCHANGED <<callVars, hubVars, send, closes, writer, hand, seenVars>>

(* The browser tab closes, or the network breaks.                          *)
PeerLeaves(c) ==
  /\ conn[c] = "up"
  /\ conn' = [conn EXCEPT ![c] = "gone"]
  /\ UNCHANGED <<callVars, hubVars, send, closes, writer, hand, reader,
                 seenVars>>

(* `for message := range client.send'                                      *)
WriterTake(c) ==
  /\ writer[c] = "ranging"
  /\ send[c] # <<>>
  /\ hand' = [hand EXCEPT ![c] = Head(send[c])]
  /\ send' = [send EXCEPT ![c] = Tail(@)]
  /\ writer' = [writer EXCEPT ![c] = "writing"]
  /\ taken' = [taken EXCEPT ![c] = @ + 1]
  /\ UNCHANGED <<callVars, hubVars, closes, conn, reader, log, joined, received>>

(* WriteMessage returns: the peer has the message ...                      *)
WriteArrives(c) ==
  /\ writer[c] = "writing"
  /\ conn[c] = "up"
  /\ received' = [received EXCEPT ![c] = Append(@, hand[c])]
  /\ hand' = [hand EXCEPT ![c] = NoMsg]
  /\ writer' = [writer EXCEPT ![c] = "ranging"]
  /\ UNCHANGED <<callVars, hubVars, send, closes, conn, reader, log, joined,
                 taken>>

(* ... or the kernel accepted bytes nobody will read ...                   *)
WriteLost(c) ==
  /\ writer[c] = "writing"
  /\ conn[c] = "gone"
  /\ hand' = [hand EXCEPT ![c] = NoMsg]
  /\ writer' = [writer EXCEPT ![c] = "ranging"]
  /\ UNCHANGED <<callVars, hubVars, send, closes, conn, reader, seenVars>>

(* ... or it fails and the writer leaves its loop.                         *)
WriteFails(c) ==
  /\ writer[c] = "writing"
  /\ conn[c] \in {"gone", "closed"}
  /\ hand' = [hand EXCEPT ![c] = NoMsg]
  /\ writer' = [writer EXCEPT ![c] = "closing"]
  /\ UNCHANGED <<callVars, hubVars, send, closes, conn, reader, seenVars>>

(* The range loop ends once the channel is closed and drained.             *)
WriterDrained(c) ==
  /\ writer[c] = "ranging"
  /\ send[c] = <<>>
  /\ closes[c] > 0
  /\ writer' = [writer EXCEPT ![c] = "closing"]
  /\ UNCHANGED <<callVars, hubVars, send, closes, conn, hand, reader, seenVars>>

WriterClose(c) ==
  /\ writer[c] = "closing"
  /\ writer' = [writer EXCEPT ![c] = "done"]
  /\ conn' = [conn EXCEPT ![c] = "closed"]
  /\ UNCHANGED <<callVars, hubVars, send, closes, hand, reader, seenVars>>

(* ReadMessage returns an error.                                           *)
ReaderFails(c) ==
  /\ reader[c] = "reading"
  /\ conn[c] \in {"gone", "closed"}
  /\ reader' = [reader EXCEPT ![c] = "leaving"]
  /\ UNCHANGED <<callVars, hubVars, send, closes, conn, writer, hand, seenVars>>

(* `conn.Close()' after the unregister was received.                       *)
ReaderClose(c) ==
  /\ reader[c] = "closing"
  /\ reader' = [reader EXCEPT ![c] = "done"]
  /\ conn' = [conn EXCEPT ![c] = "closed"]
  /\ UNCHANGED <<callVars, hubVars, send, closes, writer, hand, seenVars>>

-----------------------------------------------------------------------------
Writer(c) ==
  WriterTake(c) \/ WriteArrives(c) \/ WriteLost(c) \/ WriteFails(c)
    \/ WriterDrained(c) \/ WriterClose(c)

Reader(c) == ReaderFails(c) \/ ReaderClose(c)

Next ==
  \/ \E h \in Callers : Call(h) \/ Enqueue(h)
  \/ Dequeue
  \/ \E c \in Conns :
       \/ Register(c) \/ Unregister(c) \/ Fanout(c)
       \/ Upgrade(c) \/ PeerLeaves(c)
       \/ Writer(c) \/ Reader(c)

Spec == Init /\ [][Next]_vars

(* The writer is in WriteMessage to a peer that is there but does not read. *)
Stalled(c) == c \notin Prompt /\ conn[c] = "up" /\ writer[c] = "writing"

(* Goroutines that can run do run: Go's scheduler is fair, its select      *)
(* picks among the ready cases at random, and a channel serves blocked     *)
(* senders first come first served (the SF of Enqueue).  A write to a      *)
(* socket whose peer left returns sooner or later; one to a peer that is   *)
(* up but does not read need not, for ws.go sets no write deadline.        *)
(* Nothing is assumed of Call, Upgrade and PeerLeaves.                     *)
FairSpec ==
  /\ Spec
  /\ \A h \in Callers : SF_vars(Enqueue(h))
  /\ WF_vars(Dequeue)
  /\ \A c \in Conns :
       /\ WF_vars(Register(c) \/ Unregister(c))
       /\ WF_vars(Fanout(c))
       /\ WF_vars(~Stalled(c) /\ Writer(c))
       /\ WF_vars(Reader(c))

-----------------------------------------------------------------------------
(* Properties                                                              *)

(* Every variable stays in its range; in particular neither channel ever   *)
(* holds more than its capacity.                                           *)
TypeOK ==
  /\ calls \in [Callers -> 0..MaxCalls]
  /\ busy \in [Callers -> BOOLEAN]
  /\ broadcast \in Seq(Msgs) /\ Len(broadcast) <= QueueCap
  /\ clients \subseteq Conns
  /\ msg \in Msgs \cup {NoMsg}
  /\ todo \subseteq Conns
  /\ send \in [Conns -> Seq(Msgs)]
  /\ \A c \in Conns : Len(send[c]) <= SendCap
  /\ closes \in [Conns -> Nat]
  /\ conn \in [Conns -> {"none", "up", "gone", "closed"}]
  /\ writer \in [Conns -> {"none", "ranging", "writing", "closing", "done"}]
  /\ hand \in [Conns -> Msgs \cup {NoMsg}]
  /\ reader \in [Conns -> {"none", "registering", "reading", "leaving",
                           "closing", "done"}]
  /\ log \in Seq(Msgs)
  /\ joined \in [Conns -> Nat]
  /\ taken \in [Conns -> Nat]
  /\ received \in [Conns -> Seq(Msgs)]

(* The hub goroutine never panics: a channel is closed at most once, and   *)
(* one that Run may still send on (its client is registered, or is being   *)
(* visited by the fan-out) has never been closed -- although the fan-out   *)
(* and a late unregister both close it.                                    *)
NeverPanics ==
  /\ \A c \in Conns : closes[c] <= 1
  /\ \A c \in clients \cup todo : closes[c] = 0

(* A dashboard's feed has no hole and no repetition: what it received are  *)
(* consecutive messages of the log, starting with the first that Run took  *)
(* after registering it.                                                   *)
GapFree ==
  \A c \in Conns :
    /\ joined[c] + Len(received[c]) <= Len(log)
    /\ \A i \in 1..Len(received[c]) : received[c][i] = log[joined[c] + i]

(* Run cuts off a connection that did not fail only when that dashboard is *)
(* more than a full buffer behind the log.                                 *)
DropsOnlyLaggards ==
  [][\A c \in clients \ clients' :
       reader[c] = "leaving"
         \/ Len(log) - (joined[c] + Len(received[c])) > SendCap]_vars

(* Whatever dashboards do, the hub goroutine comes back to its select: a   *)
(* peer that stops reading does not delay the others.                      *)
HubReturns == todo # {} ~> todo = {}

(* Nor does it delay the HTTP handlers: with or without dashboards, a      *)
(* goroutine inside a Broadcast call gets out.                             *)
CallersReturn == \A h \in Callers : busy[h] ~> ~busy[h]

(* Run and the Broadcast functions never wait for a dashboard.             *)
NobodyWaits == HubReturns /\ CallersReturn

(* A connection whose peer left is cleaned up: it is out of the registry   *)
(* and both its goroutines have ended.                                     *)
Released(c) == c \notin clients /\ writer[c] = "done" /\ reader[c] = "done"

GoneIsReleased == \A c \in Conns : conn[c] = "gone" ~> Released(c)

(* So is one that Run cut off, if its peer keeps reading; for a peer that  *)
(* stalls, the writer may sit in WriteMessage for ever.                    *)
DroppedIsReleased == \A c \in Prompt : closes[c] > 0 ~> Released(c)

(* No connection that ended leaks its goroutines.                          *)
EndedIsReleased == GoneIsReleased /\ DroppedIsReleased

(* A registered dashboard that keeps reading catches up with everything    *)
(* Run took since, unless it leaves or is cut off first.                   *)
PromptCatchesUp ==
  \A c \in Prompt :
    c \in clients
      ~> (c \notin clients \/ joined[c] + Len(received[c]) = Len(log))

-----------------------------------------------------------------------------
(* The hub implements the feed.  A connection is "in" from registration to *)
(* removal from the registry; what its channel then still holds is all it  *)
(* may yet receive.                                                        *)
FeedStatus ==
  [c \in Conns |->
     IF reader[c] \in {"none", "registering"} THEN "out"
     ELSE IF c \in clients THEN "in" ELSE "gone"]

FeedLimit ==
  [c \in Conns |->
     IF FeedStatus[c] = "gone" THEN joined[c] + taken[c] + Len(send[c]) ELSE 0]

Abstract == INSTANCE Feed WITH status <- FeedStatus, limit <- FeedLimit

(* What each dashboard sees of the hub is what Feed promises.              *)
ImplementsFeed == Abstract!Spec

=============================================================================

-------------------------------- MODULE Feed --------------------------------
(***************************************************************************)
(* What the live feed promises a dashboard, with no channel, buffer or     *)
(* goroutine in sight.  Messages are published one after the other; a      *)
(* dashboard that joins receives the messages published from then on, in   *)
(* order, none skipped and none repeated, and if it ever leaves (it hangs  *)
(* up, or is cut off because it lags) what it got is still such a run of   *)
(* consecutive messages.  Hub.tla is shown to implement this.              *)
(***************************************************************************)
EXTENDS Naturals, Sequences

CONSTANTS
  Conns,    \* the connections dashboards may open
  Callers,  \* the goroutines that publish
  MaxCalls  \* bound: how many messages each of them publishes

VARIABLES
  log,       \* the messages published, in the order dashboards see them
  status,    \* status[c]: "out" before joining, then "in", then "gone"
  joined,    \* joined[c]: how many messages had been published when c joined
  limit,     \* limit[c]: once c is gone, the last message it may still get
  received   \* received[c]: what c got

vars == <<log, status, joined, limit, received>>

(* A message is the k-th call of its caller.                               *)
Msgs == Callers \X (1..MaxCalls)

Init ==
  /\ log = <<>>
  /\ status = [c \in Conns |-> "out"]
  /\ joined = [c \in Conns |-> 0]
  /\ limit = [c \in Conns |-> 0]
  /\ received = [c \in Conns |-> <<>>]

(* A caller's messages are published in the order of its calls, once each. *)
Publish(m) ==
  /\ \A i \in 1..Len(log) : log[i][1] = m[1] => log[i][2] < m[2]
  /\ log' = Append(log, m)
  /\ UNCHANGED <<status, joined, limit, received>>

Join(c) ==
  /\ status[c] = "out"
  /\ status' = [status EXCEPT ![c] = "in"]
  /\ joined' = [joined EXCEPT ![c] = Len(log)]
  /\ UNCHANGED <<log, limit, received>>

Receive(c) ==
  LET next == joined[c] + Len(received[c]) + 1 IN
  /\ \/ status[c] = "in" /\ next <= Len(log)
     \/ status[c] = "gone" /\ next <= limit[c]
  /\ received' = [received EXCEPT ![c] = Append(@, log[next])]
  /\ UNCHANGED <<log, status, joined, limit>>

(* The cut may fall before messages published meanwhile, never before what *)
(* the dashboard already has.                                              *)
Leave(c) ==
  /\ status[c] = "in"
  /\ status' = [status EXCEPT ![c] = "gone"]
  /\ \E n \in (joined[c] + Len(received[c]))..Len(log) :
       limit' = [limit EXCEPT ![c] = n]
  /\ UNCHANGED <<log, joined, received>>

Next ==
  \/ \E m \in Msgs : Publish(m)
  \/ \E c \in Conns : Join(c) \/ Receive(c) \/ Leave(c)

Spec == Init /\ [][Next]_vars

=============================================================================

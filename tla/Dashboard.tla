----------------------------- MODULE Dashboard ------------------------------
(***************************************************************************)
(* The live half of the React dashboard: useWebSocket (the connection, its *)
(* retries and lastMessage), useLiveEvents (the buffer flushed on an       *)
(* animation frame) and the effect of HeartbeatChart that appends live     *)
(* heartbeats to the chart, with the cluster tabs of App.                  *)
(*                                                                         *)
(* A line is one `connect` closure: useWebSocket makes one per mount and   *)
(* one per change of url.  A line has at most one socket or one retry      *)
(* timer at a time, and both keep the url the closure captured.  All lines *)
(* share the refs and the state of the one mounted hook.  Switching        *)
(* cluster runs the cleanup and the effect in one commit, so               *)
(* unmountedRef, set by the first and reset by the second, is FALSE in     *)
(* every callback: HeartbeatChart itself is never unmounted.               *)
(*                                                                         *)
(* React is external: a setState is visible at the next Render, and the    *)
(* effects of a render run before the next one.  A message is its position *)
(* in `arrived`, so two messages are never the same object, as with        *)
(* JSON.parse; malformed ones are skipped and left out.  Delays are        *)
(* abstracted to "later".                                                  *)
(***************************************************************************)
EXTENDS Naturals, Sequences, SequencesExt

CONSTANTS
  MaxRetries,    \* config.reconnect.maxRetries
  Cap,           \* live events kept (200)
  MaxSwitches,   \* bound: clicks on a cluster tab
  MaxDrops,      \* bound: established connections the network breaks
  MaxMessages,   \* bound: messages received
  MaxDismissals  \* bound: toasts dismissed

ASSUME DashboardAssumption ==
  /\ MaxRetries \in Nat /\ Cap \in Nat \ {0}
  /\ MaxSwitches \in Nat /\ MaxDrops \in Nat
  /\ MaxMessages \in Nat /\ MaxDismissals \in Nat

VARIABLES
  lines,         \* state of each connect closure, the last one the selected cluster's
  wsRef,         \* the line that connected last
  timerRef,      \* the line that armed a retry timer last, 0 before any did
  failures,      \* failureCountRef
  status,        \* the connection indicator, as last set
  arrived,       \* types of the messages received, on any line
  superseded,    \* messages replaced in lastMessage before any render
  nextMessage,   \* lastMessage as set, 0 for null
  lastMessage,   \* lastMessage as last rendered
  effects,       \* effects React has yet to run: "live", "chart"
  lastProcessed, lastAppended,  \* the refs of the two effects
  buffer,        \* messageBufferRef
  frame,         \* rafIdRef is set: an animation frame is requested
  liveEvents, alerts, points,   \* what the dashboard shows, as message positions
  toasts,                       \* how many alerts were last rendered as toasts
  drops, dismissals             \* counted for the bounds

connection == <<lines, wsRef, timerRef, failures, status, drops>>
pipeline == <<arrived, superseded, nextMessage, lastMessage, effects,
              lastProcessed, lastAppended, buffer, frame,
              liveEvents, alerts, points, toasts, dismissals>>
vars == <<connection, pipeline>>

Types == {"heartbeat", "alert", "ebpf_event"}
LineStates == {"connecting", "open", "closing", "waiting", "ended"}

Init ==
  /\ lines = <<"connecting">> /\ wsRef = 1 /\ timerRef = 0
  /\ failures = 0 /\ status = "connecting" /\ drops = 0
  /\ arrived = <<>> /\ superseded = {}
  /\ nextMessage = 0 /\ lastMessage = 0 /\ effects = {}
  /\ lastProcessed = 0 /\ lastAppended = 0
  /\ buffer = <<>> /\ frame = FALSE
  /\ liveEvents = <<>> /\ alerts = <<>> /\ points = <<>>
  /\ toasts = 0 /\ dismissals = 0

-----------------------------------------------------------------------------
(* The connection: useWebSocket.                                           *)

(* ws.onopen.                                                              *)
OnOpen(l) ==
  /\ lines[l] = "connecting"
  /\ lines' = [lines EXCEPT ![l] = "open"]
  /\ failures' = 0 /\ status' = "connected"
  /\ UNCHANGED <<wsRef, timerRef, drops, pipeline>>

(* A socket ends: the attempt failed, the network broke an established     *)
(* connection, or close() completed.                                       *)
Ends(l) ==
  /\ lines[l] \in {"connecting", "open", "closing"}
  /\ lines[l] = "open" => drops < MaxDrops
  /\ drops' = IF lines[l] = "open" THEN drops + 1 ELSE drops

(* Fault: the retry is not counted.                                        *)
OnCloseUncounted(l) ==
  /\ Ends(l) /\ failures < MaxRetries
  /\ lines' = [lines EXCEPT ![l] = "waiting"]
  /\ timerRef' = l /\ status' = "disconnected"
  /\ UNCHANGED <<wsRef, failures, pipeline>>

(* ws.onclose with retries left.                                           *)
OnCloseRetry(l) ==
  /\ Ends(l) /\ failures < MaxRetries
  /\ lines' = [lines EXCEPT ![l] = "waiting"]
  /\ failures' = failures + 1 /\ timerRef' = l /\ status' = "disconnected"
  /\ UNCHANGED <<wsRef, pipeline>>

(* Fault: giving up returns before the status is set.                      *)
OnCloseGiveUpSilently(l) ==
  /\ Ends(l) /\ failures >= MaxRetries
  /\ lines' = [lines EXCEPT ![l] = "ended"]
  /\ UNCHANGED <<wsRef, timerRef, failures, status, pipeline>>

(* ws.onclose: give up.                                                    *)
OnCloseGiveUp(l) ==
  /\ Ends(l) /\ failures >= MaxRetries
  /\ lines' = [lines EXCEPT ![l] = "ended"]
  /\ status' = "disconnected"
  /\ UNCHANGED <<wsRef, timerRef, failures, pipeline>>

(* The timer's callback is the closure that armed it: same url.            *)
Reconnect(l) ==
  /\ lines[l] = "waiting"
  /\ lines' = [lines EXCEPT ![l] = "connecting"]
  /\ wsRef' = l /\ status' = "connecting"
  /\ UNCHANGED <<timerRef, failures, drops, pipeline>>

(* What the cleanup does to line l: clearTimeout(reconnectTimerRef) and    *)
(* wsRef.close(), each reaching only the line its ref names.               *)
Cleaned(l) ==
  CASE l = timerRef /\ lines[l] = "waiting" -> "ended"
    [] l = wsRef /\ lines[l] \in {"connecting", "open"} -> "closing"
    [] OTHER -> lines[l]

(* A click on another cluster tab: cleanup, then connect to the new url.   *)
Switch ==
  /\ Len(lines) <= MaxSwitches
  /\ lines' = Append([l \in DOMAIN lines |-> Cleaned(l)], "connecting")
  /\ wsRef' = Len(lines) + 1 /\ status' = "connecting"
  /\ UNCHANGED <<timerRef, failures, drops, pipeline>>

-----------------------------------------------------------------------------
(* The messages.                                                           *)

Messages == 1..Len(arrived)

(* filter: the members of S in s, in order.  SelectSeq with a set for its  *)
(* test, as a function of how far it got.                                  *)
Only(s, S) ==
  LET upTo[i \in 0..Len(s)] ==
        IF i = 0 THEN <<>>
        ELSE IF s[i] \in S THEN Append(upTo[i - 1], s[i]) ELSE upTo[i - 1]
  IN  upTo[Len(s)]

(* ws.onmessage: setLastMessage; a message not rendered yet is replaced.   *)
OnMessage(l) ==
  /\ lines[l] = "open" /\ Len(arrived) < MaxMessages
  /\ \E type \in Types : arrived' = Append(arrived, type)
  /\ nextMessage' = Len(arrived) + 1
  /\ superseded' = IF nextMessage = lastMessage THEN superseded
                   ELSE superseded \cup {nextMessage}
  /\ UNCHANGED <<connection, lastMessage, effects, lastProcessed, lastAppended,
                 buffer, frame, liveEvents, alerts, points, toasts, dismissals>>

(* React renders for a new lastMessage or list of alerts, or because the   *)
(* animated lease data of the chart grew; each effect runs when its own    *)
(* dependencies changed.                                                   *)
Render(grown) ==
  /\ effects = {}
  /\ grown \/ nextMessage # lastMessage \/ toasts # Len(alerts)
  /\ toasts' = Len(alerts)
  /\ lastMessage' = nextMessage
  /\ effects' = (IF nextMessage # lastMessage THEN {"live", "chart"} ELSE {})
                  \cup (IF grown THEN {"chart"} ELSE {})
  /\ UNCHANGED <<connection, arrived, superseded, nextMessage, lastProcessed,
                 lastAppended, buffer, frame, liveEvents, alerts, points, dismissals>>

(* Fault: the message replaces the buffer instead of joining it.           *)
LiveEffectReplace ==
  IF "live" \in effects /\ lastMessage \notin {0, lastProcessed}
  THEN /\ lastProcessed' = lastMessage
       /\ buffer' = <<lastMessage>>
       /\ frame' = TRUE
  ELSE UNCHANGED <<lastProcessed, buffer, frame>>

(* Fault: the frame is requested only while one is already pending.        *)
LiveEffectUnscheduled ==
  IF "live" \in effects /\ lastMessage \notin {0, lastProcessed}
  THEN /\ lastProcessed' = lastMessage
       /\ buffer' = Append(buffer, lastMessage)
       /\ UNCHANGED frame
  ELSE UNCHANGED <<lastProcessed, buffer, frame>>

(* The effect of useLiveEvents: buffer the message, request a frame.       *)
LiveEffect ==
  IF "live" \in effects /\ lastMessage \notin {0, lastProcessed}
  THEN /\ lastProcessed' = lastMessage
       /\ buffer' = Append(buffer, lastMessage)
       /\ frame' = TRUE
  ELSE UNCHANGED <<lastProcessed, buffer, frame>>

(* Fault: no lastAppendedMsgRef.                                           *)
ChartEffectAgain ==
  IF /\ "chart" \in effects /\ lastMessage # 0
     /\ arrived[lastMessage] = "heartbeat"
  THEN /\ lastAppended' = lastMessage
       /\ points' = Append(points, lastMessage)
  ELSE UNCHANGED <<lastAppended, points>>

(* The effect of HeartbeatChart: append a heartbeat to the chart, once.    *)
ChartEffect ==
  IF /\ "chart" \in effects /\ lastMessage \notin {0, lastAppended}
     /\ arrived[lastMessage] = "heartbeat"
  THEN /\ lastAppended' = lastMessage
       /\ points' = Append(points, lastMessage)
  ELSE UNCHANGED <<lastAppended, points>>

RunEffects ==
  /\ effects # {} /\ effects' = {}
  /\ LiveEffect /\ ChartEffect
  /\ UNCHANGED <<connection, arrived, superseded, nextMessage, lastMessage,
                 liveEvents, alerts, toasts, dismissals>>

AlertMessages == {m \in Messages : arrived[m] = "alert"}
Heartbeats == {m \in Messages : arrived[m] = "heartbeat"}
LiveMessages == AlertMessages \cup Heartbeats

(* slice(-Cap)                                                             *)
LastOnes(s) == SubSeq(s, IF Len(s) > Cap THEN Len(s) - Cap + 1 ELSE 1, Len(s))

(* Fault: the new alerts replace the previous ones.                        *)
FlushReplacesAlerts ==
  /\ frame /\ frame' = FALSE
  /\ buffer' = <<>>
  /\ alerts' = Only(buffer, AlertMessages)
  /\ liveEvents' = LastOnes(liveEvents \o Only(buffer, LiveMessages))
  /\ UNCHANGED <<connection, arrived, superseded, nextMessage, lastMessage, effects,
                 lastProcessed, lastAppended, points, toasts, dismissals>>

(* flushBuffer, on the animation frame.                                    *)
Flush ==
  /\ frame /\ frame' = FALSE
  /\ buffer' = <<>>
  /\ alerts' = alerts \o Only(buffer, AlertMessages)
  /\ liveEvents' = LastOnes(liveEvents \o Only(buffer, LiveMessages))
  /\ UNCHANGED <<connection, arrived, superseded, nextMessage, lastMessage,
                 effects, lastProcessed, lastAppended, points, toasts, dismissals>>

(* dismissAlert(i): the button or the timer of the i-th toast rendered.    *)
(* Alerts that went since then shift the others, so the alert removed may  *)
(* be another toast's, or none.                                            *)
Dismiss(i) ==
  /\ dismissals < MaxDismissals /\ dismissals' = dismissals + 1
  /\ i \in 1..toasts
  /\ alerts' = IF i \in DOMAIN alerts THEN RemoveAt(alerts, i) ELSE alerts
  /\ UNCHANGED <<connection, arrived, superseded, nextMessage, lastMessage, effects,
                 lastProcessed, lastAppended, buffer, frame, liveEvents, points, toasts>>

-----------------------------------------------------------------------------
Connection ==
  \/ \E l \in DOMAIN lines :
       OnOpen(l) \/ OnCloseRetry(l) \/ OnCloseGiveUp(l) \/ Reconnect(l)
  \/ Switch

Next ==
  \/ Connection
  \/ \E l \in DOMAIN lines : OnMessage(l)
  \/ \E grown \in BOOLEAN : Render(grown)
  \/ RunEffects
  \/ Flush
  \/ \E i \in 1..MaxMessages : Dismiss(i)

Spec == Init /\ [][Next]_vars

(* The browser ends every attempt to open or close a socket, runs timers,  *)
(* renders a changed state, runs its effects, and calls animation frames   *)
(* as long as the tab is visible.  Nothing makes the network break, users  *)
(* click, or the lease data grow.                                          *)
Fairness ==
  /\ \A l \in 1..(MaxSwitches + 1) :
       /\ WF_vars(l \in DOMAIN lines /\ lines[l] \in {"connecting", "closing"}
                  /\ (OnOpen(l) \/ OnCloseRetry(l) \/ OnCloseGiveUp(l)))
       /\ WF_vars(l \in DOMAIN lines /\ Reconnect(l))
  /\ WF_vars(Render(FALSE))
  /\ WF_vars(RunEffects)
  /\ WF_vars(Flush)

FairSpec == Spec /\ Fairness

-----------------------------------------------------------------------------
(* Messages that were rendered or still will be, in order.                 *)
Kept == Only([m \in Messages |-> m], Messages \ superseded)

(* Rendered messages the effects have yet to see, and the next one.        *)
Unseen ==
  (IF "live" \in effects /\ lastMessage # lastProcessed THEN <<lastMessage>> ELSE <<>>)
    \o (IF nextMessage # lastMessage THEN <<nextMessage>> ELSE <<>>)

(* A heartbeat or alert is in the live list, or on its way to it, in the   *)
(* order of arrival and once, unless the next message replaced it in       *)
(* lastMessage before a render (useWebSocket.ts:53) or Cap newer ones      *)
(* pushed it out (useLiveEvents.ts:54); across reconnects and switches.    *)
OnlySupersededAreLost ==
  LastOnes(liveEvents \o Only(buffer \o Unseen, LiveMessages))
    = LastOnes(Only(Kept, LiveMessages))

(* The chart gets each rendered heartbeat once, in order, however often    *)
(* the growing lease data runs its effect again (HeartbeatChart.tsx:219).  *)
ChartAppendsOnce ==
  points \o Only(IF "chart" \in effects /\ lastMessage # lastAppended
                 THEN <<lastMessage>> ELSE <<>>, Heartbeats)
    = Only(Kept, Heartbeats \cap 1..lastMessage)

(* Toasts are shown in the order of their alerts, and no more of them are  *)
(* gone than were dismissed, even when a dismissal uses a stale index      *)
(* (useLiveEvents.ts:79-81).                                               *)
AlertsWaitForDismissal ==
  /\ \A i, j \in DOMAIN alerts : i < j => alerts[i] < alerts[j]
  /\ Len(Only(Kept, AlertMessages))
       <= Len(alerts) + Len(Only(buffer \o Unseen, AlertMessages)) + dismissals

(* Until the first switch the indicator tells the truth: "connected" is    *)
(* shown exactly when a socket is open, and a line that ended for good     *)
(* used all its retries (useWebSocket.ts:72-82).                           *)
StatusIsTrue ==
  Len(lines) = 1 =>
    /\ status = "connected" <=> lines[1] = "open"
    /\ status = "connecting" <=> lines[1] = "connecting"
    /\ lines[1] = "ended" => failures = MaxRetries

(* Every socket that is opening, closing or waiting to be tried again is   *)
(* at last open or given up, once the network stops breaking connections   *)
(* and the user stops switching (both are bounded here): retries do not go *)
(* on for ever, on any line (useWebSocket.ts:75).                          *)
RetriesSettle ==
  <>[](\A l \in DOMAIN lines : lines[l] \in {"open", "ended"})

(* What arrived is at last shown: nothing stays behind in the buffer, or   *)
(* in a state that was set and not rendered (useLiveEvents.ts:29-78).      *)
MessagesDrain == []<>(buffer \o Unseen = <<>>)

(* Left alone, the live stream comes to rest with everything shown.        *)
StreamSettles == RetriesSettle /\ MessagesDrain

(* requirements.md of earthworm-improvements, line 75: a connection that   *)
(* is lost is tried again.  The code does not when another cluster's line  *)
(* used up the shared failure count (useWebSocket.ts:75).                  *)
LostIsRetried ==
  [][lines[Len(lines)] = "open" => lines'[Len(lines)] # "ended"]_vars
=============================================================================

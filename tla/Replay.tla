------------------------------- MODULE Replay -------------------------------
(***************************************************************************)
(* A client reads the kernel events of one node, page by page, from GET    *)
(* /api/replay (server/replay.go), while the agent goes on storing events, *)
(* late ones among them, and time goes on: retention and the open ends of  *)
(* the range are taken anew on every request.                              *)
(***************************************************************************)
EXTENDS Integers, Sequences, SequencesExt, FiniteSetsExt

CONSTANTS Events,      \* events on their way: [id, ts, node, type, pod, lat]
          Queries,     \* what clients ask: [node, from, to, type, pod, lat, size]
          Start,       \* the time of the first step
          MaxTime,     \* bound on time
          Ms,          \* ticks in a millisecond, the resolution of Redis' scores
          Hour,        \* how far back a query without `from' goes
          Retention,   \* ReplayStore.retention
          DefaultSize, \* defaultPageSize
          StableUpTo,  \* sort.Slice is an insertion sort up to this length (12)
          Absent       \* a parameter that is not given, or cannot be parsed

ASSUME ReplayAssumption ==
  /\ Ms \in Nat \ {0} /\ DefaultSize \in Nat \ {0} /\ StableUpTo \in Nat
  /\ \A e, f \in Events : e.id = f.id => e = f
  /\ \A e \in Events : e.id \in Int /\ e.ts \in Int
  /\ \A q \in Queries : q.size \in Nat
  /\ Absent \notin Queries

VARIABLES
  redis,    \* the store is Redis, not memory
  now,
  stored,   \* MemoryStore.kernelEvents; the same events in Redis
  query,    \* the client's query, Absent before its first request
  next,     \* the page it asks for next, 0 when it has seen an empty one
  \* What the requests saw, in their order (no state of the program):
  results,  \* everything that matched, sorted
  pages     \* what was answered

vars == <<redis, now, stored, query, next, results, pages>>

Init ==
  /\ redis \in BOOLEAN
  /\ now = Start
  /\ stored = <<>>
  /\ query = Absent
  /\ next = 1
  /\ results = <<>>
  /\ pages = <<>>

(* SaveKernelEvent.                                                        *)
Save(e) ==
  /\ e \notin ToSet(stored)
  /\ stored' = Append(stored, e)
  /\ UNCHANGED <<redis, now, query, next, results, pages>>

Tick ==
  /\ now < MaxTime
  /\ now' = now + 1
  /\ UNCHANGED <<redis, stored, query, next, results, pages>>

-----------------------------------------------------------------------------
(* The ends of the range, as replayHandler and then Query set them.        *)
From(q) ==
  Max({now - Retention, IF q.from = Absent THEN now - Hour ELSE q.from})

To(q) == IF q.to = Absent THEN now ELSE q.to

Score(t) == t \div Ms

(* What GetKernelEvents and GetKernelEventsByType (the handler passes one  *)
(* type or none) find; Redis compares milliseconds.                        *)
Fetch(q) ==
  {e \in ToSet(stored) :
     /\ e.node = q.node /\ q.type \in {Absent, e.type}
     /\ IF redis THEN Score(e.ts) \in Score(From(q))..Score(To(q))
                 ELSE e.ts \in From(q)..To(q)}

(* filterEvents.                                                           *)
Filter(found, q) ==
  {e \in found : q.pod \in {Absent, e.pod} /\ (q.lat > 0 => e.lat >= q.lat)}

(* The order in which a store lists events of one time: memory by arrival, *)
(* Redis by the text of the members, for which the ids stand.              *)
Rank(e) == IF redis THEN e.id ELSE CHOOSE i \in DOMAIN stored : stored[i] = e

Chronological(s) == \A i, j \in DOMAIN s : i < j => s[i].ts <= s[j].ts

KeepsTies(s) ==
  \A i, j \in DOMAIN s : i < j /\ s[i].ts = s[j].ts => Rank(s[i]) < Rank(s[j])

FaultSorted(found) ==
  {s \in SetToSeqs(found) : \A i, j \in DOMAIN s : i < j => Rank(s[i]) < Rank(s[j])}

(* sort.Slice keeps no order among equal timestamps once the list is long, *)
(* but sorts the same list always the same way.                            *)
Sorted(found) ==
  {s \in SetToSeqs(found) :
     /\ Chronological(s)
     /\ Cardinality(found) <= StableUpTo => KeepsTies(s)
     /\ \A i \in DOMAIN results : ToSet(results[i]) = found => s = results[i]}

Size(q) == IF q.size = 0 THEN DefaultSize ELSE q.size

FaultPageStart(s, n, size) ==
  SubSeq(s, Max({1, (n - 1) * size}), Min({n * size, Len(s)}))

FaultPageEnd(s, n, size) ==
  SubSeq(s, (n - 1) * size + 1, Min({n * size - 1, Len(s)}))

(* The slice of page n; past the end it is empty.                          *)
Page(s, n, size) == SubSeq(s, (n - 1) * size + 1, Min({n * size, Len(s)}))

(* replayHandler and Query.                                                *)
Answer(q, n) ==
  \E s \in Sorted(Filter(Fetch(q), q)) :
    /\ results' = Append(results, s)
    /\ pages' = Append(pages, Page(s, n, Size(q)))
    /\ query' = q
    /\ next' = IF Page(s, n, Size(q)) = <<>> THEN 0 ELSE n + 1
    /\ UNCHANGED <<redis, now, stored>>

(* A request without a page, or with one below 1, is for page 1.           *)
First == query = Absent /\ \E q \in Queries : Answer(q, 1)

More == query # Absent /\ next > 0 /\ Answer(query, next)

Next == First \/ More \/ Tick \/ \E e \in Events : Save(e)

Spec == Init /\ [][Next]_vars

-----------------------------------------------------------------------------

Requests == 1..Len(pages)

(* The events that may stand before e in a result, and e.                  *)
Ahead(e, s) == {f \in ToSet(s) : f.ts <= e.ts}

(* Something that is not later than e came in between two requests, or     *)
(* went; or equal times may have changed places in a long result.          *)
CameIn(e, i, j) == Ahead(e, results[j]) \ Ahead(e, results[i]) # {}
WentOut(e, i, j) == Ahead(e, results[i]) \ Ahead(e, results[j]) # {}
Reordered(i, j) ==
  /\ ToSet(results[i]) # ToSet(results[j])
  /\ Len(results[i]) > StableUpTo \/ Len(results[j]) > StableUpTo

(* Query: an event is on two pages only when an event that is not later    *)
(* was stored, or came into the range, between the two requests, or one of *)
(* the two results was too long for the sort to keep ties.                 *)
RepeatsAreExplained ==
  \A j \in Requests : \A i \in 1..(j - 1) :
    \A e \in ToSet(pages[i]) \cap ToSet(pages[j]) :
      CameIn(e, i, j) \/ Reordered(i, j)

(* Query: a client that read up to an empty page has seen every event that *)
(* matched all along, unless one that is not later left the range          *)
(* meanwhile, or a result was too long for the sort to keep ties.          *)
NothingIsSkipped ==
  next = 0 =>
    \A e \in ToSet(results[1]) :
      \/ \E i \in Requests : e \in ToSet(pages[i])
      \/ \E j \in Requests : \/ e \notin ToSet(results[j])
                               \/ \E i \in 1..(j - 1) : \/ WentOut(e, i, j)
                                                       \/ Reordered(i, j)

(* Query: pages are chronological, and nothing on a page is earlier than   *)
(* what a page before it had, unless something that is not later than that *)
(* came in between the two requests.                                       *)
PagesAreInOrder ==
  \A j \in Requests :
    /\ Chronological(pages[j])
    /\ \A i \in 1..(j - 1) :
         \A e \in ToSet(pages[i]), f \in ToSet(pages[j]) :
           f.ts < e.ts => CameIn(e, i, j)
=============================================================================

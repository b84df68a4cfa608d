------------------------------ MODULE Resolver ------------------------------
(***************************************************************************)
(* The agent's cache from cgroup ids (inodes of cgroup directories) to the *)
(* containers they belong to (agent/cgroup_resolver.go).  One goroutine    *)
(* rebuilds it from the kubelet's list of containers and a walk over       *)
(* /proc, which is not atomic: containers and processes come and go, and   *)
(* pids and inodes are reused, between any two of its system calls.        *)
(***************************************************************************)
EXTENDS Integers, FiniteSets, FiniteSetsExt

CONSTANTS Containers,   \* container ids, never reused; a container stands for its PodIdentity
          Inodes,       \* inodes of cgroup directories, reused by the kernel
          MaxPid,       \* pids are 1..MaxPid, reused by the kernel
          MaxForks,     \* bound on the processes forked by running containers
          MaxFailures,  \* bound on the refreshes that fail
          None          \* no container

ASSUME ResolverAssumption ==
  /\ None \notin Containers
  /\ MaxPid \in Nat /\ MaxForks \in Nat /\ MaxFailures \in Nat

Pids == 1..MaxPid

VARIABLES
  owner,       \* owner[i]: the container whose cgroup directory is inode i
  ended,       \* containers that were removed
  proc,        \* proc[p]: the container that process p runs in
  listed,      \* containers in the statuses the kubelet would answer with
  forks, failures,
  cache,       \* cr.cache
  pc,          \* where StartRefresh is
  answer,      \* containers of the kubelet's answer
  todo,        \* pids of procEntries still to be looked at
  path,        \* container named by the cgroup path just read
  newCache,    \* the map refresh builds
  stop,        \* ctx is cancelled
  \* What was true while the caches were built (no state of the program):
  steady,      \* processes that live since ReadDir
  recent,      \* pairs <<inode, container>> that held since the walk behind cache began
  recentNew    \* pairs that held since the current walk began

world  == <<owner, ended, proc, listed, forks>>
ghosts == <<steady, recent, recentNew>>
walk   == <<answer, todo, path, newCache>>
vars   == <<world, failures, cache, pc, walk, stop, ghosts>>

Empty == [i \in Inodes |-> None]
Pairs(m) == {<<i, m[i]>> : i \in {j \in Inodes : m[j] # None}}
Up == {owner[i] : i \in Inodes} \ {None}
Alive == {p \in Pids : proc[p] # None}

TypeOK ==
  /\ owner \in [Inodes -> Containers \cup {None}]
  /\ ended \in SUBSET Containers /\ listed \in SUBSET Containers
  /\ proc \in [Pids -> Containers \cup {None}]
  /\ forks \in 0..MaxForks /\ failures \in 0..MaxFailures
  /\ cache \in [Inodes -> Containers \cup {None}]
  /\ newCache \in [Inodes -> Containers \cup {None}]
  /\ pc \in {"initial", "select", "list", "walk", "stat", "done"}
  /\ answer \in SUBSET Containers /\ todo \in SUBSET Pids
  /\ path \in Containers \cup {None}
  /\ stop \in BOOLEAN
  /\ steady \in SUBSET Pids
  /\ recent \in SUBSET (Inodes \X Containers)
  /\ recentNew \in SUBSET (Inodes \X Containers)

Init ==
  /\ owner = Empty /\ ended = {} /\ listed = {} /\ forks = 0
  /\ proc = [p \in Pids |-> None]
  /\ cache = Empty /\ newCache = Empty /\ pc = "initial"
  /\ answer = {} /\ todo = {} /\ path = None
  /\ stop = FALSE /\ failures = 0
  /\ steady = {} /\ recent = {} /\ recentNew = {}

-----------------------------------------------------------------------------
(* The node the agent runs on.                                             *)

\* A container starts: its cgroup directory gets a free inode, its first
\* process a free pid.
Start(c, i, p) ==
  /\ c \notin Up \cup ended /\ owner[i] = None /\ proc[p] = None
  /\ owner' = [owner EXCEPT ![i] = c]
  /\ proc' = [proc EXCEPT ![p] = c]
  /\ recent' = recent \cup {<<i, c>>}
  /\ recentNew' = recentNew \cup {<<i, c>>}
  /\ UNCHANGED <<ended, listed, forks, failures, cache, pc, walk, stop, steady>>

Fork(q, p) ==
  /\ proc[q] # None /\ proc[p] = None /\ forks < MaxForks
  /\ proc' = [proc EXCEPT ![p] = proc[q]]
  /\ forks' = forks + 1
  /\ UNCHANGED <<owner, ended, listed, failures, cache, pc, walk, stop, ghosts>>

Exit(p) ==
  /\ proc[p] # None
  /\ proc' = [proc EXCEPT ![p] = None]
  /\ steady' = steady \ {p}
  /\ UNCHANGED <<owner, ended, listed, forks, failures, cache, pc, walk, stop,
                 recent, recentNew>>

\* The runtime removes the cgroup of a container that has no process left.
Remove(i) ==
  /\ owner[i] # None /\ \A p \in Pids : proc[p] # owner[i]
  /\ ended' = ended \cup {owner[i]}
  /\ owner' = [owner EXCEPT ![i] = None]
  /\ UNCHANGED <<proc, listed, forks, failures, cache, pc, walk, stop, ghosts>>

\* The statuses the kubelet serves catch up with the runtime, one at a time.
Sync(c) ==
  /\ (c \in listed) # (c \in Up)
  /\ listed' = IF c \in listed THEN listed \ {c} ELSE listed \cup {c}
  /\ UNCHANGED <<owner, ended, proc, forks, failures, cache, pc, walk, stop, ghosts>>

Cancel ==
  /\ ~stop /\ stop' = TRUE
  /\ UNCHANGED <<world, failures, cache, pc, walk, ghosts>>

-----------------------------------------------------------------------------
(* StartRefresh and refresh.                                               *)

\* GET /pods fails, answers another status or no JSON, or /proc cannot be read:
\* refresh returns an error and the cache stays as it is.
RefreshFails ==
  /\ pc \in {"initial", "select", "list"} /\ failures < MaxFailures
  /\ failures' = failures + 1
  /\ pc' = "select"
  /\ UNCHANGED <<world, cache, walk, stop, ghosts>>

\* The initial refresh or a tick: the kubelet answers.  An answer without
\* containers ends the refresh without an error and without touching the cache.
ListContainers ==
  /\ pc \in {"initial", "select"}
  /\ answer' = listed
  /\ pc' = IF listed = {} THEN "select" ELSE "list"
  /\ UNCHANGED <<world, failures, cache, todo, path, newCache, stop, ghosts>>

FaultStartMap == cache   \* adds to the old cache
StartMap == Empty

ReadDir ==
  /\ pc = "list"
  /\ todo' = Alive
  /\ newCache' = StartMap
  /\ pc' = "walk"
  /\ steady' = Alive /\ recentNew' = Pairs(owner)
  /\ UNCHANGED <<world, failures, cache, answer, path, stop, recent>>

FaultRest(p) == IF proc[p] = None THEN {} ELSE todo \ {p}   \* return for continue
Rest(p) == todo \ {p}

\* readProcCgroup of the next pid: the process may be gone, or another one.
ReadCgroup ==
  /\ pc = "walk" /\ todo # {}
  /\ LET p == Min(todo) IN
       /\ todo' = Rest(p)
       /\ IF proc[p] \in answer
          THEN path' = proc[p] /\ pc' = "stat"
          ELSE UNCHANGED <<path, pc>>
  /\ UNCHANGED <<world, failures, cache, answer, newCache, stop, ghosts>>

\* cgroupInode of the path: the directory may be gone.
Stat ==
  /\ pc = "stat"
  /\ newCache' = [i \in Inodes |-> IF owner[i] = path THEN path ELSE newCache[i]]
  /\ pc' = "walk"
  /\ UNCHANGED <<world, failures, cache, answer, todo, path, stop, ghosts>>

\* The new entries are merged into the old cache.
FaultSwapped == [i \in Inodes |-> IF newCache[i] = None THEN cache[i] ELSE newCache[i]]
Swapped == newCache

Swap ==
  /\ pc = "walk" /\ todo = {}
  /\ cache' = Swapped
  /\ recent' = recentNew
  /\ pc' = "select"
  /\ UNCHANGED <<world, failures, walk, stop, steady, recentNew>>

FaultReturn == "select"   \* break leaves the select, not the loop
Return == "done"

\* select picks at random when a tick is due as well.
Shutdown ==
  /\ pc = "select" /\ stop
  /\ pc' = Return
  /\ UNCHANGED <<world, failures, cache, walk, stop, ghosts>>

\* Resolve under the read lock: None is the host-level identity.
Resolve(i) == cache[i]

-----------------------------------------------------------------------------

Refresh == ListContainers \/ ReadDir \/ ReadCgroup \/ Stat \/ Swap

Next ==
  \/ \E c \in Containers, i \in Inodes, p \in Pids : Start(c, i, p)
  \/ \E q, p \in Pids : Fork(q, p)
  \/ \E p \in Pids : Exit(p)
  \/ \E i \in Inodes : Remove(i)
  \/ \E c \in Containers : Sync(c)
  \/ Cancel \/ RefreshFails \/ Refresh \/ Shutdown

Spec == Init /\ [][Next]_vars

\* The ticker fires and the kubelet answers again and again, its statuses catch
\* up, and select, which picks at random, does not overlook ctx.Done() for ever.
FairSpec ==
  /\ Spec
  /\ WF_vars(Refresh)
  /\ \A c \in Containers : WF_vars(Sync(c))
  /\ SF_vars(Shutdown)

-----------------------------------------------------------------------------
(* Properties.                                                             *)

\* A cgroup id is resolved only to a container that owned it at some moment
\* since the walk that built the cache began: whatever was reused in the
\* meantime, a stale name is at most one successful refresh old, and names of
\* different walks are never mixed (refresh builds newCache from nothing).
NamesAreRecent ==
  \A i \in Inodes : Resolve(i) # None => <<i, Resolve(i)>> \in recent

\* A walk misses no container it could have seen: one that the kubelet listed
\* and that kept one process from ReadDir to the swap is known afterwards,
\* whatever else exited, failed to be read or took over its pid.
SteadyIsFound ==
  [][Swap => \A p \in steady, i \in Inodes :
       proc[p] = owner[i] /\ owner[i] \in answer => cache'[i] = owner[i]]_vars

\* When the node settles, every id resolves to its container, and those of
\* removed ones to the host; only the last container to go stays known, since
\* an empty list keeps the cache.
Converges ==
  <>[](\/ stop
       \/ Up = {}
       \/ \A i \in Inodes :
            /\ Resolve(i) \in {owner[i], None}
            /\ owner[i] # None /\ (\E p \in Pids : proc[p] = owner[i])
               => Resolve(i) = owner[i])

\* A cancelled context ends the loop, which looks at it only between refreshes.
CancelEnds == stop ~> pc = "done"
=============================================================================

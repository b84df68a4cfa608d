-------------------------- MODULE Resolver_proofs --------------------------
(***************************************************************************)
(* What the agent's cgroup cache says, proved for any number of            *)
(* containers, inodes and processes.                                       *)
(***************************************************************************)
EXTENDS Resolver, TLAPS

(* Every entry of a map is a pair of r.                                    *)
Within(m, r) == \A i \in Inodes : m[i] # None => <<i, m[i]>> \in r

Walking == pc \in {"walk", "stat"}

(* While the walk lasts, what it found and what there is held since it     *)
(* began; and so did, for the walk before, what the cache says.            *)
Recent ==
  /\ Within(cache, recent)
  /\ Walking => Within(newCache, recentNew) /\ Within(owner, recentNew)

(* A process keeps its container's directory; one that lives since ReadDir *)
(* is alive.                                                               *)
Live ==
  /\ \A p \in Pids : proc[p] # None => proc[p] \in Up
  /\ \A p \in steady : proc[p] # None

(* A container that the kubelet listed is found once the walk is past a    *)
(* process that lives since ReadDir, or is about to be.                    *)
Found ==
  Walking =>
    \A p \in steady \ todo, i \in Inodes :
      proc[p] = owner[i] /\ owner[i] \in answer =>
        newCache[i] = owner[i] \/ (pc = "stat" /\ path = owner[i])

IInv == TypeOK /\ Recent /\ Live /\ Found

-----------------------------------------------------------------------------
(* Init and every action keep the declared types.                          *)
LEMMA InitInv == Init => IInv
<1> SUFFICES ASSUME Init PROVE IInv
  OBVIOUS
<1>1. TypeOK
  <2>1. 0 \in 0..MaxForks /\ 0 \in 0..MaxFailures
    BY ResolverAssumption DEF ResolverAssumption
  <2> QED
    BY <2>1 DEF Init, TypeOK, Empty
<1>2. Recent /\ Live /\ Found
  BY DEF Init, Recent, Live, Found, Walking, Within, Empty
<1> QED
  BY <1>1, <1>2 DEF IInv

LEMMA NextType == ASSUME TypeOK, [Next]_vars PROVE TypeOK'
<1> USE ResolverAssumption
<1>1. ASSUME NEW c \in Containers, NEW i \in Inodes, NEW p \in Pids, Start(c, i, p)
      PROVE  TypeOK'
  BY <1>1 DEF TypeOK, Start, walk
<1>2. ASSUME NEW q \in Pids, NEW p \in Pids, Fork(q, p) PROVE TypeOK'
  BY <1>2 DEF TypeOK, Fork, walk, ghosts
<1>3. ASSUME NEW p \in Pids, Exit(p) PROVE TypeOK'
  BY <1>3 DEF TypeOK, Exit, walk
<1>4. ASSUME NEW i \in Inodes, Remove(i) PROVE TypeOK'
  BY <1>4 DEF TypeOK, Remove, walk, ghosts
<1>5. ASSUME NEW c \in Containers, Sync(c) PROVE TypeOK'
  BY <1>5 DEF TypeOK, Sync, walk, ghosts
<1>6. CASE Cancel
  BY <1>6 DEF TypeOK, Cancel, world, walk, ghosts
<1>7. CASE RefreshFails
  BY <1>7 DEF TypeOK, RefreshFails, world, walk, ghosts
<1>8. CASE ListContainers
  BY <1>8 DEF TypeOK, ListContainers, world, ghosts
<1>9. CASE ReadDir
  BY <1>9 DEF TypeOK, ReadDir, world, Alive, StartMap, Empty, Pairs
<1>10. CASE ReadCgroup
  BY <1>10 DEF TypeOK, ReadCgroup, Rest, world, ghosts
<1>11. CASE Stat
  BY <1>11 DEF TypeOK, Stat, world, ghosts
<1>12. CASE Swap
  BY <1>12 DEF TypeOK, Swap, Swapped, world, walk
<1>13. CASE Shutdown
  BY <1>13 DEF TypeOK, Shutdown, Return, world, walk, ghosts
<1>14. CASE UNCHANGED vars
  BY <1>14 DEF TypeOK, vars, world, walk, ghosts
<1> QED
  BY <1>1, <1>2, <1>3, <1>4, <1>5, <1>6, <1>7, <1>8, <1>9, <1>10, <1>11,
     <1>12, <1>13, <1>14 DEF Next, Refresh

(* Caches change only as a whole, in Swap; the walk adds what owner says.  *)
LEMMA NextRecent == ASSUME TypeOK, Recent, [Next]_vars PROVE Recent'
<1> USE DEF Recent, Within, Walking
<1>1. ASSUME NEW c \in Containers, NEW i \in Inodes, NEW p \in Pids, Start(c, i, p)
      PROVE  Recent'
  BY <1>1 DEF TypeOK, Start, walk
<1>2. ASSUME NEW q \in Pids, NEW p \in Pids, Fork(q, p) PROVE Recent'
  BY <1>2 DEF Fork, walk, ghosts
<1>3. ASSUME NEW p \in Pids, Exit(p) PROVE Recent'
  BY <1>3 DEF Exit, walk
<1>4. ASSUME NEW i \in Inodes, Remove(i) PROVE Recent'
  BY <1>4 DEF TypeOK, Remove, walk, ghosts
<1>5. ASSUME NEW c \in Containers, Sync(c) PROVE Recent'
  BY <1>5 DEF Sync, walk, ghosts
<1>6. CASE Cancel
  BY <1>6 DEF Cancel, world, walk, ghosts
<1>7. CASE RefreshFails
  BY <1>7 DEF RefreshFails, world, walk, ghosts
<1>8. CASE ListContainers
  BY <1>8 DEF ListContainers, world, ghosts
<1>9. CASE ReadDir
  BY <1>9 DEF ReadDir, world, StartMap, Empty, Pairs
<1>10. CASE ReadCgroup
  BY <1>10 DEF ReadCgroup, Rest, world, ghosts
<1>11. CASE Stat
  BY <1>11 DEF TypeOK, Stat, world, ghosts
<1>12. CASE Swap
  BY <1>12 DEF Swap, Swapped, world, walk
<1>13. CASE Shutdown
  BY <1>13 DEF Shutdown, Return, world, walk, ghosts
<1>14. CASE UNCHANGED vars
  BY <1>14 DEF vars, world, walk, ghosts
<1> QED
  BY <1>1, <1>2, <1>3, <1>4, <1>5, <1>6, <1>7, <1>8, <1>9, <1>10, <1>11,
     <1>12, <1>13, <1>14 DEF Next, Refresh

(* A container that has a process has its directory.                       *)
LEMMA NextLive == ASSUME TypeOK, Live, [Next]_vars PROVE Live'
<1> USE DEF Live, Up
<1>1. ASSUME NEW c \in Containers, NEW i \in Inodes, NEW p \in Pids, Start(c, i, p)
      PROVE  Live'
  <2>1. \A x \in Pids : proc'[x] = IF x = p THEN c ELSE proc[x]
    BY <1>1 DEF TypeOK, Start
  <2>2. \A j \in Inodes : owner'[j] = IF j = i THEN c ELSE owner[j]
    BY <1>1 DEF TypeOK, Start
  <2>3. owner[i] = None /\ c # None /\ steady' = steady /\ steady \subseteq Pids
    BY <1>1, ResolverAssumption DEF ResolverAssumption, TypeOK, Start
  <2> QED
    BY <2>1, <2>2, <2>3
<1>2. ASSUME NEW q \in Pids, NEW p \in Pids, Fork(q, p) PROVE Live'
  BY <1>2 DEF TypeOK, Fork, walk, ghosts
<1>3. ASSUME NEW p \in Pids, Exit(p) PROVE Live'
  BY <1>3 DEF TypeOK, Exit, walk
<1>4. ASSUME NEW i \in Inodes, Remove(i) PROVE Live'
  <2>1. \A j \in Inodes : owner'[j] = IF j = i THEN None ELSE owner[j]
    BY <1>4 DEF TypeOK, Remove
  <2>2. /\ \A p \in Pids : proc[p] # owner[i]
        /\ proc' = proc /\ steady' = steady
    BY <1>4 DEF Remove, ghosts
  <2> QED
    BY <2>1, <2>2
<1>5. ASSUME NEW c \in Containers, Sync(c) PROVE Live'
  BY <1>5 DEF Sync, walk, ghosts
<1>6. CASE ReadDir
  BY <1>6 DEF ReadDir, world, Alive
<1>7. CASE Cancel \/ RefreshFails \/ ListContainers \/ Shutdown \/ UNCHANGED vars
  BY <1>7 DEF Cancel, RefreshFails, ListContainers, Shutdown, vars, world, ghosts
<1>8. CASE ReadCgroup \/ Stat \/ Swap
  BY <1>8 DEF ReadCgroup, Stat, Swap, world, ghosts
<1> QED
  BY <1>1, <1>2, <1>3, <1>4, <1>5, <1>6, <1>7, <1>8 DEF Next, Refresh

(* A process that lives since ReadDir is read once, with the container it  *)
(* still belongs to, and what Stat enters stays.                           *)
LEMMA NextFound == ASSUME TypeOK, Live, Found, [Next]_vars PROVE Found'
<1> USE DEF Found, Walking
<1>1. ASSUME NEW c \in Containers, NEW i \in Inodes, NEW p \in Pids, Start(c, i, p)
      PROVE  Found'
  <2> SUFFICES ASSUME Walking, NEW x \in steady \ todo, NEW j \in Inodes,
                      proc'[x] = owner'[j], owner'[j] \in answer
               PROVE  newCache[j] = owner'[j] \/ (pc = "stat" /\ path = owner'[j])
    BY <1>1 DEF Start, walk
  <2>1. x # p /\ x \in Pids
    BY <1>1 DEF TypeOK, Live, Start
  <2>2. proc'[x] = proc[x] /\ proc[x] \in Up
    BY <1>1, <2>1 DEF TypeOK, Live, Start
  <2>3. proc[x] # c
    BY <1>1, <2>2 DEF Start
  <2>4. owner'[j] = owner[j]
    BY <1>1, <2>2, <2>3 DEF TypeOK, Start
  <2> QED
    BY <2>2, <2>4
<1>2. ASSUME NEW q \in Pids, NEW p \in Pids, Fork(q, p) PROVE Found'
  <2>1. \A x \in steady : proc'[x] = proc[x]
    BY <1>2 DEF TypeOK, Live, Fork
  <2> QED
    BY <1>2, <2>1 DEF Fork, walk, ghosts
<1>3. ASSUME NEW p \in Pids, Exit(p) PROVE Found'
  <2>1. \A x \in steady' : proc'[x] = proc[x] /\ x \in steady
    BY <1>3 DEF TypeOK, Exit
  <2> QED
    BY <1>3, <2>1 DEF Exit, walk
<1>4. ASSUME NEW i \in Inodes, Remove(i) PROVE Found'
  <2>1. \A j \in Inodes : owner'[j] = IF j = i THEN None ELSE owner[j]
    BY <1>4 DEF TypeOK, Remove
  <2>2. None \notin answer
    BY ResolverAssumption DEF ResolverAssumption, TypeOK
  <2> QED
    BY <1>4, <2>1, <2>2 DEF Remove, walk, ghosts
<1>5. ASSUME NEW c \in Containers, Sync(c) PROVE Found'
  BY <1>5 DEF Sync, walk, ghosts
<1>6. CASE ReadDir
  BY <1>6 DEF ReadDir, world
<1>7. CASE ReadCgroup
  <2> DEFINE p == Min(todo)
  <2>1. /\ pc = "walk" /\ todo' = todo \ {p}
        /\ UNCHANGED <<proc, owner, answer, newCache, steady>>
    BY <1>7 DEF ReadCgroup, Rest, world, ghosts
  <2>2. \/ proc[p] \in answer /\ path' = proc[p] /\ pc' = "stat"
        \/ proc[p] \notin answer /\ pc' = "walk"
    BY <1>7 DEF ReadCgroup
  <2> HIDE DEF p
  <2>3. ASSUME NEW x \in steady \ todo', NEW j \in Inodes,
               proc[x] = owner[j], owner[j] \in answer
        PROVE  newCache[j] = owner[j] \/ (pc' = "stat" /\ path' = owner[j])
    <3>1. CASE x = p
      BY <2>2, <2>3, <3>1
    <3>2. CASE x # p
      BY <2>1, <2>3, <3>2
    <3> QED
      BY <3>1, <3>2
  <2> QED
    BY <2>1, <2>3
<1>8. CASE Stat
  <2>1. /\ pc = "stat" /\ pc' = "walk"
        /\ UNCHANGED <<proc, owner, answer, todo, steady, path>>
        /\ \A j \in Inodes :
             newCache'[j] = IF owner[j] = path THEN path ELSE newCache[j]
    BY <1>8 DEF Stat, world, ghosts
  <2> QED
    BY <2>1
<1>9. CASE ListContainers \/ RefreshFails \/ Swap \/ Shutdown
  BY <1>9 DEF ListContainers, RefreshFails, Swap, Shutdown, Return
<1>10. CASE Cancel \/ UNCHANGED vars
  BY <1>10 DEF Cancel, vars, world, walk, ghosts
<1> QED
  BY <1>1, <1>2, <1>3, <1>4, <1>5, <1>6, <1>7, <1>8, <1>9, <1>10 DEF Next, Refresh

(* The strengthening of the properties below holds in every state.         *)
THEOREM Inductive == Spec => []IInv
<1>1. IInv /\ [Next]_vars => IInv'
  BY NextType, NextRecent, NextLive, NextFound DEF IInv
<1> QED
  BY InitInv, <1>1, PTL DEF Spec

(* Every reachable state has the declared types (the refresh and the state *)
(* of the node).                                                           *)
THEOREM TypeCorrect == Spec => []TypeOK
<1>1. IInv => TypeOK
  BY DEF IInv
<1> QED
  BY Inductive, <1>1, PTL

(* Resolve names only containers that owned the id since the walk behind   *)
(* the cache began (refresh, cgroup_resolver.go:302-345).                  *)
THEOREM ResolvedNamesAreRecent == Spec => []NamesAreRecent
<1>1. IInv => NamesAreRecent
  BY DEF IInv, Recent, Within, NamesAreRecent, Resolve
<1> QED
  BY Inductive, <1>1, PTL

(* The swap has every listed container that kept a process during the walk *)
(* (refresh, cgroup_resolver.go:304-345).                                  *)
THEOREM SteadyContainersAreFound == Spec => SteadyIsFound
<1> DEFINE Good == Swap => \A p \in steady, i \in Inodes :
             proc[p] = owner[i] /\ owner[i] \in answer => cache'[i] = owner[i]
<1>1. IInv /\ [Next]_vars => [Good]_vars
  BY DEF IInv, Found, Walking, Swap, Swapped
<1>2. [][Good]_vars <=> SteadyIsFound
  BY PTL DEF SteadyIsFound
<1> HIDE DEF Good
<1> QED
  BY Inductive, <1>1, <1>2, PTL DEF Spec
=============================================================================

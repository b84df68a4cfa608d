----------------------------- MODULE Hub_proofs -----------------------------
(***************************************************************************)
(* Proofs about Hub, for any number of connections, callers and messages   *)
(* and any channel capacities.                                             *)
(***************************************************************************)
EXTENDS Hub, SequenceTheorems, TLAPS

-----------------------------------------------------------------------------
(* The inductive invariant                                                 *)

(* Who is in the middle of something holds a message.                      *)
Holding ==
  /\ \A h \in Callers : busy[h] => calls[h] > 0
  /\ todo # {} => /\ msg \in Msgs
                  /\ Len(log) > 0
                  /\ msg = log[Len(log)]
  /\ \A c \in Conns : writer[c] = "writing" <=> hand[c] \in Msgs

(* Before Run registers it a connection has no history; once its reader    *)
(* unregistered it is out; its channel is closed exactly when it has been  *)
(* registered and is not any more.                                         *)
Outside(c) == reader[c] \in {"none", "registering"}

RegistryAt(c) ==
  /\ Outside(c) => /\ c \notin clients
                   /\ writer[c] = "none"
                   /\ send[c] = <<>>
                   /\ joined[c] = 0
                   /\ taken[c] = 0
                   /\ received[c] = <<>>
  /\ reader[c] = "none" => conn[c] = "none"
  /\ reader[c] \in {"closing", "done"} => c \notin clients
  /\ closes[c] = IF Outside(c) \/ c \in clients THEN 0 ELSE 1

Registry == todo \subseteq clients /\ \A c \in Conns : RegistryAt(c)

(* The messages logged since c joined are, in order: those its writer took *)
(* (the last of which it may still hold), those in its channel, and the    *)
(* one being fanned out if c was not visited yet.                          *)
Backlog(c) == joined[c] + taken[c] + Len(send[c])
InHand(c) == IF writer[c] = "writing" THEN 1 ELSE 0

WindowAt(c) ==
  /\ Backlog(c) <= Len(log)
  /\ c \in todo => Backlog(c) + 1 = Len(log)
  /\ c \in clients \ todo => Backlog(c) = Len(log)
  /\ Len(received[c]) + InHand(c) <= taken[c]
  /\ conn[c] = "up" => Len(received[c]) + InHand(c) = taken[c]

Window == \A c \in Conns : WindowAt(c)

ContentAt(c) ==
  /\ \A i \in 1..Len(send[c]) : send[c][i] = log[joined[c] + taken[c] + i]
  /\ writer[c] = "writing" => hand[c] = log[joined[c] + taken[c]]
  /\ \A i \in 1..Len(received[c]) : received[c][i] = log[joined[c] + i]

Content == \A c \in Conns : ContentAt(c)

(* Each caller's messages travel in the order of its calls.                *)
Ordered ==
  /\ \A i \in 1..Len(log), j \in 1..Len(broadcast) :
       log[i][1] = broadcast[j][1] => log[i][2] < broadcast[j][2]
  /\ \A i, j \in 1..Len(broadcast) :
       i < j /\ broadcast[i][1] = broadcast[j][1]
         => broadcast[i][2] < broadcast[j][2]
  /\ \A h \in Callers :
       /\ \A i \in 1..Len(log) :
            log[i][1] = h
              => IF busy[h] THEN log[i][2] < calls[h] ELSE log[i][2] <= calls[h]
       /\ \A j \in 1..Len(broadcast) :
            broadcast[j][1] = h
              => IF busy[h] THEN broadcast[j][2] < calls[h]
                            ELSE broadcast[j][2] <= calls[h]

IInv == TypeOK /\ Holding /\ Registry /\ Window /\ Content /\ Ordered

-----------------------------------------------------------------------------
(* Type correctness                                                        *)

USE HubAssumption

LEMMA InitIInv == Init => IInv
BY DEF Init, IInv, TypeOK, Holding, Registry, RegistryAt, Outside, Window,
       WindowAt, Backlog, InHand, Content, ContentAt, Ordered, Msgs

(* A message leaves a channel at its head and enters it at its end.        *)
LEMMA ChannelLemma ==
  ASSUME NEW S, NEW s \in Seq(S)
  PROVE  /\ \A e \in S : /\ Append(s, e) \in Seq(S)
                         /\ Len(Append(s, e)) = Len(s) + 1
                         /\ \A i \in 1..Len(s) : Append(s, e)[i] = s[i]
                         /\ Append(s, e)[Len(s) + 1] = e
         /\ s # <<>> => /\ Head(s) \in S
                        /\ Head(s) = s[1]
                        /\ Tail(s) \in Seq(S)
                        /\ Len(Tail(s)) = Len(s) - 1
                        /\ Len(s) > 0
                        /\ \A i \in 1..(Len(s) - 1) : Tail(s)[i] = s[i + 1]
         /\ Len(s) \in Nat
<1>1. \A e \in S : /\ Append(s, e) \in Seq(S)
                  /\ Len(Append(s, e)) = Len(s) + 1
                  /\ \A i \in 1..Len(s) : Append(s, e)[i] = s[i]
                  /\ Append(s, e)[Len(s) + 1] = e
  BY AppendProperties
<1>2. ASSUME s # <<>>
      PROVE  /\ Head(s) \in S
             /\ Head(s) = s[1]
             /\ Tail(s) \in Seq(S)
             /\ Len(Tail(s)) = Len(s) - 1
             /\ Len(s) > 0
             /\ \A i \in 1..(Len(s) - 1) : Tail(s)[i] = s[i + 1]
  BY <1>2, HeadTailProperties, EmptySeq, SMTT(20)
<1>3. Len(s) \in Nat
  BY LenProperties
<1> QED
  BY <1>1, <1>2, <1>3

LEMMA TypeStep == TypeOK /\ Holding /\ [Next]_vars => TypeOK'
<1> SUFFICES ASSUME TypeOK, Holding, [Next]_vars
             PROVE  TypeOK'
  OBVIOUS
<1> USE DEF TypeOK, callVars, hubVars, sockVars, seenVars
<1>1. ASSUME NEW h \in Callers, Call(h)
      PROVE  TypeOK'
  BY <1>1 DEF Call
<1>2. ASSUME NEW h \in Callers, Enqueue(h)
      PROVE  TypeOK'
  <2>1. <<h, calls[h]>> \in Msgs
    BY <1>2 DEF Enqueue, Holding, Msgs
  <2> QED
    BY <1>2, <2>1, ChannelLemma DEF Enqueue
<1>3. ASSUME Dequeue
      PROVE  TypeOK'
  BY <1>3, ChannelLemma DEF Dequeue
<1>4. ASSUME NEW c \in Conns, Register(c)
      PROVE  TypeOK'
  BY <1>4, ChannelLemma DEF Register
<1>5. ASSUME NEW c \in Conns, Unregister(c)
      PROVE  TypeOK'
  <2>1. closes' \in [Conns -> Nat]
    BY <1>5 DEF Unregister
  <2>2. clients' \subseteq Conns
    BY <1>5 DEF Unregister
  <2>3. reader' \in [Conns -> {"none", "registering", "reading", "leaving",
                               "closing", "done"}]
    BY <1>5 DEF Unregister
  <2> QED
    BY <1>5, <2>1, <2>2, <2>3 DEF Unregister
<1>6. ASSUME NEW c \in Conns, FanoutSend(c)
      PROVE  TypeOK'
  <2>1. msg \in Msgs
    BY <1>6 DEF FanoutSend, Holding
  <2>2. Append(send[c], msg) \in Seq(Msgs) /\ Len(Append(send[c], msg)) <= SendCap
    BY <1>6, <2>1, ChannelLemma DEF FanoutSend
  <2> QED
    BY <1>6, <2>2 DEF FanoutSend
<1>7. ASSUME NEW c \in Conns, FanoutDrop(c)
      PROVE  TypeOK'
  <2>1. closes' \in [Conns -> Nat]
    BY <1>7 DEF FanoutDrop
  <2>2. clients' \subseteq Conns /\ todo' \subseteq Conns
    BY <1>7 DEF FanoutDrop
  <2> QED
    BY <1>7, <2>1, <2>2 DEF FanoutDrop
<1>8. ASSUME NEW c \in Conns, Upgrade(c)
      PROVE  TypeOK'
  BY <1>8 DEF Upgrade
<1>9. ASSUME NEW c \in Conns, PeerLeaves(c)
      PROVE  TypeOK'
  BY <1>9 DEF PeerLeaves
<1>10. ASSUME NEW c \in Conns, WriterTake(c)
       PROVE  TypeOK'
  <2>1. /\ Head(send[c]) \in Msgs
        /\ Tail(send[c]) \in Seq(Msgs)
        /\ Len(Tail(send[c])) <= SendCap
    BY <1>10, ChannelLemma DEF WriterTake
  <2>2. /\ send' \in [Conns -> Seq(Msgs)]
        /\ \A d \in Conns : Len(send'[d]) <= SendCap
    BY <1>10, <2>1 DEF WriterTake
  <2>3. hand' \in [Conns -> Msgs \cup {NoMsg}]
    BY <1>10, <2>1 DEF WriterTake
  <2>4. taken' \in [Conns -> Nat]
    BY <1>10 DEF WriterTake
  <2> QED
    BY <1>10, <2>2, <2>3, <2>4 DEF WriterTake
<1>11. ASSUME NEW c \in Conns, WriteArrives(c)
       PROVE  TypeOK'
  <2>1. Append(received[c], hand[c]) \in Seq(Msgs)
    BY <1>11, ChannelLemma DEF WriteArrives, Holding
  <2> QED
    BY <1>11, <2>1 DEF WriteArrives
<1>12. ASSUME NEW c \in Conns, WriteLost(c)
       PROVE  TypeOK'
  BY <1>12 DEF WriteLost
<1>13. ASSUME NEW c \in Conns, WriteFails(c)
       PROVE  TypeOK'
  BY <1>13 DEF WriteFails
<1>14. ASSUME NEW c \in Conns, WriterDrained(c)
       PROVE  TypeOK'
  BY <1>14 DEF WriterDrained
<1>15. ASSUME NEW c \in Conns, WriterClose(c)
       PROVE  TypeOK'
  BY <1>15 DEF WriterClose
<1>16. ASSUME NEW c \in Conns, ReaderFails(c)
       PROVE  TypeOK'
  BY <1>16 DEF ReaderFails
<1>17. ASSUME NEW c \in Conns, ReaderClose(c)
       PROVE  TypeOK'
  BY <1>17 DEF ReaderClose
<1>18. CASE UNCHANGED vars
  BY <1>18 DEF vars
<1> QED
  BY <1>1, <1>2, <1>3, <1>4, <1>5, <1>6, <1>7, <1>8, <1>9, <1>10, <1>11, <1>12,
     <1>13, <1>14, <1>15, <1>16, <1>17, <1>18 DEF Next, Fanout, Writer, Reader

-----------------------------------------------------------------------------
(* The other parts of the invariant                                        *)

LEMMA NoMsgLemma == NoMsg \notin Msgs
BY DEF Msgs

LEMMA HoldingStep == TypeOK /\ Holding /\ Registry /\ [Next]_vars => Holding'
<1> SUFFICES ASSUME TypeOK, Holding, Registry, [Next]_vars
             PROVE  Holding'
  OBVIOUS
<1> USE DEF TypeOK, callVars, hubVars, sockVars, seenVars, Holding
<1>1. ASSUME NEW h \in Callers, Call(h)
      PROVE  Holding'
  BY <1>1 DEF Call
<1>2. ASSUME NEW h \in Callers, Enqueue(h)
      PROVE  Holding'
  BY <1>2 DEF Enqueue
<1>3. ASSUME Dequeue
      PROVE  Holding'
  BY <1>3 DEF Dequeue
<1>4. ASSUME NEW c \in Conns, Register(c)
      PROVE  Holding'
  BY <1>4 DEF Register, Registry, RegistryAt, Outside
<1>5. ASSUME NEW c \in Conns, Unregister(c)
      PROVE  Holding'
  BY <1>5 DEF Unregister
<1>6. ASSUME NEW c \in Conns, FanoutSend(c)
      PROVE  Holding'
  BY <1>6 DEF FanoutSend
<1>7. ASSUME NEW c \in Conns, FanoutDrop(c)
      PROVE  Holding'
  BY <1>7 DEF FanoutDrop
<1>8. ASSUME NEW c \in Conns, Upgrade(c)
      PROVE  Holding'
  BY <1>8 DEF Upgrade
<1>9. ASSUME NEW c \in Conns, PeerLeaves(c)
      PROVE  Holding'
  BY <1>9 DEF PeerLeaves
<1>10. ASSUME NEW c \in Conns, WriterTake(c)
       PROVE  Holding'
  BY <1>10 DEF WriterTake
<1>11. ASSUME NEW c \in Conns, WriteArrives(c)
       PROVE  Holding'
  BY <1>11, NoMsgLemma DEF WriteArrives
<1>12. ASSUME NEW c \in Conns, WriteLost(c)
       PROVE  Holding'
  BY <1>12, NoMsgLemma DEF WriteLost
<1>13. ASSUME NEW c \in Conns, WriteFails(c)
       PROVE  Holding'
  BY <1>13, NoMsgLemma DEF WriteFails
<1>14. ASSUME NEW c \in Conns, WriterDrained(c)
       PROVE  Holding'
  BY <1>14 DEF WriterDrained
<1>15. ASSUME NEW c \in Conns, WriterClose(c)
       PROVE  Holding'
  BY <1>15 DEF WriterClose
<1>16. ASSUME NEW c \in Conns, ReaderFails(c)
       PROVE  Holding'
  BY <1>16 DEF ReaderFails
<1>17. ASSUME NEW c \in Conns, ReaderClose(c)
       PROVE  Holding'
  BY <1>17 DEF ReaderClose
<1>18. CASE UNCHANGED vars
  BY <1>18 DEF vars
<1> QED
  BY <1>1, <1>2, <1>3, <1>4, <1>5, <1>6, <1>7, <1>8, <1>9,
     <1>10, <1>11, <1>12, <1>13, <1>14, <1>15, <1>16, <1>17, <1>18
  DEF Next, Fanout, Writer, Reader


LEMMA RegistryStep == TypeOK /\ Registry /\ [Next]_vars => Registry'
<1> SUFFICES ASSUME TypeOK, Registry, [Next]_vars
             PROVE  Registry'
  OBVIOUS
<1> USE DEF TypeOK, callVars, hubVars, sockVars, seenVars, Registry, RegistryAt,
           Outside
<1>1. ASSUME NEW h \in Callers, Call(h)
      PROVE  Registry'
  BY <1>1 DEF Call
<1>2. ASSUME NEW h \in Callers, Enqueue(h)
      PROVE  Registry'
  BY <1>2 DEF Enqueue
<1>3. ASSUME Dequeue
      PROVE  Registry'
  BY <1>3 DEF Dequeue
<1>4. ASSUME NEW c \in Conns, Register(c)
      PROVE  Registry'
  BY <1>4 DEF Register
<1>5. ASSUME NEW c \in Conns, Unregister(c)
      PROVE  Registry'
  <2>1. c \in clients => closes[c] = 0
    BY <1>5 DEF Unregister
  <2>2. c \notin clients => closes[c] = 1
    BY <1>5 DEF Unregister
  <2>3. closes'[c] = 1
    BY <1>5, <2>1, <2>2 DEF Unregister
  <2>4. \A d \in Conns \ {c} : closes'[d] = closes[d] /\ reader'[d] = reader[d]
    BY <1>5 DEF Unregister
  <2> QED
    <3>1. RegistryAt(c)'
      BY <1>5, <2>3 DEF Unregister
    <3>2. \A d \in Conns \ {c} : RegistryAt(d)'
      BY <1>5, <2>4 DEF Unregister
    <3>3. todo' \subseteq clients'
      BY <1>5 DEF Unregister, AtSelect
    <3> QED
      BY <3>1, <3>2, <3>3
<1>6. ASSUME NEW c \in Conns, FanoutSend(c)
      PROVE  Registry'
  BY <1>6 DEF FanoutSend
<1>7. ASSUME NEW c \in Conns, FanoutDrop(c)
      PROVE  Registry'
  BY <1>7 DEF FanoutDrop
<1>8. ASSUME NEW c \in Conns, Upgrade(c)
      PROVE  Registry'
  BY <1>8 DEF Upgrade
<1>9. ASSUME NEW c \in Conns, PeerLeaves(c)
      PROVE  Registry'
  BY <1>9 DEF PeerLeaves
<1>10. ASSUME NEW c \in Conns, WriterTake(c)
       PROVE  Registry'
  BY <1>10 DEF WriterTake
<1>11. ASSUME NEW c \in Conns, WriteArrives(c)
       PROVE  Registry'
  BY <1>11 DEF WriteArrives
<1>12. ASSUME NEW c \in Conns, WriteLost(c)
       PROVE  Registry'
  BY <1>12 DEF WriteLost
<1>13. ASSUME NEW c \in Conns, WriteFails(c)
       PROVE  Registry'
  BY <1>13 DEF WriteFails
<1>14. ASSUME NEW c \in Conns, WriterDrained(c)
       PROVE  Registry'
  BY <1>14 DEF WriterDrained
<1>15. ASSUME NEW c \in Conns, WriterClose(c)
       PROVE  Registry'
  BY <1>15 DEF WriterClose
<1>16. ASSUME NEW c \in Conns, ReaderFails(c)
       PROVE  Registry'
  BY <1>16 DEF ReaderFails
<1>17. ASSUME NEW c \in Conns, ReaderClose(c)
       PROVE  Registry'
  BY <1>17 DEF ReaderClose
<1>18. CASE UNCHANGED vars
  BY <1>18 DEF vars
<1> QED
  BY <1>1, <1>2, <1>3, <1>4, <1>5, <1>6, <1>7, <1>8, <1>9,
     <1>10, <1>11, <1>12, <1>13, <1>14, <1>15, <1>16, <1>17, <1>18
  DEF Next, Fanout, Writer, Reader


LEMMA WindowStep == TypeOK /\ Holding /\ Registry /\ Window /\ [Next]_vars => Window'
<1> SUFFICES ASSUME TypeOK, Holding, Registry, Window, [Next]_vars
             PROVE  Window'
  OBVIOUS
<1> USE DEF TypeOK, callVars, hubVars, sockVars, seenVars, Registry, RegistryAt,
           Outside, Window, WindowAt, Backlog, InHand
<1>1. ASSUME NEW h \in Callers, Call(h)
      PROVE  Window'
  BY <1>1 DEF Call
<1>2. ASSUME NEW h \in Callers, Enqueue(h)
      PROVE  Window'
  BY <1>2 DEF Enqueue
<1>3. ASSUME Dequeue
      PROVE  Window'
  <2>1. Len(log') = Len(log) + 1
    BY <1>3, ChannelLemma DEF Dequeue
  <2>2. todo' \subseteq clients' /\ clients' \ todo' = {}
    BY <1>3 DEF Dequeue
  <2>3. \A d \in Conns : d \in todo' => Backlog(d) = Len(log)
    BY <1>3 DEF Dequeue, AtSelect
  <2> QED
    <3>1. ASSUME NEW d \in Conns
          PROVE  WindowAt(d)'
      <4>1. Backlog(d)' = Backlog(d) /\ InHand(d)' = InHand(d)
        BY <1>3 DEF Dequeue
      <4>2. received'[d] = received[d] /\ taken'[d] = taken[d] /\ conn'[d] = conn[d]
        BY <1>3 DEF Dequeue
      <4>3. d \in clients \ todo => Backlog(d) = Len(log)
        OBVIOUS
      <4>4. Backlog(d) \in Nat /\ Len(log) \in Nat
        BY ChannelLemma
      <4> QED
        BY <2>1, <2>2, <2>3, <4>1, <4>2, <4>3, <4>4
    <3> QED
      BY <3>1
<1>4. ASSUME NEW c \in Conns, Register(c)
      PROVE  Window'
  <2>1. Len(send[c]) = 0 /\ taken[c] = 0 /\ Len(received[c]) = 0
    BY <1>4 DEF Register
  <2>2. writer[c] = "none" /\ InHand(c) = 0
    BY <1>4 DEF Register
  <2> QED
    <3>1. WindowAt(c)'
      BY <1>4, <2>1, <2>2 DEF Register, AtSelect
    <3>2. ASSUME NEW d \in Conns \ {c}
          PROVE  WindowAt(d)'
      BY <1>4, <2>1, <2>2 DEF Register, AtSelect
    <3> QED
      BY <3>1, <3>2
<1>5. ASSUME NEW c \in Conns, Unregister(c)
      PROVE  Window'
  BY <1>5 DEF Unregister
<1>6. ASSUME NEW c \in Conns, FanoutSend(c)
      PROVE  Window'
  <2>1. Len(send'[c]) = Len(send[c]) + 1
    BY <1>6, ChannelLemma DEF FanoutSend, Holding
  <2>2. \A d \in Conns \ {c} : send'[d] = send[d]
    BY <1>6 DEF FanoutSend
  <2> QED
    <3>1. WindowAt(c)'
      BY <1>6, <2>1, <2>2 DEF FanoutSend
    <3>2. ASSUME NEW d \in Conns \ {c}
          PROVE  WindowAt(d)'
      BY <1>6, <2>1, <2>2 DEF FanoutSend
    <3> QED
      BY <3>1, <3>2
<1>7. ASSUME NEW c \in Conns, FanoutDrop(c)
      PROVE  Window'
  BY <1>7 DEF FanoutDrop
<1>8. ASSUME NEW c \in Conns, Upgrade(c)
      PROVE  Window'
  BY <1>8 DEF Upgrade
<1>9. ASSUME NEW c \in Conns, PeerLeaves(c)
      PROVE  Window'
  BY <1>9 DEF PeerLeaves
<1>10. ASSUME NEW c \in Conns, WriterTake(c)
       PROVE  Window'
  <2>1. Len(send'[c]) = Len(send[c]) - 1 /\ Len(send[c]) > 0
    BY <1>10, ChannelLemma DEF WriterTake
  <2>2. \A d \in Conns \ {c} : /\ send'[d] = send[d]
                              /\ taken'[d] = taken[d]
                              /\ writer'[d] = writer[d]
    BY <1>10 DEF WriterTake
  <2>3. taken'[c] = taken[c] + 1 /\ InHand(c) = 0 /\ InHand(c)' = 1
    BY <1>10 DEF WriterTake
  <2> QED
    <3>1. WindowAt(c)'
      <4>1. Backlog(c)' = Backlog(c)
        BY <1>10, <2>1, <2>3, ChannelLemma DEF WriterTake
      <4>2. received'[c] = received[c]
        BY <1>10 DEF WriterTake
      <4>3. UNCHANGED <<log, todo, clients, conn>>
        BY <1>10 DEF WriterTake
      <4> QED
        BY <2>3, <4>1, <4>2, <4>3
    <3>2. ASSUME NEW d \in Conns \ {c}
          PROVE  WindowAt(d)'
      BY <1>10, <2>1, <2>2, <2>3 DEF WriterTake
    <3> QED
      BY <3>1, <3>2
<1>11. ASSUME NEW c \in Conns, WriteArrives(c)
       PROVE  Window'
  <2>1. Len(received'[c]) = Len(received[c]) + 1
    BY <1>11, ChannelLemma DEF WriteArrives, Holding
  <2>2. \A d \in Conns \ {c} : received'[d] = received[d] /\ writer'[d] = writer[d]
    BY <1>11 DEF WriteArrives
  <2>3. InHand(c) = 1 /\ InHand(c)' = 0
    BY <1>11 DEF WriteArrives
  <2> QED
    <3>1. WindowAt(c)'
      BY <1>11, <2>1, <2>2, <2>3 DEF WriteArrives
    <3>2. ASSUME NEW d \in Conns \ {c}
          PROVE  WindowAt(d)'
      BY <1>11, <2>1, <2>2, <2>3 DEF WriteArrives
    <3> QED
      BY <3>1, <3>2
<1>12. ASSUME NEW c \in Conns, WriteLost(c)
       PROVE  Window'
  <2>1. InHand(c) = 1 /\ InHand(c)' = 0 /\ conn[c] = "gone"
    BY <1>12 DEF WriteLost
  <2>2. \A d \in Conns \ {c} : writer'[d] = writer[d]
    BY <1>12 DEF WriteLost
  <2>3. UNCHANGED <<log, joined, taken, received, send, clients, todo, conn>>
    BY <1>12 DEF WriteLost
  <2>4. WindowAt(c)'
    BY <2>1, <2>3
  <2>5. ASSUME NEW d \in Conns \ {c}
        PROVE  WindowAt(d)'
    BY <2>2, <2>3
  <2> QED
    BY <2>4, <2>5
<1>13. ASSUME NEW c \in Conns, WriteFails(c)
       PROVE  Window'
  <2>1. InHand(c) = 1 /\ InHand(c)' = 0 /\ conn[c] # "up"
    BY <1>13 DEF WriteFails
  <2>2. \A d \in Conns \ {c} : writer'[d] = writer[d]
    BY <1>13 DEF WriteFails
  <2>3. UNCHANGED <<log, joined, taken, received, send, clients, todo, conn>>
    BY <1>13 DEF WriteFails
  <2>4. WindowAt(c)'
    BY <2>1, <2>3
  <2>5. ASSUME NEW d \in Conns \ {c}
        PROVE  WindowAt(d)'
    BY <2>2, <2>3
  <2> QED
    BY <2>4, <2>5
<1>14. ASSUME NEW c \in Conns, WriterDrained(c)
       PROVE  Window'
  BY <1>14 DEF WriterDrained
<1>15. ASSUME NEW c \in Conns, WriterClose(c)
       PROVE  Window'
  BY <1>15 DEF WriterClose
<1>16. ASSUME NEW c \in Conns, ReaderFails(c)
       PROVE  Window'
  BY <1>16 DEF ReaderFails
<1>17. ASSUME NEW c \in Conns, ReaderClose(c)
       PROVE  Window'
  BY <1>17 DEF ReaderClose
<1>18. CASE UNCHANGED vars
  BY <1>18 DEF vars
<1> QED
  BY <1>1, <1>2, <1>3, <1>4, <1>5, <1>6, <1>7, <1>8, <1>9,
     <1>10, <1>11, <1>12, <1>13, <1>14, <1>15, <1>16, <1>17, <1>18
  DEF Next, Fanout, Writer, Reader

LEMMA ContentStep ==
  TypeOK /\ Holding /\ Registry /\ Window /\ Content /\ [Next]_vars => Content'
<1> SUFFICES ASSUME TypeOK, Holding, Registry, Window, Content, [Next]_vars
             PROVE  Content'
  OBVIOUS
<1> USE DEF TypeOK, callVars, hubVars, sockVars, seenVars, Content, ContentAt
<1>1. ASSUME NEW h \in Callers, Call(h) \/ Enqueue(h)
      PROVE  Content'
  <2>1. UNCHANGED <<log, send, joined, taken, writer, hand, received>>
    BY <1>1 DEF Call, Enqueue
  <2> QED
    BY <2>1
<1>2. ASSUME Dequeue
      PROVE  Content'
  <2>1. \A i \in 1..Len(log) : log'[i] = log[i]
    BY <1>2, ChannelLemma DEF Dequeue
  <2> SUFFICES ASSUME NEW d \in Conns
               PROVE  ContentAt(d)'
    OBVIOUS
  <2>2. UNCHANGED <<send[d], joined[d], taken[d], writer[d], hand[d], received[d]>>
    BY <1>2 DEF Dequeue
  <2>3. /\ Len(send[d]) \in Nat /\ Len(received[d]) \in Nat /\ Len(log) \in Nat
        /\ joined[d] + taken[d] + Len(send[d]) <= Len(log)
        /\ Len(received[d]) <= taken[d]
        /\ writer[d] = "writing" => taken[d] > 0
    BY ChannelLemma DEF Window, WindowAt, Backlog, InHand
  <2>a. joined[d] \in Nat /\ taken[d] \in Nat
    OBVIOUS
  <2> HIDE DEF TypeOK
  <2>4. ASSUME NEW i \in 1..Len(send[d])
        PROVE  log'[joined[d] + taken[d] + i] = log[joined[d] + taken[d] + i]
    <3>1. joined[d] + taken[d] + i \in 1..Len(log)
      BY <2>3, <2>a
    <3> QED
      BY <2>1, <3>1
  <2>5. ASSUME NEW i \in 1..Len(received[d])
        PROVE  log'[joined[d] + i] = log[joined[d] + i]
    <3>1. joined[d] + i \in 1..Len(log)
      BY <2>3, <2>a
    <3> QED
      BY <2>1, <3>1
  <2>6. ASSUME writer[d] = "writing"
        PROVE  log'[joined[d] + taken[d]] = log[joined[d] + taken[d]]
    <3>1. joined[d] + taken[d] \in 1..Len(log)
      BY <2>3, <2>a, <2>6
    <3> QED
      BY <2>1, <3>1
  <2> QED
    BY <2>2, <2>4, <2>5, <2>6
<1>3. ASSUME NEW c \in Conns, Register(c)
      PROVE  Content'
  <2>1. Len(send[c]) = 0 /\ Len(received[c]) = 0
    BY <1>3 DEF Register, Registry, RegistryAt, Outside
  <2>2. ContentAt(c)'
    BY <1>3, <2>1 DEF Register
  <2>3. ASSUME NEW d \in Conns \ {c}
        PROVE  ContentAt(d)'
    BY <1>3 DEF Register
  <2> QED
    BY <2>2, <2>3
<1>4. ASSUME NEW c \in Conns, FanoutSend(c)
      PROVE  Content'
  <2>1. /\ Len(send'[c]) = Len(send[c]) + 1
        /\ \A i \in 1..Len(send[c]) : send'[c][i] = send[c][i]
        /\ send'[c][Len(send[c]) + 1] = msg
        /\ Len(send[c]) \in Nat
    BY <1>4, ChannelLemma DEF FanoutSend, Holding
  <2>2. msg = log[joined[c] + taken[c] + (Len(send[c]) + 1)]
    BY <1>4, <2>1 DEF FanoutSend, Holding, Window, WindowAt, Backlog
  <2>3. ContentAt(c)'
    <3>1. UNCHANGED <<joined, taken, log, writer, hand, received>>
      BY <1>4 DEF FanoutSend
    <3>2. ASSUME NEW i \in 1..Len(send'[c])
          PROVE  send'[c][i] = log[joined[c] + taken[c] + i]
      <4>1. CASE i \in 1..Len(send[c])
        BY <2>1, <4>1
      <4>2. CASE i = Len(send[c]) + 1
        BY <2>1, <2>2, <4>2
      <4> QED
        BY <2>1, <3>2, <4>1, <4>2
    <3> QED
      BY <3>1, <3>2
  <2>4. ASSUME NEW d \in Conns \ {c}
        PROVE  ContentAt(d)'
    BY <1>4 DEF FanoutSend
  <2> QED
    BY <2>3, <2>4
<1>5. ASSUME NEW c \in Conns, WriterTake(c)
      PROVE  Content'
  <2>1. /\ Head(send[c]) = send[c][1]
        /\ Len(send'[c]) = Len(send[c]) - 1
        /\ \A i \in 1..Len(send'[c]) : send'[c][i] = send[c][i + 1]
        /\ Len(send[c]) > 0
        /\ Len(send[c]) \in Nat
    BY <1>5, ChannelLemma DEF WriterTake
  <2>2. /\ taken'[c] = taken[c] + 1
        /\ hand'[c] = Head(send[c])
        /\ UNCHANGED <<log, joined, received>>
    BY <1>5 DEF WriterTake
  <2>3. joined[c] \in Nat /\ taken[c] \in Nat
    OBVIOUS
  <2>4. ASSUME NEW i \in 1..Len(send'[c])
        PROVE  send'[c][i] = log[joined[c] + (taken[c] + 1) + i]
    <3>1. i + 1 \in 1..Len(send[c])
      BY <2>1
    <3>2. send[c][i + 1] = log[joined[c] + taken[c] + (i + 1)]
      BY <3>1
    <3>3. joined[c] + (taken[c] + 1) + i = joined[c] + taken[c] + (i + 1)
      BY <2>1, <2>3
    <3> QED
      BY <2>1, <3>2, <3>3
  <2>5. hand'[c] = log[joined[c] + (taken[c] + 1)]
    <3>1. 1 \in 1..Len(send[c])
      BY <2>1
    <3>2. send[c][1] = log[joined[c] + taken[c] + 1]
      <4>1. ContentAt(c)
        BY Zenon
      <4> QED
        BY <3>1, <4>1
    <3>3. joined[c] + taken[c] + 1 = joined[c] + (taken[c] + 1)
      BY <2>3
    <3> QED
      BY <2>1, <2>2, <3>2, <3>3
  <2>6. ContentAt(c)'
    BY <2>2, <2>4, <2>5
  <2>7. ASSUME NEW d \in Conns \ {c}
        PROVE  ContentAt(d)'
    <3>1. UNCHANGED <<send[d], joined[d], taken[d], writer[d], hand[d],
                      received[d], log>>
      BY <1>5 DEF WriterTake
    <3> QED
      BY <3>1
  <2> QED
    BY <2>6, <2>7
<1>6. ASSUME NEW c \in Conns, WriteArrives(c)
      PROVE  Content'
  <2>1. /\ Len(received'[c]) = Len(received[c]) + 1
        /\ \A i \in 1..Len(received[c]) : received'[c][i] = received[c][i]
        /\ received'[c][Len(received[c]) + 1] = hand[c]
        /\ Len(received[c]) \in Nat
    BY <1>6, ChannelLemma DEF WriteArrives, Holding
  <2>2. taken[c] = Len(received[c]) + 1
    BY <1>6, <2>1 DEF WriteArrives, Window, WindowAt, InHand
  <2>3. hand[c] = log[joined[c] + (Len(received[c]) + 1)]
    BY <1>6, <2>2 DEF WriteArrives
  <2>4. ContentAt(c)'
    <3>1. UNCHANGED <<send, joined, taken, log>> /\ writer'[c] = "ranging"
      BY <1>6 DEF WriteArrives
    <3>2. ContentAt(c)
      BY Zenon
    <3>3. ASSUME NEW i \in 1..Len(received'[c])
          PROVE  received'[c][i] = log[joined[c] + i]
      <4>1. i \in 1..Len(received[c]) \/ i = Len(received[c]) + 1
        BY <2>1
      <4> QED
        BY <2>1, <2>3, <3>2, <4>1
    <3> QED
      BY <3>1, <3>2, <3>3
  <2>5. ASSUME NEW d \in Conns \ {c}
        PROVE  ContentAt(d)'
    BY <1>6 DEF WriteArrives
  <2> QED
    BY <2>4, <2>5
<1>7. ASSUME NEW c \in Conns, WriteLost(c)
      PROVE  Content'
  BY <1>7 DEF WriteLost
<1>8. ASSUME NEW c \in Conns, WriteFails(c)
      PROVE  Content'
  BY <1>8 DEF WriteFails
<1>9. ASSUME NEW c \in Conns, WriterDrained(c) \/ WriterClose(c)
      PROVE  Content'
  <2>1. /\ UNCHANGED <<send, joined, taken, hand, received, log>>
        /\ \A d \in Conns : writer'[d] = "writing" => writer[d] = "writing"
    BY <1>9 DEF WriterDrained, WriterClose
  <2> QED
    BY <2>1
<1>10. ASSUME NEW c \in Conns,
              \/ Unregister(c) \/ FanoutDrop(c) \/ Upgrade(c) \/ PeerLeaves(c)
              \/ ReaderFails(c) \/ ReaderClose(c)
       PROVE  Content'
  <2>1. UNCHANGED <<send, joined, taken, writer, hand, received, log>>
    BY <1>10 DEF Unregister, FanoutDrop, Upgrade, PeerLeaves, ReaderFails,
                 ReaderClose
  <2> QED
    BY <2>1
<1>11. CASE UNCHANGED vars
  <2>1. UNCHANGED <<send, joined, taken, writer, hand, received, log>>
    BY <1>11 DEF vars
  <2> QED
    BY <2>1
<1> QED
  BY <1>1, <1>2, <1>3, <1>4, <1>5, <1>6, <1>7, <1>8, <1>9, <1>10, <1>11
  DEF Next, Fanout, Writer, Reader

LEMMA OrderedStep ==
  TypeOK /\ Holding /\ Ordered /\ [Next]_vars => Ordered'
<1> SUFFICES ASSUME TypeOK, Holding, Ordered, [Next]_vars
             PROVE  Ordered'
  OBVIOUS
<1> USE DEF callVars, hubVars, sockVars, seenVars
<1>0. /\ Len(log) \in Nat /\ Len(broadcast) \in Nat
      /\ \A i \in 1..Len(log) : log[i][2] \in Nat
      /\ \A j \in 1..Len(broadcast) : broadcast[j][2] \in Nat
      /\ \A h \in Callers : calls[h] \in Nat
  <2>1. \A m \in Msgs : m[2] \in Nat
    BY DEF Msgs
  <2> QED
    BY <2>1, ChannelLemma, ElementOfSeq DEF TypeOK
<1>1. ASSUME NEW h \in Callers, Call(h)
      PROVE  Ordered'
  <2>1. UNCHANGED <<log, broadcast>>
    BY <1>1 DEF Call
  <2>2. /\ ~busy[h] /\ busy'[h] /\ calls'[h] = calls[h] + 1
        /\ \A g \in Callers \ {h} : busy'[g] = busy[g] /\ calls'[g] = calls[g]
    BY <1>1 DEF Call, TypeOK
  <2>3. ASSUME NEW g \in Callers, NEW n \in Nat,
               IF busy[g] THEN n < calls[g] ELSE n <= calls[g]
        PROVE  IF busy'[g] THEN n < calls'[g] ELSE n <= calls'[g]
    BY <1>0, <2>2, <2>3
  <2>4. ASSUME NEW g \in Callers, NEW i \in 1..Len(log), log[i][1] = g
        PROVE  IF busy'[g] THEN log[i][2] < calls'[g] ELSE log[i][2] <= calls'[g]
    BY <1>0, <2>3, <2>4 DEF Ordered
  <2>5. ASSUME NEW g \in Callers, NEW j \in 1..Len(broadcast), broadcast[j][1] = g
        PROVE  IF busy'[g] THEN broadcast[j][2] < calls'[g]
                           ELSE broadcast[j][2] <= calls'[g]
    BY <1>0, <2>3, <2>5 DEF Ordered
  <2> QED
    BY <2>1, <2>4, <2>5 DEF Ordered
<1>2. ASSUME NEW h \in Callers, Enqueue(h)
      PROVE  Ordered'
  <2> DEFINE N == Len(broadcast)
  <2>1. /\ busy[h] /\ <<h, calls[h]>> \in Msgs
        /\ log' = log /\ calls' = calls /\ ~busy'[h]
        /\ \A g \in Callers \ {h} : busy'[g] = busy[g]
    BY <1>2 DEF Enqueue, Holding, Msgs, TypeOK
  <2>2. /\ Len(broadcast') = N + 1
        /\ \A j \in 1..N : broadcast'[j] = broadcast[j]
        /\ broadcast'[N + 1][1] = h
        /\ broadcast'[N + 1][2] = calls[h]
    BY <1>2, <2>1, ChannelLemma DEF Enqueue, TypeOK
  <2>3. 1..Len(broadcast') = (1..N) \cup {N + 1}
    BY <1>0, <2>2
  <2>4. /\ \A i \in 1..Len(log) : log[i][1] = h => log[i][2] < calls[h]
        /\ \A j \in 1..N : broadcast[j][1] = h => broadcast[j][2] < calls[h]
    BY <2>1 DEF Ordered
  <2> HIDE DEF N
  <2>5. ASSUME NEW i \in 1..Len(log), NEW j \in 1..Len(broadcast'),
               log[i][1] = broadcast'[j][1]
        PROVE  log[i][2] < broadcast'[j][2]
    <3>1. CASE j \in 1..N
      BY <2>2, <2>5, <3>1 DEF Ordered, N
    <3>2. CASE j = N + 1
      BY <2>2, <2>4, <2>5, <3>2
    <3> QED
      BY <2>3, <3>1, <3>2
  <2>6. ASSUME NEW i \in 1..Len(broadcast'), NEW j \in 1..Len(broadcast'),
               i < j, broadcast'[i][1] = broadcast'[j][1]
        PROVE  broadcast'[i][2] < broadcast'[j][2]
    <3>1. i \in 1..N
      BY <1>0, <2>2, <2>6 DEF N
    <3>2. CASE j \in 1..N
      BY <2>2, <2>6, <3>1, <3>2 DEF Ordered, N
    <3>3. CASE j = N + 1
      BY <2>2, <2>4, <2>6, <3>1, <3>3
    <3> QED
      BY <2>3, <3>2, <3>3
  <2>7. ASSUME NEW g \in Callers, NEW i \in 1..Len(log), log[i][1] = g
        PROVE  IF busy'[g] THEN log[i][2] < calls[g] ELSE log[i][2] <= calls[g]
    <3>1. CASE g = h
      BY <1>0, <2>1, <2>4, <2>7, <3>1
    <3>2. CASE g # h
      BY <2>1, <2>7, <3>2 DEF Ordered
    <3> QED
      BY <3>1, <3>2
  <2>8. ASSUME NEW g \in Callers, NEW j \in 1..Len(broadcast'), broadcast'[j][1] = g
        PROVE  IF busy'[g] THEN broadcast'[j][2] < calls[g]
                           ELSE broadcast'[j][2] <= calls[g]
    <3>1. CASE j = N + 1
      BY <1>0, <2>1, <2>2, <2>8, <3>1
    <3>2. CASE j \in 1..N /\ g = h
      BY <1>0, <2>1, <2>2, <2>4, <2>8, <3>2 DEF N
    <3>3. CASE j \in 1..N /\ g # h
      BY <2>1, <2>2, <2>8, <3>3 DEF Ordered, N
    <3> QED
      BY <2>3, <3>1, <3>2, <3>3
  <2> QED
    BY <2>1, <2>5, <2>6, <2>7, <2>8 DEF Ordered
<1>3. ASSUME Dequeue
      PROVE  Ordered'
  <2>1. /\ Len(log') = Len(log) + 1
        /\ \A i \in 1..Len(log) : log'[i] = log[i]
        /\ log'[Len(log) + 1] = broadcast[1]
    BY <1>3, ChannelLemma DEF Dequeue, TypeOK
  <2>2. /\ Len(broadcast) > 0
        /\ Len(broadcast') = Len(broadcast) - 1
        /\ \A j \in 1..Len(broadcast') : broadcast'[j] = broadcast[j + 1]
    BY <1>3, ChannelLemma DEF Dequeue, TypeOK
  <2>3. UNCHANGED callVars
    BY <1>3 DEF Dequeue
  <2>4. 1..Len(log') = (1..Len(log)) \cup {Len(log) + 1}
    BY <1>0, <2>1
  <2>5. /\ 1 \in 1..Len(broadcast)
        /\ \A j \in 1..Len(broadcast') : j + 1 \in 1..Len(broadcast) /\ 1 < j + 1
    BY <1>0, <2>2
  <2>6. ASSUME NEW i \in 1..Len(log'), NEW j \in 1..Len(broadcast'),
               log'[i][1] = broadcast'[j][1]
        PROVE  log'[i][2] < broadcast'[j][2]
    <3>1. CASE i \in 1..Len(log)
      BY <2>1, <2>2, <2>5, <2>6, <3>1 DEF Ordered
    <3>2. CASE i = Len(log) + 1
      BY <2>1, <2>2, <2>5, <2>6, <3>2 DEF Ordered
    <3> QED
      BY <2>4, <3>1, <3>2
  <2>7. ASSUME NEW i \in 1..Len(broadcast'), NEW j \in 1..Len(broadcast'),
               i < j, broadcast'[i][1] = broadcast'[j][1]
        PROVE  broadcast'[i][2] < broadcast'[j][2]
    <3>1. i + 1 < j + 1
      BY <1>0, <2>2, <2>7
    <3>2. \A k, l \in 1..Len(broadcast) :
            k < l /\ broadcast[k][1] = broadcast[l][1]
              => broadcast[k][2] < broadcast[l][2]
      BY Zenon DEF Ordered
    <3>3. i + 1 \in 1..Len(broadcast) /\ j + 1 \in 1..Len(broadcast)
      BY <2>5
    <3>4. broadcast'[i] = broadcast[i + 1] /\ broadcast'[j] = broadcast[j + 1]
      BY <2>2, <2>7
    <3> QED
      BY <2>7, <3>1, <3>2, <3>3, <3>4
  <2>8. ASSUME NEW h \in Callers, NEW i \in 1..Len(log'), log'[i][1] = h
        PROVE  IF busy[h] THEN log'[i][2] < calls[h] ELSE log'[i][2] <= calls[h]
    <3>1. CASE i \in 1..Len(log)
      BY <2>1, <2>8, <3>1 DEF Ordered
    <3>2. CASE i = Len(log) + 1
      BY <2>1, <2>5, <2>8, <3>2 DEF Ordered
    <3> QED
      BY <2>4, <3>1, <3>2
  <2>9. ASSUME NEW h \in Callers, NEW j \in 1..Len(broadcast'), broadcast'[j][1] = h
        PROVE  IF busy[h] THEN broadcast'[j][2] < calls[h]
                          ELSE broadcast'[j][2] <= calls[h]
    BY <2>2, <2>5, <2>9 DEF Ordered
  <2> QED
    BY <2>3, <2>6, <2>7, <2>8, <2>9 DEF Ordered
<1>4. ASSUME NEW c \in Conns,
             \/ Register(c) \/ Unregister(c) \/ Fanout(c) \/ Upgrade(c)
             \/ PeerLeaves(c) \/ Writer(c) \/ Reader(c)
      PROVE  Ordered'
  <2>1. UNCHANGED <<callVars, broadcast, log>>
    BY <1>4 DEF Register, Unregister, Fanout, FanoutSend, FanoutDrop, Upgrade,
       PeerLeaves, Writer, WriterTake, WriteArrives, WriteLost, WriteFails,
       WriterDrained, WriterClose, Reader, ReaderFails, ReaderClose
  <2> QED
    BY <2>1 DEF Ordered
<1>5. CASE UNCHANGED vars
  BY <1>5 DEF vars, Ordered
<1> QED
  BY <1>1, <1>2, <1>3, <1>4, <1>5 DEF Next

-----------------------------------------------------------------------------
(* Theorems                                                                *)

(* The arithmetic of Window for one connection.                            *)
LEMMA WindowFacts ==
  ASSUME IInv, NEW c \in Conns
  PROVE  /\ joined[c] \in Nat /\ taken[c] \in Nat /\ Len(log) \in Nat
         /\ Len(received[c]) \in Nat /\ Len(send[c]) \in Nat
         /\ Backlog(c) \in Nat
         /\ Backlog(c) <= Len(log)
         /\ Len(received[c]) <= taken[c]
         /\ joined[c] + Len(received[c]) <= Backlog(c)
<1>1. /\ joined[c] \in Nat /\ taken[c] \in Nat /\ Len(log) \in Nat
      /\ Len(received[c]) \in Nat /\ Len(send[c]) \in Nat
  BY ChannelLemma DEF IInv, TypeOK
<1>2. Backlog(c) <= Len(log) /\ Len(received[c]) + InHand(c) <= taken[c]
  BY DEF IInv, Window, WindowAt
<1>3. InHand(c) \in Nat
  BY DEF InHand
<1>4. Len(received[c]) <= taken[c]
  BY <1>1, <1>2, <1>3
<1> QED
  BY <1>1, <1>2, <1>4 DEF Backlog

(* A message that moves from the channel to the writer is counted once.    *)
LEMMA MoveOne ==
  ASSUME NEW j \in Nat, NEW t \in Nat, NEW n \in Nat
  PROVE  j + (t + 1) + (n - 1) = j + t + n
OBVIOUS

(* Every reachable state satisfies the inductive invariant.                *)
THEOREM Inductive == Spec => []IInv
<1>1. IInv /\ [Next]_vars => IInv'
  BY TypeStep, HoldingStep, RegistryStep, WindowStep, ContentStep, OrderedStep
  DEF IInv
<1> QED
  BY <1>1, InitIInv, PTL DEF Spec

(* Types and capacities: neither channel exceeds its capacity.             *)
THEOREM TypeCorrect == Spec => []TypeOK
<1>1. IInv => TypeOK
  BY DEF IInv
<1> QED
  BY <1>1, Inductive, PTL

(* Hub.Run never closes Client.send twice and never sends on it after it   *)
(* was closed: the server does not panic.                                  *)
THEOREM HubNeverPanics == Spec => []NeverPanics
<1>1. IInv => NeverPanics
  <2> SUFFICES ASSUME IInv
               PROVE  NeverPanics
    OBVIOUS
  <2>1. todo \subseteq clients /\ clients \subseteq Conns
    BY DEF IInv, TypeOK, Registry
  <2>2. \A c \in Conns : closes[c] <= 1 /\ (c \in clients => closes[c] = 0)
    BY DEF IInv, Registry, RegistryAt
  <2> QED
    BY <2>1, <2>2 DEF NeverPanics
<1> QED
  BY <1>1, Inductive, PTL

(* What a dashboard received is a run of consecutive messages of the log.  *)
THEOREM FeedHasNoGap == Spec => []GapFree
<1>1. IInv => GapFree
  <2> SUFFICES ASSUME IInv, NEW c \in Conns
               PROVE  joined[c] + Len(received[c]) <= Len(log)
    BY DEF IInv, GapFree, Content, ContentAt
  <2> QED
    BY WindowFacts
<1> QED
  BY <1>1, Inductive, PTL

(* Run drops a working connection only if its dashboard is more than       *)
(* SendCap messages behind.                                                *)
THEOREM OnlyLaggardsAreDropped == Spec => DropsOnlyLaggards
<1> DEFINE Lag(c) == reader[c] = "leaving"
                       \/ Len(log) - (joined[c] + Len(received[c])) > SendCap
<1>1. IInv /\ [Next]_vars => [\A c \in clients \ clients' : Lag(c)]_vars
  <2> SUFFICES ASSUME IInv, Next, NEW c \in clients \ clients'
               PROVE  Lag(c)
    OBVIOUS
  <2>1. c \in Conns
    BY DEF IInv, TypeOK
  <2>2. Unregister(c) \/ FanoutDrop(c)
    BY DEF Next, Call, Enqueue, Dequeue, Register, Unregister, Fanout,
       FanoutSend, FanoutDrop, Upgrade, PeerLeaves, Writer, WriterTake,
       WriteArrives, WriteLost, WriteFails, WriterDrained, WriterClose, Reader,
       ReaderFails, ReaderClose, callVars, hubVars, sockVars, seenVars
  <2>3. CASE Unregister(c)
    BY <2>3 DEF Unregister
  <2>4. CASE FanoutDrop(c)
    <3>1. /\ c \in todo
          /\ Len(send[c]) >= SendCap
      BY <2>4 DEF FanoutDrop
    <3>2. Backlog(c) + 1 = Len(log)
      BY <2>1, <3>1 DEF IInv, Window, WindowAt
    <3>3. Len(log) - (joined[c] + Len(received[c])) > Len(send[c])
      BY <2>1, <3>2, WindowFacts DEF Backlog
    <3> QED
      BY <2>1, <3>1, <3>3, WindowFacts
  <2> QED
    BY <2>2, <2>3, <2>4
<1>2. Spec => [][\A c \in clients \ clients' : Lag(c)]_vars
  BY <1>1, Inductive, PTL DEF Spec
<1> QED
  BY <1>2 DEF DropsOnlyLaggards

-----------------------------------------------------------------------------
(* Refinement                                                              *)

LEMMA FeedInit == Init => Abstract!Init
BY DEF Init, Abstract!Init, FeedStatus, FeedLimit

LEMMA FeedStep == IInv /\ [Next]_vars => [Abstract!Next]_(Abstract!vars)
<1> SUFFICES ASSUME IInv, [Next]_vars
             PROVE  Abstract!Next \/ UNCHANGED Abstract!vars
  OBVIOUS
<1> USE DEF callVars, hubVars, sockVars, seenVars, Abstract!vars
<1>0. /\ \A c \in Conns :
           /\ Len(received[c]) \in Nat /\ Len(send[c]) \in Nat
           /\ joined[c] \in Nat /\ taken[c] \in Nat
      /\ Len(log) \in Nat
      /\ clients \subseteq Conns
  BY ChannelLemma DEF IInv, TypeOK
(* Steps that neither log, register, remove nor deliver.                   *)
<1>1. ASSUME UNCHANGED <<log, joined, received, FeedStatus, FeedLimit>>
      PROVE  UNCHANGED Abstract!vars
  BY <1>1
<1>2. ASSUME NEW h \in Callers, Call(h) \/ Enqueue(h)
      PROVE  UNCHANGED Abstract!vars
  <2>1. UNCHANGED <<log, joined, received, reader, clients, taken, send>>
    BY <1>2 DEF Call, Enqueue
  <2> QED
    BY <1>1, <2>1 DEF FeedStatus, FeedLimit
<1>3. ASSUME Dequeue
      PROVE  Abstract!Next
  <2> DEFINE m == Head(broadcast)
  <2>1. /\ m \in Msgs /\ m = broadcast[1] /\ Len(broadcast) \in Nat
        /\ Len(broadcast) > 0
    BY <1>3, ChannelLemma DEF Dequeue, IInv, TypeOK
  <2>2. \A i \in 1..Len(log) : log[i][1] = m[1] => log[i][2] < m[2]
    BY <2>1 DEF IInv, Ordered
  <2>3. /\ log' = Append(log, m)
        /\ UNCHANGED <<joined, received, reader, clients, taken, send>>
    BY <1>3 DEF Dequeue
  <2>4. UNCHANGED <<FeedStatus, FeedLimit>>
    BY <2>3 DEF FeedStatus, FeedLimit
  <2>5. Abstract!Publish(m)
    BY <2>2, <2>3, <2>4 DEF Abstract!Publish
  <2> QED
    BY <2>1, <2>5 DEF Abstract!Next, Abstract!Msgs, Msgs
<1>4. ASSUME NEW c \in Conns, Register(c)
      PROVE  Abstract!Next
  <2>1. /\ reader[c] = "registering" /\ reader' = [reader EXCEPT ![c] = "reading"]
        /\ clients' = clients \cup {c}
        /\ joined' = [joined EXCEPT ![c] = Len(log)]
        /\ UNCHANGED <<log, received, taken, send>>
        /\ reader \in [Conns -> {"none", "registering", "reading", "leaving",
                                 "closing", "done"}]
        /\ joined \in [Conns -> Nat]
    BY <1>4 DEF Register, IInv, TypeOK
  <2>2. FeedStatus[c] = "out"
    BY <2>1 DEF FeedStatus
  <2>3. FeedStatus' = [FeedStatus EXCEPT ![c] = "in"]
    BY <2>1 DEF FeedStatus
  <2>4. FeedLimit' = FeedLimit
    <3>1. \A d \in Conns : FeedStatus'[d] = "gone" <=> FeedStatus[d] = "gone"
      BY <2>2, <2>3 DEF FeedStatus
    <3>2. \A d \in Conns : FeedStatus[d] = "gone" => d # c
      BY <2>2
    <3>3. \A d \in Conns \ {c} : joined'[d] = joined[d]
      BY <2>1
    <3> QED
      BY <2>1, <3>1, <3>2, <3>3 DEF FeedLimit
  <2>5. Abstract!Join(c)
    BY <2>1, <2>2, <2>3, <2>4 DEF Abstract!Join
  <2> QED
    BY <2>5 DEF Abstract!Next
(* Removal from the registry, by an unregister or by the fan-out.          *)
<1>5. ASSUME NEW c \in clients, clients' = clients \ {c},
             \/ UNCHANGED reader
             \/ reader[c] = "leaving" /\ reader' = [reader EXCEPT ![c] = "closing"],
             UNCHANGED <<log, joined, received, taken, send>>
      PROVE  Abstract!Next
  <2>1. c \in Conns /\ ~Outside(c) /\ ~Outside(c)'
    BY <1>0, <1>5 DEF IInv, TypeOK, Registry, RegistryAt, Outside
  <2>2. FeedStatus[c] = "in"
    BY <1>5, <2>1 DEF FeedStatus, Outside
  <2>3. \A d \in Conns : Outside(d)' <=> Outside(d)
    BY <1>5, <2>1 DEF Outside, IInv, TypeOK
  <2>4. FeedStatus' = [FeedStatus EXCEPT ![c] = "gone"]
    BY <1>5, <2>1, <2>3 DEF FeedStatus, Outside
  <2>5. FeedLimit' = [FeedLimit EXCEPT ![c] = Backlog(c)]
    <3>1. \A d \in Conns \ {c} : FeedStatus'[d] = FeedStatus[d]
      BY <2>4 DEF FeedStatus
    <3>2. FeedStatus'[c] = "gone"
      BY <2>1, <2>4 DEF FeedStatus
    <3> QED
      BY <1>5, <2>1, <3>1, <3>2 DEF FeedLimit, Backlog
  <2>6. Backlog(c) \in (joined[c] + Len(received[c]))..Len(log)
    BY <2>1, WindowFacts
  <2>7. Abstract!Leave(c)
    BY <1>5, <2>2, <2>4, <2>5, <2>6 DEF Abstract!Leave
  <2> QED
    BY <2>1, <2>7 DEF Abstract!Next
<1>6. ASSUME NEW c \in Conns, Unregister(c), c \in clients
      PROVE  Abstract!Next
  BY <1>5, <1>6 DEF Unregister
<1>7. ASSUME NEW c \in Conns, FanoutDrop(c)
      PROVE  Abstract!Next
  <2>1. c \in clients
    BY <1>7 DEF FanoutDrop, IInv, Registry
  <2> QED
    BY <1>5, <1>7, <2>1 DEF FanoutDrop
<1>8. ASSUME NEW c \in Conns, Unregister(c), c \notin clients
      PROVE  UNCHANGED Abstract!vars
  <2>1. /\ UNCHANGED <<log, joined, received, clients, taken, send>>
        /\ \A d \in Conns : Outside(d)' <=> Outside(d)
    BY <1>8 DEF Unregister, Outside, IInv, TypeOK
  <2> QED
    BY <1>1, <2>1 DEF FeedStatus, FeedLimit, Outside
<1>9. ASSUME NEW c \in Conns, FanoutSend(c)
      PROVE  UNCHANGED Abstract!vars
  <2>1. c \in clients /\ ~Outside(c)
    BY <1>9 DEF FanoutSend, IInv, Registry, RegistryAt
  <2>2. /\ UNCHANGED <<log, joined, received, clients, taken, reader>>
        /\ \A d \in Conns \ {c} : send'[d] = send[d]
    BY <1>9 DEF FanoutSend, IInv, TypeOK
  <2>3. UNCHANGED FeedStatus /\ FeedStatus[c] = "in"
    BY <2>1, <2>2 DEF FeedStatus, Outside
  <2>4. UNCHANGED FeedLimit
    BY <2>2, <2>3 DEF FeedLimit
  <2> QED
    BY <1>1, <2>2, <2>3, <2>4
<1>10. ASSUME NEW c \in Conns, WriterTake(c)
       PROVE  UNCHANGED Abstract!vars
  <2>1. /\ UNCHANGED <<log, joined, received, clients, reader>>
        /\ \A d \in Conns \ {c} : send'[d] = send[d] /\ taken'[d] = taken[d]
        /\ taken'[c] = taken[c] + 1
    BY <1>10 DEF WriterTake, IInv, TypeOK
  <2>2. Len(send'[c]) = Len(send[c]) - 1
    BY <1>10, ChannelLemma DEF WriterTake, IInv, TypeOK
  <2>3. \A d \in Conns : Backlog(d)' = Backlog(d)
    <3>1. Backlog(c)' = Backlog(c)
      <4>1. joined'[c] = joined[c] /\ taken'[c] = taken[c] + 1
        BY <2>1
      <4>2. joined[c] \in Nat /\ taken[c] \in Nat /\ Len(send[c]) \in Nat
        BY WindowFacts
      <4>3. joined[c] + (taken[c] + 1) + (Len(send[c]) - 1)
              = joined[c] + taken[c] + Len(send[c])
        BY <4>2, MoveOne, SMTT(60)
      <4>4. Backlog(c)' = joined[c] + (taken[c] + 1) + (Len(send[c]) - 1)
        BY <2>2, <4>1, Zenon DEF Backlog
      <4> QED
        BY <4>3, <4>4, Zenon DEF Backlog
    <3>2. \A d \in Conns \ {c} : Backlog(d)' = Backlog(d)
      BY <2>1 DEF Backlog
    <3> QED
      BY <3>1, <3>2
  <2>4. UNCHANGED FeedStatus
    BY <2>1 DEF FeedStatus
  <2>5. UNCHANGED FeedLimit
    BY <2>3, <2>4 DEF FeedLimit, Backlog
  <2> QED
    BY <1>1, <2>1, <2>4, <2>5
<1>11. ASSUME NEW c \in Conns, WriteArrives(c)
       PROVE  Abstract!Next
  <2> DEFINE next == joined[c] + Len(received[c]) + 1
  <2>1. /\ writer[c] = "writing" /\ conn[c] = "up"
        /\ received' = [received EXCEPT ![c] = Append(@, hand[c])]
        /\ UNCHANGED <<log, joined, clients, reader, taken, send>>
    BY <1>11 DEF WriteArrives
  <2>2. taken[c] = Len(received[c]) + 1
    BY <1>0, <2>1 DEF IInv, Window, WindowAt, InHand
  <2>3. hand[c] = log[next]
    <3>1. next = joined[c] + taken[c]
      BY <1>0, <2>2
    <3> QED
      BY <2>1, <3>1 DEF IInv, Content, ContentAt
  <2>4. next <= Backlog(c) /\ Backlog(c) <= Len(log) /\ Backlog(c) \in Nat
    <3>1. Backlog(c) <= Len(log)
      BY <1>0 DEF IInv, Window, WindowAt
    <3>2. /\ joined[c] \in Nat /\ taken[c] \in Nat /\ Len(send[c]) \in Nat
          /\ Len(received[c]) \in Nat
      BY <1>0, ChannelLemma DEF IInv, TypeOK
    <3> QED
      BY <2>2, <3>1, <3>2 DEF Backlog
  <2>5. ~Outside(c)
    BY <2>1 DEF IInv, Registry, RegistryAt
  <2>6. \/ FeedStatus[c] = "in" /\ next <= Len(log)
        \/ FeedStatus[c] = "gone" /\ next <= FeedLimit[c]
    BY <1>0, <2>4, <2>5 DEF FeedStatus, FeedLimit, Outside, Backlog
  <2>7. UNCHANGED <<FeedStatus, FeedLimit>>
    BY <2>1 DEF FeedStatus, FeedLimit
  <2>8. Abstract!Receive(c)
    BY <2>1, <2>3, <2>6, <2>7 DEF Abstract!Receive
  <2> QED
    BY <2>8 DEF Abstract!Next
<1>12. ASSUME NEW c \in Conns,
              \/ Upgrade(c) \/ PeerLeaves(c) \/ WriteLost(c) \/ WriteFails(c)
              \/ WriterDrained(c) \/ WriterClose(c) \/ Reader(c)
       PROVE  UNCHANGED Abstract!vars
  <2>1. /\ UNCHANGED <<log, joined, received, clients, taken, send>>
        /\ \A d \in Conns : Outside(d)' <=> Outside(d)
    BY <1>12 DEF Upgrade, PeerLeaves, WriteLost, WriteFails, WriterDrained,
       WriterClose, Reader, ReaderFails, ReaderClose, Outside, IInv, TypeOK
  <2> QED
    BY <1>1, <2>1 DEF FeedStatus, FeedLimit, Outside
<1>13. CASE UNCHANGED vars
  <2>1. UNCHANGED <<log, joined, received, reader, clients, taken, send>>
    BY <1>13 DEF vars
  <2> QED
    BY <1>1, <2>1 DEF FeedStatus, FeedLimit
<1> QED
  BY <1>2, <1>3, <1>4, <1>6, <1>7, <1>8, <1>9, <1>10, <1>11, <1>12, <1>13
  DEF Next, Fanout, Writer

(* The hub, with its channels, buffers and goroutines, does what Feed says. *)
THEOREM HubImplementsFeed == Spec => ImplementsFeed
BY FeedInit, FeedStep, Inductive, PTL DEF Spec, ImplementsFeed, Abstract!Spec

=============================================================================

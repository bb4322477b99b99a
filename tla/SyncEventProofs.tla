--------------------------- MODULE SyncEventProofs ---------------------------
(***************************************************************************)
(* Proofs about SyncEvent: the type invariant and the inductive invariant  *)
(* from which the safety of the intrusive wait lists follows, for any      *)
(* number of threads, handles and events and for arrays of any length;     *)
(* then what the waits return: that nobody blocks on what has happened,    *)
(* that the results are true, that a close leaves other handles alone and  *)
(* an auto-reset signal releases one wait.                                 *)
(***************************************************************************)
EXTENDS SyncEvent, ListLemmas, FiniteSetTheorems

(* The handles of a call, by index. *)
LEMMA ArrayType ==
  ASSUME TypeOK, NEW t \in Waiter
  PROVE  /\ call[t].events \in Seq(Handle)
         /\ Indices(t) \subseteq Nat \ {0}
         /\ \A i \in Indices(t) : HandleOf(t, i) \in Handle
<1>1. call[t].events \in Seq(Handle)
  <2>1. CASE call[t] = NoCall
    BY <2>1, EmptySeq DEF NoCall
  <2>2. CASE call[t] \in Call
    <3>1. call[t].events \in Arrays \cup {<<h>> : h \in Handle}
      BY <2>2, ArraysAssumption DEF Call
    <3>2. \A h \in Handle : <<h>> \in Seq(Handle)
      OBVIOUS
    <3> QED BY <3>1, <3>2, ArraysAssumption
  <2> QED BY <2>1, <2>2 DEF TypeOK
<1>2. DOMAIN call[t].events = 1..Len(call[t].events) /\ Len(call[t].events) \in Nat
  BY <1>1, LenProperties
<1> QED BY <1>1, <1>2, ElementOfSeq DEF Indices, HandleOf

(* A callback for a set of nodes adds their bits, takes from Pending only when the *)
(* event failed, and leaves the other contexts alone.                              *)
LEMMA EventSignalledType ==
  ASSUME TypeOK, NEW S, NEW f \in BOOLEAN, EventSignalled(S, f)
  PROVE  /\ bits' \in [Waiter -> SUBSET Nat]
         /\ pending' \in [Waiter -> SUBSET Nat]
         /\ first' \in [Waiter -> Nat]
         /\ failed' \in [Waiter -> BOOLEAN]
         /\ done' \in [Waiter -> BOOLEAN]
         /\ \A t \in Waiter :
              /\ bits'[t] = bits[t] \cup {i \in Indices(t) : <<t, i>> \in S}
              /\ pending'[t] = pending[t] \ {i \in Indices(t) : f /\ <<t, i>> \in S}
              /\ first'[t] \in Indices(t) \cup {0}
              /\ (\A i \in Indices(t) : <<t, i>> \notin S) =>
                   /\ bits'[t] = bits[t] /\ first'[t] = first[t]
                   /\ done'[t] = done[t] /\ failed'[t] = failed[t]
<1> DEFINE hit(t) == {i \in Indices(t) : <<t, i>> \in S}
<1>1. ASSUME NEW t \in Waiter PROVE hit(t) \in SUBSET Nat /\ Indices(t) \subseteq Nat
  BY ArrayType
<1>2. ASSUME NEW t \in Waiter, hit(t) # {}
      PROVE  (CHOOSE i \in hit(t) : \A j \in hit(t) : i <= j) \in hit(t)
  BY <1>1, <1>2, LeastIndex
<1>3. bits' = [t \in Waiter |-> bits[t] \cup hit(t)]
  BY DEF EventSignalled
<1>4. first' = [t \in Waiter |->
                  IF first[t] = 0 /\ hit(t) # {}
                  THEN CHOOSE i \in hit(t) : \A j \in hit(t) : i <= j
                  ELSE first[t]]
  BY DEF EventSignalled
<1>5. /\ failed' = [t \in Waiter |-> failed[t] \/ (f /\ hit(t) # {})]
      /\ pending' = [t \in Waiter |-> pending[t] \ {i \in hit(t) : f}]
      /\ done' = [t \in Waiter |->
                    done[t] \/ (hit(t) # {} /\ Completes(t, bits[t] \cup hit(t), f))]
  BY DEF EventSignalled
<1>6. done' \in [Waiter -> BOOLEAN] /\ failed' \in [Waiter -> BOOLEAN]
  BY <1>5 DEF TypeOK
<1>7. ASSUME NEW t \in Waiter PROVE first'[t] \in hit(t) \cup {first[t]}
  BY <1>2, <1>4
<1>8. ASSUME NEW t \in Waiter PROVE first'[t] \in Indices(t) \cup {0}
  BY <1>7 DEF TypeOK
<1>9. first' \in [Waiter -> Nat]
  <2>1. first' = [t \in Waiter |-> first'[t]]
    BY <1>4
  <2>2. \A t \in Waiter : first'[t] \in Nat
    BY <1>1, <1>8
  <2> QED BY <2>1, <2>2
<1>10. bits' \in [Waiter -> SUBSET Nat] /\ pending' \in [Waiter -> SUBSET Nat]
  <2> HIDE DEF hit
  <2>1. \A t \in Waiter : bits[t] \cup hit(t) \in SUBSET Nat
    BY <1>1 DEF TypeOK
  <2>2. \A t \in Waiter : pending[t] \ {i \in hit(t) : f} \in SUBSET Nat
    BY DEF TypeOK
  <2> QED BY <1>3, <1>5, <2>1, <2>2
<1>11. ASSUME NEW t \in Waiter
       PROVE  /\ bits'[t] = bits[t] \cup hit(t)
              /\ pending'[t] = pending[t] \ {i \in Indices(t) : f /\ <<t, i>> \in S}
  BY <1>3, <1>5
<1>12. ASSUME NEW t \in Waiter, \A i \in Indices(t) : <<t, i>> \notin S
       PROVE  /\ bits'[t] = bits[t] /\ first'[t] = first[t]
              /\ done'[t] = done[t] /\ failed'[t] = failed[t]
  <2>1. hit(t) = {}
    BY <1>12
  <2>2. bits'[t] = bits[t] /\ first'[t] = first[t]
    BY <1>3, <1>7, <2>1
  <2>3. done'[t] = done[t] /\ failed'[t] = failed[t]
    BY <1>5, <2>1 DEF TypeOK
  <2> QED BY <2>2, <2>3
<1> QED BY <1>6, <1>8, <1>9, <1>10, <1>11, <1>12

-----------------------------------------------------------------------------
(* What the invariant says of a node that is in a list, and of a thread outside *)
(* WaitForMultipleObjects.                                                      *)

LEMMA ListedNode ==
  ASSUME IInv, NEW o \in Object, NEW n \in ToSet(waits[o])
  PROVE  /\ n[1] \in Waiter /\ n[2] \in Nat /\ n = <<n[1], n[2]>>
         /\ n[2] \in linked[n[1]] /\ n[2] \in Indices(n[1])
         /\ ObjectOf(n[1], n[2]) = o
         /\ pc[n[1]] \in MultiPcs /\ n[2] \in Cleanup(n[1])
<1>1. waits[o] \in Seq(Waiter \X Nat)
  BY DEF IInv, TypeOK
<1>2. PICK k \in DOMAIN waits[o] : n = waits[o][k]
  BY DEF ToSet
<1>3. n \in Waiter \X Nat
  BY <1>1, <1>2, LenProperties, ElementOfSeq
<1> QED BY <1>3 DEF IInv, NodesAlive

LEMMA LinkedNode ==
  ASSUME IInv, NEW t \in Waiter, NEW i \in linked[t]
  PROVE  /\ i \in Indices(t) /\ i \in Nat
         /\ HandleOf(t, i) \in Handle /\ ObjectOf(t, i) \in Object
         /\ <<t, i>> \in ToSet(waits[ObjectOf(t, i)])
         /\ pc[t] \in MultiPcs /\ i \in Cleanup(t)
<1>1. i \in Indices(t)
  BY DEF IInv, TypeOK
<1>2. i \in Nat /\ HandleOf(t, i) \in Handle
  BY <1>1, ArrayType DEF IInv
<1>3. ObjectOf(t, i) \in Object
  BY <1>1, <1>2 DEF IInv, TypeOK, UsesLive, Live, ObjectOf
<1>4. <<t, i>> \in ToSet(waits[ObjectOf(t, i)])
  BY DEF IInv, OwnerMeansListed
<1>5. pc[t] \in MultiPcs /\ i \in Cleanup(t)
  <2> DEFINE n == <<t, i>>
  <2>1. n \in ToSet(waits[ObjectOf(t, i)]) /\ n[1] = t /\ n[2] = i
    BY <1>4
  <2> HIDE DEF n
  <2>2. pc[n[1]] \in MultiPcs /\ n[2] \in Cleanup(n[1])
    BY <1>3, <2>1, ListedNode
  <2> QED BY <2>1, <2>2
<1> QED BY <1>1, <1>2, <1>3, <1>4, <1>5

LEMMA NothingLinked ==
  ASSUME IInv, NEW t \in Waiter,
         pc[t] \notin MultiPcs \/ (pc[t] = "Unregister" /\ unreg[t] = {})
  PROVE  linked[t] = {}
<1> SUFFICES ASSUME NEW i \in linked[t] PROVE FALSE
  OBVIOUS
<1>1. pc[t] \in MultiPcs /\ i \in Cleanup(t)
  BY LinkedNode
<1> QED BY <1>1 DEF IInv, Phases, Cleanup, MultiPcs, RegisterPcs

-----------------------------------------------------------------------------
(* Operations on a handle *)

(* A notification only moves threads that are blocked in a condition wait. *)
LEMMA NotifyPcs ==
  ASSUME TypeOK, NEW o, NotifyAll(o) \/ NotifyOne(o) \/ UNCHANGED pc
  PROVE  /\ pc' \in [Waiter -> {"Idle"} \cup MultiPcs \cup SinglePcs]
         /\ \A t \in Waiter :
              pc'[t] = pc[t] \/ (pc[t] = "CvBlocked" /\ pc'[t] = "CvAwake")
  BY DEF TypeOK, NotifyAll, NotifyOne, OnCondition, MultiPcs, RegisterPcs, SinglePcs, CvPcs

LEMMA SetEventStep == ASSUME IInv, NEW h \in Handle, SetEvent(h) PROVE IInv'
<1> DEFINE o == object[h]
           S == Recipients(o)
<1>1. o \in Object
  BY DEF IInv, TypeOK, SetEvent, Live
<1>2. S \subseteq ToSet(waits[o]) /\ (o \in Notification => S = ToSet(waits[o]))
  <2>1. CASE o \in Notification \/ waits[o] = <<>>
    BY <2>1 DEF Recipients
  <2>2. CASE o \notin Notification /\ waits[o] # <<>>
    <3>1. waits[o] \in Seq(Waiter \X Nat) /\ 1 \in DOMAIN waits[o] /\ Head(waits[o]) = waits[o][1]
      BY <1>1, <2>2, LenProperties, EmptySeq DEF IInv, TypeOK
    <3> QED BY <2>2, <3>1 DEF Recipients, ToSet
  <2> QED BY <2>1, <2>2
<1>3. /\ bits' \in [Waiter -> SUBSET Nat]
      /\ pending' \in [Waiter -> SUBSET Nat]
      /\ first' \in [Waiter -> Nat]
      /\ failed' \in [Waiter -> BOOLEAN]
      /\ done' \in [Waiter -> BOOLEAN]
      /\ \A t \in Waiter :
           /\ bits'[t] = bits[t] \cup {i \in Indices(t) : <<t, i>> \in S}
           /\ pending'[t] = pending[t]
           /\ first'[t] \in Indices(t) \cup {0}
           /\ (\A i \in Indices(t) : <<t, i>> \notin S) =>
                /\ bits'[t] = bits[t] /\ first'[t] = first[t]
                /\ done'[t] = done[t] /\ failed'[t] = failed[t]
  <2>1. EventSignalled(S, FALSE) /\ TypeOK
    BY DEF SetEvent, IInv
  <2> HIDE DEF S
  <2>2. \A t \in Waiter : pending'[t] = pending[t] \ {i \in Indices(t) : FALSE /\ <<t, i>> \in S}
    BY <2>1, EventSignalledType
  <2>3. \A t \in Waiter : pending'[t] = pending[t]
    BY <2>2
  <2> QED BY <2>1, <2>3, EventSignalledType
<1>4. /\ signalled' = [signalled EXCEPT ![o] = o \in Notification \/ waits[o] = <<>>]
      /\ UNCHANGED <<object, closing, waits, lock, linked, call, idx, unreg, expired>>
  BY DEF SetEvent
<1>5. /\ pc' \in [Waiter -> {"Idle"} \cup MultiPcs \cup SinglePcs]
      /\ \A t \in Waiter :
           pc'[t] = pc[t] \/ (pc[t] = "CvBlocked" /\ pc'[t] = "CvAwake")
  BY NotifyPcs DEF SetEvent, IInv
<1> HIDE DEF o, S
<1>6. ASSUME NEW t \in Waiter, pc[t] \notin MultiPcs, NEW i \in Indices(t)
      PROVE  <<t, i>> \notin S
  <2> DEFINE n == <<t, i>>
  <2> SUFFICES ASSUME n \in S PROVE FALSE
    OBVIOUS
  <2>1. n[1] = t /\ n \in ToSet(waits[o])
    BY <1>2
  <2> HIDE DEF n
  <2> QED BY <1>1, <1>6, <2>1, ListedNode
<1>7. pending' = pending
  BY <1>3 DEF IInv, TypeOK
<1>8. TypeOK'
  <2>1. \A t \in Waiter : bits'[t] \subseteq Indices(t)
    BY <1>3 DEF IInv, TypeOK
  <2>2. signalled' \in [Object -> BOOLEAN]
    BY <1>4 DEF IInv, TypeOK
  <2> QED BY <1>3, <1>4, <1>5, <1>7, <2>1, <2>2 DEF IInv, TypeOK, Indices
<1>9. UsesLive' /\ LockOwner'
  BY <1>4 DEF IInv, UsesLive, LockOwner, Live, Indices, HandleOf
<1>10. Phases'
  <2>1. ASSUME NEW t \in Waiter, pc'[t] \notin MultiPcs
        PROVE  /\ pending'[t] = {} /\ bits'[t] = {}
               /\ first'[t] = 0 /\ idx'[t] = 0 /\ ~done'[t] /\ ~failed'[t]
    <3>1. pc[t] \notin MultiPcs
      BY <1>5, <2>1 DEF MultiPcs, RegisterPcs
    <3> QED BY <1>3, <1>4, <1>6, <1>7, <3>1 DEF IInv, Phases
  <2>2. ASSUME NEW t \in Waiter, pc'[t] = "Unregister" \/ pc'[t] \in RegisterPcs PROVE pc'[t] = pc[t]
    BY <1>5, <2>2 DEF RegisterPcs
  <2>3. ASSUME NEW t \in Waiter, pc'[t] # "Unregister" PROVE unreg'[t] = {}
    BY <1>4, <1>5, <2>3 DEF IInv, Phases
  <2> QED BY <1>4, <1>7, <2>1, <2>2, <2>3 DEF IInv, Phases, Indices
<1>11. ASSUME NEW t \in Waiter, pc[t] \in MultiPcs PROVE pc'[t] = pc[t]
  BY <1>5, <1>11 DEF MultiPcs, RegisterPcs
<1>12. ASSUME NEW t \in Waiter PROVE Cleanup(t)' = Cleanup(t)
  BY <1>4, <1>5, <1>7 DEF Cleanup
<1>13. NodesAlive'
  <2> SUFFICES ASSUME NEW q \in Object, NEW n \in ToSet(waits[q])
               PROVE  /\ pc'[n[1]] \in MultiPcs
                      /\ n[2] \in Indices(n[1])' /\ ObjectOf(n[1], n[2])' = q
                      /\ n[2] \in linked'[n[1]]
                      /\ n[2] \in Cleanup(n[1])'
    BY <1>4 DEF NodesAlive
  <2> QED BY <1>4, <1>11, <1>12, ListedNode DEF Indices, ObjectOf, HandleOf
<1>14. OwnerMeansListed' /\ ClosedOwnsNothing'
  BY <1>4 DEF IInv, OwnerMeansListed, ClosedOwnsNothing, ObjectOf, HandleOf, ClosingBy
<1>15. Accounted'
  BY <1>4, <1>12 DEF IInv, Accounted, HandleOf
<1>16. NoMissedSignal'
  <2> SUFFICES ASSUME NEW t \in Waiter, NEW i \in linked[t], signalled'[ObjectOf(t, i)]
               PROVE  ObjectOf(t, i) \in Notification /\ i \in bits'[t]
    BY <1>4 DEF NoMissedSignal, ObjectOf, HandleOf
  <2>1. i \in Indices(t) /\ ObjectOf(t, i) \in Object /\ <<t, i>> \in ToSet(waits[ObjectOf(t, i)])
    BY LinkedNode
  <2>2. CASE ObjectOf(t, i) # o
    BY <1>3, <1>4, <2>1, <2>2 DEF IInv, NoMissedSignal, TypeOK
  <2>3. CASE ObjectOf(t, i) = o /\ o \in Notification
    BY <1>2, <1>3, <2>1, <2>3
  <2>4. CASE ObjectOf(t, i) = o /\ o \notin Notification
    <3>1. waits[o] = <<>>
      BY <1>1, <1>4, <2>4 DEF IInv, TypeOK
    <3> QED BY <2>1, <2>4, <3>1 DEF ToSet
  <2> QED BY <2>2, <2>3, <2>4
<1> QED BY <1>8, <1>9, <1>10, <1>13, <1>14, <1>15, <1>16 DEF IInv

(* Closing, and the notification of the condition. *)
LEMMA OnCloseHandleStep == ASSUME IInv, NEW h \in Handle, OnCloseHandle(h) PROVE IInv'
<1>1. /\ closing' = [closing EXCEPT ![h] = TRUE]
      /\ lock' = [lock EXCEPT ![object[h]] = h]
      /\ UNCHANGED <<object, signalled, waits, linked, pending, bits, first, failed, done,
                     call, idx, unreg, expired>>
  BY DEF OnCloseHandle, contextVars
<1>2. /\ pc' \in [Waiter -> {"Idle"} \cup MultiPcs \cup SinglePcs]
      /\ \A t \in Waiter :
           pc'[t] = pc[t] \/ (pc[t] = "CvBlocked" /\ pc'[t] = "CvAwake")
  BY NotifyPcs DEF OnCloseHandle, IInv
<1>3. object[h] \in Object /\ lock[object[h]] = NoHandle
  BY DEF IInv, TypeOK, OnCloseHandle, Live, Free
<1>4. TypeOK' /\ UsesLive'
  BY <1>1, <1>2 DEF IInv, TypeOK, UsesLive, Live, Indices, HandleOf
<1>5. LockOwner'
  BY <1>1, <1>3 DEF IInv, TypeOK, LockOwner
<1>6. Phases'
  BY <1>1, <1>2 DEF IInv, Phases, Indices, MultiPcs, RegisterPcs
<1>7. ASSUME NEW t \in Waiter, pc[t] \in MultiPcs PROVE pc'[t] = pc[t]
  BY <1>2, <1>7 DEF MultiPcs, RegisterPcs
<1>8. ASSUME NEW t \in Waiter PROVE Cleanup(t)' = Cleanup(t)
  BY <1>1, <1>2 DEF Cleanup
<1>9. NodesAlive'
  <2> SUFFICES ASSUME NEW q \in Object, NEW n \in ToSet(waits[q])
               PROVE  /\ pc'[n[1]] \in MultiPcs
                      /\ n[2] \in Indices(n[1])' /\ ObjectOf(n[1], n[2])' = q
                      /\ n[2] \in linked'[n[1]]
                      /\ n[2] \in Cleanup(n[1])'
    BY <1>1 DEF NodesAlive
  <2> QED BY <1>1, <1>7, <1>8, ListedNode DEF Indices, ObjectOf, HandleOf
<1>10. OwnerMeansListed' /\ NoMissedSignal'
  BY <1>1 DEF IInv, OwnerMeansListed, NoMissedSignal, ObjectOf, HandleOf
<1>11. Accounted'
  BY <1>1, <1>8 DEF IInv, TypeOK, Accounted, HandleOf
<1>12. ClosedOwnsNothing'
  <2> SUFFICES ASSUME NEW t \in Waiter, NEW i \in linked[t], closing'[HandleOf(t, i)]
               PROVE  lock'[ObjectOf(t, i)] = HandleOf(t, i)
    BY <1>1 DEF ClosedOwnsNothing, ClosingBy, ObjectOf, HandleOf
  <2>1. HandleOf(t, i) \in Handle /\ ObjectOf(t, i) \in Object
    BY LinkedNode
  <2>2. CASE HandleOf(t, i) = h
    BY <1>1, <1>3, <2>1, <2>2 DEF IInv, TypeOK, ObjectOf
  <2>3. CASE HandleOf(t, i) # h
    <3>1. closing[HandleOf(t, i)]
      BY <1>1, <2>1, <2>3 DEF IInv, TypeOK
    <3>2. lock[ObjectOf(t, i)] = HandleOf(t, i)
      BY <3>1 DEF IInv, ClosedOwnsNothing, ClosingBy, ObjectOf
    <3> QED BY <1>1, <1>3, <2>1, <3>2, HandleAssumption DEF IInv, TypeOK
  <2> QED BY <2>2, <2>3
<1> QED BY <1>4, <1>5, <1>6, <1>9, <1>10, <1>11, <1>12 DEF IInv

(* A round of the loop of OnCloseHandle: the node leaves the list and its context *)
(* together.                                                                      *)
LEMMA CloseNodeStep == ASSUME IInv, NEW h \in Handle, CloseNode(h) PROVE IInv'
<1> DEFINE o == object[h]
<1>1. PICK k \in Owned(h) :
        LET t == waits[o][k][1]
            i == waits[o][k][2]
        IN  /\ waits' = UnlinkWait(o, <<t, i>>)
            /\ linked' = [linked EXCEPT ![t] = @ \ {i}]
            /\ EventSignalled({<<t, i>>}, TRUE)
  BY DEF CloseNode
<1> DEFINE n == waits[o][k]
           u == n[1]
           j == n[2]
<1>2. /\ UNCHANGED <<object, closing, signalled, lock, pc, call, idx, unreg, expired>>
      /\ o \in Object /\ lock[o] = h
  BY DEF CloseNode, threadVars, IInv, TypeOK, Live, ClosingBy
<1>3. n \in ToSet(waits[o]) /\ HandleOf(u, j) = h
  BY DEF Owned, ToSet
<1>4. /\ u \in Waiter /\ j \in Nat /\ n = <<u, j>>
      /\ j \in linked[u] /\ j \in Indices(u) /\ ObjectOf(u, j) = o /\ pc[u] \in MultiPcs
  <2> HIDE DEF o, n
  <2> QED BY <1>2, <1>3, ListedNode
<1>5. /\ waits' = [waits EXCEPT ![o] = RemoveFirst(@, n)]
      /\ linked' = [linked EXCEPT ![u] = @ \ {j}]
      /\ EventSignalled({n}, TRUE)
  BY <1>1, <1>4 DEF UnlinkWait
<1> HIDE DEF o, n, u, j
<1>6. closing[h]
  BY <1>2, HandleAssumption DEF IInv, LockOwner
<1>7. /\ RemoveFirst(waits[o], n) \in Seq(Waiter \X Nat)
      /\ ToSet(RemoveFirst(waits[o], n)) = ToSet(waits[o]) \ {n}
      /\ IsInjective(RemoveFirst(waits[o], n))
  BY <1>2, <1>3, RemoveNode DEF IInv, TypeOK, OwnerMeansListed
<1>8. /\ bits' \in [Waiter -> SUBSET Nat]
      /\ pending' \in [Waiter -> SUBSET Nat]
      /\ first' \in [Waiter -> Nat]
      /\ failed' \in [Waiter -> BOOLEAN]
      /\ done' \in [Waiter -> BOOLEAN]
      /\ \A t \in Waiter :
           /\ bits'[t] = bits[t] \cup {i \in Indices(t) : <<t, i>> \in {n}}
           /\ pending'[t] = pending[t] \ {i \in Indices(t) : TRUE /\ <<t, i>> \in {n}}
           /\ first'[t] \in Indices(t) \cup {0}
           /\ (\A i \in Indices(t) : <<t, i>> \notin {n}) =>
                /\ bits'[t] = bits[t] /\ first'[t] = first[t]
                /\ done'[t] = done[t] /\ failed'[t] = failed[t]
  BY <1>5, EventSignalledType DEF IInv
<1>9. ASSUME NEW t \in Waiter
      PROVE  /\ bits[t] \subseteq bits'[t] /\ bits'[t] \subseteq Indices(t)
             /\ pending'[t] \subseteq pending[t]
             /\ linked'[t] \subseteq linked[t]
             /\ \A i \in Indices(t) : <<t, i>> # n =>
                  /\ i \in pending[t] => i \in pending'[t]
                  /\ i \in linked[t] => i \in linked'[t]
             /\ t # u => /\ bits'[t] = bits[t] /\ first'[t] = first[t]
                         /\ done'[t] = done[t] /\ failed'[t] = failed[t]
  BY <1>4, <1>5, <1>8 DEF IInv, TypeOK
<1>10. ASSUME NEW q \in Object, NEW m \in ToSet(waits'[q])
       PROVE  m \in ToSet(waits[q]) /\ m # n
  <2>1. CASE q = o
    BY <1>5, <1>7, <2>1 DEF IInv, TypeOK
  <2>2. CASE q # o
    <3>1. m \in ToSet(waits[q])
      BY <1>5, <2>2 DEF IInv, TypeOK
    <3>2. ObjectOf(m[1], m[2]) = q
      BY <3>1, ListedNode
    <3> QED BY <1>4, <2>2, <3>1, <3>2
  <2> QED BY <2>1, <2>2
<1>11. TypeOK'
  <2>1. waits' \in [Object -> Seq(Waiter \X Nat)]
    BY <1>2, <1>5, <1>7 DEF IInv, TypeOK
  <2>2. linked' \in [Waiter -> SUBSET Nat]
    BY <1>5 DEF IInv, TypeOK
  <2>3. \A t \in Waiter : linked'[t] \cup pending'[t] \cup bits'[t] \cup unreg[t] \subseteq Indices(t)
    BY <1>9 DEF IInv, TypeOK
  <2> QED BY <1>2, <1>8, <2>1, <2>2, <2>3 DEF IInv, TypeOK, Indices
<1>12. UsesLive' /\ LockOwner'
  BY <1>2 DEF IInv, UsesLive, LockOwner, Live, Indices, HandleOf
<1>13. Phases'
  <2>1. ASSUME NEW t \in Waiter, pc[t] \notin MultiPcs
        PROVE  /\ pending'[t] = {} /\ bits'[t] = {}
               /\ first'[t] = 0 /\ idx'[t] = 0 /\ ~done'[t] /\ ~failed'[t]
    BY <1>2, <1>4, <1>9, <2>1 DEF IInv, Phases
  <2>2. ASSUME NEW t \in Waiter PROVE pending'[t] \cup linked'[t] \subseteq pending[t] \cup linked[t]
    BY <1>9
  <2>3. ASSUME NEW t \in Waiter, pc[t] = "Unregister" PROVE pending'[t] = {}
    BY <1>9, <2>3 DEF IInv, Phases
  <2> QED BY <1>2, <2>1, <2>2, <2>3 DEF IInv, Phases, Indices
<1>14. NodesAlive'
  <2> SUFFICES ASSUME NEW q \in Object, NEW m \in ToSet(waits'[q])
               PROVE  /\ pc'[m[1]] \in MultiPcs
                      /\ m[2] \in Indices(m[1])' /\ ObjectOf(m[1], m[2])' = q
                      /\ m[2] \in linked'[m[1]]
                      /\ m[2] \in Cleanup(m[1])'
    BY DEF NodesAlive
  <2>1. m \in ToSet(waits[q]) /\ m # n
    BY <1>10
  <2>2. /\ m[1] \in Waiter /\ m = <<m[1], m[2]>>
        /\ m[2] \in linked[m[1]] /\ m[2] \in Indices(m[1])
        /\ ObjectOf(m[1], m[2]) = q
        /\ pc[m[1]] \in MultiPcs /\ m[2] \in Cleanup(m[1])
    BY <2>1, ListedNode
  <2>3. m[2] \in linked'[m[1]] /\ (m[2] \in pending[m[1]] => m[2] \in pending'[m[1]])
    BY <1>9, <2>1, <2>2
  <2> QED BY <1>2, <2>2, <2>3 DEF Cleanup, Indices, ObjectOf, HandleOf
<1>15. OwnerMeansListed'
  <2>1. ASSUME NEW t \in Waiter, NEW i \in linked'[t]
        PROVE  <<t, i>> \in ToSet(waits'[ObjectOf(t, i)])
    <3>1. i \in linked[t] /\ <<t, i>> # n
      BY <1>4, <1>5, <1>9 DEF IInv, TypeOK
    <3>2. <<t, i>> \in ToSet(waits[ObjectOf(t, i)]) /\ ObjectOf(t, i) \in Object
      BY <3>1, LinkedNode
    <3> QED BY <1>2, <1>5, <1>7, <3>1, <3>2 DEF IInv, TypeOK
  <2>2. \A q \in Object : IsInjective(waits'[q])
    BY <1>2, <1>5, <1>7 DEF IInv, TypeOK, OwnerMeansListed
  <2> QED BY <1>2, <2>1, <2>2 DEF OwnerMeansListed, ObjectOf, HandleOf
<1>16. Accounted'
  <2> SUFFICES ASSUME NEW t \in Waiter, NEW i \in Cleanup(t)'
               PROVE  i \in linked'[t] \/ closing[HandleOf(t, i)]
    BY <1>2 DEF Accounted, HandleOf
  <2>1. i \in Cleanup(t)
    BY <1>2, <1>9 DEF Cleanup
  <2>2. i \in linked[t] \/ closing[HandleOf(t, i)]
    BY <2>1 DEF IInv, Accounted
  <2>3. CASE i \in linked[t] /\ <<t, i>> # n
    BY <1>9, <2>3, LinkedNode
  <2>4. CASE <<t, i>> = n
    <3>1. t = u /\ i = j
      BY <1>4, <2>4
    <3> QED BY <1>3, <1>6, <3>1 DEF u, j
  <2> QED BY <2>2, <2>3, <2>4
<1>17. ClosedOwnsNothing'
  BY <1>2, <1>9 DEF IInv, ClosedOwnsNothing, ClosingBy, HandleOf
<1>18. NoMissedSignal'
  BY <1>2, <1>9 DEF IInv, NoMissedSignal, ObjectOf, HandleOf
<1> QED BY <1>11, <1>12, <1>13, <1>14, <1>15, <1>16, <1>17, <1>18 DEF IInv

(* The end of the loop: nothing of the handle is left in the list. *)
LEMMA CloseEndStep == ASSUME IInv, NEW h \in Handle, CloseEnd(h) PROVE IInv'
<1>1. /\ lock' = [lock EXCEPT ![object[h]] = NoHandle]
      /\ UNCHANGED <<object, closing, signalled, waits, linked, pending, bits, first, failed,
                     done, pc, call, idx, unreg, expired>>
      /\ object[h] \in Object /\ lock[object[h]] = h /\ Owned(h) = {}
  BY DEF CloseEnd, contextVars, threadVars, ClosingBy, Live, IInv, TypeOK
<1>2. TypeOK' /\ UsesLive' /\ Phases'
  BY <1>1 DEF IInv, TypeOK, UsesLive, Live, Phases, Indices, HandleOf
<1>3. LockOwner'
  BY <1>1 DEF IInv, TypeOK, LockOwner
<1>4. NodesAlive' /\ OwnerMeansListed' /\ Accounted' /\ NoMissedSignal'
  BY <1>1 DEF IInv, NodesAlive, OwnerMeansListed, Accounted, NoMissedSignal, Cleanup, Indices,
              ObjectOf, HandleOf
<1>5. ClosedOwnsNothing'
  <2> SUFFICES ASSUME NEW t \in Waiter, NEW i \in linked[t], closing[HandleOf(t, i)]
               PROVE  lock'[ObjectOf(t, i)] = HandleOf(t, i)
    BY <1>1 DEF ClosedOwnsNothing, ClosingBy, ObjectOf, HandleOf
  <2>1. lock[ObjectOf(t, i)] = HandleOf(t, i)
    BY DEF IInv, ClosedOwnsNothing, ClosingBy, ObjectOf
  <2>2. <<t, i>> \in ToSet(waits[ObjectOf(t, i)]) /\ ObjectOf(t, i) \in Object
    BY LinkedNode
  <2>3. CASE ObjectOf(t, i) = object[h]
    <3>1. PICK k \in DOMAIN waits[object[h]] : waits[object[h]][k] = <<t, i>>
      BY <2>2, <2>3 DEF ToSet
    <3>2. k \in Owned(h)
      BY <1>1, <2>1, <2>3, <3>1 DEF Owned
    <3> QED BY <1>1, <3>2
  <2>4. CASE ObjectOf(t, i) # object[h]
    BY <1>1, <2>1, <2>2, <2>4 DEF IInv, TypeOK
  <2> QED BY <2>3, <2>4
<1> QED BY <1>2, <1>3, <1>4, <1>5 DEF IInv

-----------------------------------------------------------------------------
(* Steps of a thread *)

(* A call begins: the thread has no node, so nothing in a list changes. *)
LEMMA StartStep ==
  ASSUME IInv, NEW t \in Waiter, StartMultiple(t) \/ StartSingle(t) PROVE IInv'
<1>1. PICK c \in Call :
        /\ call' = [call EXCEPT ![t] = c]
        /\ \A i \in DOMAIN c.events : Live(c.events[i])
  <2>1. CASE StartMultiple(t)
    <3>1. PICK a \in Arrays, all \in BOOLEAN :
            /\ \A i \in DOMAIN a : Live(a[i])
            /\ call' = [call EXCEPT ![t] = [events |-> a, waitAll |-> all]]
      BY <2>1 DEF StartMultiple
    <3>2. [events |-> a, waitAll |-> all] \in Call
      BY DEF Call
    <3> QED BY <3>1, <3>2
  <2>2. CASE StartSingle(t)
    <3>1. PICK h \in Singles :
            /\ Live(h)
            /\ call' = [call EXCEPT ![t] = [events |-> <<h>>, waitAll |-> FALSE]]
      BY <2>2 DEF StartSingle
    <3>2. [events |-> <<h>>, waitAll |-> FALSE] \in Call
      BY DEF Call
    <3>3. \A i \in DOMAIN <<h>> : <<h>>[i] = h
      OBVIOUS
    <3> QED BY <3>1, <3>2, <3>3
  <2> QED BY <2>1, <2>2
<1>2. /\ pc[t] = "Idle"
      /\ \/ pc' = [pc EXCEPT ![t] = "Register"] /\ idx' = [idx EXCEPT ![t] = 1]
         \/ pc' = [pc EXCEPT ![t] = "Enter"] /\ idx' = idx
      /\ UNCHANGED <<object, closing, signalled, waits, lock, linked, pending, bits, first,
                     failed, done, unreg, expired>>
  BY DEF StartMultiple, StartSingle, Goto, eventVars, contextVars
<1>3. StartMultiple(t) => 1 \in DOMAIN c.events
  <2> SUFFICES ASSUME StartMultiple(t) PROVE 1 \in DOMAIN c.events
    OBVIOUS
  <2>1. PICK a \in Arrays : call'[t].events = a
    BY DEF StartMultiple, IInv, TypeOK
  <2>2. c.events = a
    BY <1>1, <2>1 DEF IInv, TypeOK
  <2>3. a \in Seq(Handle) /\ Len(a) > 0
    BY ArraysAssumption
  <2> QED BY <2>2, <2>3, LenProperties
<1>4. pc' = [pc EXCEPT ![t] = "Register"] => 1 \in DOMAIN c.events
  BY <1>2, <1>3 DEF StartMultiple, StartSingle, Goto, IInv, TypeOK
<1>5. /\ linked[t] = {} /\ pending[t] = {} /\ bits[t] = {} /\ unreg[t] = {}
      /\ first[t] = 0 /\ idx[t] = 0 /\ ~done[t] /\ ~failed[t]
  BY <1>2, NothingLinked DEF IInv, Phases, MultiPcs, RegisterPcs
<1>6. /\ call'[t] = c /\ \A s \in Waiter : s # t => call'[s] = call[s]
      /\ \A s \in Waiter : s # t => pc'[s] = pc[s] /\ idx'[s] = idx[s]
  BY <1>1, <1>2 DEF IInv, TypeOK
<1>7. TypeOK'
  <2>1. pc' \in [Waiter -> {"Idle"} \cup MultiPcs \cup SinglePcs]
    BY <1>2 DEF IInv, TypeOK, MultiPcs, RegisterPcs, SinglePcs
  <2>2. call' \in [Waiter -> Call \cup {NoCall}] /\ idx' \in [Waiter -> Nat]
    BY <1>1, <1>2 DEF IInv, TypeOK
  <2>3. ASSUME NEW s \in Waiter
        PROVE  /\ linked[s] \cup pending[s] \cup bits[s] \cup unreg[s] \subseteq Indices(s)'
               /\ {first[s], idx'[s]} \subseteq Indices(s)' \cup {0}
    <3>1. CASE s = t
      BY <1>2, <1>4, <1>5, <1>6, <3>1 DEF Indices, IInv, TypeOK
    <3>2. CASE s # t
      BY <1>6, <3>2 DEF Indices, IInv, TypeOK
    <3> QED BY <3>1, <3>2
  <2> QED BY <1>2, <2>1, <2>2, <2>3 DEF IInv, TypeOK
<1>8. UsesLive'
  BY <1>1, <1>2, <1>6 DEF IInv, UsesLive, Live, Indices, HandleOf
<1>9. LockOwner'
  BY <1>2 DEF IInv, LockOwner
<1>10. Phases'
  <2> SUFFICES ASSUME NEW s \in Waiter
               PROVE  /\ pc'[s] \notin MultiPcs =>
                           /\ pending[s] = {} /\ bits[s] = {}
                           /\ first[s] = 0 /\ idx'[s] = 0 /\ ~done[s] /\ ~failed[s]
                      /\ pc'[s] # "Unregister" => unreg[s] = {}
                      /\ pc'[s] = "Unregister" => pending[s] = {}
                      /\ pc'[s] \in RegisterPcs =>
                           /\ idx'[s] \in Indices(s)'
                           /\ \A i \in pending[s] \cup linked[s] :
                                i < idx'[s] \/ (i = idx'[s] /\ pc'[s] # "Register")
    BY <1>2 DEF Phases
  <2>1. CASE s = t
    BY <1>2, <1>4, <1>5, <1>6, <2>1 DEF IInv, TypeOK, Indices, MultiPcs, RegisterPcs
  <2>2. CASE s # t
    BY <1>6, <2>2 DEF IInv, Phases, Indices
  <2> QED BY <2>1, <2>2
<1>11. ASSUME NEW s \in Waiter, NEW i \in linked[s]
       PROVE  s # t /\ HandleOf(s, i)' = HandleOf(s, i)
  BY <1>5, <1>6, <1>11 DEF HandleOf
<1>12. NodesAlive'
  <2> SUFFICES ASSUME NEW q \in Object, NEW n \in ToSet(waits[q])
               PROVE  /\ pc'[n[1]] \in MultiPcs
                      /\ n[2] \in Indices(n[1])' /\ ObjectOf(n[1], n[2])' = q
                      /\ n[2] \in linked[n[1]]
                      /\ n[2] \in Cleanup(n[1])'
    BY <1>2 DEF NodesAlive
  <2>1. /\ n[1] \in Waiter /\ n[2] \in linked[n[1]] /\ n[2] \in Indices(n[1])
        /\ ObjectOf(n[1], n[2]) = q /\ pc[n[1]] \in MultiPcs /\ n[2] \in Cleanup(n[1])
    BY ListedNode
  <2>2. n[1] # t
    BY <1>11, <2>1
  <2> QED BY <1>2, <1>6, <2>1, <2>2 DEF Cleanup, Indices, ObjectOf, HandleOf
<1>13. OwnerMeansListed' /\ ClosedOwnsNothing' /\ NoMissedSignal'
  BY <1>2, <1>11 DEF IInv, OwnerMeansListed, ClosedOwnsNothing, NoMissedSignal, ObjectOf, ClosingBy
<1>14. Accounted'
  <2> SUFFICES ASSUME NEW s \in Waiter, NEW i \in Cleanup(s)'
               PROVE  i \in linked[s] \/ closing[HandleOf(s, i)']
    BY <1>2 DEF Accounted, HandleOf
  <2>1. s # t
    BY <1>2, <1>5 DEF Cleanup, IInv, TypeOK
  <2>2. i \in Cleanup(s)
    BY <1>2, <1>6, <2>1 DEF Cleanup
  <2> QED BY <1>6, <2>1, <2>2 DEF IInv, Accounted, HandleOf
<1> QED BY <1>7, <1>8, <1>9, <1>10, <1>12, <1>13, <1>14 DEF IInv

(* A call ends: what the thread had has been cleaned up. *)
LEMMA ReturnStep ==
  ASSUME IInv, NEW t \in Waiter, Return(t) \/ ReturnSingle(t) PROVE IInv'
<1>1. /\ pc' = [pc EXCEPT ![t] = "Idle"]
      /\ call' = [call EXCEPT ![t] = NoCall]
      /\ \A s \in Waiter : s # t =>
           /\ bits'[s] = bits[s] /\ first'[s] = first[s] /\ idx'[s] = idx[s]
           /\ done'[s] = done[s] /\ failed'[s] = failed[s]
      /\ UNCHANGED <<object, closing, signalled, waits, lock, linked, pending, unreg>>
  <2>1. CASE Return(t)
    BY <2>1 DEF Return, Goto, eventVars, IInv, TypeOK
  <2>2. CASE ReturnSingle(t)
    BY <2>2 DEF ReturnSingle, Goto, eventVars, contextVars
  <2> QED BY <2>1, <2>2
<1>2. /\ linked[t] = {} /\ pending[t] = {} /\ unreg[t] = {}
      /\ bits'[t] = {} /\ first'[t] = 0 /\ idx'[t] = 0 /\ ~done'[t] /\ ~failed'[t]
  <2>1. CASE Return(t)
    BY <2>1, NothingLinked DEF Return, IInv, TypeOK, Phases
  <2>2. CASE ReturnSingle(t)
    BY <2>2, NothingLinked
       DEF ReturnSingle, contextVars, IInv, TypeOK, Phases, MultiPcs, RegisterPcs
  <2> QED BY <2>1, <2>2
<1>3. /\ bits' \in [Waiter -> SUBSET Nat] /\ first' \in [Waiter -> Nat]
      /\ idx' \in [Waiter -> Nat] /\ done' \in [Waiter -> BOOLEAN]
      /\ failed' \in [Waiter -> BOOLEAN] /\ expired' \in [Waiter -> BOOLEAN]
  <2>1. CASE Return(t)
    BY <2>1 DEF Return, IInv, TypeOK
  <2>2. CASE ReturnSingle(t)
    BY <2>2 DEF ReturnSingle, contextVars, IInv, TypeOK
  <2> QED BY <2>1, <2>2
<1>4. \A s \in Waiter : s # t => pc'[s] = pc[s] /\ call'[s] = call[s]
  BY <1>1 DEF IInv, TypeOK
<1>5. TypeOK'
  <2>1. /\ pc' \in [Waiter -> {"Idle"} \cup MultiPcs \cup SinglePcs]
        /\ call' \in [Waiter -> Call \cup {NoCall}]
    BY <1>1 DEF IInv, TypeOK
  <2>2. ASSUME NEW s \in Waiter
        PROVE  /\ linked[s] \cup pending[s] \cup bits'[s] \cup unreg[s] \subseteq Indices(s)'
               /\ {first'[s], idx'[s]} \subseteq Indices(s)' \cup {0}
    <3>1. CASE s = t
      BY <1>2, <3>1
    <3>2. CASE s # t
      BY <1>1, <1>4, <3>2 DEF Indices, IInv, TypeOK
    <3> QED BY <3>1, <3>2
  <2> QED BY <1>1, <1>3, <2>1, <2>2 DEF IInv, TypeOK
<1>6. Indices(t)' = {}
  BY <1>1, EmptySeq DEF IInv, TypeOK, Indices, NoCall
<1>7. UsesLive'
  BY <1>1, <1>4, <1>6 DEF IInv, UsesLive, Live, Indices, HandleOf
<1>8. LockOwner'
  BY <1>1 DEF IInv, LockOwner
<1>9. Phases'
  <2>1. pc'[t] = "Idle"
    BY <1>1 DEF IInv, TypeOK
  <2> SUFFICES ASSUME NEW s \in Waiter
               PROVE  /\ pc'[s] \notin MultiPcs =>
                           /\ pending[s] = {} /\ bits'[s] = {}
                           /\ first'[s] = 0 /\ idx'[s] = 0 /\ ~done'[s] /\ ~failed'[s]
                      /\ pc'[s] # "Unregister" => unreg[s] = {}
                      /\ pc'[s] = "Unregister" => pending[s] = {}
                      /\ pc'[s] \in RegisterPcs =>
                           /\ idx'[s] \in Indices(s)'
                           /\ \A i \in pending[s] \cup linked[s] :
                                i < idx'[s] \/ (i = idx'[s] /\ pc'[s] # "Register")
    BY <1>1 DEF Phases
  <2>2. CASE s = t
    BY <1>2, <2>1, <2>2 DEF RegisterPcs
  <2>3. CASE s # t
    BY <1>1, <1>4, <2>3 DEF IInv, Phases, Indices
  <2> QED BY <2>2, <2>3
<1>10. ASSUME NEW s \in Waiter, NEW i \in linked[s]
       PROVE  s # t /\ HandleOf(s, i)' = HandleOf(s, i)
  BY <1>2, <1>4, <1>10 DEF HandleOf
<1>11. NodesAlive'
  <2> SUFFICES ASSUME NEW q \in Object, NEW n \in ToSet(waits[q])
               PROVE  /\ pc'[n[1]] \in MultiPcs
                      /\ n[2] \in Indices(n[1])' /\ ObjectOf(n[1], n[2])' = q
                      /\ n[2] \in linked[n[1]]
                      /\ n[2] \in Cleanup(n[1])'
    BY <1>1 DEF NodesAlive
  <2>1. /\ n[1] \in Waiter /\ n[2] \in linked[n[1]] /\ n[2] \in Indices(n[1])
        /\ ObjectOf(n[1], n[2]) = q /\ pc[n[1]] \in MultiPcs /\ n[2] \in Cleanup(n[1])
    BY ListedNode
  <2>2. n[1] # t
    BY <1>10, <2>1
  <2> QED BY <1>1, <1>4, <2>1, <2>2 DEF Cleanup, Indices, ObjectOf, HandleOf
<1>12. OwnerMeansListed' /\ ClosedOwnsNothing' /\ NoMissedSignal'
  BY <1>1, <1>10 DEF IInv, OwnerMeansListed, ClosedOwnsNothing, NoMissedSignal, ObjectOf, ClosingBy
<1>13. Accounted'
  <2> SUFFICES ASSUME NEW s \in Waiter, NEW i \in Cleanup(s)'
               PROVE  i \in linked[s] \/ closing[HandleOf(s, i)']
    BY <1>1 DEF Accounted, HandleOf
  <2>1. s # t
    BY <1>1, <1>2 DEF Cleanup, IInv, TypeOK
  <2>2. i \in Cleanup(s)
    BY <1>1, <1>4, <2>1 DEF Cleanup
  <2> QED BY <1>4, <2>1, <2>2 DEF IInv, Accounted, HandleOf
<1> QED BY <1>5, <1>7, <1>8, <1>9, <1>11, <1>12, <1>13 DEF IInv

(* Event::RegisterWait: the node is refused by a closing handle, or linked, and told *)
(* of a signal that is already there.                                                *)
LEMMA RegisterWaitStep == ASSUME IInv, NEW t \in Waiter, RegisterWait(t) PROVE IInv'
<1> DEFINE i == idx[t]
           o == ObjectOf(t, i)
           n == <<t, i>>
<1>1. /\ pc[t] = "Register" /\ pc' = [pc EXCEPT ![t] = "Mark"]
      /\ UNCHANGED <<object, closing, lock, call, idx, unreg, expired>>
      /\ lock[o] = NoHandle
  BY DEF RegisterWait, Goto, Free, ObjectOf
<1>2. /\ i \in Indices(t) /\ i \in Nat /\ HandleOf(t, i) \in Handle /\ o \in Object
      /\ i \notin linked[t] /\ i \notin pending[t]
  <2>1. i \in Indices(t) /\ i \in Nat /\ i \notin linked[t] /\ i \notin pending[t]
    BY <1>1, ArrayType DEF IInv, TypeOK, Phases, RegisterPcs
  <2> QED BY <2>1, ArrayType DEF IInv, TypeOK, UsesLive, Live, ObjectOf
<1>3. n \notin ToSet(waits[o])
  <2> SUFFICES ASSUME n \in ToSet(waits[o]) PROVE FALSE
    OBVIOUS
  <2>1. n[1] = t /\ n[2] = i
    OBVIOUS
  <2> HIDE DEF n, o
  <2> QED BY <1>2, <2>1, ListedNode
<1>4. /\ Append(waits[o], n) \in Seq(Waiter \X Nat)
      /\ ToSet(Append(waits[o], n)) = ToSet(waits[o]) \cup {n}
      /\ IsInjective(Append(waits[o], n))
  <2>1. waits[o] \in Seq(Waiter \X Nat) /\ IsInjective(waits[o]) /\ n \in Waiter \X Nat
    BY <1>2 DEF IInv, TypeOK, OwnerMeansListed
  <2> HIDE DEF n, o
  <2> QED BY <1>3, <2>1, AppendNode
(* what the two outcomes have in common *)
<1>5. /\ \/ /\ closing[HandleOf(t, i)]
            /\ waits' = waits /\ linked' = linked /\ signalled' = signalled
         \/ /\ ~closing[HandleOf(t, i)]
            /\ waits' = [waits EXCEPT ![o] = Append(@, n)]
            /\ linked' = [linked EXCEPT ![t] = @ \cup {i}]
            /\ signalled' = [signalled EXCEPT ![o] = @ /\ o \in Notification]
            /\ signalled[o] => i \in bits'[t]
      /\ bits' \in [Waiter -> SUBSET Nat]
      /\ pending' = pending
      /\ first' \in [Waiter -> Nat]
      /\ failed' \in [Waiter -> BOOLEAN]
      /\ done' \in [Waiter -> BOOLEAN]
      /\ \A s \in Waiter :
           /\ bits[s] \subseteq bits'[s] /\ bits'[s] \subseteq Indices(s)
           /\ first'[s] \in Indices(s) \cup {0}
           /\ s # t => /\ bits'[s] = bits[s] /\ first'[s] = first[s]
                       /\ done'[s] = done[s] /\ failed'[s] = failed[s]
  <2> HIDE DEF i, o, n
  <2>0. n = <<t, i>> /\ o = ObjectOf(t, i)
    BY DEF n, o
  <2>1. ASSUME NEW f \in BOOLEAN, EventSignalled({n}, f)
        PROVE  /\ bits' \in [Waiter -> SUBSET Nat]
               /\ pending' = pending
               /\ first' \in [Waiter -> Nat]
               /\ failed' \in [Waiter -> BOOLEAN]
               /\ done' \in [Waiter -> BOOLEAN]
               /\ i \in bits'[t]
               /\ \A s \in Waiter :
                    /\ bits[s] \subseteq bits'[s] /\ bits'[s] \subseteq Indices(s)
                    /\ first'[s] \in Indices(s) \cup {0}
                    /\ s # t => /\ bits'[s] = bits[s] /\ first'[s] = first[s]
                                /\ done'[s] = done[s] /\ failed'[s] = failed[s]
    <3>1. /\ bits' \in [Waiter -> SUBSET Nat]
          /\ pending' \in [Waiter -> SUBSET Nat]
          /\ first' \in [Waiter -> Nat]
          /\ failed' \in [Waiter -> BOOLEAN]
          /\ done' \in [Waiter -> BOOLEAN]
          /\ \A s \in Waiter :
               /\ bits'[s] = bits[s] \cup {k \in Indices(s) : <<s, k>> \in {n}}
               /\ pending'[s] = pending[s] \ {k \in Indices(s) : f /\ <<s, k>> \in {n}}
               /\ first'[s] \in Indices(s) \cup {0}
               /\ (\A k \in Indices(s) : <<s, k>> \notin {n}) =>
                    /\ bits'[s] = bits[s] /\ first'[s] = first[s]
                    /\ done'[s] = done[s] /\ failed'[s] = failed[s]
      BY <2>1, EventSignalledType DEF IInv
    <3>2. ASSUME NEW s \in Waiter PROVE pending'[s] = pending[s]
      <4>1. ASSUME NEW k \in pending[s] PROVE <<s, k>> # n
        BY <1>2, <2>0
      <4> QED BY <3>1, <4>1
    <3>3. pending' = pending
      BY <3>1, <3>2 DEF IInv, TypeOK
    <3> QED BY <1>2, <2>0, <3>1, <3>3 DEF IInv, TypeOK
  <2>2. CASE Refuse(t)
    <3>1. EventSignalled({n}, TRUE) /\ closing[HandleOf(t, i)]
      BY <2>0, <2>2 DEF Refuse, i
    <3> QED BY <2>1, <2>2, <3>1 DEF Refuse
  <2>3. CASE Link(t)
    <3>1. /\ ~closing[HandleOf(t, i)]
          /\ waits' = [waits EXCEPT ![o] = Append(@, n)]
          /\ linked' = [linked EXCEPT ![t] = @ \cup {i}]
      BY <2>0, <2>3 DEF Link, LinkWait, i
    <3>2. CASE signalled[o]
      <4>1. /\ signalled' = [signalled EXCEPT ![o] = o \in Notification]
            /\ EventSignalled({n}, FALSE)
        BY <2>0, <2>3, <3>2 DEF Link, i
      <4>2. signalled' = [signalled EXCEPT ![o] = @ /\ o \in Notification]
        BY <3>2, <4>1, <1>2, <2>0 DEF IInv, TypeOK
      <4> HIDE DEF IInv
      <4>3. i \in bits'[t]
        BY <2>1, <4>1
      <4> QED BY <2>1, <3>1, <4>1, <4>2, <4>3
    <3>3. CASE ~signalled[o]
      <4>1. UNCHANGED <<signalled, pending, bits, first, failed, done>>
        BY <2>0, <2>3, <3>3 DEF Link, i
      <4>2. signalled' = [signalled EXCEPT ![o] = @ /\ o \in Notification]
        BY <1>2, <3>3, <4>1 DEF IInv, TypeOK
      <4> QED BY <3>1, <3>3, <4>1, <4>2 DEF IInv, TypeOK
    <3> QED BY <3>2, <3>3
  <2> QED BY <2>2, <2>3 DEF RegisterWait
<1> HIDE DEF o, n
<1>6. n = <<t, i>> /\ o = ObjectOf(t, i)
  BY DEF n, o
<1> HIDE DEF i
<1>7. ASSUME NEW s \in Waiter
      PROVE  /\ linked[s] \subseteq linked'[s]
             /\ linked'[s] \subseteq Indices(s)
             /\ \A k \in linked'[s] : k \in linked[s] \/ (s = t /\ k = i)
  BY <1>2, <1>5 DEF IInv, TypeOK
<1>8. ASSUME NEW q \in Object
      PROVE  /\ ToSet(waits[q]) \subseteq ToSet(waits'[q])
             /\ \A m \in ToSet(waits'[q]) :
                  m \in ToSet(waits[q]) \/ (m = n /\ q = o /\ i \in linked'[t])
             /\ IsInjective(waits'[q])
  <2>1. CASE waits' = waits
    BY <2>1 DEF IInv, OwnerMeansListed
  <2>2. CASE waits' = [waits EXCEPT ![o] = Append(@, n)] /\ i \in linked'[t]
    <3>1. waits'[o] = Append(waits[o], n) /\ (q # o => waits'[q] = waits[q])
      BY <1>2, <2>2 DEF IInv, TypeOK
    <3> QED BY <1>4, <2>2, <3>1 DEF IInv, OwnerMeansListed
  <2>3. linked' = [linked EXCEPT ![t] = @ \cup {i}] => i \in linked'[t]
    BY DEF IInv, TypeOK
  <2> QED BY <1>5, <2>1, <2>2, <2>3
<1>9. TypeOK'
  <2>0. waits' \in [Object -> Seq(Waiter \X Nat)]
    <3>1. waits \in [Object -> Seq(Waiter \X Nat)]
      BY DEF IInv, TypeOK
    <3> QED BY <1>4, <1>5, <3>1
  <2>1. linked' \in [Waiter -> SUBSET Nat]
    <3>1. linked \in [Waiter -> SUBSET Nat] /\ {i} \subseteq Nat
      BY <1>2 DEF IInv, TypeOK
    <3>2. CASE linked' = linked
      BY <3>1, <3>2
    <3>3. CASE linked' = [linked EXCEPT ![t] = @ \cup {i}]
      <4>1. linked[t] \cup {i} \in SUBSET Nat
        BY <3>1
      <4> QED BY <3>1, <3>3, <4>1
    <3> QED BY <1>5, <3>2, <3>3
  <2>2. signalled' \in [Object -> BOOLEAN]
    BY <1>5 DEF IInv, TypeOK
  <2>3. pc' \in [Waiter -> {"Idle"} \cup MultiPcs \cup SinglePcs]
    BY <1>1 DEF IInv, TypeOK, MultiPcs, RegisterPcs
  <2>4. \A s \in Waiter : linked'[s] \cup pending[s] \cup bits'[s] \cup unreg[s] \subseteq Indices(s)
    BY <1>5, <1>7 DEF IInv, TypeOK
  <2> QED BY <1>1, <1>5, <2>0, <2>1, <2>2, <2>3, <2>4 DEF IInv, TypeOK, Indices
<1>10. UsesLive' /\ LockOwner'
  BY <1>1 DEF IInv, UsesLive, LockOwner, Live, Indices, HandleOf
<1>11. pc'[t] = "Mark" /\ \A s \in Waiter : s # t => pc'[s] = pc[s]
  BY <1>1 DEF IInv, TypeOK
<1>12. Phases'
  <2> SUFFICES ASSUME NEW s \in Waiter
               PROVE  /\ pc'[s] \notin MultiPcs =>
                           /\ pending[s] = {} /\ bits'[s] = {}
                           /\ first'[s] = 0 /\ idx[s] = 0 /\ ~done'[s] /\ ~failed'[s]
                      /\ pc'[s] # "Unregister" => unreg[s] = {}
                      /\ pc'[s] = "Unregister" => pending[s] = {}
                      /\ pc'[s] \in RegisterPcs =>
                           /\ idx[s] \in Indices(s)
                           /\ \A k \in pending[s] \cup linked'[s] :
                                k < idx[s] \/ (k = idx[s] /\ pc'[s] # "Register")
    BY <1>1, <1>5 DEF Phases, Indices
  <2>1. CASE s = t
    <3>1. \A k \in pending[t] \cup linked[t] : k < i
      BY <1>1 DEF IInv, Phases, RegisterPcs, i
    <3> QED BY <1>1, <1>2, <1>7, <1>11, <2>1, <3>1 DEF IInv, Phases, MultiPcs, RegisterPcs, i
  <2>2. CASE s # t
    <3>1. \A k \in linked'[s] : k \in linked[s]
      BY <1>7, <2>2
    <3> QED BY <1>5, <1>11, <2>2, <3>1 DEF IInv, Phases
  <2> QED BY <2>1, <2>2
<1>13. ASSUME NEW s \in Waiter
       PROVE  /\ Cleanup(s) \subseteq Cleanup(s)'
              /\ \A k \in Cleanup(s)' : k \in Cleanup(s) \/ (s = t /\ k = i)
              /\ i \in Cleanup(t)'
  BY <1>1, <1>5, <1>11 DEF Cleanup, i
<1>14. NodesAlive'
  <2> SUFFICES ASSUME NEW q \in Object, NEW m \in ToSet(waits'[q])
               PROVE  /\ pc'[m[1]] \in MultiPcs
                      /\ m[2] \in Indices(m[1]) /\ ObjectOf(m[1], m[2]) = q
                      /\ m[2] \in linked'[m[1]]
                      /\ m[2] \in Cleanup(m[1])'
    BY <1>1 DEF NodesAlive, Indices, ObjectOf, HandleOf
  <2>1. CASE m \in ToSet(waits[q])
    <3>1. /\ m[1] \in Waiter /\ m[2] \in linked[m[1]] /\ m[2] \in Indices(m[1])
          /\ ObjectOf(m[1], m[2]) = q /\ pc[m[1]] \in MultiPcs /\ m[2] \in Cleanup(m[1])
      BY <2>1, ListedNode
    <3> QED BY <1>7, <1>11, <1>13, <3>1 DEF MultiPcs, RegisterPcs
  <2>2. CASE m = n /\ q = o /\ i \in linked'[t]
    <3>1. m[1] = t /\ m[2] = i
      BY <1>6, <2>2
    <3> QED BY <1>2, <1>6, <1>11, <1>13, <2>2, <3>1 DEF MultiPcs, RegisterPcs
  <2> QED BY <1>8, <2>1, <2>2
<1>15. OwnerMeansListed'
  <2>1. ASSUME NEW s \in Waiter, NEW k \in linked'[s]
        PROVE  <<s, k>> \in ToSet(waits'[ObjectOf(s, k)])
    <3>1. CASE k \in linked[s]
      BY <1>8, <3>1, LinkedNode
    <3>2. CASE k \notin linked[s]
      <4>1. s = t /\ k = i
        BY <1>7, <3>2
      <4>2. waits'[o] = Append(waits[o], n)
        BY <1>2, <1>5, <3>2, <4>1 DEF IInv, TypeOK
      <4> QED BY <1>4, <1>6, <4>1, <4>2
    <3> QED BY <3>1, <3>2
  <2> QED BY <1>1, <1>8, <2>1 DEF OwnerMeansListed, ObjectOf, HandleOf
<1>16. Accounted'
  <2> SUFFICES ASSUME NEW s \in Waiter, NEW k \in Cleanup(s)'
               PROVE  k \in linked'[s] \/ closing[HandleOf(s, k)]
    BY <1>1 DEF Accounted, HandleOf
  <2>1. CASE k \in Cleanup(s)
    BY <1>7, <2>1 DEF IInv, Accounted
  <2>2. CASE s = t /\ k = i
    BY <1>2, <1>5, <2>2 DEF IInv, TypeOK
  <2> QED BY <1>13, <2>1, <2>2
<1>17. ClosedOwnsNothing'
  <2> SUFFICES ASSUME NEW s \in Waiter, NEW k \in linked'[s], closing[HandleOf(s, k)]
               PROVE  lock[ObjectOf(s, k)] = HandleOf(s, k)
    BY <1>1 DEF ClosedOwnsNothing, ClosingBy, ObjectOf, HandleOf
  <2>1. k \in linked[s]
    BY <1>2, <1>5, <1>7 DEF IInv, TypeOK
  <2> QED BY <2>1 DEF IInv, ClosedOwnsNothing, ClosingBy, ObjectOf
<1>18. NoMissedSignal'
  <2> SUFFICES ASSUME NEW s \in Waiter, NEW k \in linked'[s], signalled'[ObjectOf(s, k)]
               PROVE  ObjectOf(s, k) \in Notification /\ k \in bits'[s]
    BY <1>1 DEF NoMissedSignal, ObjectOf, HandleOf
  <2>1. CASE k \in linked[s]
    <3>1. ObjectOf(s, k) \in Object
      BY <2>1, LinkedNode
    <3>2. signalled[ObjectOf(s, k)]
      BY <1>2, <1>5, <3>1 DEF IInv, TypeOK
    <3> QED BY <1>5, <2>1, <3>2 DEF IInv, NoMissedSignal
  <2>2. CASE k \notin linked[s]
    <3>1. s = t /\ k = i
      BY <1>7, <2>2
    <3>2. signalled[o] /\ o \in Notification /\ i \in bits'[t]
      BY <1>2, <1>5, <1>6, <2>2, <3>1 DEF IInv, TypeOK
    <3> QED BY <1>6, <3>1, <3>2
  <2> QED BY <2>1, <2>2
<1> QED BY <1>9, <1>10, <1>12, <1>14, <1>15, <1>16, <1>17, <1>18 DEF IInv


(* The condition-variable wait: it changes the signal, which it can only take back, *)
(* and the place of a thread that is not in WaitForMultipleObjects.                 *)
LEMMA SingleWaitStep ==
  ASSUME IInv, NEW t \in Waiter, EvaluateWait(t) \/ ExpireWait(t) \/ SpuriousWakeup(t)
  PROVE  IInv'
<1>1. /\ UNCHANGED <<object, closing, waits, lock, linked, pending, bits, first, failed, done,
                     call, idx, unreg>>
      /\ pc[t] \in {"Enter", "CvBlocked", "CvAwake"}
      /\ \E l \in {"GetClosing", "CvBlocked", "CvAwake"} : pc' = [pc EXCEPT ![t] = l]
      /\ expired' \in [Waiter -> BOOLEAN]
      /\ \/ signalled' = signalled
         \/ signalled' = [signalled EXCEPT ![ObjectOf(t, 1)] =
                            @ /\ (ObjectOf(t, 1) \in Notification \/ closing[HandleOf(t, 1)])]
  <2>1. CASE EvaluateWait(t) \/ ExpireWait(t)
    <3>1. CASE LeaveWait(t)
      <4>1. Ready(t) \in BOOLEAN /\ expired' = [expired EXCEPT ![t] = ~Ready(t)]
        BY <3>1 DEF LeaveWait, Ready
      <4>2. expired' \in [Waiter -> BOOLEAN]
        BY <4>1 DEF IInv, TypeOK
      <4> QED BY <2>1, <3>1, <4>2
              DEF EvaluateWait, ExpireWait, LeaveWait, Goto, CvPcs, contextVars
    <3>2. CASE Goto(t, "CvBlocked") /\ UNCHANGED <<signalled, expired>>
      BY <2>1, <3>2 DEF EvaluateWait, ExpireWait, Goto, CvPcs, contextVars, IInv, TypeOK
    <3> QED BY <2>1, <3>1, <3>2 DEF EvaluateWait, ExpireWait
  <2>2. CASE SpuriousWakeup(t)
    BY <2>2 DEF SpuriousWakeup, Goto, eventVars, contextVars, IInv, TypeOK
  <2> QED BY <2>1, <2>2
<1>2. /\ signalled' \in [Object -> BOOLEAN]
      /\ \A o \in Object : signalled'[o] => signalled[o]
  BY <1>1 DEF IInv, TypeOK
<1>3. /\ pc' \in [Waiter -> {"Idle"} \cup MultiPcs \cup SinglePcs]
      /\ pc[t] \notin MultiPcs \cup {"Mark", "Unregister"}
      /\ pc'[t] \notin MultiPcs \cup {"Mark", "Unregister"}
      /\ \A s \in Waiter : s # t => pc'[s] = pc[s]
  BY <1>1 DEF IInv, TypeOK, MultiPcs, RegisterPcs, SinglePcs, CvPcs
<1>4. TypeOK'
  BY <1>1, <1>2, <1>3 DEF IInv, TypeOK, Indices
<1>5. UsesLive' /\ LockOwner' /\ ClosedOwnsNothing'
  BY <1>1 DEF IInv, UsesLive, LockOwner, ClosedOwnsNothing, ClosingBy, Live, Indices, HandleOf
<1>6. Phases'
  <2> SUFFICES ASSUME NEW s \in Waiter
               PROVE  /\ pc'[s] \notin MultiPcs =>
                           /\ pending[s] = {} /\ bits[s] = {}
                           /\ first[s] = 0 /\ idx[s] = 0 /\ ~done[s] /\ ~failed[s]
                      /\ pc'[s] # "Unregister" => unreg[s] = {}
                      /\ pc'[s] = "Unregister" => pending[s] = {}
                      /\ pc'[s] \in RegisterPcs =>
                           /\ idx[s] \in Indices(s)
                           /\ \A k \in pending[s] \cup linked[s] :
                                k < idx[s] \/ (k = idx[s] /\ pc'[s] # "Register")
    BY <1>1 DEF Phases, Indices
  <2>1. CASE s = t
    BY <1>3, <2>1 DEF IInv, Phases, MultiPcs
  <2>2. CASE s # t
    BY <1>3, <2>2 DEF IInv, Phases
  <2> QED BY <2>1, <2>2
<1>7. ASSUME NEW s \in Waiter PROVE Cleanup(s)' = Cleanup(s)
  <2>1. pc'[s] = "Mark" <=> pc[s] = "Mark"
    BY <1>3
  <2> QED BY <1>1, <2>1 DEF Cleanup
<1>8. NodesAlive'
  <2> SUFFICES ASSUME NEW q \in Object, NEW m \in ToSet(waits[q])
               PROVE  /\ pc'[m[1]] \in MultiPcs
                      /\ m[2] \in Indices(m[1]) /\ ObjectOf(m[1], m[2]) = q
                      /\ m[2] \in linked[m[1]]
                      /\ m[2] \in Cleanup(m[1])'
    BY <1>1 DEF NodesAlive, Indices, ObjectOf, HandleOf
  <2> QED BY <1>3, <1>7, ListedNode
<1>9. OwnerMeansListed'
  BY <1>1 DEF IInv, OwnerMeansListed, ObjectOf, HandleOf
<1>10. Accounted'
  BY <1>1, <1>7 DEF IInv, Accounted, HandleOf
<1>11. NoMissedSignal'
  <2> SUFFICES ASSUME NEW s \in Waiter, NEW k \in linked[s], signalled'[ObjectOf(s, k)]
               PROVE  ObjectOf(s, k) \in Notification /\ k \in bits[s]
    BY <1>1 DEF NoMissedSignal, ObjectOf, HandleOf
  <2>1. ObjectOf(s, k) \in Object
    BY LinkedNode
  <2> QED BY <1>2, <2>1 DEF IInv, NoMissedSignal
<1> QED BY <1>4, <1>5, <1>6, <1>8, <1>9, <1>10, <1>11 DEF IInv

(* The steps of WaitForMultipleObjects that only move its own bookkeeping: what has *)
(* to be cleaned up passes from the current index to Pending to pendingIndices.     *)
LEMMA BookkeepingStep ==
  ASSUME IInv, NEW t \in Waiter,
         MarkRegistered(t) \/ Completed(t) \/ Wake(t) \/ Expire(t) \/ Collect(t)
  PROVE  IInv'
<1>1. /\ UNCHANGED <<object, closing, signalled, waits, lock, linked, bits, first, failed,
                     done, call>>
      /\ expired' \in [Waiter -> BOOLEAN]
      /\ \A s \in Waiter : s # t => /\ pc'[s] = pc[s] /\ pending'[s] = pending[s]
                                    /\ idx'[s] = idx[s] /\ unreg'[s] = unreg[s]
      /\ DOMAIN pc' = Waiter /\ DOMAIN pending' = Waiter
      /\ DOMAIN idx' = Waiter /\ DOMAIN unreg' = Waiter
      /\ pc' = [pc EXCEPT ![t] = pc'[t]] /\ pending' = [pending EXCEPT ![t] = pending'[t]]
      /\ idx' = [idx EXCEPT ![t] = idx'[t]] /\ unreg' = [unreg EXCEPT ![t] = unreg'[t]]
  <2>1. CASE MarkRegistered(t)
    BY <2>1 DEF MarkRegistered, Goto, eventVars, IInv, TypeOK
  <2>2. CASE Completed(t)
    BY <2>2 DEF Completed, Goto, eventVars, contextVars, IInv, TypeOK
  <2>3. CASE Wake(t)
    BY <2>3 DEF Wake, Goto, eventVars, contextVars, IInv, TypeOK
  <2>4. CASE Expire(t)
    BY <2>4 DEF Expire, Goto, eventVars, contextVars, IInv, TypeOK
  <2>5. CASE Collect(t)
    BY <2>5 DEF Collect, Goto, eventVars, IInv, TypeOK
  <2> QED BY <2>1, <2>2, <2>3, <2>4, <2>5
(* where the thread is before and after, and what it has to clean up *)
<1>2. /\ pc[t] \in MultiPcs /\ pc'[t] \in MultiPcs
      /\ pc'[t] # "Mark"
      /\ pending'[t] \subseteq Cleanup(t) /\ unreg'[t] \subseteq Cleanup(t)
      /\ Cleanup(t) \subseteq pending'[t] \cup unreg'[t]
      /\ pc'[t] # "Unregister" => unreg'[t] = {}
      /\ pc'[t] = "Unregister" => pending'[t] = {}
      /\ pc'[t] \in RegisterPcs =>
           /\ idx'[t] \in Indices(t)
           /\ \A k \in pending'[t] \cup linked[t] :
                k < idx'[t] \/ (k = idx'[t] /\ pc'[t] # "Register")
      /\ idx'[t] \in Indices(t) \cup {0}
  <2>1. CASE MarkRegistered(t)
    <3>1. /\ pc[t] = "Mark" /\ pc'[t] = "Completed"
          /\ pending'[t] = pending[t] \cup {idx[t]} /\ idx'[t] = idx[t] /\ unreg'[t] = unreg[t]
      BY <2>1 DEF MarkRegistered, Goto, IInv, TypeOK
    <3>2. unreg[t] = {} /\ idx[t] \in Indices(t)
      BY <3>1 DEF IInv, Phases, RegisterPcs
    <3> QED BY <3>1, <3>2 DEF IInv, Phases, Cleanup, MultiPcs, RegisterPcs
  <2>2. CASE Completed(t) /\ HasNext(t)
    <3>1. /\ pc[t] = "Completed" /\ pc'[t] = "Register"
          /\ pending'[t] = pending[t] /\ idx'[t] = idx[t] + 1 /\ unreg'[t] = unreg[t]
      BY <2>2 DEF Completed, Goto, contextVars, IInv, TypeOK
    <3>2. unreg[t] = {} /\ idx[t] \in Indices(t)
      BY <3>1 DEF IInv, Phases, RegisterPcs
    <3>3. idx[t] + 1 \in Indices(t) /\ idx[t] \in Nat
      <4>1. call[t].events \in Seq(Handle)
        BY ArrayType DEF IInv
      <4>2. DOMAIN call[t].events = 1..Len(call[t].events) /\ Len(call[t].events) \in Nat
        BY <4>1, LenProperties
      <4> QED BY <2>2, <3>2, <4>2 DEF HasNext, Indices
    <3>4. \A k \in pending[t] \cup linked[t] : k < idx[t] + 1
      <4> TAKE k \in pending[t] \cup linked[t]
      <4>1. k \in Nat
        BY DEF IInv, TypeOK
      <4>2. k < idx[t] \/ k = idx[t]
        BY <3>1 DEF IInv, Phases, RegisterPcs
      <4> QED BY <3>3, <4>1, <4>2
    <3> QED BY <3>1, <3>2, <3>3, <3>4 DEF Cleanup, MultiPcs, RegisterPcs
  <2>3. CASE (Completed(t) /\ ~HasNext(t)) \/ Wake(t) \/ Expire(t)
    <3>1. /\ pc[t] \in {"Completed", "Block"} /\ pc'[t] \in {"Block", "Collect"}
          /\ pending'[t] = pending[t] /\ idx'[t] = idx[t] /\ unreg'[t] = unreg[t]
      BY <2>3 DEF Completed, Wake, Expire, Goto, contextVars, IInv, TypeOK
    <3>2. unreg[t] = {} /\ idx[t] \in Indices(t) \cup {0}
      BY <3>1 DEF IInv, Phases, TypeOK
    <3> QED BY <3>1, <3>2 DEF Cleanup, MultiPcs, RegisterPcs
  <2>4. CASE Collect(t)
    <3>1. /\ pc[t] = "Collect" /\ pc'[t] = "Unregister"
          /\ pending'[t] = {} /\ idx'[t] = idx[t] /\ unreg'[t] = pending[t]
      BY <2>4 DEF Collect, Goto, IInv, TypeOK
    <3>2. unreg[t] = {} /\ idx[t] \in Indices(t) \cup {0}
      BY <3>1 DEF IInv, Phases, TypeOK
    <3> QED BY <3>1, <3>2 DEF Cleanup, MultiPcs, RegisterPcs
  <2> QED BY <2>1, <2>2, <2>3, <2>4
<1>3. Cleanup(t) \subseteq Indices(t) /\ Indices(t) \subseteq Nat
  <2>1. Indices(t) \subseteq Nat
    BY ArrayType DEF IInv
  <2>2. pc[t] = "Mark" => idx[t] \in Indices(t)
    BY DEF IInv, Phases, RegisterPcs
  <2> QED BY <2>1, <2>2 DEF IInv, TypeOK, Cleanup
<1>4. ASSUME NEW s \in Waiter PROVE Cleanup(s)' = Cleanup(s)
  <2>1. CASE s = t
    BY <1>2, <2>1 DEF Cleanup
  <2>2. CASE s # t
    BY <1>1, <2>2 DEF Cleanup
  <2> QED BY <2>1, <2>2
<1>5. TypeOK'
  <2>1. pc' \in [Waiter -> {"Idle"} \cup MultiPcs \cup SinglePcs]
    BY <1>1, <1>2 DEF IInv, TypeOK
  <2>2. pending'[t] \in SUBSET Nat /\ unreg'[t] \in SUBSET Nat /\ idx'[t] \in Nat
    BY <1>2, <1>3
  <2>3. pending' \in [Waiter -> SUBSET Nat]
    BY <1>1, <2>2 DEF IInv, TypeOK
  <2>4. unreg' \in [Waiter -> SUBSET Nat]
    BY <1>1, <2>2 DEF IInv, TypeOK
  <2>5. idx' \in [Waiter -> Nat]
    BY <1>1, <2>2 DEF IInv, TypeOK
  <2>6. ASSUME NEW s \in Waiter
        PROVE  /\ linked[s] \cup pending'[s] \cup bits[s] \cup unreg'[s] \subseteq Indices(s)
               /\ {first[s], idx'[s]} \subseteq Indices(s) \cup {0}
    <3>1. CASE s = t
      BY <1>2, <1>3, <3>1 DEF IInv, TypeOK
    <3>2. CASE s # t
      BY <1>1, <3>2 DEF IInv, TypeOK
    <3> QED BY <3>1, <3>2
  <2> QED BY <1>1, <2>1, <2>3, <2>4, <2>5, <2>6 DEF IInv, TypeOK, Indices
<1>6. UsesLive' /\ LockOwner' /\ ClosedOwnsNothing' /\ NoMissedSignal' /\ OwnerMeansListed'
  BY <1>1 DEF IInv, UsesLive, LockOwner, ClosedOwnsNothing, NoMissedSignal, OwnerMeansListed,
              ClosingBy, Live, Indices, HandleOf, ObjectOf
<1>7. Phases'
  <2> SUFFICES ASSUME NEW s \in Waiter
               PROVE  /\ pc'[s] \notin MultiPcs =>
                           /\ pending'[s] = {} /\ bits[s] = {}
                           /\ first[s] = 0 /\ idx'[s] = 0 /\ ~done[s] /\ ~failed[s]
                      /\ pc'[s] # "Unregister" => unreg'[s] = {}
                      /\ pc'[s] = "Unregister" => pending'[s] = {}
                      /\ pc'[s] \in RegisterPcs =>
                           /\ idx'[s] \in Indices(s)
                           /\ \A k \in pending'[s] \cup linked[s] :
                                k < idx'[s] \/ (k = idx'[s] /\ pc'[s] # "Register")
    BY <1>1 DEF Phases, Indices
  <2>1. CASE s = t
    BY <1>2, <2>1
  <2>2. CASE s # t
    BY <1>1, <2>2 DEF IInv, Phases
  <2> QED BY <2>1, <2>2
<1>8. NodesAlive'
  <2> SUFFICES ASSUME NEW q \in Object, NEW m \in ToSet(waits[q])
               PROVE  /\ pc'[m[1]] \in MultiPcs
                      /\ m[2] \in Indices(m[1]) /\ ObjectOf(m[1], m[2]) = q
                      /\ m[2] \in linked[m[1]]
                      /\ m[2] \in Cleanup(m[1])'
    BY <1>1 DEF NodesAlive, Indices, ObjectOf, HandleOf
  <2>1. m[1] = t \/ (m[1] \in Waiter /\ pc'[m[1]] = pc[m[1]])
    BY <1>1, ListedNode
  <2> QED BY <1>2, <1>4, <2>1, ListedNode
<1>9. Accounted'
  BY <1>1, <1>4 DEF IInv, Accounted, HandleOf
<1> QED BY <1>5, <1>6, <1>7, <1>8, <1>9 DEF IInv

(* Event::UnregisterWait: the node, if it is still linked, leaves the list before *)
(* its index leaves pendingIndices.                                               *)
LEMMA UnregisterWaitStep == ASSUME IInv, NEW t \in Waiter, UnregisterWait(t) PROVE IInv'
<1>1. PICK i \in unreg[t] :
        /\ IF i \in linked[t]
           THEN /\ waits' = UnlinkWait(ObjectOf(t, i), <<t, i>>)
                /\ linked' = [linked EXCEPT ![t] = @ \ {i}]
           ELSE UNCHANGED <<waits, linked>>
        /\ unreg' = [unreg EXCEPT ![t] = @ \ {i}]
  BY DEF UnregisterWait
<1> DEFINE o == ObjectOf(t, i)
           n == <<t, i>>
<1>2. /\ UNCHANGED <<object, closing, signalled, lock, pending, bits, first, failed, done, pc,
                     call, idx, expired>>
      /\ pc[t] = "Unregister"
  BY <1>1 DEF UnregisterWait, IInv, Phases
<1>3. linked' = [linked EXCEPT ![t] = @ \ {i}]
  <2>1. CASE i \in linked[t]
    BY <1>1, <2>1
  <2>2. CASE i \notin linked[t]
    BY <1>1, <2>2 DEF IInv, TypeOK
  <2> QED BY <2>1, <2>2
(* In both cases the node is in no list afterwards. *)
<1>4. /\ waits' \in [Object -> Seq(Waiter \X Nat)]
      /\ \A q \in Object : /\ ToSet(waits'[q]) = ToSet(waits[q]) \ {n}
                           /\ IsInjective(waits'[q])
  <2>1. n[1] = t /\ n[2] = i
    OBVIOUS
  <2>2. CASE i \in linked[t]
    <3>1. o \in Object /\ n \in ToSet(waits[o])
      BY <2>2, LinkedNode
    <3>2. waits' = [waits EXCEPT ![o] = RemoveFirst(@, n)]
      BY <1>1, <2>2 DEF UnlinkWait
    <3> HIDE DEF n, o
    <3>3. /\ RemoveFirst(waits[o], n) \in Seq(Waiter \X Nat)
          /\ ToSet(RemoveFirst(waits[o], n)) = ToSet(waits[o]) \ {n}
          /\ IsInjective(RemoveFirst(waits[o], n))
      BY <3>1, RemoveNode DEF IInv, TypeOK, OwnerMeansListed
    <3>4. waits' \in [Object -> Seq(Waiter \X Nat)]
      BY <3>1, <3>2, <3>3 DEF IInv, TypeOK
    <3>5. ASSUME NEW q \in Object, q # o
          PROVE  waits'[q] = waits[q] /\ n \notin ToSet(waits[q])
      <4>1. ObjectOf(t, i) = o
        BY DEF o
      <4> QED BY <2>1, <3>1, <3>2, <3>5, <4>1, ListedNode DEF IInv, TypeOK
    <3>6. waits'[o] = RemoveFirst(waits[o], n)
      BY <3>1, <3>2 DEF IInv, TypeOK
    <3>7. ASSUME NEW q \in Object
          PROVE  ToSet(waits'[q]) = ToSet(waits[q]) \ {n} /\ IsInjective(waits'[q])
      <4>1. CASE q = o
        BY <3>3, <3>6, <4>1
      <4>2. CASE q # o
        BY <3>5, <4>2 DEF IInv, OwnerMeansListed
      <4> QED BY <4>1, <4>2
    <3> QED BY <3>4, <3>7
  <2>3. CASE i \notin linked[t]
    <3>1. waits' = waits
      BY <1>1, <2>3
    <3> HIDE DEF n
    <3>2. \A q \in Object : n \notin ToSet(waits[q])
      BY <2>1, <2>3, ListedNode
    <3> QED BY <3>1, <3>2 DEF IInv, TypeOK, OwnerMeansListed
  <2> QED BY <2>2, <2>3
<1>5. ASSUME NEW s \in Waiter
      PROVE  /\ linked'[s] \subseteq linked[s] /\ unreg'[s] \subseteq unreg[s]
             /\ \A k \in linked[s] : <<s, k>> # n => k \in linked'[s]
             /\ \A k \in unreg[s] : <<s, k>> # n => k \in unreg'[s]
             /\ \A k \in linked'[s] \cup unreg'[s] : <<s, k>> # n
  BY <1>1, <1>3 DEF IInv, TypeOK
<1>6. ASSUME NEW s \in Waiter
      PROVE  /\ Cleanup(s)' \subseteq Cleanup(s)
             /\ \A k \in Cleanup(s) : <<s, k>> # n => k \in Cleanup(s)'
             /\ \A k \in Cleanup(s)' : <<s, k>> # n
  <2>1. CASE s = t
    <3>1. pending[t] = {}
      BY <1>2 DEF IInv, Phases
    <3>2. Cleanup(t) = unreg[t] /\ Cleanup(t)' = unreg'[t]
      BY <1>2, <3>1 DEF Cleanup
    <3> QED BY <1>5, <2>1, <3>2
  <2>2. CASE s # t
    BY <1>2, <1>5, <2>2 DEF Cleanup
  <2> QED BY <2>1, <2>2
<1> HIDE DEF n, o
<1>7. TypeOK'
  <2>1. linked' \in [Waiter -> SUBSET Nat] /\ unreg' \in [Waiter -> SUBSET Nat]
    BY <1>1, <1>3 DEF IInv, TypeOK
  <2>2. \A s \in Waiter : linked'[s] \cup pending[s] \cup bits[s] \cup unreg'[s] \subseteq Indices(s)
    BY <1>5 DEF IInv, TypeOK
  <2> QED BY <1>2, <1>4, <2>1, <2>2 DEF IInv, TypeOK, Indices
<1>8. UsesLive' /\ LockOwner'
  BY <1>2 DEF IInv, UsesLive, LockOwner, Live, Indices, HandleOf
<1>9. Phases'
  <2>1. \A s \in Waiter : pc[s] # "Unregister" => unreg'[s] = {}
    BY <1>5 DEF IInv, Phases
  <2> QED BY <1>2, <1>5, <2>1 DEF IInv, Phases, Indices
<1>10. NodesAlive'
  <2> SUFFICES ASSUME NEW q \in Object, NEW m \in ToSet(waits'[q])
               PROVE  /\ pc[m[1]] \in MultiPcs
                      /\ m[2] \in Indices(m[1]) /\ ObjectOf(m[1], m[2]) = q
                      /\ m[2] \in linked'[m[1]]
                      /\ m[2] \in Cleanup(m[1])'
    BY <1>2 DEF NodesAlive, Indices, ObjectOf, HandleOf
  <2>1. m \in ToSet(waits[q]) /\ m # n
    BY <1>4
  <2> QED BY <1>5, <1>6, <2>1, ListedNode
<1>11. OwnerMeansListed'
  <2>1. ASSUME NEW s \in Waiter, NEW k \in linked'[s]
        PROVE  <<s, k>> \in ToSet(waits'[ObjectOf(s, k)])
    <3>1. k \in linked[s] /\ <<s, k>> # n
      BY <1>5
    <3> QED BY <1>4, <3>1, LinkedNode
  <2> QED BY <1>2, <1>4, <2>1 DEF OwnerMeansListed, ObjectOf, HandleOf
<1>12. Accounted'
  <2> SUFFICES ASSUME NEW s \in Waiter, NEW k \in Cleanup(s)'
               PROVE  k \in linked'[s] \/ closing[HandleOf(s, k)]
    BY <1>2 DEF Accounted, HandleOf
  <2>1. k \in Cleanup(s) /\ <<s, k>> # n
    BY <1>6
  <2> QED BY <1>5, <2>1 DEF IInv, Accounted
<1>13. ClosedOwnsNothing' /\ NoMissedSignal'
  BY <1>2, <1>5 DEF IInv, ClosedOwnsNothing, NoMissedSignal, ClosingBy, ObjectOf, HandleOf
<1> QED BY <1>7, <1>8, <1>9, <1>10, <1>11, <1>12, <1>13 DEF IInv

-----------------------------------------------------------------------------
(* Steps on a handle that leave the lists alone *)

LEMMA CleanupType == ASSUME IInv, NEW t \in Waiter PROVE Cleanup(t) \subseteq Indices(t)
<1>1. pc[t] = "Mark" => idx[t] \in Indices(t)
  BY DEF IInv, Phases, RegisterPcs
<1> QED BY <1>1 DEF IInv, TypeOK, Cleanup

(* What becomes of a handle that no call names and that is not in the loop of *)
(* OnCloseHandle does not touch the invariant.                                *)
LEMMA FreshHandle ==
  ASSUME IInv, NEW d \in Handle,
         object' \in [Handle -> Object \cup {NoObject}], closing' \in [Handle -> BOOLEAN],
         signalled' \in [Object -> BOOLEAN],
         UNCHANGED <<waits, lock, linked, pending, bits, first, failed, done, pc, call, idx,
                     unreg, expired>>,
         \A s \in Waiter : \A k \in Indices(s) : HandleOf(s, k) \in Handle \ {d},
         \A s \in Waiter : \A k \in Indices(s) :
           signalled'[ObjectOf(s, k)] = signalled[ObjectOf(s, k)],
         \A g \in Handle : g # d => object'[g] = object[g] /\ closing'[g] = closing[g],
         \A q \in Object : lock[q] # d
  PROVE  IInv'
<1>1. ASSUME NEW s \in Waiter, NEW k \in Indices(s)
      PROVE  /\ object'[HandleOf(s, k)] = object[HandleOf(s, k)]
             /\ closing'[HandleOf(s, k)] = closing[HandleOf(s, k)]
             /\ signalled'[object[HandleOf(s, k)]] = signalled[object[HandleOf(s, k)]]
  BY DEF ObjectOf
<1>2. TypeOK'
  BY DEF IInv, TypeOK, Indices
<1>3. UsesLive'
  BY <1>1 DEF IInv, UsesLive, Live, Indices, HandleOf
<1>4. Phases'
  BY DEF IInv, Phases, Indices
<1>5. LockOwner'
  <2> SUFFICES ASSUME NEW q \in Object, lock[q] # NoHandle
               PROVE  object'[lock[q]] = q /\ closing'[lock[q]]
    BY DEF LockOwner
  <2>1. lock[q] \in Handle /\ lock[q] # d /\ object[lock[q]] = q /\ closing[lock[q]]
    BY DEF IInv, TypeOK, LockOwner
  <2> QED BY <2>1
<1>6. NodesAlive'
  <2> SUFFICES ASSUME NEW q \in Object, NEW m \in ToSet(waits[q])
               PROVE  /\ pc[m[1]] \in MultiPcs
                      /\ m[2] \in Indices(m[1]) /\ object'[HandleOf(m[1], m[2])] = q
                      /\ m[2] \in linked[m[1]]
                      /\ m[2] \in Cleanup(m[1])
    BY DEF NodesAlive, Indices, ObjectOf, HandleOf, Cleanup
  <2> QED BY <1>1, ListedNode DEF ObjectOf
<1>7. OwnerMeansListed' /\ ClosedOwnsNothing' /\ NoMissedSignal'
  <2>1. ASSUME NEW s \in Waiter, NEW k \in linked[s]
        PROVE  /\ <<s, k>> \in ToSet(waits[object'[HandleOf(s, k)]])
               /\ closing'[HandleOf(s, k)] =>
                    lock[object'[HandleOf(s, k)]] = HandleOf(s, k)
               /\ signalled'[object'[HandleOf(s, k)]] =>
                    object'[HandleOf(s, k)] \in Notification /\ k \in bits[s]
    <3>1. k \in Indices(s)
      BY LinkedNode
    <3> QED BY <1>1, <3>1
            DEF IInv, OwnerMeansListed, ClosedOwnsNothing, NoMissedSignal, ClosingBy, ObjectOf
  <2>2. \A o \in Object : IsInjective(waits[o])
    BY DEF IInv, OwnerMeansListed
  <2>3. OwnerMeansListed'
    BY <2>1, <2>2 DEF OwnerMeansListed, ObjectOf, HandleOf
  <2>4. ClosedOwnsNothing'
    BY <2>1 DEF ClosedOwnsNothing, ClosingBy, HandleOf
  <2>5. NoMissedSignal'
    BY <2>1 DEF NoMissedSignal, ObjectOf, HandleOf
  <2> QED BY <2>3, <2>4, <2>5
<1>8. Accounted'
  <2> SUFFICES ASSUME NEW s \in Waiter, NEW k \in Cleanup(s)
               PROVE  k \in linked[s] \/ closing'[HandleOf(s, k)]
    BY DEF Accounted, Cleanup, HandleOf
  <2>1. k \in Indices(s)
    BY CleanupType
  <2> QED BY <1>1, <2>1 DEF IInv, Accounted
<1> QED BY <1>2, <1>3, <1>4, <1>5, <1>6, <1>7, <1>8 DEF IInv

(* An Event is created on an EventState nobody uses, and no call can name it yet. *)
LEMMA CreateStep == ASSUME IInv, NEW h \in Handle, NEW o \in Object, CreateEvent(h, o) PROVE IInv'
<1>1. /\ object[h] = NoObject
      /\ \A g \in Handle : object[g] # o
      /\ object' = [object EXCEPT ![h] = o]
      /\ closing' = [closing EXCEPT ![h] = FALSE]
      /\ signalled' \in [Object -> BOOLEAN]
      /\ \A q : q # o => signalled'[q] = signalled[q]
      /\ UNCHANGED <<waits, lock, linked, pending, bits, first, failed, done, pc, call, idx,
                     unreg, expired>>
  BY DEF CreateEvent, Live, contextVars, threadVars, IInv, TypeOK
<1>2. \A s \in Waiter : \A k \in Indices(s) : HandleOf(s, k) \in Handle \ {h}
  BY <1>1, ArrayType DEF IInv, UsesLive, Live
<1>3. \A g \in Handle : g # h => object'[g] = object[g] /\ closing'[g] = closing[g]
  BY <1>1 DEF IInv, TypeOK
<1>4. \A q \in Object : lock[q] # h
  <2> SUFFICES ASSUME NEW q \in Object, lock[q] = h PROVE FALSE
    OBVIOUS
  <2>1. object[h] = q
    BY HandleAssumption DEF IInv, LockOwner
  <2> QED BY <1>1, <2>1, ObjectAssumption
<1>5. object' \in [Handle -> Object \cup {NoObject}] /\ closing' \in [Handle -> BOOLEAN]
  BY <1>1 DEF IInv, TypeOK
<1>6. \A s \in Waiter : \A k \in Indices(s) :
        signalled'[ObjectOf(s, k)] = signalled[ObjectOf(s, k)]
  BY <1>1, <1>2 DEF ObjectOf, IInv, UsesLive, Live, TypeOK
<1> QED BY <1>1, <1>2, <1>3, <1>4, <1>5, <1>6, FreshHandle

(* A duplicate is a handle no call can name yet, of an event that exists. *)
LEMMA DuplicateStep == ASSUME IInv, NEW h \in Handle, NEW d \in Handle, Duplicate(h, d) PROVE IInv'
<1>1. /\ object[d] = NoObject /\ object[h] \in Object
      /\ object' = [object EXCEPT ![d] = object[h]]
      /\ closing' = [closing EXCEPT ![d] = FALSE]
      /\ UNCHANGED <<signalled, waits, lock, linked, pending, bits, first, failed, done, pc,
                     call, idx, unreg, expired>>
  BY DEF Duplicate, Live, contextVars, threadVars, IInv, TypeOK
<1>2. \A s \in Waiter : \A k \in Indices(s) : HandleOf(s, k) \in Handle \ {d}
  BY <1>1, ArrayType DEF IInv, UsesLive, Live
<1>3. \A g \in Handle : g # d => object'[g] = object[g] /\ closing'[g] = closing[g]
  BY <1>1 DEF IInv, TypeOK
<1>4. \A q \in Object : lock[q] # d
  <2> SUFFICES ASSUME NEW q \in Object, lock[q] = d PROVE FALSE
    OBVIOUS
  <2>1. object[d] = q
    BY HandleAssumption DEF IInv, LockOwner
  <2> QED BY <1>1, <2>1, ObjectAssumption
<1>5. object' \in [Handle -> Object \cup {NoObject}] /\ closing' \in [Handle -> BOOLEAN]
  BY <1>1 DEF IInv, TypeOK
<1>6. /\ signalled' \in [Object -> BOOLEAN]
      /\ \A s \in Waiter : \A k \in Indices(s) :
           signalled'[ObjectOf(s, k)] = signalled[ObjectOf(s, k)]
  BY <1>1 DEF IInv, TypeOK
<1> QED BY <1>1, <1>2, <1>3, <1>4, <1>5, <1>6, FreshHandle

(* ~Event: no call names the handle, so no list holds a node of it. *)
LEMMA DestroyStep == ASSUME IInv, NEW h \in Handle, Destroy(h) PROVE IInv'
<1>1. /\ object[h] \in Object /\ lock[object[h]] = NoHandle
      /\ \A s \in Waiter : ~Uses(s, h)
      /\ object' = [object EXCEPT ![h] = NoObject]
      /\ closing' = [closing EXCEPT ![h] = FALSE]
      /\ UNCHANGED <<signalled, waits, lock, linked, pending, bits, first, failed, done, pc,
                     call, idx, unreg, expired>>
  BY DEF Destroy, Live, Free, contextVars, threadVars, IInv, TypeOK
<1>2. \A s \in Waiter : \A k \in Indices(s) : HandleOf(s, k) \in Handle \ {h}
  BY <1>1, ArrayType DEF IInv, Uses
<1>3. \A g \in Handle : g # h => object'[g] = object[g] /\ closing'[g] = closing[g]
  BY <1>1 DEF IInv, TypeOK
<1>4. \A q \in Object : lock[q] # h
  <2> SUFFICES ASSUME NEW q \in Object, lock[q] = h PROVE FALSE
    OBVIOUS
  <2>1. object[h] = q
    BY HandleAssumption DEF IInv, LockOwner
  <2> QED BY <1>1, <2>1, HandleAssumption
<1>5. object' \in [Handle -> Object \cup {NoObject}] /\ closing' \in [Handle -> BOOLEAN]
  BY <1>1 DEF IInv, TypeOK
<1>6. /\ signalled' \in [Object -> BOOLEAN]
      /\ \A s \in Waiter : \A k \in Indices(s) :
           signalled'[ObjectOf(s, k)] = signalled[ObjectOf(s, k)]
  BY <1>1 DEF IInv, TypeOK
<1> QED BY <1>1, <1>2, <1>3, <1>4, <1>5, <1>6, FreshHandle

LEMMA ResetEventStep == ASSUME IInv, NEW h \in Handle, ResetEvent(h) PROVE IInv'
<1>1. /\ signalled' = [signalled EXCEPT ![object[h]] = FALSE]
      /\ UNCHANGED <<object, closing, waits, lock, linked, pending, bits, first, failed, done,
                     pc, call, idx, unreg, expired>>
  BY DEF ResetEvent, contextVars, threadVars
<1>2. TypeOK' /\ \A o \in Object : signalled'[o] => signalled[o]
  BY <1>1 DEF IInv, TypeOK, Indices
<1>3. UsesLive' /\ LockOwner' /\ Phases' /\ NodesAlive'
  BY <1>1 DEF IInv, UsesLive, LockOwner, Phases, NodesAlive, Cleanup, Live, Indices, HandleOf,
              ObjectOf
<1>4. OwnerMeansListed' /\ Accounted' /\ ClosedOwnsNothing'
  BY <1>1 DEF IInv, OwnerMeansListed, Accounted, ClosedOwnsNothing, Cleanup, ClosingBy, HandleOf,
              ObjectOf
<1>5. NoMissedSignal'
  BY <1>1, <1>2, LinkedNode DEF IInv, NoMissedSignal, ObjectOf, HandleOf
<1> QED BY <1>2, <1>3, <1>4, <1>5 DEF IInv

-----------------------------------------------------------------------------
LEMMA InitStep == Init => IInv
<1> SUFFICES ASSUME Init PROVE IInv
  OBVIOUS
<1>1. \A t \in Waiter :
        /\ call[t] = NoCall /\ pc[t] = "Idle"
        /\ linked[t] = {} /\ pending[t] = {} /\ bits[t] = {} /\ unreg[t] = {}
        /\ first[t] = 0 /\ idx[t] = 0 /\ ~done[t] /\ ~failed[t]
  BY DEF Init
<1>2. \A t \in Waiter : Indices(t) = {} /\ Cleanup(t) = {}
  BY <1>1, EmptySeq DEF Indices, NoCall, Cleanup
<1>3. \A o \in Object : waits[o] = <<>> /\ ToSet(waits[o]) = {} /\ IsInjective(waits[o])
  <2>1. DOMAIN <<>> = {} /\ \A o \in Object : waits[o] = <<>>
    BY EmptySeq DEF Init
  <2> QED BY <2>1 DEF ToSet, IsInjective
<1>4. TypeOK
  <2>1. waits \in [Object -> Seq(Waiter \X Nat)]
    <3>1. <<>> \in Seq(Waiter \X Nat)
      BY EmptySeq
    <3> QED BY <3>1 DEF Init
  <2> QED BY <1>1, <1>2, <2>1 DEF TypeOK, Init
<1>5. UsesLive /\ Phases /\ Accounted
  BY <1>1, <1>2 DEF UsesLive, Phases, Accounted, RegisterPcs
<1>6. LockOwner /\ NodesAlive
  BY <1>3 DEF Init, LockOwner, NodesAlive
<1>7. OwnerMeansListed /\ ClosedOwnsNothing /\ NoMissedSignal
  BY <1>1, <1>3 DEF OwnerMeansListed, ClosedOwnsNothing, NoMissedSignal
<1> QED BY <1>4, <1>5, <1>6, <1>7 DEF IInv

(* Every step of the specification keeps the invariant. *)
LEMMA NextStep == IInv /\ [Next]_vars => IInv'
<1> SUFFICES ASSUME IInv, [Next]_vars PROVE IInv'
  OBVIOUS
<1>1. ASSUME NEW h \in Handle, HandleStep(h) PROVE IInv'
  <2>1. CASE \E o \in Object : CreateEvent(h, o)
    BY <2>1, CreateStep
  <2>2. CASE \E d \in Handle : Duplicate(h, d)
    BY <2>2, DuplicateStep
  <2>3. CASE Destroy(h)
    BY <2>3, DestroyStep
  <2>4. CASE SetEvent(h)
    BY <2>4, SetEventStep
  <2>5. CASE ResetEvent(h)
    BY <2>5, ResetEventStep
  <2>6. CASE OnCloseHandle(h)
    BY <2>6, OnCloseHandleStep
  <2>7. CASE CloseNode(h)
    BY <2>7, CloseNodeStep
  <2>8. CASE CloseEnd(h)
    BY <2>8, CloseEndStep
  <2> QED
    BY <1>1, <2>1, <2>2, <2>3, <2>4, <2>5, <2>6, <2>7, <2>8 DEF HandleStep, CloseStep
<1>2. ASSUME NEW t \in Waiter, ThreadStep(t) PROVE IInv'
  <2>1. CASE StartMultiple(t) \/ StartSingle(t)
    BY <2>1, StartStep
  <2>2. CASE RegisterWait(t)
    BY <2>2, RegisterWaitStep
  <2>3. CASE MarkRegistered(t) \/ Completed(t) \/ Wake(t) \/ Expire(t) \/ Collect(t)
    BY <2>3, BookkeepingStep
  <2>4. CASE UnregisterWait(t)
    BY <2>4, UnregisterWaitStep
  <2>5. CASE Return(t) \/ ReturnSingle(t)
    BY <2>5, ReturnStep
  <2>6. CASE EvaluateWait(t) \/ ExpireWait(t) \/ SpuriousWakeup(t)
    BY <2>6, SingleWaitStep
  <2> QED BY <1>2, <2>1, <2>2, <2>3, <2>4, <2>5, <2>6 DEF ThreadStep, WaitStep
<1>3. CASE UNCHANGED vars
  <2>1. UNCHANGED <<object, closing, signalled, waits, lock, linked, pending, bits, first,
                    failed, done, pc, call, idx, unreg, expired>>
    BY <1>3 DEF vars, eventVars, contextVars, threadVars
  <2>2. TypeOK' /\ UsesLive' /\ LockOwner' /\ Phases'
    BY <2>1 DEF IInv, TypeOK, UsesLive, LockOwner, Phases, Live, Indices, HandleOf
  <2>3. NodesAlive' /\ OwnerMeansListed' /\ Accounted'
    BY <2>1 DEF IInv, NodesAlive, OwnerMeansListed, Accounted, Cleanup, Indices, ObjectOf, HandleOf
  <2>4. ClosedOwnsNothing' /\ NoMissedSignal'
    BY <2>1 DEF IInv, ClosedOwnsNothing, NoMissedSignal, ClosingBy, ObjectOf, HandleOf
  <2> QED BY <2>2, <2>3, <2>4 DEF IInv
<1> QED BY <1>1, <1>2, <1>3 DEF Next

-----------------------------------------------------------------------------
(* The inductive invariant holds in every reachable state, for any number of    *)
(* events, handles and threads.                                                 *)
THEOREM Invariance == Spec => []IInv
<1> QED BY InitStep, NextStep, PTL DEF Spec

(* Every variable keeps its type; in particular every index a context notes is  *)
(* an index of the EventArray of its call.                                      *)
THEOREM TypeCorrect == Spec => []TypeOK
<1>1. IInv => TypeOK
  BY DEF IInv
<1> QED BY Invariance, <1>1, PTL

(* A list never holds a node of a wait that has returned: WaitContext lives on  *)
(* the stack, and no step of registering, closing or unregistering leaves a     *)
(* pointer to it behind (Event.cpp:239-294, Wait.cpp:137-154).                  *)
THEOREM ListsHoldLiveNodes == Spec => []NodesAlive
<1>1. IInv => NodesAlive
  BY DEF IInv
<1> QED BY Invariance, <1>1, PTL

(* Node::Owner is set exactly while the node is threaded into the list of its   *)
(* event, and it is threaded once (the assertion of Event.cpp:244).             *)
THEOREM OwnersAreListed == Spec => []OwnerMeansListed
<1>1. IInv => OwnerMeansListed
  BY DEF IInv
<1> QED BY Invariance, <1>1, PTL

(* The assertion of Wait.cpp:153 never fires: an UnregisterWait that finds no   *)
(* node is one whose handle is closing.                                         *)
THEOREM UnregisterAssertHolds == Spec => []UnregisterAssert
<1>1. IInv => UnregisterAssert
  BY DEF IInv, Accounted, UnregisterAssert, Cleanup
<1> QED BY Invariance, <1>1, PTL

(* A handle that is closed owns no node once its OnCloseHandle is over          *)
(* (the assertion of Event.cpp:98-99).                                          *)
THEOREM ClosedHandlesOwnNothing == Spec => []ClosedOwnsNothing
<1>1. IInv => ClosedOwnsNothing
  BY DEF IInv
<1> QED BY Invariance, <1>1, PTL

(* A registered waiter has been told of every signal that is still set: none is *)
(* missed between SetEvent and RegisterWait (Event.cpp:169-178, 272-278).       *)
THEOREM SignalsAreNotMissed == Spec => []NoMissedSignal
<1>1. IInv => NoMissedSignal
  BY DEF IInv
<1> QED BY Invariance, <1>1, PTL

-----------------------------------------------------------------------------
(* Callbacks *)

(* the nodes of the context of t that are called back *)
Hit(t, S) == {i \in Indices(t) : <<t, i>> \in S}

(* What EventSignalled does to one context, in full. *)
LEMMA EventSignalledValues ==
  ASSUME TypeOK, NEW S, NEW f \in BOOLEAN, EventSignalled(S, f), NEW t \in Waiter
  PROVE  /\ bits'[t] = bits[t] \cup Hit(t, S)
         /\ first'[t] \in Nat
         /\ first[t] # 0 \/ Hit(t, S) = {} => first'[t] = first[t]
         /\ first[t] = 0 /\ Hit(t, S) # {} => first'[t] \in Hit(t, S) /\ first'[t] # 0
         /\ done'[t] <=> done[t] \/ (Hit(t, S) # {} /\ Completes(t, bits[t] \cup Hit(t, S), f))
         /\ failed'[t] <=> failed[t] \/ (f /\ Hit(t, S) # {})
<1> DEFINE hit == Hit(t, S)
<1>1. hit \in SUBSET Nat /\ 0 \notin hit
  BY ArrayType DEF Hit
<1>2. /\ bits'[t] = bits[t] \cup hit
      /\ first'[t] = IF first[t] = 0 /\ hit # {}
                     THEN CHOOSE i \in hit : \A j \in hit : i <= j
                     ELSE first[t]
      /\ done'[t] = (done[t] \/ (hit # {} /\ Completes(t, bits[t] \cup hit, f)))
      /\ failed'[t] = (failed[t] \/ (f /\ hit # {}))
  BY DEF EventSignalled, Hit
<1>3. ASSUME hit # {} PROVE (CHOOSE i \in hit : \A j \in hit : i <= j) \in hit
  <2> HIDE DEF hit
  <2> QED BY <1>1, <1>3, LeastIndex
<1>4. first[t] \in Nat
  BY DEF TypeOK
<1> HIDE DEF hit
<1>5. first[t] = 0 /\ hit # {} => first'[t] \in hit /\ first'[t] # 0
  BY <1>1, <1>2, <1>3
<1>6. first[t] # 0 \/ hit = {} => first'[t] = first[t]
  BY <1>2
<1>7. first'[t] \in Nat
  BY <1>1, <1>4, <1>5, <1>6
<1> QED BY <1>2, <1>5, <1>6, <1>7 DEF hit

(* A callback keeps a context consistent, and completes it if its event failed. *)
LEMMA ToldStep ==
  ASSUME IInv, Outcomes, UNCHANGED call, NEW S, NEW f \in BOOLEAN, EventSignalled(S, f),
         NEW t \in Waiter,
         \A i \in Indices(t) :
           closing[HandleOf(t, i)] \/ (f /\ <<t, i>> \in S) => closing'[HandleOf(t, i)]
  PROVE  /\ Told(t)'
         /\ done[t] => done'[t]
         /\ \A i \in Indices(t) : f /\ <<t, i>> \in S => done'[t]
<1> DEFINE hit == Hit(t, S)
<1>0. TypeOK
  BY DEF IInv
<1>1. /\ bits'[t] = bits[t] \cup hit
      /\ first[t] # 0 \/ hit = {} => first'[t] = first[t]
      /\ first[t] = 0 /\ hit # {} => first'[t] \in hit /\ first'[t] # 0
      /\ done'[t] <=> done[t] \/ (hit # {} /\ Completes(t, bits[t] \cup hit, f))
      /\ failed'[t] <=> failed[t] \/ (f /\ hit # {})
  BY <1>0, EventSignalledValues
<1>2. /\ first[t] \in bits[t] \cup {0} /\ (bits[t] # {} => first[t] # 0)
      /\ done[t] <=> bits[t] # {} /\ Completes(t, bits[t], failed[t])
      /\ failed[t] => \E i \in bits[t] : closing[HandleOf(t, i)]
  BY DEF Outcomes, Told
<1>3. hit \subseteq Indices(t) /\ bits[t] \subseteq Indices(t)
  BY <1>0 DEF TypeOK, Hit
<1>4. Indices(t)' = Indices(t) /\ \A i : HandleOf(t, i)' = call[t].events[i]
  BY DEF Indices, HandleOf
<1>5. first'[t] \in bits'[t] \cup {0} /\ (bits'[t] # {} => first'[t] # 0)
  <2> HIDE DEF hit
  <2> QED BY <1>1, <1>2
<1>6. failed'[t] => \E i \in bits'[t] : closing'[HandleOf(t, i)]
  BY <1>1, <1>2, <1>3 DEF Hit
<1>7. done'[t] <=> bits'[t] # {} /\ (~call[t].waitAll \/ bits'[t] = Indices(t) \/ failed'[t])
  <2> HIDE DEF hit
  <2>1. CASE hit = {}
    BY <1>1, <1>2, <2>1 DEF Completes
  <2>2. CASE hit # {}
    BY <1>1, <1>2, <1>3, <2>2 DEF Completes
  <2> QED BY <2>1, <2>2
<1>8. Told(t)'
  BY <1>4, <1>5, <1>6, <1>7 DEF Told, Completes, HandleOf, Indices
<1>9. ASSUME NEW i \in Indices(t), f, <<t, i>> \in S PROVE done'[t]
  BY <1>1, <1>9 DEF Completes, Hit
<1> QED BY <1>1, <1>8, <1>9

(* A context nobody calls back stays consistent: closing only grows for its handles. *)
LEMMA ToldFrame ==
  ASSUME IInv, Outcomes, NEW t \in Waiter,
         call'[t] = call[t], bits'[t] = bits[t], first'[t] = first[t],
         failed'[t] = failed[t], done'[t] = done[t],
         \A i \in Indices(t) : closing[HandleOf(t, i)] => closing'[HandleOf(t, i)]
  PROVE  Told(t)'
<1>1. bits[t] \subseteq Indices(t)
  BY DEF IInv, TypeOK
<1>2. /\ first[t] \in bits[t] \cup {0} /\ (bits[t] # {} => first[t] # 0)
      /\ done[t] <=> bits[t] # {} /\ (~call[t].waitAll \/ bits[t] = Indices(t) \/ failed[t])
      /\ failed[t] => \E i \in bits[t] : closing[HandleOf(t, i)]
  BY DEF Outcomes, Told, Completes
<1>3. failed[t] => \E i \in bits[t] : closing'[HandleOf(t, i)]
  BY <1>1, <1>2
<1>4. Indices(t)' = Indices(t) /\ \A i : HandleOf(t, i)' = HandleOf(t, i)
  BY DEF Indices, HandleOf
<1> QED BY <1>2, <1>3, <1>4 DEF Told, Completes

(* A thread that does not move in WaitForMultipleObjects keeps what it has reached. *)
LEMMA PlaceFrame ==
  ASSUME Outcomes, NEW t \in Waiter,
         \/ pc'[t] \notin MultiPcs
         \/ /\ pc'[t] = pc[t] /\ idx'[t] = idx[t] /\ call'[t] = call[t]
            /\ expired'[t] = expired[t]
            /\ done[t] => done'[t]
            /\ linked[t] \subseteq linked'[t] \/ done'[t]
  PROVE  Ended(t)' /\ Registered(t)'
<1>1. CASE pc'[t] \notin MultiPcs
  BY <1>1 DEF MultiPcs, RegisterPcs, Ended, Registered, Passed
<1>2. CASE /\ pc'[t] = pc[t] /\ idx'[t] = idx[t] /\ call'[t] = call[t]
           /\ expired'[t] = expired[t]
           /\ done[t] => done'[t]
           /\ linked[t] \subseteq linked'[t] \/ done'[t]
  <2>1. Indices(t)' = Indices(t)
    BY <1>2 DEF Indices
  <2>2. Passed(t)' = Passed(t)
    BY <1>2, <2>1 DEF Passed
  <2> QED BY <1>2, <2>1, <2>2 DEF Outcomes, Ended, Registered
<1> QED BY <1>1, <1>2

(* The handles of a call are not those that are created or destroyed. *)
LEMMA UsedHandlesStay ==
  ASSUME IInv, NEW h \in Handle,
         (\E o \in Object : CreateEvent(h, o)) \/ (\E d \in Handle : Duplicate(h, d)) \/ Destroy(h),
         NEW t \in Waiter, NEW i \in Indices(t)
  PROVE  closing'[HandleOf(t, i)] = closing[HandleOf(t, i)]
<1>1. HandleOf(t, i) \in Handle /\ Live(HandleOf(t, i)) /\ Uses(t, HandleOf(t, i))
  BY ArrayType DEF IInv, UsesLive, Uses
<1>2. CASE \E o \in Object : CreateEvent(h, o)
  BY <1>1, <1>2 DEF CreateEvent, IInv, TypeOK
<1>3. CASE \E d \in Handle : Duplicate(h, d)
  BY <1>1, <1>3 DEF Duplicate, IInv, TypeOK
<1>4. CASE Destroy(h)
  BY <1>1, <1>4 DEF Destroy, IInv, TypeOK
<1> QED BY <1>2, <1>3, <1>4

-----------------------------------------------------------------------------
(* Operations on a handle *)

(* The life of a handle, a reset and both ends of a close call nobody back. *)
LEMMA QuietStep ==
  ASSUME IInv, Outcomes, NEW h \in Handle,
         \/ (\E o \in Object : CreateEvent(h, o)) \/ (\E d \in Handle : Duplicate(h, d))
         \/ Destroy(h) \/ ResetEvent(h) \/ OnCloseHandle(h) \/ CloseEnd(h)
  PROVE  Outcomes'
<1>1. UNCHANGED <<linked, pending, bits, first, failed, done, call, idx, unreg, expired>>
  BY DEF CreateEvent, Duplicate, Destroy, ResetEvent, OnCloseHandle, CloseEnd, contextVars, threadVars
<1>2. ASSUME NEW t \in Waiter
      PROVE  pc'[t] = pc[t] \/ pc'[t] = "CvAwake"
  <2>1. UNCHANGED pc \/ NotifyAll(object[h])
    BY DEF CreateEvent, Duplicate, Destroy, ResetEvent, OnCloseHandle, CloseEnd, threadVars
  <2> QED BY <2>1, NotifyPcs DEF IInv
<1>3. ASSUME NEW t \in Waiter, NEW i \in Indices(t), closing[HandleOf(t, i)]
      PROVE  closing'[HandleOf(t, i)]
  <2>1. CASE (\E o \in Object : CreateEvent(h, o)) \/ (\E d \in Handle : Duplicate(h, d)) \/ Destroy(h)
    BY <1>3, <2>1, UsedHandlesStay
  <2>2. CASE ResetEvent(h) \/ CloseEnd(h)
    BY <1>3, <2>2 DEF ResetEvent, CloseEnd
  <2>3. CASE OnCloseHandle(h)
    BY <1>3, <2>3 DEF OnCloseHandle, IInv, TypeOK
  <2> QED BY <2>1, <2>2, <2>3
<1>4. ASSUME NEW t \in Waiter PROVE Told(t)'
  BY <1>1, <1>3, ToldFrame
<1>5. ASSUME NEW t \in Waiter PROVE Ended(t)' /\ Registered(t)'
  <2>1. pc'[t] = pc[t] \/ pc'[t] \notin MultiPcs
    BY <1>2 DEF MultiPcs, RegisterPcs
  <2> QED BY <1>1, <2>1, PlaceFrame
<1> QED BY <1>4, <1>5 DEF Outcomes

(* A signal: whoever it tells has its bit. *)
LEMMA SetEventOutcomes ==
  ASSUME IInv, Outcomes, NEW h \in Handle, SetEvent(h)
  PROVE  Outcomes'
<1>1. /\ EventSignalled(Recipients(object[h]), FALSE)
      /\ UNCHANGED <<closing, linked, call, idx, unreg, expired>>
  BY DEF SetEvent
<1>2. ASSUME NEW t \in Waiter PROVE Told(t)' /\ (done[t] => done'[t])
  BY <1>1, ToldStep
<1>3. ASSUME NEW t \in Waiter PROVE pc'[t] = pc[t] \/ pc'[t] \notin MultiPcs
  <2>1. pc'[t] = pc[t] \/ pc'[t] = "CvAwake"
    BY NotifyPcs DEF SetEvent, IInv
  <2> QED BY <2>1 DEF MultiPcs, RegisterPcs
<1>4. ASSUME NEW t \in Waiter PROVE Ended(t)' /\ Registered(t)'
  BY <1>1, <1>2, <1>3, PlaceFrame
<1> QED BY <1>2, <1>4 DEF Outcomes

(* A round of the loop of OnCloseHandle completes the wait whose node it takes. *)
LEMMA CloseNodeOutcomes ==
  ASSUME IInv, Outcomes, NEW h \in Handle, CloseNode(h)
  PROVE  Outcomes'
<1> DEFINE o == object[h]
<1>1. PICK k \in Owned(h) :
        LET t == waits[o][k][1]
            i == waits[o][k][2]
        IN  /\ linked' = [linked EXCEPT ![t] = @ \ {i}]
            /\ EventSignalled({<<t, i>>}, TRUE)
  BY DEF CloseNode
<1> DEFINE n == waits[o][k]
           u == n[1]
           j == n[2]
<1>2. UNCHANGED <<closing, pc, call, idx, unreg, expired>> /\ o \in Object /\ lock[o] = h
  BY DEF CloseNode, threadVars, IInv, TypeOK, Live, ClosingBy
<1>3. n \in ToSet(waits[o]) /\ HandleOf(u, j) = h
  BY DEF Owned, ToSet
<1>4. u \in Waiter /\ n = <<u, j>> /\ j \in Indices(u)
  <2> HIDE DEF o, n
  <2> QED BY <1>2, <1>3, ListedNode
<1>5. linked' = [linked EXCEPT ![u] = @ \ {j}] /\ EventSignalled({<<u, j>>}, TRUE)
  BY <1>1
<1>6. closing[h]
  BY <1>2, HandleAssumption DEF IInv, LockOwner
<1>7. ASSUME NEW t \in Waiter, NEW i \in Indices(t), <<t, i>> \in {<<u, j>>}
      PROVE  closing[HandleOf(t, i)]
  <2>1. t = u /\ i = j
    BY <1>7
  <2> QED BY <1>3, <1>6, <2>1
<1> HIDE DEF o, n, u, j
<1>8. ASSUME NEW t \in Waiter
      PROVE  /\ Told(t)' /\ (done[t] => done'[t])
             /\ \A i \in Indices(t) : <<t, i>> \in {<<u, j>>} => done'[t]
  BY <1>2, <1>5, <1>7, ToldStep
<1>9. ASSUME NEW t \in Waiter PROVE linked[t] \subseteq linked'[t] \/ done'[t]
  <2>1. CASE t = u
    BY <1>4, <1>8, <2>1
  <2>2. CASE t # u
    BY <1>5, <2>2 DEF IInv, TypeOK
  <2> QED BY <2>1, <2>2
<1>10. ASSUME NEW t \in Waiter PROVE Ended(t)' /\ Registered(t)'
  BY <1>2, <1>8, <1>9, PlaceFrame
<1> QED BY <1>8, <1>10 DEF Outcomes
-----------------------------------------------------------------------------
(* Steps of a wait *)

(* A thread that leaves or enters a call has a context that was told nothing. *)
LEMMA FreshContext ==
  ASSUME NEW t \in Waiter, Indices(t)' \subseteq Nat \ {0},
         bits'[t] = {}, first'[t] = 0, ~failed'[t], ~done'[t],
         pc'[t] \notin MultiPcs \/ (pc'[t] = "Register" /\ idx'[t] = 1)
  PROVE  Told(t)' /\ Ended(t)' /\ Registered(t)'
<1>1. Told(t)'
  BY DEF Told
<1>2. Ended(t)'
  BY DEF Ended, MultiPcs
<1>3. Passed(t)' = {}
  <2>1. CASE pc'[t] \notin MultiPcs
    BY <2>1 DEF Passed, MultiPcs
  <2>2. CASE pc'[t] = "Register" /\ idx'[t] = 1
    <3>1. Passed(t)' = {i \in Indices(t)' : i < 1}
      BY <2>2 DEF Passed, RegisterPcs
    <3> QED BY <3>1
  <2> QED BY <2>1, <2>2
<1> QED BY <1>1, <1>2, <1>3 DEF Registered, MultiPcs

(* The other threads during a step of t that calls nobody back. *)
LEMMA OthersStay ==
  ASSUME IInv, Outcomes, NEW t \in Waiter, NEW s \in Waiter \ {t},
         UNCHANGED closing, pc'[s] = pc[s], call'[s] = call[s], idx'[s] = idx[s],
         bits'[s] = bits[s], first'[s] = first[s], failed'[s] = failed[s],
         done'[s] = done[s], linked'[s] = linked[s], expired'[s] = expired[s]
  PROVE  Told(s)' /\ Ended(s)' /\ Registered(s)'
BY ToldFrame, PlaceFrame

(* A call starts with a fresh context. *)
LEMMA StartOutcomes ==
  ASSUME IInv, Outcomes, NEW t \in Waiter, StartMultiple(t) \/ StartSingle(t)
  PROVE  Outcomes'
<1>1. UNCHANGED <<closing, linked, bits, first, failed, done, expired>>
  BY DEF StartMultiple, StartSingle, eventVars, contextVars
<1>2. /\ pc'[t] = "Enter" \/ (pc'[t] = "Register" /\ idx'[t] = 1)
      /\ \A s \in Waiter \ {t} : pc'[s] = pc[s] /\ call'[s] = call[s] /\ idx'[s] = idx[s]
  BY DEF StartMultiple, StartSingle, Goto, IInv, TypeOK
<1>3. pc[t] = "Idle"
  BY DEF StartMultiple, StartSingle
<1>4. bits[t] = {} /\ first[t] = 0 /\ ~failed[t] /\ ~done[t]
  BY <1>3 DEF IInv, Phases, MultiPcs, RegisterPcs
<1>5. Indices(t)' \subseteq Nat \ {0}
  <2>1. TypeOK'
    BY StartStep DEF IInv
  <2>2. call'[t] \in Call \cup {NoCall}
    BY <2>1 DEF TypeOK
  <2>3. call'[t].events \in Seq(Handle)
    <3>1. CASE call'[t] = NoCall
      BY <3>1, EmptySeq DEF NoCall
    <3>2. CASE call'[t] \in Call
      <4>1. call'[t].events \in Arrays \cup {<<h>> : h \in Handle}
        BY <3>2, ArraysAssumption DEF Call
      <4>2. \A h \in Handle : <<h>> \in Seq(Handle)
        OBVIOUS
      <4> QED BY <4>1, <4>2, ArraysAssumption
    <3> QED BY <2>2, <3>1, <3>2
  <2>4. DOMAIN call'[t].events = 1..Len(call'[t].events) /\ Len(call'[t].events) \in Nat
    BY <2>3, LenProperties
  <2> QED BY <2>4 DEF Indices
<1>6. Told(t)' /\ Ended(t)' /\ Registered(t)'
  <2>1. pc'[t] \notin MultiPcs \/ (pc'[t] = "Register" /\ idx'[t] = 1)
    BY <1>2 DEF MultiPcs, RegisterPcs
  <2> QED BY <1>1, <1>4, <1>5, <2>1, FreshContext
<1>7. ASSUME NEW s \in Waiter \ {t} PROVE Told(s)' /\ Ended(s)' /\ Registered(s)'
  BY <1>1, <1>2, OthersStay
<1> QED BY <1>6, <1>7 DEF Outcomes

(* The context of a call that returns is gone. *)
LEMMA ReturnOutcomes ==
  ASSUME IInv, Outcomes, NEW t \in Waiter, Return(t) \/ ReturnSingle(t)
  PROVE  Outcomes'
<1>1. /\ UNCHANGED <<closing, linked>>
      /\ pc' = [pc EXCEPT ![t] = "Idle"] /\ call' = [call EXCEPT ![t] = NoCall]
      /\ expired' = [expired EXCEPT ![t] = FALSE]
  BY DEF Return, ReturnSingle, Goto, eventVars, contextVars
<1>2. \A s \in Waiter \ {t} :
        /\ idx'[s] = idx[s] /\ bits'[s] = bits[s] /\ first'[s] = first[s]
        /\ failed'[s] = failed[s] /\ done'[s] = done[s]
  BY DEF Return, ReturnSingle, contextVars, IInv, TypeOK
<1>3. bits'[t] = {} /\ first'[t] = 0 /\ ~failed'[t] /\ ~done'[t]
  <2>1. CASE Return(t)
    BY <2>1 DEF Return, IInv, TypeOK
  <2>2. CASE ReturnSingle(t)
    BY <2>2 DEF ReturnSingle, contextVars, IInv, Phases, MultiPcs, RegisterPcs
  <2> QED BY <2>1, <2>2
<1>4. pc'[t] = "Idle" /\ Indices(t)' = {}
  BY <1>1, EmptySeq DEF IInv, TypeOK, Indices, NoCall
<1>5. Told(t)' /\ Ended(t)' /\ Registered(t)'
  BY <1>3, <1>4, FreshContext DEF MultiPcs, RegisterPcs
<1>6. ASSUME NEW s \in Waiter \ {t} PROVE Told(s)' /\ Ended(s)' /\ Registered(s)'
  BY <1>1, <1>2, OthersStay DEF IInv, TypeOK
<1> QED BY <1>5, <1>6 DEF Outcomes

(* WaitForSingleObject has no context. *)
LEMMA SingleOutcomes ==
  ASSUME IInv, Outcomes, NEW t \in Waiter, EvaluateWait(t) \/ ExpireWait(t) \/ SpuriousWakeup(t)
  PROVE  Outcomes'
<1>1. UNCHANGED <<closing, linked, bits, first, failed, done, call, idx>>
  BY DEF EvaluateWait, LeaveWait, ExpireWait, SpuriousWakeup, eventVars, contextVars, threadVars
<1>2. /\ pc'[t] \in SinglePcs
      /\ \A s \in Waiter \ {t} : pc'[s] = pc[s] /\ expired'[s] = expired[s]
  BY DEF EvaluateWait, LeaveWait, ExpireWait, SpuriousWakeup, Goto, IInv, TypeOK, SinglePcs, CvPcs
<1>3. Told(t)'
  BY <1>1, ToldFrame
<1>4. Ended(t)' /\ Registered(t)'
  BY <1>2, PlaceFrame DEF SinglePcs, CvPcs, MultiPcs, RegisterPcs
<1>5. ASSUME NEW s \in Waiter \ {t} PROVE Told(s)' /\ Ended(s)' /\ Registered(s)'
  BY <1>1, <1>2, OthersStay
<1> QED BY <1>3, <1>4, <1>5 DEF Outcomes

(* A registration: the node is linked, or the wait fails at once. *)
LEMMA RegisterOutcomes ==
  ASSUME IInv, Outcomes, NEW t \in Waiter, RegisterWait(t)
  PROVE  Outcomes'
<1> DEFINE i == idx[t]
<1>1. /\ UNCHANGED <<object, closing, call, idx, unreg, expired>>
      /\ pc[t] = "Register" /\ pc' = [pc EXCEPT ![t] = "Mark"]
  BY DEF RegisterWait, Goto
<1>2. i \in Indices(t) /\ i \in Nat
  BY <1>1, ArrayType DEF IInv, Phases, RegisterPcs
<1>3. ASSUME NEW f \in BOOLEAN, EventSignalled({<<t, i>>}, f),
             f => closing[HandleOf(t, i)], NEW s \in Waiter
      PROVE  /\ Told(s)' /\ (done[s] => done'[s])
             /\ f /\ s = t => done'[s]
  <2>1. ASSUME NEW j \in Indices(s), closing[HandleOf(s, j)] \/ (f /\ <<s, j>> \in {<<t, i>>})
        PROVE  closing'[HandleOf(s, j)]
    BY <1>1, <1>3, <2>1
  <2> HIDE DEF i
  <2> QED BY <1>1, <1>2, <1>3, <2>1, ToldStep
<1>4. ASSUME NEW s \in Waiter
      PROVE  /\ Told(s)' /\ (done[s] => done'[s])
             /\ s # t => linked'[s] = linked[s]
             /\ s = t => done'[s] \/ linked'[s] = linked[s] \cup {i}
  <2>1. CASE Refuse(t)
    <3>1. /\ EventSignalled({<<t, i>>}, TRUE) /\ closing[HandleOf(t, i)]
          /\ UNCHANGED linked
      BY <2>1 DEF Refuse
    <3> QED BY <1>3, <3>1
  <2>2. CASE Link(t)
    <3>1. linked' = [linked EXCEPT ![t] = @ \cup {i}]
      BY <2>2 DEF Link
    <3>2. \/ EventSignalled({<<t, i>>}, FALSE)
          \/ UNCHANGED <<signalled, pending, bits, first, failed, done>>
      BY <2>2 DEF Link
    <3>3. Told(s)' /\ (done[s] => done'[s])
      <4>1. CASE EventSignalled({<<t, i>>}, FALSE)
        BY <1>3, <4>1
      <4>2. CASE UNCHANGED <<signalled, pending, bits, first, failed, done>>
        BY <1>1, <4>2, ToldFrame
      <4> QED BY <3>2, <4>1, <4>2
    <3> QED BY <3>1, <3>3 DEF IInv, TypeOK
  <2> QED BY <2>1, <2>2 DEF RegisterWait
<1> HIDE DEF i
<1>5. ASSUME NEW s \in Waiter, s # t PROVE Ended(s)' /\ Registered(s)'
  <2>1. pc'[s] = pc[s]
    BY <1>1, <1>5 DEF IInv, TypeOK
  <2> QED BY <1>1, <1>4, <1>5, <2>1, PlaceFrame
<1>6. Ended(t)' /\ Registered(t)'
  <2>1. pc'[t] = "Mark"
    BY <1>1 DEF IInv, TypeOK
  <2>2. Passed(t)' = {j \in Indices(t) : j < i \/ j = i}
    BY <1>1, <2>1 DEF Passed, RegisterPcs, Indices, i
  <2>3. Passed(t) = {j \in Indices(t) : j < i}
    BY <1>1 DEF Passed, RegisterPcs, i
  <2>4. done[t] \/ Passed(t) \subseteq linked[t]
    BY DEF Outcomes, Registered
  <2>5. Passed(t)' \subseteq Passed(t) \cup {i}
    BY <2>2, <2>3
  <2>6. done'[t] \/ Passed(t)' \subseteq linked'[t]
    BY <1>4, <2>4, <2>5
  <2> QED BY <2>1, <2>6 DEF Ended, Registered
<1> QED BY <1>4, <1>5, <1>6 DEF Outcomes

(* The steps of a wait between its registration and its results. *)
LEMMA BookkeepingOutcomes ==
  ASSUME IInv, Outcomes, NEW t \in Waiter,
         MarkRegistered(t) \/ Completed(t) \/ Wake(t) \/ Expire(t) \/ Collect(t) \/ UnregisterWait(t)
  PROVE  Outcomes'
<1>1. UNCHANGED <<closing, bits, first, failed, done, call>>
  BY DEF MarkRegistered, Completed, Wake, Expire, Collect, UnregisterWait, eventVars, contextVars
<1>2. \A s \in Waiter \ {t} :
        /\ pc'[s] = pc[s] /\ idx'[s] = idx[s] /\ linked'[s] = linked[s]
        /\ expired'[s] = expired[s]
  BY DEF MarkRegistered, Completed, Wake, Expire, Collect, UnregisterWait, eventVars, contextVars,
         Goto, IInv, TypeOK
<1>3. ASSUME NEW s \in Waiter \ {t} PROVE Told(s)' /\ Ended(s)' /\ Registered(s)'
  BY <1>1, <1>2, <1>3, OthersStay
<1>4. Told(t)'
  BY <1>1, ToldFrame
<1>5. Indices(t)' = Indices(t)
  BY <1>1 DEF Indices
<1>6. Ended(t) /\ Registered(t)
  BY DEF Outcomes
<1>7. CASE MarkRegistered(t)
  <2>1. pc[t] = "Mark" /\ pc'[t] = "Completed" /\ UNCHANGED <<idx, linked>>
    BY <1>7 DEF MarkRegistered, Goto, IInv, TypeOK
  <2>2. Passed(t)' = Passed(t)
    BY <1>5, <2>1 DEF Passed, RegisterPcs
  <2> QED BY <1>1, <1>3, <1>4, <1>6, <2>1, <2>2 DEF Outcomes, Ended, Registered
<1>8. CASE Completed(t)
  <2>1. /\ pc[t] = "Completed" /\ UNCHANGED linked
        /\ \/ ~HasNext(t) /\ pc'[t] = "Block" /\ UNCHANGED idx
           \/ HasNext(t) /\ pc'[t] = "Register" /\ idx'[t] = idx[t] + 1
    BY <1>8 DEF Completed, Goto, contextVars, IInv, TypeOK
  <2>2. Indices(t) = 1..Len(call[t].events) /\ idx[t] \in Nat
    BY ArrayType, LenProperties DEF Indices, IInv, TypeOK
  <2>3. Passed(t) = {i \in Indices(t) : i < idx[t] \/ i = idx[t]}
    BY <2>1 DEF Passed, RegisterPcs
  <2>4. done[t] \/ Passed(t)' \subseteq Passed(t)
    <3>1. CASE HasNext(t)
      <4>1. Passed(t)' = {i \in Indices(t) : i < idx[t] + 1}
        BY <1>5, <2>1, <3>1 DEF Passed, RegisterPcs
      <4> QED BY <2>2, <2>3, <4>1
    <3>2. CASE ~HasNext(t)
      <4>1. Passed(t)' = Indices(t) /\ (done[t] \/ ~(idx[t] < Len(call[t].events)))
        BY <1>5, <2>1, <3>2 DEF Passed, RegisterPcs, HasNext
      <4>2. Len(call[t].events) \in Nat
        BY ArrayType, LenProperties DEF IInv
      <4> QED BY <2>2, <2>3, <4>1, <4>2
    <3> QED BY <3>1, <3>2
  <2>5. idx[t] \in Indices(t)
    BY <2>1 DEF IInv, Phases, RegisterPcs
  <2>6. Ended(t)' /\ Registered(t)'
    BY <1>1, <1>5, <1>6, <2>1, <2>4, <2>5 DEF Ended, Registered
  <2> QED BY <1>3, <1>4, <2>6 DEF Outcomes
<1>9. CASE Wake(t) \/ Expire(t) \/ Collect(t) \/ UnregisterWait(t)
  <2>1. pc'[t] \in {"Collect", "Unregister"} /\ (done'[t] \/ expired'[t])
    BY <1>6, <1>9 DEF Wake, Expire, Collect, UnregisterWait, Goto, Ended, contextVars, IInv, TypeOK
  <2>2. Passed(t)' = {}
    BY <2>1 DEF Passed, RegisterPcs
  <2> QED BY <1>3, <1>4, <2>1, <2>2 DEF Outcomes, Ended, Registered
<1> QED BY <1>7, <1>8, <1>9

(* Every step keeps what the contexts have been told consistent. *)
LEMMA OutcomesStep == IInv /\ Outcomes /\ [Next]_vars => Outcomes'
<1> SUFFICES ASSUME IInv, Outcomes, [Next]_vars PROVE Outcomes'
  OBVIOUS
<1>1. ASSUME NEW h \in Handle, HandleStep(h) PROVE Outcomes'
  <2>1. CASE CloseNode(h)
    BY <2>1, CloseNodeOutcomes
  <2>2. CASE SetEvent(h)
    BY <2>2, SetEventOutcomes
  <2> QED BY <1>1, <2>1, <2>2, QuietStep DEF HandleStep, CloseStep
<1>2. ASSUME NEW t \in Waiter, ThreadStep(t) PROVE Outcomes'
  BY <1>2, StartOutcomes, ReturnOutcomes, SingleOutcomes, RegisterOutcomes, BookkeepingOutcomes
     DEF ThreadStep, WaitStep
<1>3. CASE UNCHANGED vars
  <2>1. UNCHANGED <<closing, linked, bits, first, failed, done, pc, call, idx, expired>>
    BY <1>3 DEF vars, eventVars, contextVars, threadVars
  <2> QED BY <2>1, ToldFrame, PlaceFrame DEF Outcomes
<1> QED BY <1>1, <1>2, <1>3 DEF Next

(* The invariant, with what every context has been told, holds in every reachable *)
(* state, for any number of events, handles and threads.                          *)
THEOREM ResultInvariance == Spec => []ResultInv
<1>1. Init => Outcomes
  <2> SUFFICES ASSUME Init, NEW t \in Waiter PROVE Told(t) /\ Ended(t) /\ Registered(t)
    BY DEF Outcomes
  <2>1. pc[t] = "Idle" /\ bits[t] = {} /\ first[t] = 0 /\ ~failed[t] /\ ~done[t]
    BY DEF Init
  <2> QED BY <2>1 DEF Told, Ended, Registered, Passed, RegisterPcs
<1>2. ResultInv /\ [Next]_vars => ResultInv'
  BY NextStep, OutcomesStep DEF ResultInv
<1>3. Init => ResultInv
  BY <1>1, InitStep DEF ResultInv
<1> QED BY <1>2, <1>3, PTL DEF Spec

(* A thread blocks only when nothing it waits for has happened: a close or a signal *)
(* between two registrations is not slept through (Wait.cpp:72-79, 178-186).        *)
THEOREM NobodySleepsWhenSatisfied == Spec => []NoSleepWhenSatisfied
<1>1. ResultInv => NoSleepWhenSatisfied
  <2> SUFFICES ASSUME ResultInv, NEW t \in Waiter, pc[t] = "Block", ~done[t]
               PROVE  /\ linked[t] = Indices(t)
                      /\ bits[t] # Indices(t)
                      /\ bits[t] = {} \/ call[t].waitAll
                      /\ \A i \in Indices(t) : closing[HandleOf(t, i)] => ClosingBy(HandleOf(t, i))
    BY DEF NoSleepWhenSatisfied
  <2>1. linked[t] = Indices(t)
    <3>1. Indices(t) \subseteq linked[t]
      BY DEF ResultInv, Outcomes, Registered, Passed, RegisterPcs
    <3> QED BY <3>1 DEF ResultInv, IInv, TypeOK
  <2>2. bits[t] = {} \/ (call[t].waitAll /\ bits[t] # Indices(t))
    BY DEF ResultInv, Outcomes, Told, Completes
  <2>3. Indices(t) # {}
    BY DEF ResultInv, Outcomes, Registered
  <2> QED BY <2>1, <2>2, <2>3 DEF ResultInv, IInv, ClosedOwnsNothing
<1> QED BY ResultInvariance, <1>1, PTL

(* What WaitForMultipleObjects returns is true: OBJECT_0 + i names an event of      *)
(* which the wait was told, all were told for a wait-all, and FAILED is returned    *)
(* exactly for a handle that is closing (Wait.cpp:156-162).                         *)
THEOREM ResultsAreSound == Spec => []ResultSound
<1>1. ResultInv => ResultSound
  <2> SUFFICES ASSUME ResultInv, NEW t \in Waiter, pc[t] = "Unregister", unreg[t] = {}
               PROVE  /\ Result(t) = "OBJECT" =>
                           /\ first[t] \in bits[t]
                           /\ call[t].waitAll => bits[t] = Indices(t)
                      /\ Result(t) = "FAILED" <=> \E i \in bits[t] : closing[HandleOf(t, i)] /\ failed[t]
    BY DEF ResultSound
  <2>1. /\ first[t] \in bits[t] \cup {0} /\ (bits[t] # {} => first[t] # 0)
        /\ done[t] <=> bits[t] # {} /\ (~call[t].waitAll \/ bits[t] = Indices(t) \/ failed[t])
        /\ failed[t] => \E i \in bits[t] : closing[HandleOf(t, i)]
        /\ done[t] \/ expired[t]
    BY DEF ResultInv, Outcomes, Told, Completes, Ended
  <2>2. (Result(t) = "OBJECT" <=> ~failed[t] /\ ~expired[t]) /\ (Result(t) = "FAILED" <=> failed[t])
    BY DEF Result
  <2> QED BY <2>1, <2>2
<1> QED BY ResultInvariance, <1>1, PTL

-----------------------------------------------------------------------------
(* A registration ends in the UnregisterWait of its own thread or because its own *)
(* handle is closing, and no close touches a signal.                              *)
LEMMA IndependentStep ==
  ASSUME IInv, [Next]_vars
  PROVE  /\ \A t \in Waiter : \A i \in linked[t] \ linked'[t] :
              i \in unreg[t] \/ closing[HandleOf(t, i)]
         /\ closing' # closing /\ object' = object => signalled' = signalled
<1>1. ASSUME NEW h \in Handle, CloseNode(h), NEW t \in Waiter, NEW i \in linked[t] \ linked'[t]
      PROVE  closing[HandleOf(t, i)]
  <2> DEFINE o == object[h]
  <2>1. PICK k \in Owned(h) : linked' = [linked EXCEPT ![waits[o][k][1]] = @ \ {waits[o][k][2]}]
    BY <1>1 DEF CloseNode
  <2> DEFINE u == waits[o][k][1]
             j == waits[o][k][2]
  <2>2. HandleOf(u, j) = h
    BY DEF Owned
  <2> HIDE DEF u, j
  <2>3. linked' = [linked EXCEPT ![u] = @ \ {j}]
    BY <2>1 DEF u, j
  <2>4. t = u /\ i = j
    BY <1>1, <2>3 DEF IInv, TypeOK
  <2>5. closing[h]
    <3>1. lock[o] = h /\ o \in Object
      BY <1>1 DEF CloseNode, ClosingBy, Live, IInv, TypeOK
    <3> QED BY <3>1, HandleAssumption DEF IInv, LockOwner
  <2> QED BY <2>2, <2>4, <2>5
<1>2. ASSUME NEW s \in Waiter, UnregisterWait(s), NEW t \in Waiter, NEW i \in linked[t] \ linked'[t]
      PROVE  i \in unreg[t]
  <2>1. PICK j \in unreg[s] : \/ linked' = [linked EXCEPT ![s] = @ \ {j}]
                             \/ UNCHANGED linked
    BY <1>2 DEF UnregisterWait
  <2> QED BY <1>2, <2>1 DEF IInv, TypeOK
<1>3. ASSUME NEW s \in Waiter, RegisterWait(s), NEW t \in Waiter
      PROVE  linked[t] \subseteq linked'[t]
  BY <1>3 DEF RegisterWait, Refuse, Link, IInv, TypeOK
<1>4. ASSUME NEW h \in Handle, HandleStep(h)
      PROVE  /\ CloseNode(h) \/ UNCHANGED linked
             /\ closing' # closing /\ object' = object => signalled' = signalled
  <2>1. CASE \E o \in Object : CreateEvent(h, o)
    <3>1. PICK o \in Object : CreateEvent(h, o)
      BY <2>1
    <3>2. object'[h] = o /\ object[h] = NoObject /\ UNCHANGED linked
      BY <3>1 DEF CreateEvent, Live, contextVars, IInv, TypeOK
    <3> QED BY <3>2, ObjectAssumption
  <2>2. CASE ~(\E o \in Object : CreateEvent(h, o))
    BY <1>4, <2>2 DEF HandleStep, CloseStep, Duplicate, Destroy, SetEvent, ResetEvent, OnCloseHandle,
                      CloseNode, CloseEnd, contextVars
  <2> QED BY <2>1, <2>2
<1>5. ASSUME NEW s \in Waiter, ThreadStep(s)
      PROVE  RegisterWait(s) \/ UnregisterWait(s) \/ UNCHANGED linked
  BY <1>5 DEF ThreadStep, WaitStep, StartMultiple, StartSingle, MarkRegistered, Completed, Wake, Collect,
              Return, EvaluateWait, ReturnSingle, Expire, ExpireWait, SpuriousWakeup, contextVars
<1>6. ASSUME NEW s \in Waiter, ThreadStep(s) PROVE UNCHANGED closing
  BY <1>6 DEF ThreadStep, WaitStep, StartMultiple, StartSingle, RegisterWait, MarkRegistered, Completed,
              Wake, Collect, UnregisterWait, Return, EvaluateWait, ReturnSingle, Expire, ExpireWait,
              SpuriousWakeup, eventVars
<1>7. CASE UNCHANGED vars
  BY <1>7 DEF vars, eventVars, contextVars
<1> QED BY <1>1, <1>2, <1>3, <1>4, <1>5, <1>6, <1>7 DEF Next

(* Closing a handle is independent of its duplicates: it ends no registration of   *)
(* another handle and neither makes nor loses a signal (Event.cpp:125-153).        *)
THEOREM ClosesAreIndependent == Spec => CloseIsIndependent
<1>1. IInv /\ [Next]_vars =>
        [/\ \A t \in Waiter : \A i \in linked[t] \ linked'[t] :
              i \in unreg[t] \/ closing[HandleOf(t, i)]
         /\ closing' # closing /\ object' = object => signalled' = signalled]_vars
  BY IndependentStep
<1> QED BY Invariance, <1>1, PTL DEF Spec, CloseIsIndependent

-----------------------------------------------------------------------------
(* Auto-reset signals *)

(* The waits that a callback to a set of nodes satisfies through o are those with *)
(* a node of o in the set.                                                        *)
LEMMA SatisfiedByCallback ==
  ASSUME IInv, NEW S, NEW f \in BOOLEAN, EventSignalled(S, f), NEW o,
         \A t \in Waiter : ~(pc[t] \in CvPcs \cup {"Enter"} /\ pc'[t] = "GetClosing")
  PROVE  SatisfiedBy(o) \subseteq
           {t \in Waiter : ~f /\ \E i \in Indices(t) : <<t, i>> \in S /\ ObjectOf(t, i) = o}
<1> SUFFICES ASSUME NEW t \in Waiter, NEW i \in bits'[t] \ bits[t], ObjectOf(t, i) = o, ~failed'[t]
             PROVE  ~f /\ i \in Indices(t) /\ <<t, i>> \in S
  BY DEF SatisfiedBy
<1>1. /\ bits'[t] = bits[t] \cup Hit(t, S)
      /\ failed'[t] <=> failed[t] \/ (f /\ Hit(t, S) # {})
  BY EventSignalledValues DEF IInv
<1> QED BY <1>1 DEF Hit

(* A step that changes no bits and ends no condition wait satisfies nobody. *)
LEMMA SatisfiedByNothing ==
  ASSUME NEW o, UNCHANGED bits,
         \A t \in Waiter : ~(pc[t] \in CvPcs \cup {"Enter"} /\ pc'[t] = "GetClosing")
  PROVE  SatisfiedBy(o) = {}
BY DEF SatisfiedBy

(* No step satisfies two waits through one auto-reset event. *)
LEMMA ReleasesOneStep ==
  ASSUME IInv, [Next]_vars, NEW o \in Object \ Notification
  PROVE  SatisfiedBy(o) = {} \/ (\E t \in Waiter : SatisfiedBy(o) = {t} /\ ~signalled'[o])
<1>1. ASSUME NEW h \in Handle, SetEvent(h)
      PROVE  SatisfiedBy(o) = {} \/ (\E t \in Waiter : SatisfiedBy(o) = {t} /\ ~signalled'[o])
  <2> DEFINE q == object[h]
             S == Recipients(q)
  <2>1. q \in Object
    BY <1>1 DEF SetEvent, Live, IInv, TypeOK
  <2>2. \A t \in Waiter : ~(pc[t] \in CvPcs \cup {"Enter"} /\ pc'[t] = "GetClosing")
    <3>1. \A t \in Waiter : pc'[t] = pc[t] \/ pc'[t] = "CvAwake"
      BY <1>1, NotifyPcs DEF SetEvent, IInv
    <3> QED BY <3>1 DEF CvPcs
  <2>3. SatisfiedBy(o) \subseteq {t \in Waiter : \E i \in Indices(t) : <<t, i>> \in S /\ ObjectOf(t, i) = o}
    <3> HIDE DEF S
    <3>1. EventSignalled(S, FALSE)
      BY <1>1 DEF SetEvent, S
    <3> QED BY <2>2, <3>1, SatisfiedByCallback
  <2>4. signalled'[q] = (q \in Notification \/ waits[q] = <<>>)
    BY <1>1, <2>1 DEF SetEvent, IInv, TypeOK
  <2>5. CASE q # o
    <3>1. S \subseteq ToSet(waits[q])
      <4>1. CASE q \in Notification \/ waits[q] = <<>>
        BY <4>1 DEF Recipients
      <4>2. CASE q \notin Notification /\ waits[q] # <<>>
        <5>1. 1 \in DOMAIN waits[q] /\ Head(waits[q]) = waits[q][1]
          BY <2>1, <4>2, LenProperties, EmptySeq DEF IInv, TypeOK
        <5> QED BY <4>2, <5>1 DEF Recipients, ToSet
      <4> QED BY <4>1, <4>2
    <3> HIDE DEF q, S
    <3>2. ASSUME NEW t \in Waiter, NEW i, <<t, i>> \in S PROVE ObjectOf(t, i) = q
      <4> DEFINE n == <<t, i>>
      <4>1. n \in ToSet(waits[q]) /\ n[1] = t /\ n[2] = i
        BY <3>1, <3>2
      <4> HIDE DEF n
      <4>2. ObjectOf(n[1], n[2]) = q
        BY <2>1, <4>1, ListedNode
      <4> QED BY <4>1, <4>2
    <3>3. ASSUME NEW t \in SatisfiedBy(o) PROVE FALSE
      <4>1. PICK i \in Indices(t) : <<t, i>> \in S /\ ObjectOf(t, i) = o
        BY <2>3
      <4>2. t \in Waiter
        BY <2>3
      <4> QED BY <2>5, <3>2, <4>1, <4>2
    <3> QED BY <3>3
  <2>6. CASE q = o /\ waits[q] = <<>>
    <3>1. S = {}
      BY <2>6, EmptySeq DEF Recipients, ToSet
    <3> QED BY <2>3, <3>1
  <2>7. CASE q = o /\ waits[q] # <<>>
    <3>1. S = {Head(waits[q])} /\ ~signalled'[o]
      BY <2>4, <2>7 DEF Recipients
    <3> DEFINE n == Head(waits[q])
    <3> HIDE DEF n, S
    <3>2. \A t \in SatisfiedBy(o) : \E i : <<t, i>> = n
      BY <2>3, <3>1 DEF n
    <3>3. \A t \in SatisfiedBy(o) : t = n[1] /\ t \in Waiter
      BY <2>3, <3>2
    <3> QED BY <3>1, <3>3
  <2> QED BY <2>5, <2>6, <2>7
<1>2. ASSUME NEW h \in Handle, HandleStep(h), ~SetEvent(h)
      PROVE  SatisfiedBy(o) = {}
  <2>1. \A t \in Waiter : ~(pc[t] \in CvPcs \cup {"Enter"} /\ pc'[t] = "GetClosing")
    <3>1. UNCHANGED pc \/ NotifyAll(object[h])
      BY <1>2 DEF HandleStep, CloseStep, CreateEvent, Duplicate, Destroy, ResetEvent, OnCloseHandle,
                  CloseNode, CloseEnd, threadVars
    <3>2. \A t \in Waiter : pc'[t] = pc[t] \/ pc'[t] = "CvAwake"
      BY <3>1, NotifyPcs DEF IInv
    <3> QED BY <3>2 DEF CvPcs
  <2>2. CASE CloseNode(h)
    <3>1. \E S : EventSignalled(S, TRUE)
      BY <2>2 DEF CloseNode
    <3> QED BY <2>1, <3>1, SatisfiedByCallback
  <2>3. CASE ~CloseNode(h)
    <3>1. UNCHANGED bits
      BY <1>2, <2>3 DEF HandleStep, CloseStep, CreateEvent, Duplicate, Destroy, ResetEvent,
                        OnCloseHandle, CloseEnd, contextVars
    <3> QED BY <2>1, <3>1, SatisfiedByNothing
  <2> QED BY <2>2, <2>3
<1>3. ASSUME NEW t \in Waiter, RegisterWait(t)
      PROVE  SatisfiedBy(o) = {} \/ (SatisfiedBy(o) = {t} /\ ~signalled'[o])
  <2> DEFINE i == idx[t]
  <2>1. pc[t] = "Register" /\ pc' = [pc EXCEPT ![t] = "Mark"]
    BY <1>3 DEF RegisterWait, Goto
  <2>2. \A s \in Waiter : ~(pc[s] \in CvPcs \cup {"Enter"} /\ pc'[s] = "GetClosing")
    BY <2>1 DEF IInv, TypeOK, CvPcs
  <2>3. CASE Refuse(t)
    BY <2>2, <2>3, SatisfiedByCallback DEF Refuse
  <2>4. CASE Link(t) /\ UNCHANGED bits
    BY <2>2, <2>4, SatisfiedByNothing
  <2>5. CASE Link(t) /\ bits' # bits
    <3>1. /\ EventSignalled({<<t, i>>}, FALSE)
          /\ signalled' = [signalled EXCEPT ![ObjectOf(t, i)] = ObjectOf(t, i) \in Notification]
      BY <2>5 DEF Link
    <3> HIDE DEF i
    <3>2. SatisfiedBy(o) \subseteq
            {s \in Waiter : \E j \in Indices(s) : <<s, j>> \in {<<t, i>>} /\ ObjectOf(s, j) = o}
      BY <2>2, <3>1, SatisfiedByCallback
    <3>3. \A s \in SatisfiedBy(o) : s = t /\ ObjectOf(t, i) = o
      BY <3>2
    <3>4. ObjectOf(t, i) = o => ~signalled'[o]
      BY <3>1 DEF IInv, TypeOK
    <3> QED BY <3>3, <3>4
  <2> QED BY <1>3, <2>3, <2>4, <2>5 DEF RegisterWait
<1>4. ASSUME NEW t \in Waiter, EvaluateWait(t) \/ ExpireWait(t)
      PROVE  SatisfiedBy(o) = {} \/ (SatisfiedBy(o) = {t} /\ ~signalled'[o])
  <2>1. UNCHANGED <<bits, call>> /\ \A s \in Waiter \ {t} : pc'[s] = pc[s]
    BY <1>4 DEF EvaluateWait, ExpireWait, LeaveWait, Goto, contextVars, IInv, TypeOK
  <2>2. \A s \in SatisfiedBy(o) :
          /\ s = t /\ pc'[t] = "GetClosing" /\ ObjectOf(t, 1) = o
          /\ ~expired'[t] /\ ~closing[HandleOf(t, 1)]
    BY <2>1 DEF SatisfiedBy, CvPcs
  <2>3. ASSUME SatisfiedBy(o) # {} PROVE ~signalled'[o]
    <3>1. pc'[t] = "GetClosing" /\ ObjectOf(t, 1) = o /\ ~closing[HandleOf(t, 1)]
      BY <2>2, <2>3
    <3>2. LeaveWait(t)
      BY <1>4, <3>1 DEF EvaluateWait, ExpireWait, Goto, IInv, TypeOK
    <3> QED BY <3>1, <3>2 DEF LeaveWait, IInv, TypeOK
  <2> QED BY <2>2, <2>3
<1>5. ASSUME NEW t \in Waiter, ThreadStep(t), ~RegisterWait(t), ~EvaluateWait(t), ~ExpireWait(t)
      PROVE  SatisfiedBy(o) = {}
  <2>1. CASE Return(t)
    <3>1. \A s \in Waiter : bits'[s] \subseteq bits[s]
      BY <2>1 DEF Return, IInv, TypeOK
    <3>2. \A s \in Waiter : ~(pc[s] \in CvPcs \cup {"Enter"} /\ pc'[s] = "GetClosing")
      BY <2>1 DEF Return, Goto, IInv, TypeOK, CvPcs
    <3> QED BY <3>1, <3>2 DEF SatisfiedBy
  <2>2. CASE ~Return(t)
    <3>1. UNCHANGED bits
      BY <1>5, <2>2 DEF ThreadStep, WaitStep, StartMultiple, StartSingle, MarkRegistered, Completed, Wake,
                  Collect, UnregisterWait, ReturnSingle, Expire, SpuriousWakeup, contextVars
    <3>2. \A s \in Waiter : pc'[s] = pc[s] \/ pc'[s] # "GetClosing"
      BY <1>5, <2>2 DEF ThreadStep, WaitStep, StartMultiple, StartSingle, MarkRegistered, Completed, Wake,
                  Collect, UnregisterWait, ReturnSingle, Expire, SpuriousWakeup, Goto, IInv, TypeOK
    <3>3. \A s \in Waiter : ~(pc[s] \in CvPcs \cup {"Enter"} /\ pc'[s] = "GetClosing")
      BY <3>2 DEF CvPcs
    <3> QED BY <3>1, <3>3, SatisfiedByNothing
  <2> QED BY <2>1, <2>2
<1>6. CASE UNCHANGED vars
  <2>1. UNCHANGED <<bits, pc>>
    BY <1>6 DEF vars, contextVars, threadVars
  <2> QED BY <2>1 DEF SatisfiedBy, CvPcs
<1> QED BY <1>1, <1>2, <1>3, <1>4, <1>5, <1>6 DEF Next

(* A signal of an auto-reset event releases one wait and is then gone, whether it  *)
(* is handed to a registered node, taken at a registration or consumed by a thread *)
(* in a condition wait (Event.cpp:174-178, 233-234, 272-278).                      *)
THEOREM AutoResetSignalsAreSingle == Spec => AutoResetReleasesOne
<1>1. IInv /\ [Next]_vars =>
        [\A o \in Object \ Notification :
           SatisfiedBy(o) # {} => Cardinality(SatisfiedBy(o)) = 1 /\ ~signalled'[o]]_vars
  <2> SUFFICES ASSUME IInv, [Next]_vars, NEW o \in Object \ Notification, SatisfiedBy(o) # {}
               PROVE  Cardinality(SatisfiedBy(o)) = 1 /\ ~signalled'[o]
    OBVIOUS
  <2>1. PICK t \in Waiter : SatisfiedBy(o) = {t} /\ ~signalled'[o]
    BY ReleasesOneStep
  <2>2. Cardinality({t}) = 1
    BY FS_Singleton
  <2> QED BY <2>1, <2>2
<1> QED BY Invariance, <1>1, PTL DEF Spec, AutoResetReleasesOne
=============================================================================

------------------------- MODULE ResilientRpcProofs --------------------------
(***************************************************************************)
(* Proofs about the RPC wrappers, for any finite number of callers and any *)
(* number of permits, attempts and outages.                                *)
(***************************************************************************)
EXTENDS ResilientRpc, FiniteSetTheorems, TLAPS

Labels == {"idle", "half_open", "waiting", "calling", "sleeping", "tripping"}

\* The calls that own a permit, and those in line for one.
Holders == {c \in Callers : pc[c] \in {"calling", "sleeping", "tripping"}}
Waiters == {c \in Callers : pc[c] = "waiting"}

Places == 1..Len(queue)

CallsTyped ==
    /\ pc \in [Callers -> Labels]
    /\ permits \in Nat
    /\ queue \in Seq(Callers)

\* The semaphore: a permit is left or it is owned.
PermitsInv == permits + Cardinality(Holders) = MaxPermits

\* The queue lists the waiting calls, each once. Acquire takes the head only,
\* so this is what makes the head a call that waits and leaves the others in.
QueueInv ==
    /\ \A i \in Places : queue[i] \in Waiters
    /\ \A i, j \in Places : queue[i] = queue[j] => i = j
    /\ \A c \in Waiters : \E i \in Places : queue[i] = c
    /\ Len(queue) = Cardinality(Waiters)

RpcInv == CallsTyped /\ PermitsInv /\ QueueInv

USE RpcAssumption

LEMMA CountsAreNaturals ==
    /\ IsFiniteSet(Holders) /\ Cardinality(Holders) \in Nat
    /\ IsFiniteSet(Waiters) /\ Cardinality(Waiters) \in Nat
BY FS_Subset, FS_CardinalityType DEF Holders, Waiters

\* Initially nobody waits and every permit is left.
LEMMA InitEstablishesRpc == Init => RpcInv
<1> SUFFICES ASSUME Init PROVE RpcInv
  OBVIOUS
<1>1. Holders = {} /\ Waiters = {}
  BY DEF Init, Holders, Waiters
<1>2. CallsTyped /\ Len(queue) = 0
  BY DEF Init, CallsTyped, Labels
<1> QED
  BY <1>1, <1>2, FS_EmptySet DEF Init, RpcInv, PermitsInv, QueueInv, Places

\* A step that moves no call into or out of the line or the permits.
LEMMA SameSetsPreserve ==
    ASSUME RpcInv, CallsTyped', UNCHANGED <<permits, queue>>,
           Holders' = Holders, Waiters' = Waiters
    PROVE  RpcInv'
BY DEF RpcInv, PermitsInv, QueueInv, Places

\* A call joins the line at its end.
LEMMA WaitPreserves ==
    ASSUME RpcInv, NEW c \in Callers, pc[c] \in {"idle", "half_open"}, Wait(c),
           UNCHANGED permits
    PROVE  RpcInv'
<1>1. CallsTyped'
  BY DEF RpcInv, CallsTyped, Wait, Labels
<1>2. Holders' = Holders /\ Waiters' = Waiters \cup {c} /\ c \notin Waiters
  BY DEF RpcInv, CallsTyped, Wait, Holders, Waiters
<1>3. Cardinality(Waiters') = Cardinality(Waiters) + 1
  BY <1>2, CountsAreNaturals, FS_AddElement
<1>4. /\ Len(queue') = Len(queue) + 1
      /\ \A i \in Places : queue'[i] = queue[i]
      /\ queue'[Len(queue) + 1] = c
      /\ Len(queue) \in Nat
  BY DEF RpcInv, CallsTyped, Wait, Places
<1>5. Places' = Places \cup {Len(queue) + 1}
  BY <1>4 DEF Places
<1>6. QueueInv'
  <2>1. \A i \in Places' : queue'[i] \in Waiters'
    BY <1>2, <1>4, <1>5 DEF RpcInv, QueueInv
  <2>2. \A i, j \in Places' : queue'[i] = queue'[j] => i = j
    BY <1>2, <1>4, <1>5 DEF RpcInv, QueueInv
  <2>3. \A d \in Waiters' : \E i \in Places' : queue'[i] = d
    BY <1>2, <1>4, <1>5 DEF RpcInv, QueueInv
  <2> QED
    BY <2>1, <2>2, <2>3, <1>3, <1>4 DEF RpcInv, QueueInv
<1> QED
  BY <1>1, <1>2, <1>6 DEF RpcInv, PermitsInv

\* The head of the line takes a permit.
LEMMA AcquirePreserves ==
    ASSUME RpcInv, NEW c \in Callers, Acquire(c)
    PROVE  RpcInv'
<1>1. c \in Waiters /\ Len(queue) \in Nat \ {0} /\ queue[1] = c
  <2>1. c \in Waiters /\ Len(queue) \in Nat
    BY DEF Acquire, Waiters, RpcInv, CallsTyped
  <2>2. Len(queue) # 0
    BY <2>1 DEF RpcInv, QueueInv, Places
  <2> QED
    BY <2>1, <2>2 DEF Acquire, RpcInv, CallsTyped
<1>2. CallsTyped'
  BY <1>1 DEF RpcInv, CallsTyped, Acquire, Attempt, Labels
<1>3. /\ Holders' = Holders \cup {c} /\ c \notin Holders
      /\ Waiters' = Waiters \ {c}
  BY DEF RpcInv, CallsTyped, Acquire, Attempt, Holders, Waiters
<1>4. /\ Cardinality(Holders') = Cardinality(Holders) + 1
      /\ Cardinality(Waiters') = Cardinality(Waiters) - 1
  BY <1>1, <1>3, CountsAreNaturals, FS_AddElement, FS_RemoveElement
<1>5. PermitsInv'
  BY <1>4, CountsAreNaturals DEF RpcInv, CallsTyped, PermitsInv, Acquire
<1>6. /\ Len(queue') = Len(queue) - 1
      /\ \A i \in 1..Len(queue) - 1 : queue'[i] = queue[i + 1]
  BY <1>1 DEF RpcInv, CallsTyped, Acquire
<1>7. Places' = 1..Len(queue) - 1
  BY <1>6 DEF Places
<1>8. QueueInv'
  <2>1. ASSUME NEW i \in Places' PROVE queue'[i] \in Waiters'
    <3>1. i + 1 \in Places /\ i + 1 # 1 /\ 1 \in Places
      BY <1>1, <1>7 DEF Places
    <3>2. queue[i + 1] \in Waiters /\ queue[i + 1] # queue[1]
      BY <3>1 DEF RpcInv, QueueInv
    <3> QED
      BY <1>1, <1>3, <1>6, <1>7, <3>2
  <2>2. \A i, j \in Places' : queue'[i] = queue'[j] => i = j
    BY <1>1, <1>6, <1>7 DEF RpcInv, QueueInv, Places
  <2>3. ASSUME NEW d \in Waiters' PROVE \E i \in Places' : queue'[i] = d
    <3>1. PICK i \in Places : queue[i] = d
      BY <1>3 DEF RpcInv, QueueInv
    <3>2. i # 1
      BY <1>1, <1>3, <3>1
    <3>3. i - 1 \in 1..Len(queue) - 1 /\ (i - 1) + 1 = i
      BY <1>1, <3>1, <3>2 DEF Places
    <3> QED
      BY <1>6, <1>7, <3>1, <3>3
  <2> QED
    BY <2>1, <2>2, <2>3, <1>4, <1>6 DEF RpcInv, QueueInv
<1> QED
  BY <1>2, <1>5, <1>8 DEF RpcInv

\* Whatever way a call ends, it gives its permit back.
LEMMA ReturnPreserves ==
    ASSUME RpcInv, NEW c \in Callers, pc[c] \in {"calling", "tripping"},
           NEW result, Return(c, result), UNCHANGED queue
    PROVE  RpcInv'
<1>1. CallsTyped'
  BY DEF RpcInv, CallsTyped, Return, Released, Labels
<1>2. Holders' = Holders \ {c} /\ c \in Holders /\ Waiters' = Waiters
  BY DEF RpcInv, CallsTyped, Return, Holders, Waiters
<1>3. Cardinality(Holders') = Cardinality(Holders) - 1
  BY <1>2, CountsAreNaturals, FS_RemoveElement
<1>4. PermitsInv'
  BY <1>3, CountsAreNaturals DEF RpcInv, CallsTyped, PermitsInv, Return, Released
<1>5. QueueInv'
  BY <1>2 DEF RpcInv, QueueInv, Places
<1> QED
  BY <1>1, <1>4, <1>5 DEF RpcInv

\* One step per action.
LEMMA NextPreservesRpc == RpcInv /\ [Next]_vars => RpcInv'
<1> SUFFICES ASSUME RpcInv, [Next]_vars PROVE RpcInv'
  OBVIOUS
<1>1. CASE Outage \/ Recovery \/ Tick \/ UNCHANGED vars
  <2>1. UNCHANGED <<pc, permits, queue>>
    BY <1>1 DEF Outage, Recovery, Tick, vars, callVars
  <2> QED
    BY <2>1, SameSetsPreserve DEF RpcInv, CallsTyped, Holders, Waiters
<1>2. ASSUME NEW c \in Callers, Reject(c) PROVE RpcInv'
  <2>1. UNCHANGED <<pc, permits, queue>>
    BY <1>2 DEF Reject
  <2> QED
    BY <2>1, SameSetsPreserve DEF RpcInv, CallsTyped, Holders, Waiters
<1>3. ASSUME NEW c \in Callers, Enter(c) PROVE RpcInv'
  BY <1>3, WaitPreserves DEF Enter
<1>4. ASSUME NEW c \in Callers, Close(c) PROVE RpcInv'
  BY <1>4, WaitPreserves DEF Close
<1>5. ASSUME NEW c \in Callers, HalfOpen(c) PROVE RpcInv'
  <2>1. CallsTyped' /\ Holders' = Holders /\ Waiters' = Waiters
    BY <1>5 DEF RpcInv, CallsTyped, HalfOpen, Holders, Waiters, Labels
  <2> QED
    BY <1>5, <2>1, SameSetsPreserve DEF HalfOpen
<1>6. ASSUME NEW c \in Callers, Acquire(c) PROVE RpcInv'
  BY <1>6, AcquirePreserves
<1>7. ASSUME NEW c \in Callers, Retry(c) \/ GiveUp(c) \/ BackOff(c) PROVE RpcInv'
  <2>1. CallsTyped' /\ Holders' = Holders /\ Waiters' = Waiters
    BY <1>7 DEF RpcInv, CallsTyped, Retry, Attempt, GiveUp, BackOff, Holders, Waiters,
                Labels
  <2> QED
    BY <1>7, <2>1, SameSetsPreserve DEF Retry, GiveUp, BackOff
<1>8. ASSUME NEW c \in Callers, Succeed(c) \/ NonRetriable(c) \/ Trip(c) PROVE RpcInv'
  BY <1>8, ReturnPreserves DEF Succeed, NonRetriable, Trip
<1> QED
  BY <1>1, <1>2, <1>3, <1>4, <1>5, <1>6, <1>7, <1>8 DEF Next, Progress

\* The semaphore of helpers/rpc.rs, for any number of callers, permits and
\* attempts: no way a call can end (success, a TypeError that is not retried,
\* the last attempt) loses a permit or gives it back twice, and a call waits
\* only inside the queue.
THEOREM PermitsNeverLeak == Spec => []PermitsAccounted
<1>1. RpcInv => PermitsAccounted
  BY DEF RpcInv, PermitsInv, QueueInv, Holders, Waiters, Places, PermitsAccounted
<1> QED
  BY <1>1, InitEstablishesRpc, NextPreservesRpc, PTL DEF Spec
=============================================================================

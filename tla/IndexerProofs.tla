---------------------------- MODULE IndexerProofs ----------------------------
(***************************************************************************)
(* Proofs about module Indexer, for every start height and every value of  *)
(* the bounds. All of them rest on one inductive invariant, IndexerInv,    *)
(* which relates each worker's program counter and locals to the shared    *)
(* tables.                                                                 *)
(***************************************************************************)
EXTENDS Indexer, TLAPS

PollerProcessing == pc[Poller] \in {"hash", "index", "publish"}

\* The poller's locals: the block in hand is the one after the pointer, or the
\* first tip when there is no pointer yet, and the pools were refreshed above it.
PollerInv ==
    /\ pc[Poller] \in {"poll", "pools", "hash", "index", "publish"}
    /\ pc[Poller] = "pools" /\ last_height # None => last_height < goal[Poller]
    /\ PollerProcessing =>
          /\ h[Poller] <= goal[Poller]
          /\ goal[Poller] = poolsTried
          /\ last_height # None => h[Poller] = last_height + 1
          /\ last_height = None => h[Poller] = goal[Poller] /\ StartHeight = None
    /\ pc[Poller] = "publish" => IsMarked(h[Poller])

\* Which heights the poller answers for: those above its pointer, or above the
\* tip of the first tick while that tick runs.
DueInv ==
    /\ last_height # None =>
          \A x \in Heights : x > last_height => due[x] # None
    /\ last_height = None /\ pc[Poller] # "poll" =>
          \A x \in Heights : due[x] # None <=> x > goal[Poller]

\* The coordinator runs only with a start height and after the init signal, and
\* every height below the block in hand is already marked.
CoordinatorInv ==
    /\ pc[Coordinator] \in {"await_init", "idle", "plan", "hash", "index", "save"}
    /\ StartHeight = None => pc[Coordinator] = "idle"
    /\ StartHeight # None /\ pc[Coordinator] # "await_init" => init_signal = "sent"
    /\ init_signal = "sent" => poolsTried # None
    /\ pc[Coordinator] \in {"hash", "index", "save"} =>
          /\ h[Coordinator] <= goal[Coordinator]
          /\ \A x \in Heights :
                StartHeight <= x /\ x < h[Coordinator] => IsMarked(x)
    /\ pc[Coordinator] = "save" => IsMarked(h[Coordinator])

IndexerInv ==
    /\ TypeOK
    /\ PollerInv
    /\ DueInv
    /\ CoordinatorInv
    /\ ProgressSound
    /\ PollerNoGap

\* What the poller's hash and the markers owe to the blocks that were canonical
\* when a decrease was seen; inductive when the poller is the only writer.
HealInv ==
    /\ StartHeight = None
    /\ \A x \in Heights : chain[x] <= reorgs /\ due[x] <= chain[x]
    /\ pc[Poller] = "index" => hash[Poller] >= due[h[Poller]]
    /\ pc[Poller] = "publish" => marked[h[Poller]] >= due[h[Poller]]
    /\ ReorgHealed

-----------------------------------------------------------------------------
(* What the control-flow helpers do to the workers' locals *)

USE DEF Workers, Poller, Coordinator

\* Goto moves one worker and no other.
LEMMA GotoFact ==
  ASSUME TypeOK, NEW w \in Workers, NEW label \in Labels, Goto(w, label)
  PROVE  /\ pc' \in [Workers -> Labels]
         /\ pc'[w] = label
         /\ \A v \in Workers : v # w => pc'[v] = pc[v]
  BY DEF TypeOK, Goto

\* Beginning a block resets the worker's hash and leaves the other worker alone.
LEMMA StartBlockFact ==
  ASSUME TypeOK,
         NEW w \in Workers, NEW height \in Heights, StartBlock(w, height)
  PROVE  /\ pc' \in [Workers -> Labels]
         /\ h' \in [Workers -> Heights]
         /\ hash' \in [Workers -> 0..MaxReorgs]
         /\ goal' = goal
         /\ pc'[w] = "hash" /\ h'[w] = height
         /\ \A v \in Workers : v # w =>
               pc'[v] = pc[v] /\ h'[v] = h[v] /\ hash'[v] = hash[v]
<1>1. Goto(w, "hash") /\ "hash" \in Labels
  BY DEF StartBlock, Labels
<1>2. /\ pc' \in [Workers -> Labels] /\ pc'[w] = "hash"
      /\ \A v \in Workers : v # w => pc'[v] = pc[v]
  BY <1>1, GotoFact
<1>3. 0 \in 0..MaxReorgs
  BY ConstantsAssumption
<1> QED
  BY <1>2, <1>3 DEF TypeOK, StartBlock

\* Leaving the block loop clears one worker's locals and leaves the other alone.
LEMMA LeaveLoopFact ==
  ASSUME TypeOK,
         NEW w \in Workers, NEW label \in Labels, LeaveLoop(w, label)
  PROVE  /\ pc' \in [Workers -> Labels]
         /\ h' \in [Workers -> Heights]
         /\ hash' \in [Workers -> 0..MaxReorgs]
         /\ goal' \in [Workers -> Heights]
         /\ pc'[w] = label
         /\ \A v \in Workers : v # w =>
               /\ pc'[v] = pc[v] /\ h'[v] = h[v]
               /\ hash'[v] = hash[v] /\ goal'[v] = goal[v]
<1>1. Goto(w, label)
  BY DEF LeaveLoop
<1>2. /\ pc' \in [Workers -> Labels] /\ pc'[w] = label
      /\ \A v \in Workers : v # w => pc'[v] = pc[v]
  BY <1>1, GotoFact
<1>3. 0 \in 0..MaxReorgs /\ 0 \in Heights
  BY ConstantsAssumption DEF Heights
<1> QED
  BY <1>2, <1>3 DEF TypeOK, LeaveLoop

-----------------------------------------------------------------------------
(* The inductive invariant *)

\* The inductive invariant holds at the first start of the service.
LEMMA InitInv == Init => IndexerInv
  BY ConstantsAssumption
  DEF Init, Boot, CoordinatorStart, LargerOf, IndexerInv, TypeOK, PollerInv,
      DueInv, CoordinatorInv, ProgressSound, PollerNoGap, PollerProcessing,
      IsMarked, Heights, HeightOrNone, None, Labels

\* A step that touches neither the tables nor what the workers know keeps what the
\* invariant says of them.
LEMMA Frame ==
  ASSUME IndexerInv, TypeOK',
         UNCHANGED <<progress, marked, pc, h, goal, last_height, poolsTried, due,
                     init_signal>>
  PROVE  IndexerInv'
<1>1. PollerInv'
  BY DEF IndexerInv, PollerInv, PollerProcessing, IsMarked
<1>2. DueInv'
  BY DEF IndexerInv, DueInv
<1>3. CoordinatorInv'
  BY DEF IndexerInv, CoordinatorInv, IsMarked
<1>4. ProgressSound' /\ PollerNoGap'
  BY DEF IndexerInv, ProgressSound, PollerNoGap, IsMarked
<1> QED BY <1>1, <1>2, <1>3, <1>4 DEF IndexerInv

\* Every step keeps the inductive invariant.
LEMMA StepInv == IndexerInv /\ [Next]_vars => IndexerInv'
<1> SUFFICES ASSUME IndexerInv, [Next]_vars PROVE IndexerInv'
  OBVIOUS
<1>a. TypeOK /\ PollerInv /\ DueInv /\ CoordinatorInv /\ ProgressSound /\ PollerNoGap
  BY DEF IndexerInv
<1> SUFFICES /\ TypeOK' /\ PollerInv' /\ DueInv' /\ CoordinatorInv'
             /\ ProgressSound' /\ PollerNoGap'
  BY DEF IndexerInv
<1> USE ConstantsAssumption DEF Heights, HeightOrNone, None
<1>1. CASE NewBlock
  <2>1. TypeOK'
    BY <1>a, <1>1 DEF NewBlock, TypeOK, envVars, dbVars, boundVars, workVars,
       pollVars
  <2>2. UNCHANGED <<progress, marked, pc, h, goal, last_height, poolsTried, due,
                    init_signal>>
    BY <1>1 DEF NewBlock, dbVars, workVars, pollVars
  <2> QED BY <2>1, <2>2, Frame DEF IndexerInv
<1>2. CASE Reorg
  <2>1. reorgs' \in 0..MaxReorgs /\ tip' \in Heights
    BY <1>a, <1>2 DEF Reorg, TypeOK
  <2>2. chain' \in [Heights -> 0..MaxReorgs]
    BY <1>a, <1>2, <2>1 DEF Reorg, TypeOK
  <2>3. UNCHANGED <<dbVars, boundVars, workVars, pollVars, init_signal>>
    BY <1>2 DEF Reorg
  <2>4. TypeOK'
    BY <1>a, <2>1, <2>2, <2>3 DEF TypeOK, dbVars, boundVars, workVars, pollVars
  <2> QED BY <2>3, <2>4, Frame DEF IndexerInv, dbVars, workVars, pollVars
<1>3. CASE PollFirst
  <2>1. /\ pc[Poller] = "poll" /\ tip > 0 /\ last_height = None
        /\ goal' = [goal EXCEPT ![Poller] = tip]
        /\ pc' = [pc EXCEPT ![Poller] = "pools"]
        /\ backoff_ms' = PollInterval
        /\ due' = [x \in Heights |-> IF x > tip THEN 0 ELSE None]
        /\ UNCHANGED <<envVars, dbVars, boundVars, h, hash, last_height, poolsTried,
                       init_signal>>
    BY <1>3 DEF PollFirst, TipReadable, Goto
  <2>2. due' \in [Heights -> 0..MaxReorgs \cup {None}]
    BY <1>a, <2>1 DEF TypeOK
  <2>3. TypeOK'
    BY <1>a, <2>1, <2>2 DEF TypeOK, Labels, envVars, dbVars, boundVars
  <2>4. PollerInv'
    BY <1>a, <2>1 DEF TypeOK, PollerInv, PollerProcessing, IsMarked, dbVars
  <2>5. DueInv'
    BY <1>a, <2>1 DEF TypeOK, DueInv
  <2>6. pc'[Coordinator] = pc[Coordinator] /\ goal'[Coordinator] = goal[Coordinator]
    BY <1>a, <2>1 DEF TypeOK
  <2>7. CoordinatorInv' /\ ProgressSound'
    BY <1>a, <2>1, <2>6 DEF CoordinatorInv, ProgressSound, IsMarked, dbVars
  <2>8. PollerNoGap'
    BY <1>a, <2>1 DEF TypeOK, PollerNoGap, IsMarked, dbVars
  <2> QED BY <2>3, <2>4, <2>5, <2>7, <2>8
<1>4. CASE PollAhead
  <2>1. /\ pc[Poller] = "poll" /\ tip > 0 /\ last_height # None /\ tip > last_height
        /\ goal' = [goal EXCEPT ![Poller] = tip]
        /\ pc' = [pc EXCEPT ![Poller] = "pools"]
        /\ backoff_ms' = PollInterval
        /\ due' = due
        /\ UNCHANGED <<envVars, dbVars, boundVars, h, hash, last_height, poolsTried,
                       init_signal>>
    BY <1>4 DEF PollAhead, TipReadable, Goto
  <2>2. due' \in [Heights -> 0..MaxReorgs \cup {None}]
    BY <1>a, <2>1 DEF TypeOK
  <2>3. TypeOK'
    BY <1>a, <2>1, <2>2 DEF TypeOK, Labels, envVars, dbVars, boundVars
  <2>4. PollerInv'
    BY <1>a, <2>1 DEF TypeOK, PollerInv, PollerProcessing, IsMarked, dbVars
  <2>5. DueInv'
    BY <1>a, <2>1 DEF TypeOK, DueInv
  <2>6. pc'[Coordinator] = pc[Coordinator] /\ goal'[Coordinator] = goal[Coordinator]
    BY <1>a, <2>1 DEF TypeOK
  <2>7. CoordinatorInv' /\ ProgressSound'
    BY <1>a, <2>1, <2>6 DEF CoordinatorInv, ProgressSound, IsMarked, dbVars
  <2>8. PollerNoGap'
    BY <1>a, <2>1 DEF TypeOK, PollerNoGap, IsMarked, dbVars
  <2> QED BY <2>3, <2>4, <2>5, <2>7, <2>8
<1>5. CASE PollDecreased
  <2>1. /\ pc[Poller] = "poll" /\ last_height' = tip /\ tip < last_height
        /\ backoff_ms' \in Nat
        /\ due' = [x \in Heights |-> IF x > tip THEN chain[x] ELSE due[x]]
        /\ UNCHANGED <<envVars, dbVars, boundVars, workVars, poolsTried, init_signal>>
    BY <1>5 DEF PollDecreased, PointerAfterDecrease
  <2>2. due' \in [Heights -> 0..MaxReorgs \cup {None}]
    BY <1>a, <2>1 DEF TypeOK
  <2>3. TypeOK'
    BY <1>a, <2>1, <2>2 DEF TypeOK, envVars, dbVars, boundVars, workVars
  <2>4. PollerInv'
    BY <1>a, <2>1 DEF PollerInv, PollerProcessing, workVars
  <2>5. DueInv'
    BY <1>a, <2>1 DEF TypeOK, DueInv
  <2>6. CoordinatorInv' /\ ProgressSound'
    BY <1>a, <2>1 DEF CoordinatorInv, ProgressSound, IsMarked, dbVars, workVars
  <2>7. PollerNoGap'
    BY <1>a, <2>1 DEF TypeOK, PollerNoGap, IsMarked, dbVars
  <2> QED BY <2>3, <2>4, <2>5, <2>6, <2>7
<1>6. CASE PollSame
  <2>1. TypeOK'
    BY <1>a, <1>6 DEF PollSame, TypeOK, envVars, dbVars, boundVars, workVars,
       pollVars
  <2>2. UNCHANGED <<progress, marked, pc, h, goal, last_height, poolsTried, due,
                    init_signal>>
    BY <1>6 DEF PollSame, dbVars, workVars, pollVars
  <2> QED BY <2>1, <2>2, Frame DEF IndexerInv
<1>7. CASE PollError
  <2>1. backoff_ms' \in Nat
    BY <1>a, <1>7 DEF PollError, SmallerOf, TypeOK
  <2>2. UNCHANGED <<envVars, dbVars, boundVars, workVars, last_height, poolsTried,
                    due, init_signal>>
    BY <1>7 DEF PollError
  <2>3. TypeOK'
    BY <1>a, <2>1, <2>2 DEF TypeOK, envVars, dbVars, boundVars, workVars
  <2> QED BY <2>2, <2>3, Frame DEF IndexerInv, dbVars, workVars
<1>8. CASE ResolveHash(Poller)
  BY <1>a, <1>8
  DEF ResolveHash, HashOf, Goto,
      TypeOK, PollerInv, DueInv, CoordinatorInv, ProgressSound,
      PollerNoGap, PollerProcessing, IsMarked, Labels, envVars, dbVars, boundVars,
      workVars, pollVars
<1>9. CASE InitReceived
  BY <1>a, <1>9
  DEF InitReceived, Goto,
      TypeOK, PollerInv, DueInv, CoordinatorInv, ProgressSound,
      PollerNoGap, PollerProcessing, IsMarked, Labels, envVars, dbVars, boundVars,
      workVars, pollVars
<1>10. CASE ReadTip
  BY <1>a, <1>10
  DEF ReadTip, TipReadable, Goto,
      TypeOK, PollerInv, DueInv, CoordinatorInv, ProgressSound,
      PollerNoGap, PollerProcessing, IsMarked, Labels, envVars, dbVars, boundVars,
      workVars, pollVars
<1>11. CASE ResolveHash(Coordinator)
  BY <1>a, <1>11
  DEF ResolveHash, HashOf, Goto,
      TypeOK, PollerInv, DueInv, CoordinatorInv, ProgressSound,
      PollerNoGap, PollerProcessing, IsMarked, Labels, envVars, dbVars, boundVars,
      workVars, pollVars
<1>12. CASE Restart
  BY <1>a, <1>12
  DEF Restart, Boot, CoordinatorStart, LargerOf,
      TypeOK, PollerInv, DueInv, CoordinatorInv, ProgressSound,
      PollerNoGap, PollerProcessing, IsMarked, Labels, envVars, dbVars, boundVars,
      workVars, pollVars
<1>13. CASE RecordBlock(Poller)
  <2>1. /\ pc' \in [Workers -> Labels] /\ pc'[Poller] = "publish"
        /\ pc'[Coordinator] = pc[Coordinator]
    BY <1>a, <1>13, GotoFact DEF RecordBlock, Labels
  <2>2. /\ marked' \in [Heights -> 0..MaxReorgs \cup {None}]
        /\ IsMarked(h[Poller])'
        /\ \A x \in Heights : IsMarked(x) => IsMarked(x)'
    BY <1>a, <1>13 DEF RecordBlock, TypeOK, IsMarked
  <2>3. pc[Poller] = "index" /\ UNCHANGED <<envVars, progress, announced, boundVars,
          h, hash, goal, pollVars, init_signal>>
    BY <1>13 DEF RecordBlock
  <2> QED
    BY <1>a, <2>1, <2>2, <2>3
    DEF TypeOK, PollerInv, DueInv, CoordinatorInv, ProgressSound, PollerNoGap,
        PollerProcessing, envVars, boundVars, pollVars
<1>14. CASE RecordBlock(Coordinator)
  <2>1. /\ pc' \in [Workers -> Labels] /\ pc'[Coordinator] = "save"
        /\ pc'[Poller] = pc[Poller]
    BY <1>a, <1>14, GotoFact DEF RecordBlock, Labels
  <2>2. /\ marked' \in [Heights -> 0..MaxReorgs \cup {None}]
        /\ IsMarked(h[Coordinator])'
        /\ \A x \in Heights : IsMarked(x) => IsMarked(x)'
    BY <1>a, <1>14 DEF RecordBlock, TypeOK, IsMarked
  <2>3. pc[Coordinator] = "index" /\ UNCHANGED <<envVars, progress, announced,
          boundVars, h, hash, goal, pollVars, init_signal>>
    BY <1>14 DEF RecordBlock
  <2> QED
    BY <1>a, <2>1, <2>2, <2>3
    DEF TypeOK, PollerInv, DueInv, CoordinatorInv, ProgressSound, PollerNoGap,
        PollerProcessing, envVars, boundVars, pollVars
<1>15. CASE RefreshPools
  <2>0. /\ pc[Poller] = "pools" /\ poolsTried' = goal[Poller]
        /\ UNCHANGED <<envVars, dbVars, boundVars, backoff_ms, due>>
    BY <1>15 DEF RefreshPools
  <2>1. ASSUME NEW height \in Heights, StartBlock(Poller, height),
               last_height # None => height = last_height + 1,
               last_height = None => height = goal[Poller] /\ StartHeight = None,
               height <= goal[Poller], UNCHANGED <<last_height, init_signal>>
        PROVE  /\ TypeOK' /\ PollerInv' /\ DueInv' /\ CoordinatorInv'
               /\ ProgressSound' /\ PollerNoGap'
    <3>1. /\ pc' \in [Workers -> Labels] /\ h' \in [Workers -> Heights]
          /\ hash' \in [Workers -> 0..MaxReorgs] /\ goal' = goal
          /\ pc'[Poller] = "hash" /\ h'[Poller] = height
          /\ pc'[Coordinator] = pc[Coordinator] /\ h'[Coordinator] = h[Coordinator]
      BY <1>a, <2>1, StartBlockFact
    <3>2. TypeOK'
      BY <1>a, <2>0, <2>1, <3>1 DEF TypeOK, envVars, dbVars, boundVars
    <3>3. PollerInv' /\ DueInv'
      BY <1>a, <2>0, <2>1, <3>1 DEF TypeOK, PollerInv, PollerProcessing, DueInv
    <3>4. CoordinatorInv' /\ ProgressSound' /\ PollerNoGap'
      BY <1>a, <2>0, <2>1, <3>1
      DEF TypeOK, CoordinatorInv, ProgressSound, PollerNoGap, IsMarked, dbVars
    <3> QED BY <3>2, <3>3, <3>4
  <2>2. CASE last_height # None
    <3>1. /\ StartBlock(Poller, last_height + 1) /\ UNCHANGED <<last_height, init_signal>>
          /\ last_height + 1 \in Heights /\ last_height + 1 <= goal[Poller]
      BY <1>a, <1>15, <2>0, <2>2 DEF RefreshPools, TypeOK, PollerInv
    <3> QED BY <2>1, <2>2, <3>1
  <2>3. CASE last_height = None /\ ProcessesFirstTip
    <3>1. /\ StartBlock(Poller, goal[Poller]) /\ UNCHANGED <<last_height, init_signal>>
          /\ goal[Poller] \in Heights /\ StartHeight = None
      BY <1>a, <1>15, <2>3 DEF RefreshPools, ProcessesFirstTip, TypeOK
    <3> QED BY <2>1, <2>3, <3>1
  <2>4. CASE last_height = None /\ ~ProcessesFirstTip
    <3>1. /\ LeaveLoop(Poller, "poll") /\ last_height' = goal[Poller]
          /\ init_signal' = SignalAfterFirstTick
      BY <1>15, <2>4 DEF RefreshPools
    <3>2. /\ pc' \in [Workers -> Labels] /\ h' \in [Workers -> Heights]
          /\ hash' \in [Workers -> 0..MaxReorgs] /\ goal' \in [Workers -> Heights]
          /\ pc'[Poller] = "poll"
          /\ pc'[Coordinator] = pc[Coordinator] /\ h'[Coordinator] = h[Coordinator]
          /\ goal'[Coordinator] = goal[Coordinator]
      BY <1>a, <3>1, LeaveLoopFact DEF Labels
    <3>3. TypeOK'
      BY <1>a, <2>0, <3>1, <3>2
      DEF TypeOK, SignalAfterFirstTick, envVars, dbVars, boundVars
    <3>4. PollerInv'
      BY <3>2 DEF PollerInv, PollerProcessing
    <3>9. DueInv'
      <4>1. goal[Poller] \in Heights /\ due' = due /\ last_height' = goal[Poller]
        BY <1>a, <2>0, <3>1 DEF TypeOK
      <4>2. \A x \in Heights : due[x] # None <=> x > goal[Poller]
        BY <1>a, <2>0, <2>4 DEF DueInv
      <4>3. \A x \in Heights : x > last_height' => due'[x] # None
        BY <4>1, <4>2
      <4> QED BY <3>2, <4>3 DEF DueInv
    <3>5. CoordinatorInv'
      <4>1. poolsTried' # None
        BY <1>a, <2>0 DEF TypeOK
      <4>2. init_signal = "sent" => init_signal' = "sent"
        BY <3>1 DEF SignalAfterFirstTick
      <4> HIDE DEF Heights, HeightOrNone, None
      <4> QED
        BY <1>a, <2>0, <3>2, <4>1, <4>2 DEF CoordinatorInv, IsMarked, dbVars
    <3>6. ProgressSound'
      BY <1>a, <2>0 DEF ProgressSound, IsMarked, dbVars
    <3>7. \A x \in Heights : due[x] # None <=> x > goal[Poller]
      BY <1>a, <2>0, <2>4 DEF DueInv
    <3>8. PollerNoGap'
      BY <1>a, <2>0, <3>1, <3>7 DEF TypeOK, PollerNoGap
    <3> QED BY <3>3, <3>4, <3>5, <3>6, <3>8, <3>9
  <2> QED BY <2>2, <2>3, <2>4
<1>16. CASE PublishBlock
  <2>0. /\ pc[Poller] = "publish" /\ announced' \in {announced, h[Poller]}
        /\ last_height' = h[Poller]
        /\ UNCHANGED <<envVars, progress, marked, boundVars, backoff_ms, poolsTried,
                       due, init_signal>>
    BY <1>16 DEF PublishBlock
  <2>1. /\ IsMarked(h[Poller]) /\ goal[Poller] = poolsTried
        /\ last_height # None => h[Poller] = last_height + 1
        /\ last_height = None => h[Poller] = goal[Poller]
    BY <1>a, <2>0 DEF PollerInv, PollerProcessing
  <2>2. /\ \A x \in Heights : x > h[Poller] => due[x] # None
        /\ \A x \in Heights : due[x] # None /\ x <= h[Poller] => IsMarked(x)
    <3>1. CASE last_height # None
      BY <1>a, <2>1, <3>1 DEF TypeOK, DueInv, PollerNoGap
    <3>2. CASE last_height = None
      <4>1. \A x \in Heights : due[x] # None <=> x > goal[Poller]
        BY <1>a, <2>0, <3>2 DEF DueInv
      <4> QED BY <1>a, <2>1, <3>2, <4>1 DEF TypeOK
    <3> QED BY <3>1, <3>2
  <2>3. CASE h[Poller] < goal[Poller]
    <3>1. StartBlock(Poller, h[Poller] + 1) /\ h[Poller] + 1 \in Heights
      BY <1>a, <1>16, <2>3 DEF PublishBlock, TypeOK
    <3>2. /\ pc' \in [Workers -> Labels] /\ h' \in [Workers -> Heights]
          /\ hash' \in [Workers -> 0..MaxReorgs] /\ goal' = goal
          /\ pc'[Poller] = "hash" /\ h'[Poller] = h[Poller] + 1
          /\ pc'[Coordinator] = pc[Coordinator] /\ h'[Coordinator] = h[Coordinator]
      BY <1>a, <3>1, StartBlockFact
    <3>3. TypeOK'
      BY <1>a, <2>0, <3>2 DEF TypeOK, envVars, boundVars
    <3>a. h[Poller] \in Int /\ h[Poller] >= 0 /\ goal[Poller] \in Int
      BY <1>a DEF TypeOK
    <3>b. PollerInv'
      BY <2>0, <2>1, <2>3, <3>2, <3>a DEF PollerInv, PollerProcessing
    <3>4. PollerInv' /\ DueInv'
      BY <2>0, <2>2, <3>2, <3>a, <3>b DEF DueInv
    <3>5. CoordinatorInv' /\ ProgressSound' /\ PollerNoGap'
      BY <1>a, <2>0, <2>2, <3>2
      DEF CoordinatorInv, ProgressSound, PollerNoGap, IsMarked
    <3> QED BY <3>3, <3>4, <3>5
  <2>4. CASE ~(h[Poller] < goal[Poller])
    <3>1. LeaveLoop(Poller, "poll")
      BY <1>16, <2>4 DEF PublishBlock
    <3>2. /\ pc' \in [Workers -> Labels] /\ h' \in [Workers -> Heights]
          /\ hash' \in [Workers -> 0..MaxReorgs] /\ goal' \in [Workers -> Heights]
          /\ pc'[Poller] = "poll"
          /\ pc'[Coordinator] = pc[Coordinator] /\ h'[Coordinator] = h[Coordinator]
          /\ goal'[Coordinator] = goal[Coordinator]
      BY <1>a, <3>1, LeaveLoopFact DEF Labels
    <3>3. TypeOK'
      BY <1>a, <2>0, <3>2 DEF TypeOK, envVars, boundVars
    <3>4. PollerInv' /\ DueInv'
      BY <1>a, <2>0, <2>2, <3>2 DEF TypeOK, PollerInv, PollerProcessing, DueInv
    <3>5. CoordinatorInv' /\ ProgressSound' /\ PollerNoGap'
      BY <1>a, <2>0, <2>2, <3>2
      DEF CoordinatorInv, ProgressSound, PollerNoGap, IsMarked
    <3> QED BY <3>3, <3>4, <3>5
  <2> QED BY <2>3, <2>4
<1>17. CASE PollerBlockFails
  <2>0. /\ PollerProcessing /\ last_height' = PointerAfterFailure
        /\ LeaveLoop(Poller, "poll")
        /\ UNCHANGED <<envVars, dbVars, boundVars, backoff_ms, poolsTried, due, init_signal>>
    BY <1>17 DEF PollerBlockFails, PollerProcessing
  <2>1. /\ pc' \in [Workers -> Labels] /\ h' \in [Workers -> Heights]
        /\ hash' \in [Workers -> 0..MaxReorgs] /\ goal' \in [Workers -> Heights]
        /\ pc'[Poller] = "poll"
        /\ pc'[Coordinator] = pc[Coordinator] /\ h'[Coordinator] = h[Coordinator]
        /\ goal'[Coordinator] = goal[Coordinator]
    BY <1>a, <2>0, LeaveLoopFact DEF Labels
  <2>2. TypeOK'
    BY <1>a, <2>0, <2>1 DEF TypeOK, PointerAfterFailure, envVars, dbVars, boundVars
  <2>3. PollerInv' /\ DueInv' /\ PollerNoGap'
    <3>1. PollerInv'
      BY <2>1 DEF PollerInv, PollerProcessing
    <3>2. CASE last_height # None
      BY <1>a, <2>0, <2>1, <3>1, <3>2
      DEF DueInv, PollerNoGap, IsMarked, PointerAfterFailure, dbVars
    <3>3. CASE last_height = None
      <4>1. \A x \in Heights : due[x] # None <=> x > goal[Poller]
        BY <1>a, <2>0, <3>3 DEF DueInv, PollerProcessing
      <4>2. last_height' = goal[Poller] /\ due' = due /\ goal[Poller] \in Heights
        BY <1>a, <2>0, <3>3 DEF PointerAfterFailure, TypeOK
      <4> QED BY <2>1, <3>1, <4>1, <4>2 DEF DueInv, PollerNoGap
    <3> QED BY <3>2, <3>3
  <2>4. CoordinatorInv' /\ ProgressSound'
    BY <1>a, <2>0, <2>1 DEF CoordinatorInv, ProgressSound, IsMarked, dbVars
  <2> QED BY <2>2, <2>3, <2>4
<1>18. ASSUME NEW height \in Heights, StartBlock(Coordinator, height),
              StartHeight # None, init_signal = "sent",
              height <= goal[Coordinator],
              \A x \in Heights : StartHeight <= x /\ x < height => IsMarked(x),
              progress' \in HeightOrNone, ProgressSound',
              UNCHANGED <<envVars, marked, announced, boundVars, pollVars, init_signal>>
       PROVE  /\ TypeOK' /\ PollerInv' /\ DueInv' /\ CoordinatorInv'
              /\ ProgressSound' /\ PollerNoGap'
  <2>1. /\ pc' \in [Workers -> Labels] /\ h' \in [Workers -> Heights]
        /\ hash' \in [Workers -> 0..MaxReorgs] /\ goal' = goal
        /\ pc'[Coordinator] = "hash" /\ h'[Coordinator] = height
        /\ pc'[Poller] = pc[Poller] /\ h'[Poller] = h[Poller]
    BY <1>a, <1>18, StartBlockFact
  <2>2. TypeOK'
    BY <1>a, <1>18, <2>1 DEF TypeOK, envVars, boundVars, pollVars
  <2>3. PollerInv' /\ DueInv' /\ PollerNoGap'
    BY <1>a, <1>18, <2>1
    DEF PollerInv, PollerProcessing, DueInv, PollerNoGap, IsMarked, pollVars
  <2>4. CoordinatorInv'
    BY <1>a, <1>18, <2>1 DEF CoordinatorInv, IsMarked, pollVars
  <2> QED BY <1>18, <2>2, <2>3, <2>4
<1>19. ASSUME LeaveLoop(Coordinator, "idle"), StartHeight # None,
              init_signal = "sent", progress' \in HeightOrNone, ProgressSound',
              UNCHANGED <<envVars, marked, announced, boundVars, pollVars, init_signal>>
       PROVE  /\ TypeOK' /\ PollerInv' /\ DueInv' /\ CoordinatorInv'
              /\ ProgressSound' /\ PollerNoGap'
  <2>1. /\ pc' \in [Workers -> Labels] /\ h' \in [Workers -> Heights]
        /\ hash' \in [Workers -> 0..MaxReorgs] /\ goal' \in [Workers -> Heights]
        /\ pc'[Coordinator] = "idle"
        /\ pc'[Poller] = pc[Poller] /\ h'[Poller] = h[Poller]
        /\ goal'[Poller] = goal[Poller]
    BY <1>a, <1>19, LeaveLoopFact DEF Labels
  <2>2. TypeOK'
    BY <1>a, <1>19, <2>1 DEF TypeOK, envVars, boundVars, pollVars
  <2>3. PollerInv' /\ DueInv' /\ PollerNoGap'
    BY <1>a, <1>19, <2>1
    DEF PollerInv, PollerProcessing, DueInv, PollerNoGap, IsMarked, pollVars
  <2>4. CoordinatorInv'
    BY <1>a, <1>19, <2>1 DEF CoordinatorInv, pollVars
  <2> QED BY <1>19, <2>2, <2>3, <2>4
<1>20. CASE PlanPass
  <2>0. /\ StartHeight # None /\ init_signal = "sent"
        /\ progress' = progress /\ progress' \in HeightOrNone /\ ProgressSound'
        /\ UNCHANGED <<envVars, marked, announced, boundVars, pollVars, init_signal>>
    BY <1>a, <1>20 DEF PlanPass, TypeOK, CoordinatorInv, ProgressSound, IsMarked, dbVars
  <2>1. CASE NextHeight > goal[Coordinator]
    BY <1>19, <1>20, <2>0, <2>1 DEF PlanPass
  <2>2. CASE ~(NextHeight > goal[Coordinator])
    <3>1. StartBlock(Coordinator, NextHeight)
      BY <1>20, <2>2 DEF PlanPass
    <3>2. NextHeight \in Heights /\ NextHeight <= goal[Coordinator]
      BY <1>a, <2>0, <2>2 DEF NextHeight, TypeOK
    <3>3. \A x \in Heights : StartHeight <= x /\ x < NextHeight => IsMarked(x)
      BY <1>a, <2>0 DEF NextHeight, ProgressSound, TypeOK
    <3> QED BY <1>18, <2>0, <3>1, <3>2, <3>3
  <2> QED BY <2>1, <2>2
<1>21. CASE SaveProgress
  <2>0. /\ StartHeight # None /\ init_signal = "sent"
        /\ progress' = h[Coordinator] /\ progress' \in HeightOrNone
        /\ UNCHANGED <<envVars, marked, announced, boundVars, pollVars, init_signal>>
    BY <1>a, <1>21 DEF SaveProgress, TypeOK, CoordinatorInv
  <2>1. \A x \in Heights : StartHeight <= x /\ x <= h[Coordinator] => IsMarked(x)
    BY <1>a, <1>21 DEF SaveProgress, CoordinatorInv, TypeOK
  <2>2. ProgressSound'
    BY <2>0, <2>1 DEF ProgressSound, IsMarked
  <2>3. CASE h[Coordinator] < goal[Coordinator]
    <3>1. StartBlock(Coordinator, h[Coordinator] + 1)
      BY <1>21, <2>3 DEF SaveProgress
    <3>2. h[Coordinator] + 1 \in Heights /\ h[Coordinator] + 1 <= goal[Coordinator]
      BY <1>a, <2>3 DEF TypeOK
    <3>3. \A x \in Heights : StartHeight <= x /\ x < h[Coordinator] + 1 => IsMarked(x)
      BY <1>a, <2>1 DEF TypeOK
    <3> QED BY <1>18, <2>0, <2>2, <3>1, <3>2, <3>3
  <2>4. CASE ~(h[Coordinator] < goal[Coordinator])
    BY <1>19, <1>21, <2>0, <2>2, <2>4 DEF SaveProgress
  <2> QED BY <2>3, <2>4
<1>22. CASE PassFails
  <2>1. /\ StartHeight # None /\ init_signal = "sent"
        /\ progress' \in HeightOrNone /\ ProgressSound'
        /\ UNCHANGED <<envVars, marked, announced, boundVars, pollVars, init_signal>>
    BY <1>a, <1>22 DEF PassFails, TypeOK, CoordinatorInv, ProgressSound, IsMarked, dbVars
  <2> QED BY <1>19, <1>22, <2>1 DEF PassFails, EndPass
<1>23. ASSUME NEW target \in Heights, ResetProgress(target)
       PROVE  /\ TypeOK' /\ PollerInv' /\ DueInv' /\ CoordinatorInv'
              /\ ProgressSound' /\ PollerNoGap'
  BY <1>a, <1>23
  DEF ResetProgress,
      TypeOK, PollerInv, DueInv, CoordinatorInv, ProgressSound,
      PollerNoGap, PollerProcessing, IsMarked, Labels, envVars, dbVars, boundVars,
      workVars, pollVars
<1>24. CASE UNCHANGED vars
  <2>1. TypeOK'
    BY <1>a, <1>24 DEF vars, TypeOK, envVars, dbVars, boundVars, workVars, pollVars
  <2> QED BY <1>24, <2>1, Frame DEF vars, IndexerInv, dbVars, workVars, pollVars
<1> QED
  BY <1>1, <1>2, <1>3, <1>4, <1>5, <1>6, <1>7, <1>8, <1>9, <1>10, <1>11, <1>12,
     <1>13, <1>14, <1>15, <1>16, <1>17, <1>20, <1>21, <1>22, <1>23, <1>24
  DEF Next, PollerNext, CoordinatorNext

-----------------------------------------------------------------------------
(* Theorems *)

\* Type correctness of the scheduler: in particular every height a worker starts
\* on lies between 0 and the highest tip, and the progress key never leaves the
\* range of heights.
THEOREM TypeCorrect == Spec => []TypeOK
<1>1. IndexerInv => TypeOK
  BY DEF IndexerInv
<1> QED BY <1>1, InitInv, StepInv, PTL DEF Spec

\* Catch-up progress is sound for every start height, chain length, number of
\* reorganisations, restarts and progress resets: no crash point, failed call or
\* concurrent reset lets last_processed_height pass a height without a marker.
THEOREM ProgressIsSound == Spec => []ProgressSound
<1>1. IndexerInv => ProgressSound
  BY DEF IndexerInv
<1> QED BY <1>1, InitInv, StepInv, PTL DEF Spec

\* The poller never leaves a height without a marker between the first height it
\* observed in a process (or the lowest it fell back to) and its pointer.
THEOREM PollerLeavesNoGap == Spec => []PollerNoGap
<1>1. IndexerInv => PollerNoGap
  BY DEF IndexerInv
<1> QED BY <1>1, InitInv, StepInv, PTL DEF Spec

\* No block is processed before the pools refresh it depends on was attempted.
THEOREM PoolsBeforeBlocks == Spec => []PoolsRefreshedFirst
<1>1. IndexerInv => PoolsRefreshedFirst
  BY ConstantsAssumption
  DEF IndexerInv, TypeOK, PollerInv, CoordinatorInv, PollerProcessing,
      PoolsRefreshedFirst, Processing, Heights, HeightOrNone, None
<1> QED BY <1>1, InitInv, StepInv, PTL DEF Spec

\* Announcements: only recorded blocks, and with a start height only blocks above
\* the first tip observed in the process.
THEOREM AnnouncesRealtimeOnly == Spec => PublishesRealtimeOnly
<1> DEFINE Announcement ==
      \A x \in Heights : x = announced' =>
          /\ IsMarked(x)
          /\ StartHeight # None => due[x] # None
<1>1. IndexerInv /\ [Next]_vars => [Announcement]_announced
  <2> SUFFICES ASSUME IndexerInv, [Next]_vars, announced' # announced
               PROVE  Announcement
    OBVIOUS
  <2>1. PublishBlock
    BY DEF Next, PollerNext, CoordinatorNext, NewBlock, Reorg, PollFirst,
           PollAhead, PollDecreased, PollSame, PollError, RefreshPools,
           PollerBlockFails, ResolveHash, RecordBlock, InitReceived, ReadTip,
           PlanPass, SaveProgress, PassFails, Restart, ResetProgress, vars, dbVars
  <2>2. announced' = h[Poller] /\ pc[Poller] = "publish"
    BY <2>1 DEF PublishBlock
  <2>3. IsMarked(h[Poller])
    BY <2>2 DEF IndexerInv, PollerInv
  <2>4. StartHeight # None => due[h[Poller]] # None
    <3>1. StartHeight # None => last_height # None /\ h[Poller] = last_height + 1
      BY <2>2 DEF IndexerInv, PollerInv, PollerProcessing
    <3>2. h[Poller] \in Heights /\ last_height \in Int
      BY ConstantsAssumption DEF IndexerInv, TypeOK, Heights, HeightOrNone, None
    <3> QED BY <3>1, <3>2 DEF IndexerInv, DueInv, Heights
  <2> QED BY <2>2, <2>3, <2>4
<1> QED BY <1>1, InitInv, StepInv, PTL DEF Spec, PublishesRealtimeOnly

\* Every step keeps HealInv: the poller, alone, records no block older than due.
LEMMA HealStep == IndexerInv /\ HealInv /\ [Next]_vars => HealInv'
<1> SUFFICES ASSUME IndexerInv, HealInv, [Next]_vars PROVE HealInv'
  OBVIOUS
<1>a. TypeOK /\ PollerInv /\ DueInv /\ CoordinatorInv
  BY DEF IndexerInv
<1> USE ConstantsAssumption DEF Heights, HeightOrNone, None, HealInv, ReorgHealed
<1>1. CASE NewBlock
  BY <1>1 DEF NewBlock, dbVars, workVars, pollVars
<1>2. CASE Reorg
  <2>5. PICK f \in Heights :
           chain' = [x \in Heights |-> IF x > f THEN reorgs + 1 ELSE chain[x]]
    BY <1>2 DEF Reorg
  <2>6. reorgs \in Int /\ reorgs' = reorgs + 1
    BY <1>a, <1>2 DEF Reorg, TypeOK
  <2>1. \A x \in Heights : chain'[x] <= reorgs' /\ chain'[x] >= chain[x]
    <3>1. \A x \in Heights : chain[x] \in Int /\ chain[x] <= reorgs
      BY <1>a DEF TypeOK
    <3>2. \A x \in Heights : chain'[x] = IF x > f THEN reorgs + 1 ELSE chain[x]
      BY <2>5
    <3> QED BY <2>6, <3>1, <3>2
  <2>2. \A x \in Heights : due[x] \in Int /\ chain[x] \in Int /\ chain'[x] \in Int
    <3>1. \A x \in Heights : due[x] \in Int /\ chain[x] \in Int
      BY <1>a DEF TypeOK
    <3> QED BY <2>5, <2>6, <3>1
  <2>3. UNCHANGED <<dbVars, workVars, pollVars>>
    BY <1>2 DEF Reorg
  <2>4. \A x \in Heights : chain'[x] <= reorgs' /\ due'[x] <= chain'[x]
    BY <2>1, <2>2, <2>3 DEF pollVars
  <2> QED BY <2>3, <2>4 DEF dbVars, workVars, pollVars
<1>3. CASE PollFirst
  <2>1. \A x \in Heights : due'[x] = IF x > tip THEN 0 ELSE None
    BY <1>3 DEF PollFirst
  <2>2. pc'[Poller] = "pools" /\ last_height' = None
    BY <1>a, <1>3 DEF PollFirst, Goto, TypeOK
  <2>3. /\ UNCHANGED <<chain, reorgs>>
        /\ \A x \in Heights : chain[x] \in Int /\ chain[x] >= 0
    BY <1>a, <1>3 DEF PollFirst, TypeOK, envVars
  <2>4. \A x \in Heights : chain'[x] <= reorgs' /\ due'[x] <= chain'[x]
    BY <2>1, <2>3
  <2>5. ReorgHealed'
    BY <2>2
  <2> QED BY <2>2, <2>4, <2>5
<1>4. CASE PollAhead
  BY <1>a, <1>4 DEF PollAhead, Goto, TypeOK, envVars, dbVars
<1>5. CASE PollDecreased
  <2>1. /\ last_height' = tip /\ pc[Poller] = "poll" /\ tip < last_height
        /\ UNCHANGED <<envVars, dbVars, workVars>>
        /\ \A x \in Heights : due'[x] = IF x > tip THEN chain[x] ELSE due[x]
    BY <1>5 DEF PollDecreased, PointerAfterDecrease
  <2>2. tip \in Int /\ last_height \in Int /\ \A x \in Heights : chain[x] \in Int
    BY <1>a DEF TypeOK
  <2> QED BY <2>1, <2>2 DEF envVars, dbVars, workVars
<1>6. CASE PollSame \/ PollError
  BY <1>6 DEF PollSame, PollError, envVars, dbVars, workVars
<1>7. CASE RefreshPools
  <2>1. UNCHANGED <<envVars, dbVars, due>> /\ pc[Poller] = "pools"
    BY <1>7 DEF RefreshPools
  <2>2. /\ pc'[Poller] \in {"hash", "poll"}
        /\ last_height' # last_height => last_height = None /\ last_height' = goal[Poller]
    BY <1>a, <1>7 DEF RefreshPools, StartBlock, LeaveLoop, Goto, TypeOK
  <2>3. last_height = None => \A x \in Heights : due[x] # None <=> x > goal[Poller]
    BY <1>a, <2>1 DEF DueInv
  <2>4. /\ goal[Poller] \in Int
        /\ \A x \in Heights : marked[x] \in Int /\ marked[x] >= None
    BY <1>a DEF TypeOK
  <2> QED BY <2>1, <2>2, <2>3, <2>4 DEF envVars, dbVars
<1>8. CASE PublishBlock
  <2>1. /\ pc[Poller] = "publish" /\ last_height' = h[Poller]
        /\ UNCHANGED <<envVars, marked, due>>
    BY <1>8 DEF PublishBlock
  <2>2. pc'[Poller] \in {"hash", "poll"}
    BY <1>a, <1>8 DEF PublishBlock, StartBlock, LeaveLoop, Goto, TypeOK
  <2>3. \A x \in Heights : due[x] # None /\ x <= h[Poller] => marked[x] >= due[x]
    <3>1. CASE last_height # None
      <4>1. h[Poller] = last_height + 1
        BY <1>a, <2>1, <3>1 DEF PollerInv, PollerProcessing
      <4> QED BY <1>a, <2>1, <4>1 DEF TypeOK
    <3>2. CASE last_height = None
      <4>1. /\ h[Poller] = goal[Poller]
            /\ \A x \in Heights : due[x] # None <=> x > goal[Poller]
        BY <1>a, <2>1, <3>2 DEF PollerInv, PollerProcessing, DueInv
      <4> QED BY <1>a, <4>1 DEF TypeOK
    <3> QED BY <3>1, <3>2
  <2> QED BY <2>1, <2>2, <2>3 DEF envVars
<1>9. CASE PollerBlockFails
  <2>1. /\ pc[Poller] \in {"hash", "index"} /\ last_height' = PointerAfterFailure
        /\ UNCHANGED <<envVars, dbVars, due>>
    BY <1>9 DEF PollerBlockFails
  <2>2. pc'[Poller] = "poll"
    BY <1>a, <1>9 DEF PollerBlockFails, LeaveLoop, Goto, TypeOK
  <2>3. last_height = None => \A x \in Heights : due[x] # None <=> x > goal[Poller]
    BY <1>a, <2>1 DEF DueInv
  <2>4. goal[Poller] \in Int
    BY <1>a DEF TypeOK
  <2> QED BY <2>1, <2>2, <2>3, <2>4 DEF PointerAfterFailure, envVars, dbVars
<1>10. CASE ResolveHash(Poller)
  <2>1. pc'[Poller] = "index" /\ hash'[Poller] = chain[h[Poller]] /\ h[Poller] \in Heights
    BY <1>a, <1>10 DEF ResolveHash, HashOf, Goto, TypeOK
  <2>2. /\ UNCHANGED <<envVars, dbVars, h, pollVars>>
        /\ \A x \in Heights : due[x] \in Int /\ chain[x] \in Int
    BY <1>a, <1>10 DEF ResolveHash, TypeOK
  <2> QED BY <2>1, <2>2 DEF envVars, dbVars, pollVars
<1>11. CASE RecordBlock(Poller)
  <2>1. /\ pc[Poller] = "index" /\ pc'[Poller] = "publish"
        /\ UNCHANGED <<envVars, h, pollVars>>
    BY <1>a, <1>11 DEF RecordBlock, Goto, TypeOK
  <2>2. /\ h[Poller] \in Heights
        /\ \A x \in Heights :
              marked'[x] = IF x = h[Poller] THEN hash[Poller] ELSE marked[x]
    BY <1>a, <1>11 DEF RecordBlock, TypeOK
  <2> QED BY <2>1, <2>2 DEF envVars, pollVars
<1>12. CASE Restart
  BY <1>a, <1>12 DEF Restart, Boot, TypeOK, envVars, dbVars
<1>13. ASSUME NEW target \in Heights, ResetProgress(target) PROVE HealInv'
  BY <1>13 DEF ResetProgress, envVars, workVars, pollVars
<1>14. CASE UNCHANGED vars
  BY <1>14 DEF vars, envVars, dbVars, workVars, pollVars
\* Without a start height the coordinator takes no step.
<1>15. ASSUME CoordinatorNext PROVE FALSE
  <2>1. pc[Coordinator] = "idle"
    BY <1>a DEF CoordinatorInv
  <2> QED
    BY <1>15, <2>1
    DEF CoordinatorNext, InitReceived, ReadTip, PlanPass, SaveProgress, PassFails,
        ResolveHash, RecordBlock
<1> QED
  BY <1>1, <1>2, <1>3, <1>4, <1>5, <1>6, <1>7, <1>8, <1>9, <1>10, <1>11, <1>12,
     <1>13, <1>14, <1>15
  DEF Next, PollerNext

\* Without a start height the poller is the only writer, and every reorganisation
\* it has seen as a decrease is healed behind its pointer.
THEOREM FollowerHealsReorgs == Spec /\ [](StartHeight = None) => []ReorgHealed
<1>1. Init /\ StartHeight = None => HealInv
  BY ConstantsAssumption
  DEF Init, Boot, HealInv, ReorgHealed, Heights, HeightOrNone, None
<1>2. HealInv => ReorgHealed
  BY DEF HealInv
<1> QED BY <1>1, <1>2, InitInv, StepInv, HealStep, PTL DEF Spec
=============================================================================

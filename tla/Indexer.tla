------------------------------- MODULE Indexer -------------------------------
(***************************************************************************)
(* The scheduling core of the service: BlockPoller::run and                *)
(* CatchUpCoordinator::run_once, the two futures main() selects over, with *)
(* the durable state they share (the ProcessedBlocks markers and the       *)
(* last_processed_height key of kv_store) and the Redis notifications.     *)
(*                                                                         *)
(* Both futures run on one task, so they interleave only at their awaits:  *)
(* one action stands for the code between two awaits whose order another   *)
(* actor can observe. Pipeline::process_block_sequential appears here as   *)
(* "resolve the hash, then record the marker, or fail"; its phases are the *)
(* subject of module BlockPipeline.                                        *)
(***************************************************************************)
EXTENDS Integers

CONSTANTS
    StartHeight,    \* cfg.start_height; None when START_HEIGHT is unset
    MaxHeight,      \* bound: the highest height Metashrew ever reports
    MaxReorgs,      \* bound: reorganisations and height regressions
    MaxRestarts,    \* bound: crashes or Ctrl-C followed by a restart
    MaxResets,      \* bound: uses of `dbctl reset-progress`
    PollInterval,   \* cfg.poll_interval_ms
    BackoffFloor,   \* the 250 ms floor of the first backoff
    BackoffCap      \* the 30 s cap of the tip-height backoff

None == -1

Heights == 0..MaxHeight
HeightOrNone == Heights \cup {None}

ASSUME ConstantsAssumption ==
    /\ MaxHeight \in Nat
    /\ StartHeight \in HeightOrNone
    /\ MaxReorgs \in Nat
    /\ MaxRestarts \in Nat
    /\ MaxResets \in Nat
    /\ PollInterval \in Nat
    /\ BackoffFloor \in Nat
    /\ BackoffCap \in Nat

Poller == "poller"
Coordinator == "coordinator"
Workers == {Poller, Coordinator}

\* Where a worker can be: the first five are the poller's, the last six the
\* coordinator's ("hash" and "index" belong to both).
Labels == {"poll", "pools", "publish", "hash", "index",
           "save", "plan", "idle", "await_init"}

VARIABLES
    \* Environment: Metashrew and bitcoind
    tip,            \* the height get_metashrew_height reports
    chain,          \* chain[x]: which of the successive blocks at x is canonical
    reorgs,         \* reorganisations so far
    \* Durable state: Postgres and the subscribers of Redis
    progress,       \* kv_store['last_processed_height'], None when absent
    marked,         \* marked[x]: the block whose hash ProcessedBlocks holds for x
    announced,      \* the height publish_block_processed announced last
    restarts, resets,
    \* Volatile state of the process
    pc,             \* where each worker is
    h,              \* the height each worker is processing
    hash,           \* the block hash each worker resolved for h
    goal,           \* the tip each worker read: `height` in the poller, `tip`
                    \* in the coordinator
    last_height,    \* the poller's pointer
    backoff_ms,
    init_signal,    \* "none", "armed" (sender held) or "sent"
    \* History
    poolsTried,     \* the tip of the last fetch_pools_for_tip of this process
    due             \* due[x]: the oldest block at x that the marker may hold once
                    \* the poller has moved past x; None while x is not its duty

envVars == <<tip, chain, reorgs>>
dbVars == <<progress, marked, announced>>
boundVars == <<restarts, resets>>
workVars == <<pc, h, hash, goal>>
pollVars == <<last_height, backoff_ms, poolsTried, due>>
vars == <<envVars, dbVars, boundVars, workVars, pollVars, init_signal>>

TypeOK ==
    /\ tip \in Heights
    /\ reorgs \in 0..MaxReorgs
    /\ chain \in [Heights -> 0..MaxReorgs]
    /\ progress \in HeightOrNone
    /\ marked \in [Heights -> 0..MaxReorgs \cup {None}]
    /\ announced \in HeightOrNone
    /\ restarts \in 0..MaxRestarts
    /\ resets \in 0..MaxResets
    /\ pc \in [Workers -> Labels]
    /\ h \in [Workers -> Heights]
    /\ hash \in [Workers -> 0..MaxReorgs]
    /\ goal \in [Workers -> Heights]
    /\ last_height \in HeightOrNone
    /\ backoff_ms \in Nat
    /\ init_signal \in {"none", "armed", "sent"}
    /\ poolsTried \in HeightOrNone
    /\ due \in [Heights -> 0..MaxReorgs \cup {None}]

IsMarked(x) == marked[x] # None

-----------------------------------------------------------------------------
(* Start-up *)

LargerOf(a, b) == IF a >= b THEN a ELSE b
SmallerOf(a, b) == IF a <= b THEN a ELSE b

\* A coordinator that does not wait for the poller's first tick.
CoordinatorStart_NoWait == "idle"

\* The coordinator future awaits the oneshot only when a start height is set.
CoordinatorStart == IF StartHeight = None THEN "idle" ELSE "await_init"

\* The volatile state main() builds: a poller without a pointer, an armed
\* oneshot when there is a start height, a coordinator waiting on it.
Boot ==
    [pc |-> [w \in Workers |-> IF w = Poller THEN "poll" ELSE CoordinatorStart],
     backoff |-> LargerOf(PollInterval, BackoffFloor),
     init |-> IF StartHeight = None THEN "none" ELSE "armed"]

Init ==
    /\ tip \in Heights
    /\ chain = [x \in Heights |-> 0]
    /\ reorgs = 0
    /\ progress = None
    /\ marked = [x \in Heights |-> None]
    /\ announced = None
    /\ restarts = 0
    /\ resets = 0
    /\ pc = Boot.pc
    /\ h = [w \in Workers |-> 0]
    /\ hash = [w \in Workers |-> 0]
    /\ goal = [w \in Workers |-> 0]
    /\ last_height = None
    /\ backoff_ms = Boot.backoff
    /\ init_signal = Boot.init
    /\ poolsTried = None
    /\ due = [x \in Heights |-> None]

Goto(w, label) == pc' = [pc EXCEPT ![w] = label]

\* The worker leaves its tick or pass: its locals go out of scope.
LeaveLoop(w, label) ==
    /\ h' = [h EXCEPT ![w] = 0]
    /\ hash' = [hash EXCEPT ![w] = 0]
    /\ goal' = [goal EXCEPT ![w] = 0]
    /\ Goto(w, label)

StartBlock(w, height) ==
    /\ h' = [h EXCEPT ![w] = height]
    /\ hash' = [hash EXCEPT ![w] = 0]
    /\ UNCHANGED goal
    /\ Goto(w, "hash")

-----------------------------------------------------------------------------
(* Environment *)

NewBlock ==
    /\ tip < MaxHeight
    /\ tip' = tip + 1
    /\ UNCHANGED <<chain, reorgs, dbVars, boundVars, workVars, pollVars, init_signal>>

\* The blocks above the fork point f are replaced. Metashrew rolls back and
\* re-indexes, so the height it reports may or may not be seen to decrease.
Reorg ==
    /\ reorgs < MaxReorgs
    /\ reorgs' = reorgs + 1
    /\ \E f \in Heights :
          /\ f < tip
          /\ chain' = [x \in Heights |-> IF x > f THEN reorgs + 1 ELSE chain[x]]
          /\ tip' \in f..tip
    /\ UNCHANGED <<dbVars, boundVars, workVars, pollVars, init_signal>>

\* canonical_tip_height rejects a height of zero.
TipReadable == tip > 0

-----------------------------------------------------------------------------
(* BlockPoller::run *)

\* First observation in this process.
PollFirst ==
    /\ pc[Poller] = "poll"
    /\ TipReadable
    /\ last_height = None
    /\ goal' = [goal EXCEPT ![Poller] = tip]
    /\ backoff_ms' = PollInterval
    /\ due' = [x \in Heights |-> IF x > tip THEN 0 ELSE None]
    /\ Goto(Poller, "pools")
    /\ UNCHANGED <<envVars, dbVars, boundVars, h, hash, last_height, poolsTried,
                   init_signal>>

PollAhead ==
    /\ pc[Poller] = "poll"
    /\ TipReadable
    /\ last_height # None
    /\ tip > last_height
    /\ goal' = [goal EXCEPT ![Poller] = tip]
    /\ backoff_ms' = PollInterval
    /\ Goto(Poller, "pools")
    /\ UNCHANGED <<envVars, dbVars, boundVars, h, hash, last_height, poolsTried,
                   due, init_signal>>

\* The decrease is noticed but the pointer keeps its old value.
PointerAfterDecrease_Ignored == last_height

\* Where the pointer goes when the reported height has decreased.
PointerAfterDecrease == tip

\* The height decreased: the pointer follows it down, which makes every block
\* above it due again.
PollDecreased ==
    /\ pc[Poller] = "poll"
    /\ TipReadable
    /\ last_height # None
    /\ tip < last_height
    /\ backoff_ms' = PollInterval
    /\ last_height' = PointerAfterDecrease
    /\ due' = [x \in Heights |-> IF x > tip THEN chain[x] ELSE due[x]]
    /\ UNCHANGED <<envVars, dbVars, boundVars, workVars, poolsTried, init_signal>>

PollSame ==
    /\ pc[Poller] = "poll"
    /\ TipReadable
    /\ tip = last_height
    /\ backoff_ms' = PollInterval
    /\ UNCHANGED <<envVars, dbVars, boundVars, workVars, last_height,
                   poolsTried, due, init_signal>>

\* The tip-height call failed: exponential backoff with a cap.
PollError ==
    /\ pc[Poller] = "poll"
    /\ backoff_ms' = SmallerOf(2 * backoff_ms, BackoffCap)
    /\ UNCHANGED <<envVars, dbVars, boundVars, workVars, last_height,
                   poolsTried, due, init_signal>>

\* The start_height check of the first tick dropped.
ProcessesFirstTip_Always == TRUE

\* Whether the first tick processes the tip itself.
ProcessesFirstTip == StartHeight = None

\* The sender dropped on some path of the first tick without being used.
SignalAfterFirstTick_Lost == init_signal

\* init_signal.take() and send at the end of the first tick.
SignalAfterFirstTick == IF init_signal = "armed" THEN "sent" ELSE init_signal

\* fetch_pools_for_tip: a failure is only logged. Then either the first block of
\* the tick is begun, or (first tick with a start height) the pointer is set and
\* the coordinator released.
RefreshPools ==
    /\ pc[Poller] = "pools"
    /\ poolsTried' = goal[Poller]
    /\ \/ /\ last_height # None
          /\ StartBlock(Poller, last_height + 1)
          /\ UNCHANGED <<last_height, init_signal>>
       \/ /\ last_height = None
          /\ ProcessesFirstTip
          /\ StartBlock(Poller, goal[Poller])
          /\ UNCHANGED <<last_height, init_signal>>
       \/ /\ last_height = None
          /\ ~ProcessesFirstTip
          /\ last_height' = goal[Poller]
          /\ init_signal' = SignalAfterFirstTick
          /\ LeaveLoop(Poller, "poll")
    /\ UNCHANGED <<envVars, dbVars, boundVars, backoff_ms, due>>

\* publish_block_processed is best effort; the pointer advances either way.
PublishBlock ==
    /\ pc[Poller] = "publish"
    /\ announced' \in {announced, h[Poller]}
    /\ last_height' = h[Poller]
    /\ IF h[Poller] < goal[Poller]
       THEN StartBlock(Poller, h[Poller] + 1)
       ELSE LeaveLoop(Poller, "poll")
    /\ UNCHANGED <<envVars, progress, marked, boundVars, backoff_ms, poolsTried,
                   due, init_signal>>

\* The break of the block loop dropped: the failed height is passed over.
PointerAfterFailure_NoBreak == IF last_height = None THEN goal[Poller] ELSE h[Poller]

\* The pointer after a block of the poller failed: on the first tick it is set
\* all the same; later the loop breaks and leaves it alone.
PointerAfterFailure == IF last_height = None THEN goal[Poller] ELSE last_height

PollerBlockFails ==
    /\ pc[Poller] \in {"hash", "index"}
    /\ last_height' = PointerAfterFailure
    /\ LeaveLoop(Poller, "poll")
    /\ UNCHANGED <<envVars, dbVars, boundVars, backoff_ms, poolsTried, due,
                   init_signal>>

-----------------------------------------------------------------------------
(* Pipeline::process_block_sequential, the part both workers share *)

\* A hash taken from the marker of an earlier pass instead of from bitcoind.
HashOf_Cached(w) == IF IsMarked(h[w]) THEN marked[h[w]] ELSE chain[h[w]]

HashOf(w) == chain[h[w]]

ResolveHash(w) ==
    /\ pc[w] = "hash"
    /\ hash' = [hash EXCEPT ![w] = HashOf(w)]
    /\ Goto(w, "index")
    /\ UNCHANGED <<envVars, dbVars, boundVars, h, goal, pollVars, init_signal>>

\* All tables written: upsert_processed_block, then publish or save progress.
RecordBlock(w) ==
    /\ pc[w] = "index"
    /\ marked' = [marked EXCEPT ![h[w]] = hash[w]]
    /\ Goto(w, IF w = Poller THEN "publish" ELSE "save")
    /\ UNCHANGED <<envVars, progress, announced, boundVars, h, hash, goal,
                   pollVars, init_signal>>

-----------------------------------------------------------------------------
(* CatchUpCoordinator::run_once and the loop around it in main() *)

InitReceived ==
    /\ pc[Coordinator] = "await_init"
    /\ init_signal = "sent"
    /\ Goto(Coordinator, "idle")
    /\ UNCHANGED <<envVars, dbVars, boundVars, h, hash, goal, pollVars, init_signal>>

ReadTip ==
    /\ pc[Coordinator] = "idle"
    /\ StartHeight # None
    /\ TipReadable
    /\ goal' = [goal EXCEPT ![Coordinator] = tip]
    /\ Goto(Coordinator, "plan")
    /\ UNCHANGED <<envVars, dbVars, boundVars, h, hash, pollVars, init_signal>>

\* The first height of the pass, from the stored progress.
NextHeight == IF progress # None THEN progress + 1 ELSE StartHeight

PlanPass ==
    /\ pc[Coordinator] = "plan"
    /\ IF NextHeight > goal[Coordinator]
       THEN LeaveLoop(Coordinator, "idle")
       ELSE StartBlock(Coordinator, NextHeight)
    /\ UNCHANGED <<envVars, dbVars, boundVars, pollVars, init_signal>>

SaveProgress ==
    /\ pc[Coordinator] = "save"
    /\ progress' = h[Coordinator]
    /\ IF h[Coordinator] < goal[Coordinator]
       THEN StartBlock(Coordinator, h[Coordinator] + 1)
       ELSE LeaveLoop(Coordinator, "idle")
    /\ UNCHANGED <<envVars, marked, announced, boundVars, pollVars, init_signal>>

\* The break of the catch-up loop dropped: progress is saved all the same.
EndPass_NoBreak == Goto(Coordinator, "save") /\ UNCHANGED <<h, hash, goal>>

\* What a failed call of the pass does: run_once returns.
EndPass == LeaveLoop(Coordinator, "idle")

\* The progress read, a block, or the progress write failed.
PassFails ==
    /\ pc[Coordinator] \in {"plan", "hash", "index", "save"}
    /\ EndPass
    /\ UNCHANGED <<envVars, dbVars, boundVars, pollVars, init_signal>>

-----------------------------------------------------------------------------
(* Restart and operator *)

\* Ctrl-C or a crash drops both futures at whatever await they are in; main()
\* then starts again on the same database.
Restart ==
    /\ restarts < MaxRestarts
    /\ restarts' = restarts + 1
    /\ pc' = Boot.pc
    /\ h' = [w \in Workers |-> 0]
    /\ hash' = [w \in Workers |-> 0]
    /\ goal' = [w \in Workers |-> 0]
    /\ last_height' = None
    /\ backoff_ms' = Boot.backoff
    /\ init_signal' = Boot.init
    /\ poolsTried' = None
    /\ due' = [x \in Heights |-> None]
    /\ UNCHANGED <<envVars, dbVars, resets>>

\* `dbctl reset-progress --height target`, run while the service is up or down,
\* used as documented to go back (target at most one past the stored progress).
\* A target of zero deletes the key, any other stores target - 1.
ResetProgress(target) ==
    /\ resets < MaxResets
    /\ resets' = resets + 1
    /\ target <= progress + 1
    /\ progress' = target - 1
    /\ UNCHANGED <<envVars, marked, announced, restarts, workVars, pollVars,
                   init_signal>>

-----------------------------------------------------------------------------
PollerNext ==
    \/ PollFirst \/ PollAhead \/ PollDecreased \/ PollSame \/ PollError
    \/ RefreshPools \/ PublishBlock \/ PollerBlockFails
    \/ ResolveHash(Poller) \/ RecordBlock(Poller)

CoordinatorNext ==
    \/ InitReceived \/ ReadTip \/ PlanPass \/ SaveProgress \/ PassFails
    \/ ResolveHash(Coordinator) \/ RecordBlock(Coordinator)

Next ==
    \/ NewBlock \/ Reorg
    \/ PollerNext
    \/ CoordinatorNext
    \/ Restart
    \/ \E target \in Heights : ResetProgress(target)

Spec == Init /\ [][Next]_vars

\* The upstream services answer again and again (strong fairness on the calls
\* that can also fail); local steps and the poll timer are weakly fair. New
\* blocks, reorganisations, restarts and the operator are never obliged to act.
\* ResolveHash is fair by assumption only: get_block_hash (helpers/block.rs:14) goes
\* round the resilient wrapper and its client has no timeout, so that a bitcoind that
\* keeps the connection open and never answers would stop the worker for good.
Fairness ==
    /\ WF_vars(PollFirst) /\ WF_vars(PollAhead) /\ WF_vars(PollDecreased)
    /\ WF_vars(RefreshPools) /\ WF_vars(PublishBlock)
    /\ \A w \in Workers : SF_vars(ResolveHash(w)) /\ SF_vars(RecordBlock(w))
    /\ WF_vars(InitReceived) /\ WF_vars(ReadTip)
    /\ SF_vars(PlanPass) /\ SF_vars(SaveProgress)

FairSpec == Spec /\ Fairness
-----------------------------------------------------------------------------
(* Properties *)

\* Catch-up progress is sound: whatever crashed, failed, was retried, or was
\* reset by the operator while a pass was running, every height from the start
\* height to the stored last_processed_height has a ProcessedBlocks row
\* (coordinator.rs breaks before set_last_processed_height on a failed block).
ProgressSound ==
    \A x \in Heights : StartHeight <= x /\ x <= progress => IsMarked(x)

\* The poller leaves no gap: every height between the first height it observed
\* (or the height it fell back to) and its pointer has a ProcessedBlocks row,
\* over skipped ticks, several blocks per tick and failed blocks. The first height
\* itself is left out: without a start height the first tick processes it, and passes
\* over it when that fails (poller.rs:45-49), where README.md:113 says that the pointer
\* only advances after a success.
PollerNoGap ==
    \A x \in Heights : due[x] # None /\ x <= last_height => IsMarked(x)

\* A reorganisation the poller saw is healed: once the pointer has passed a
\* height again, its ProcessedBlocks row holds a block at least as recent as the
\* one that was canonical when the decrease was seen. (Holds when the poller is
\* the only writer; a catch-up pass may still hold a hash from before the fork.)
ReorgHealed ==
    \A x \in Heights : due[x] # None /\ x <= last_height => marked[x] >= due[x]

Processing(w) == pc[w] \in {"hash", "index", "publish", "save"}

\* A pools refresh is attempted before any block that depends on it: the poller
\* never works above the tip of its last refresh, and catch-up never works
\* before the first refresh of this process (the oneshot of main.rs).
PoolsRefreshedFirst ==
    /\ Processing(Poller) => h[Poller] <= poolsTried
    /\ Processing(Coordinator) => poolsTried # None

\* Publishing policy: a block is announced only after its ProcessedBlocks row is
\* there, and with a start height only for blocks above the first tip observed;
\* blocks that catch-up alone processes are never announced.
PublishesRealtimeOnly ==
    [][\A x \in Heights : x = announced' =>
          /\ IsMarked(x)
          /\ StartHeight # None => due[x] # None]_announced

\* Catch-up completes: a height from the start height on that stays at or below
\* the tip is eventually covered by the stored progress for good, through
\* failed calls, restarts, reorganisations and progress resets.
CatchUpCompletes ==
    \A x \in Heights :
        /\ StartHeight # None
        /\ x >= StartHeight
        /\ <>[](tip >= x /\ tip > 0)
        => <>[](progress >= x)

\* The poller reaches the tip: once the reported height stays put, the pointer
\* settles on it, from above (after a decrease) as well as from below.
PollerReachesTip == <>[](tip > 0) => <>[](last_height = tip)
=============================================================================

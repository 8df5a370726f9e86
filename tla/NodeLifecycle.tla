--------------------------- MODULE NodeLifecycle ---------------------------
(***************************************************************************)
(* The primary nodes of a MultiNode (pkg/solana/client/multinode: node.go, *)
(* node_fsm.go, node_lifecycle.go).  Every node is a state machine with    *)
(* one goroutine, the loop that goes with its state.  A loop leaves by     *)
(* declaring another state, which starts the next loop; only then does it  *)
(* run its deferred calls, so it overlaps with its successor.              *)
(*                                                                         *)
(* Timers are nondeterministic, and so are the answers of the endpoints.   *)
(* The heads and the finalized heads subscription of a loop are one        *)
(* subscription, and LatestChainInfo reads all nodes in one step.          *)
(* EnforceRepeatableRead is off, so State() is the state field.            *)
(***************************************************************************)
EXTENDS Integers, FiniteSets

CONSTANTS
  Node,
  Configs,      \* configurations a pool may be started with, see Config
  MaxBlock,     \* bound: highest block number
  MaxLeaving    \* bound: loops of a node with deferred calls left

NodeSelectionModes ==
  {"HighestHead", "RoundRobin", "TotalDifficulty", "PriorityLevel"}

\* NodeIsSyncingEnabled: whether verifyConn asks IsSyncing;
\* FinalityTagEnabled: whether loops watch finalized heads, too;
\* SyncThreshold: blocks behind the pool that are tolerated, 0: any;
\* LeaseEnabled: leaseDuration > 0.
Config ==
  [NodeIsSyncingEnabled : BOOLEAN, FinalityTagEnabled : BOOLEAN,
   SyncThreshold : 0..MaxBlock, LeaseEnabled : BOOLEAN,
   NodeSelectionMode : NodeSelectionModes]

ASSUME NodeAssumption ==
  /\ MaxBlock \in Nat /\ MaxLeaving \in Nat
  /\ Configs \subseteq Config

VARIABLES
  config,       \* the configuration, which no step changes
  state,        \* n.state
  loop,         \* the goroutine of each node
  sub,          \* its subscription: "none", "unlisted" (not yet in
                \* healthCheckSubs), "listed", or "ended"
  leaving,      \* former loops that have not run their deferred calls
  latest,       \* block number of the RPC client's latestChainInfo
  local,        \* outOfSyncLoop: localHighestChainInfo.BlockNumber
  syncIssues,   \* outOfSyncLoop: syncIssues, as a set
  stopped,      \* stopCh is closed
  panicked      \* what has panicked

nodeVars == <<state, loop, sub, leaving, latest, local, syncIssues, stopped,
              panicked>>
chainInfo == <<latest, local, syncIssues>>

NodeState == {"Undialed", "Dialed", "InvalidChainID", "Alive", "Unreachable",
              "OutOfSync", "Closed", "Syncing"}

syncStatus == {"NotInSyncWithPool", "NoNewHead", "NoNewFinalizedHead"}

\* Block numbers are compared only with a threshold, and stay 0 without one.
Block == 0..(IF config.SyncThreshold = 0 THEN 0 ELSE MaxBlock)

NoLoop == [kind |-> "None", pc |-> "exit", next |-> "None"]
Loop(kind, pc) == [kind |-> kind, pc |-> pc, next |-> "None"]

At(n, kind, pc) == loop[n].kind = kind /\ loop[n].pc = pc
Goto(n, pc) == loop' = [loop EXCEPT ![n].pc = pc]
Decide(n, s) == loop' = [loop EXCEPT ![n].pc = "declare", ![n].next = s]

NodeInit ==
  /\ config \in Configs
  /\ state = [n \in Node |-> "Undialed"]
  /\ loop = [n \in Node |-> NoLoop]
  /\ sub = [n \in Node |-> "none"]
  /\ leaving = [n \in Node |-> 0]
  /\ latest = [n \in Node |-> 0]
  /\ local = [n \in Node |-> 0]
  /\ syncIssues = [n \in Node |-> {}]
  /\ stopped = [n \in Node |-> FALSE]
  /\ panicked = {}

-----------------------------------------------------------------------------
(***************************************************************************)
(* What the pool tells its nodes (multi_node.go, LatestChainInfo).         *)
(***************************************************************************)
LiveNodes == {n \in Node : state[n] = "Alive"}

\* No live node has a higher block; 0 when no node is live.
PoolBlock ==
  CHOOSE b \in Block : /\ \A n \in LiveNodes : latest[n] <= b
                       /\ b = 0 \/ \E n \in LiveNodes : latest[n] = b

isOutOfSyncWithPool(b) == config.SyncThreshold > 0 /\ b < PoolBlock - config.SyncThreshold

-----------------------------------------------------------------------------
(***************************************************************************)
(* start, and the RPC calls of the loops.                                  *)
(***************************************************************************)
start(n) ==
  /\ state[n] = "Undialed" /\ loop[n] = NoLoop
  /\ loop' = [loop EXCEPT ![n] = Loop("Start", "dial")]
  /\ UNCHANGED <<state, sub, leaving, chainInfo, stopped, panicked>>

StartDialFails(n) ==
  /\ At(n, "Start", "dial")
  /\ Decide(n, "Unreachable")
  /\ UNCHANGED <<state, sub, leaving, chainInfo, stopped, panicked>>

\* Mutant of Dial: the state is not set before the verification.
DialKeepsState(n) ==
  /\ loop[n].pc = "dial"
  /\ Goto(n, "verify")
  /\ UNCHANGED <<state, sub, leaving, chainInfo, stopped, panicked>>

\* start and unreachableLoop: setState(NodeStateDialed) checks nothing.
Dial(n) ==
  /\ loop[n].pc = "dial"
  /\ state' = [state EXCEPT ![n] = "Dialed"]
  /\ Goto(n, "verify")
  /\ UNCHANGED <<sub, leaving, chainInfo, stopped, panicked>>

\* What verifyConn may return; "Len" is NodeStateLen.
verifyConn(n) ==
  IF state[n] = "Closed" THEN {"Len"}
  ELSE {"Unreachable", "InvalidChainID", "Alive"}
         \cup (IF config.NodeIsSyncingEnabled THEN {"Syncing"} ELSE {})

Verifiable == {"Dialed", "OutOfSync", "InvalidChainID", "Syncing", "Closed"}

VerifyPanics(n) ==
  panicked' = IF state[n] \in Verifiable THEN panicked
                                         ELSE panicked \cup {"verifyChainID"}

Verify(n, r) ==
  /\ loop[n].pc = "verify"
  /\ r \in verifyConn(n)
  /\ VerifyPanics(n)
  /\ IF loop[n].kind = "Unreachable" /\ r = "Unreachable"
     THEN Goto(n, "undo") ELSE Decide(n, r)
  /\ UNCHANGED <<state, sub, leaving, chainInfo, stopped>>

\* unreachableLoop: setState(NodeStateUnreachable) checks nothing either.
Undo(n) ==
  /\ loop[n].pc = "undo"
  /\ state' = [state EXCEPT ![n] = "Unreachable"]
  /\ Goto(n, "dial")
  /\ UNCHANGED <<sub, leaving, chainInfo, stopped, panicked>>

\* The sanity check at the head of every loop.
Enter(n) ==
  LET kind == loop[n].kind IN
  /\ loop[n].pc = "enter"
  /\ panicked' = IF state[n] \in {kind, "Closed"} THEN panicked
                                                  ELSE panicked \cup {"loop"}
  /\ IF state[n] = "Closed"
     THEN loop' = [loop EXCEPT ![n] = NoLoop]
     ELSE Goto(n, IF kind = "Alive" THEN "subscribe"
                  ELSE IF kind = "Unreachable" THEN "dial" ELSE "conn")
  /\ UNCHANGED <<state, sub, leaving, chainInfo, stopped>>

\* createVerifiedConn, as the loops of the other three states call it.
Connect(n, r) ==
  LET kind == loop[n].kind IN
  /\ loop[n].pc = "conn"
  /\ r \in verifyConn(n) \cup {"Unreachable"}
  /\ VerifyPanics(n)
  /\ IF kind = "OutOfSync" /\ r = "Alive" THEN Goto(n, "subscribe")
     ELSE IF r = kind THEN Goto(n, "loop") ELSE Decide(n, r)
  /\ UNCHANGED <<state, sub, leaving, chainInfo, stopped>>

\* invalidChainIDLoop and syncingLoop, when the answer has changed.
Recheck(n, r) ==
  /\ \/ /\ At(n, "InvalidChainID", "loop")
        /\ r \in verifyConn(n) \ {"InvalidChainID"}
        /\ VerifyPanics(n)
     \/ /\ At(n, "Syncing", "loop")
        /\ r \in {"Unreachable", "Alive"}
        /\ UNCHANGED panicked
  /\ Decide(n, r)
  /\ UNCHANGED <<state, sub, leaving, chainInfo, stopped>>

-----------------------------------------------------------------------------
(***************************************************************************)
(* registerNewSubscription: the RPC client knows the subscription before   *)
(* healthCheckSubs lists it.                                               *)
(***************************************************************************)
Subscribe(n) ==
  /\ loop[n].pc = "subscribe"
  /\ sub' = [sub EXCEPT ![n] = "unlisted"]
  /\ Goto(n, "list")
  /\ UNCHANGED <<state, leaving, chainInfo, stopped, panicked>>

SubscribeFails(n) ==
  /\ loop[n].pc = "subscribe"
  /\ Decide(n, "Unreachable")
  /\ UNCHANGED <<state, sub, leaving, chainInfo, stopped, panicked>>

Listed(n) == sub' = [sub EXCEPT ![n] = IF @ = "unlisted" THEN "listed" ELSE @]

\* outOfSyncLoop starts from the highest block that users have seen.
List(n) ==
  /\ loop[n].pc = "list"
  /\ Listed(n)
  /\ Goto(n, "loop")
  /\ \E b \in Block :
       local' = IF loop[n].kind = "OutOfSync" THEN [local EXCEPT ![n] = b]
                                              ELSE local
  /\ UNCHANGED <<state, leaving, latest, syncIssues, stopped, panicked>>

FinalizedSubscribeFails(n) ==
  /\ config.FinalityTagEnabled
  /\ loop[n].pc = "list"
  /\ Listed(n)
  /\ Decide(n, "Unreachable")
  /\ UNCHANGED <<state, leaving, chainInfo, stopped, panicked>>

\* The channels of the subscription are closed.
SubEnded(n) ==
  /\ loop[n].pc = "loop" /\ sub[n] = "ended"
  /\ Decide(n, "Unreachable")
  /\ UNCHANGED <<state, sub, leaving, chainInfo, stopped, panicked>>

-----------------------------------------------------------------------------
(***************************************************************************)
(* aliveLoop.  A node that fails its polls, lags behind the pool or sends  *)
(* no heads stays unless the pool has counted another live node.           *)
(***************************************************************************)
AliveHead(n, b) ==
  /\ At(n, "Alive", "loop") /\ sub[n] = "listed"
  /\ latest' = [latest EXCEPT ![n] = b]
  /\ UNCHANGED <<state, loop, sub, leaving, local, syncIssues, stopped,
                 panicked>>

AlivePollsFail(n) ==
  /\ At(n, "Alive", "loop")
  /\ Cardinality(LiveNodes) >= 2
  /\ Decide(n, "Unreachable")
  /\ UNCHANGED <<state, sub, leaving, chainInfo, stopped, panicked>>

Issues(n) ==
  (IF isOutOfSyncWithPool(latest[n]) THEN {"NotInSyncWithPool"} ELSE {})
    \cup {"NoNewHead"}
    \cup (IF config.FinalityTagEnabled THEN {"NoNewFinalizedHead"} ELSE {})

AliveOutOfSync(n) ==
  /\ At(n, "Alive", "loop")
  /\ Cardinality(LiveNodes) >= 2
  /\ \E issue \in Issues(n) :
       syncIssues' = [syncIssues EXCEPT ![n] = {issue}]
  /\ Decide(n, "OutOfSync")
  /\ UNCHANGED <<state, sub, leaving, latest, local, stopped, panicked>>

(***************************************************************************)
(* outOfSyncLoop.  It goes back to Alive when no issue is left, or when    *)
(* the pool has no live node at all.                                       *)
(***************************************************************************)
\* Mutant of SetIssues: only the zombie check brings the node back.
SetIssuesStays(n, issues) ==
  /\ syncIssues' = [syncIssues EXCEPT ![n] = issues]
  /\ UNCHANGED loop

SetIssues(n, issues) ==
  /\ syncIssues' = [syncIssues EXCEPT ![n] = issues]
  /\ IF issues = {} THEN Decide(n, "InSync") ELSE UNCHANGED loop

OutOfSyncHead(n, b) ==
  /\ At(n, "OutOfSync", "loop") /\ sub[n] = "listed"
  /\ latest' = [latest EXCEPT ![n] = b]
  /\ \/ /\ b > local[n]
        /\ local' = [local EXCEPT ![n] = b]
        /\ SetIssues(n, IF isOutOfSyncWithPool(b)
             THEN (syncIssues[n] \ {"NoNewHead"}) \cup {"NotInSyncWithPool"}
             ELSE syncIssues[n] \ {"NoNewHead", "NotInSyncWithPool"})
     \/ b <= local[n] /\ UNCHANGED <<local, syncIssues, loop>>
  /\ UNCHANGED <<state, sub, leaving, stopped, panicked>>

OutOfSyncFinalizedHead(n) ==
  /\ config.FinalityTagEnabled
  /\ At(n, "OutOfSync", "loop") /\ sub[n] = "listed"
  /\ SetIssues(n, syncIssues[n] \ {"NoNewFinalizedHead"})
  /\ UNCHANGED <<state, sub, leaving, latest, local, stopped, panicked>>

OutOfSyncNoHeads(n) ==
  /\ At(n, "OutOfSync", "loop")
  /\ \E issue \in {"NoNewHead"} \cup
                  (IF config.FinalityTagEnabled THEN {"NoNewFinalizedHead"} ELSE {}) :
       syncIssues' = [syncIssues EXCEPT ![n] = @ \cup {issue}]
  /\ UNCHANGED <<state, loop, sub, leaving, latest, local, stopped, panicked>>

\* Mutant of OutOfSyncZombie: counts as the check of the alive loop does.
OutOfSyncZombieOther(n) ==
  /\ At(n, "OutOfSync", "loop")
  /\ Cardinality(LiveNodes) = 1
  /\ Decide(n, "InSync")
  /\ UNCHANGED <<state, sub, leaving, chainInfo, stopped, panicked>>

OutOfSyncZombie(n) ==
  /\ At(n, "OutOfSync", "loop")
  /\ LiveNodes = {}
  /\ Decide(n, "InSync")
  /\ UNCHANGED <<state, sub, leaving, chainInfo, stopped, panicked>>

-----------------------------------------------------------------------------
(***************************************************************************)
(* The declare and transition methods (node_fsm.go): under stateMu, leave  *)
(* a closed node alone, panic on a transition that is not allowed, and     *)
(* otherwise change the state and start its loop.  Only the two that lead  *)
(* to Alive keep the connection.                                           *)
(***************************************************************************)
From(s) ==
  CASE s = "Alive" -> {"Dialed", "InvalidChainID", "Syncing"}
    [] s = "InSync" -> {"OutOfSync", "Syncing"}
    [] s = "OutOfSync" -> {"Alive"}
    [] s = "Unreachable" -> {"Undialed", "Dialed", "Alive", "OutOfSync",
                             "InvalidChainID", "Syncing"}
    [] s = "InvalidChainID" -> {"Dialed", "OutOfSync", "Syncing"}
    [] s = "Syncing" -> {"Dialed", "OutOfSync", "InvalidChainID"}
    [] s = "Len" -> {}

Kind(s) == IF s = "InSync" THEN "Alive" ELSE s

declareClosed(n) ==
  /\ loop[n].pc = "declare" /\ state[n] = "Closed"
  /\ loop' = [loop EXCEPT ![n] = NoLoop]
  /\ sub' = [sub EXCEPT ![n] = "none"]
  /\ UNCHANGED <<state, leaving, chainInfo, stopped, panicked>>

declare(n) ==
  LET s == loop[n].next
      hasDeferred == sub[n] # "none" IN
  /\ loop[n].pc = "declare" /\ state[n] # "Closed"
  /\ hasDeferred => leaving[n] < MaxLeaving
  /\ panicked' = IF state[n] \in From(s) THEN panicked
                                         ELSE panicked \cup {"transition"}
  /\ state' = [state EXCEPT ![n] = Kind(s)]
  /\ loop' = [loop EXCEPT ![n] = Loop(Kind(s), "enter")]
  /\ leaving' = [leaving EXCEPT ![n] = IF hasDeferred THEN @ + 1 ELSE @]
  /\ sub' = [sub EXCEPT ![n] = "none"]
  /\ latest' = [latest EXCEPT ![n] = IF Kind(s) = "Alive" THEN @ ELSE 0]
  /\ local' = [local EXCEPT ![n] = 0]
  /\ syncIssues' = [syncIssues EXCEPT ![n] = IF s = "OutOfSync" THEN @ ELSE {}]
  /\ UNCHANGED stopped

\* unsubscribeHealthChecks, deferred: ends every subscription in the list.
Cleanup(n) ==
  /\ leaving[n] > 0
  /\ leaving' = [leaving EXCEPT ![n] = @ - 1]
  /\ sub' = [sub EXCEPT ![n] = IF @ = "listed" THEN "ended" ELSE @]
  /\ UNCHANGED <<state, loop, chainInfo, stopped, panicked>>

\* Mutant of Stop: waiting for the next dial is not interruptible.
StopNotDialing(n) ==
  /\ loop[n].pc = "loop"
  /\ stopped[n]
  /\ loop' = [loop EXCEPT ![n] = NoLoop]
  /\ sub' = [sub EXCEPT ![n] = "none"]
  /\ UNCHANGED <<state, leaving, chainInfo, stopped, panicked>>

\* Every select of a loop ends it when its context is done.
Stop(n) ==
  /\ loop[n].pc \in {"loop", "dial"}
  /\ stopped[n]
  /\ loop' = [loop EXCEPT ![n] = NoLoop]
  /\ sub' = [sub EXCEPT ![n] = "none"]
  /\ UNCHANGED <<state, leaving, chainInfo, stopped, panicked>>

close(n) ==
  /\ ~stopped[n]
  /\ stopped' = [stopped EXCEPT ![n] = TRUE]
  /\ state' = [state EXCEPT ![n] = "Closed"]
  /\ UNCHANGED <<loop, sub, leaving, chainInfo, panicked>>

\* UnsubscribeAllExceptAliveLoop spares what healthCheckSubs lists.
UnsubscribeAllExceptAliveLoop(n) ==
  sub' = [sub EXCEPT ![n] = IF @ = "unlisted" THEN "ended" ELSE @]

LoopStep(n) ==
  \/ StartDialFails(n) \/ Dial(n) \/ Undo(n) \/ Enter(n)
  \/ \E r \in NodeState \cup {"Len"} :
       Verify(n, r) \/ Connect(n, r) \/ Recheck(n, r)
  \/ Subscribe(n) \/ SubscribeFails(n) \/ List(n)
  \/ FinalizedSubscribeFails(n) \/ SubEnded(n)
  \/ \E b \in Block : AliveHead(n, b) \/ OutOfSyncHead(n, b)
  \/ AlivePollsFail(n) \/ AliveOutOfSync(n)
  \/ OutOfSyncFinalizedHead(n) \/ OutOfSyncNoHeads(n) \/ OutOfSyncZombie(n)
  \/ declareClosed(n) \/ declare(n) \/ Stop(n)
=============================================================================

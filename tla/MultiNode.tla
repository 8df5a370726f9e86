----------------------------- MODULE MultiNode -----------------------------
(***************************************************************************)
(* The pool of primary nodes (pkg/solana/client/multinode/multi_node.go):  *)
(* starting and closing the nodes, the active node that clients are given, *)
(* and the lease loop that moves them to the best node.  runLoop only      *)
(* reports metrics and is left out.  Select reads every node in one step.  *)
(***************************************************************************)
EXTENDS NodeLifecycle

CONSTANTS
  Nil,                  \* no node
  Order,       \* Order[n]: the configured priority, 1 the highest
  Healthy      \* nodes whose endpoints answer, for fairness

ASSUME PoolAssumption ==
  /\ Nil \notin Node
  /\ Order \in [Node -> Nat]
  /\ \A c \in Configs :
       c.NodeSelectionMode = "TotalDifficulty" => c.SyncThreshold = 0
  /\ Healthy \subseteq Node

VARIABLES
  active,     \* activeNode
  lease,      \* checkLease: the best node and the nodes still to visit
  closing,    \* chStop is closed
  closed      \* nodes whose Close has returned

poolVars == <<active, lease, closing, closed>>
vars == <<config, nodeVars, poolVars>>

NoLease == [pc |-> "idle", best |-> Nil, todo |-> {}]

Init ==
  /\ NodeInit
  /\ active = Nil
  /\ lease = NoLease
  /\ closing = FALSE
  /\ closed = {}

-----------------------------------------------------------------------------
(***************************************************************************)
(* The node selectors: the nodes that Select may return.  Which of equals  *)
(* is the first depends on the order of the configuration, which is not    *)
(* modelled, and so does the round-robin counter.  On Solana no node has a *)
(* total difficulty.                                                       *)
(***************************************************************************)
FirstOrHighestPriority(S) == {n \in S : \A m \in S : Order[n] <= Order[m]}

HighestHeadSelect ==
  FirstOrHighestPriority(
    {n \in LiveNodes : \A m \in LiveNodes : latest[m] <= latest[n]})

TotalDifficultySelect == FirstOrHighestPriority(LiveNodes)

PriorityLevelSelect == FirstOrHighestPriority(LiveNodes)

RoundRobinSelect == LiveNodes

Select ==
  IF LiveNodes = {} THEN {Nil}
  ELSE CASE config.NodeSelectionMode = "HighestHead" -> HighestHeadSelect
         [] config.NodeSelectionMode = "TotalDifficulty" -> TotalDifficultySelect
         [] config.NodeSelectionMode = "PriorityLevel" -> PriorityLevelSelect
         [] config.NodeSelectionMode = "RoundRobin" -> RoundRobinSelect

-----------------------------------------------------------------------------
\* Start: one node after the other.
StartNode(n) ==
  /\ \A m \in Node : loop[m].kind # "Start"
  /\ start(n)
  /\ UNCHANGED poolVars

Started == \A n \in Node : /\ state[n] # "Undialed"
                           /\ loop[n].kind # "Start"

\* selectNode, when the active node is not alive.
SelectNode ==
  /\ active \notin LiveNodes
  /\ active' \in Select
  /\ IF active = Nil THEN UNCHANGED sub
                     ELSE UnsubscribeAllExceptAliveLoop(active)
  /\ UNCHANGED <<state, loop, leaving, chainInfo, stopped, panicked, lease,
                 closing, closed>>

(***************************************************************************)
(* checkLease: Select, a visit to every node, then the switch under        *)
(* activeMu.  The log line of a visit calls bestNode.String().  Close      *)
(* waits for the loop before it closes the first node.                     *)
(***************************************************************************)
LeaseSelect ==
  /\ config.LeaseEnabled /\ config.NodeSelectionMode # "RoundRobin"
  /\ Started /\ \A n \in Node : ~stopped[n]
  /\ lease.pc = "idle"
  /\ \E best \in Select :
       lease' = [pc |-> "visit", best |-> best, todo |-> Node]
  /\ UNCHANGED <<nodeVars, active, closing, closed>>

LeaseVisit(n) ==
  /\ lease.pc = "visit" /\ n \in lease.todo
  /\ lease' = [lease EXCEPT !.todo = @ \ {n}]
  /\ \/ /\ state[n] = "Alive" /\ lease.best \notin {n, Nil}
        /\ UnsubscribeAllExceptAliveLoop(n)
        /\ UNCHANGED panicked
     \/ /\ state[n] = "Alive" /\ lease.best = Nil
        /\ panicked' = panicked \cup {"checkLease"}
        /\ UNCHANGED sub
     \/ /\ state[n] # "Alive" \/ lease.best = n
        /\ UNCHANGED <<sub, panicked>>
  /\ UNCHANGED <<state, loop, leaving, chainInfo, stopped, active, closing,
                 closed>>

LeaseSwitch ==
  /\ lease.pc = "visit" /\ lease.todo = {}
  /\ lease' = NoLease
  /\ active' = lease.best
  /\ IF active \notin {Nil, lease.best}
     THEN UnsubscribeAllExceptAliveLoop(active) ELSE UNCHANGED sub
  /\ UNCHANGED <<state, loop, leaving, chainInfo, stopped, panicked, closing,
                 closed>>

(***************************************************************************)
(* Close: stop the lease loop, then close every node and wait for its      *)
(* goroutines.                                                             *)
(***************************************************************************)
Close ==
  /\ Started /\ ~closing
  /\ closing' = TRUE
  /\ UNCHANGED <<nodeVars, active, lease, closed>>

CloseNode(n) ==
  /\ closing /\ lease.pc = "idle"
  /\ close(n)
  /\ UNCHANGED poolVars

CloseNodeReturns(n) ==
  /\ stopped[n] /\ n \notin closed
  /\ loop[n] = NoLoop /\ leaving[n] = 0
  /\ closed' = closed \cup {n}
  /\ latest' = [latest EXCEPT ![n] = 0]
  /\ UNCHANGED <<state, loop, sub, leaving, local, syncIssues, stopped,
                 panicked, active, lease, closing>>

Next ==
  /\ UNCHANGED config
  /\ \/ \E n \in Node :
          \/ (LoopStep(n) \/ Cleanup(n)) /\ UNCHANGED poolVars
          \/ StartNode(n) \/ CloseNode(n) \/ CloseNodeReturns(n)
          \/ LeaseVisit(n)
     \/ SelectNode \/ LeaseSelect \/ LeaseSwitch \/ Close

Spec == Init /\ [][Next]_vars

(***************************************************************************)
(* Fairness.  Goroutines keep running and timers fire, and a loop that     *)
(* comes back to its select with its context done leaves it in the end.    *)
(* The endpoint of a healthy node, asked again and again, in the end       *)
(* verifies and accepts a subscription; nothing is assumed of heads, nor   *)
(* of the other endpoints.                                                 *)
(***************************************************************************)
Pool(A) == A /\ UNCHANGED config
Step(A) == A /\ UNCHANGED <<config, poolVars>>

\* The straight-line code of a loop: one of these at each program counter.
Progress(n) ==
  \/ Enter(n) \/ Dial(n) \/ Undo(n) \/ Subscribe(n) \/ SubscribeFails(n)
  \/ List(n) \/ declare(n) \/ declareClosed(n)
  \/ \E r \in NodeState \cup {"Len"} : Verify(n, r) \/ Connect(n, r)

Reacts(n) == SubEnded(n) \/ OutOfSyncZombie(n)

Verifies(n) == Verify(n, "Alive") \/ Connect(n, "Alive") \/ Recheck(n, "Alive")

FairSpec ==
  /\ Spec
  /\ \A n \in Node : /\ WF_vars(Step(Progress(n))) /\ WF_vars(Step(Reacts(n)))
                     /\ WF_vars(Step(Cleanup(n))) /\ SF_vars(Step(Stop(n)))
  /\ \A n \in Healthy : /\ SF_vars(Step(Verifies(n)))
                        /\ SF_vars(Step(Subscribe(n)))
  /\ WF_vars(Pool(\E n \in Node : StartNode(n)))
  /\ WF_vars(Pool(\E n \in Node : CloseNode(n) \/ CloseNodeReturns(n)))
  /\ WF_vars(Pool(LeaseSwitch \/ \E n \in Node : LeaseVisit(n)))

-----------------------------------------------------------------------------
(***************************************************************************)
(* No panic of the state machine is reachable: verifyChainID, the sanity   *)
(* checks of the loops and the transition methods always find a state they *)
(* allow, although Close changes it at any moment and unreachableLoop may  *)
(* overwrite what Close has set.                                           *)
(***************************************************************************)
StateMachineNeverPanics == panicked \subseteq {"checkLease"}

(***************************************************************************)
(* A node that is not being closed is never left without its loop: the     *)
(* goroutine that runs for it is the one that goes with its state, and     *)
(* out-of-sync nodes always have an issue that keeps them out.             *)
(***************************************************************************)
AlwaysWatched ==
  \A n \in Node : (~stopped[n] /\ state[n] # "Undialed") =>
    /\ \/ loop[n].kind = state[n]
       \/ /\ state[n] = "Dialed"
          /\ loop[n].kind \in {"Start", "Unreachable"}
    /\ (At(n, "OutOfSync", "loop") => syncIssues[n] # {})

(***************************************************************************)
(* As long as one endpoint answers, a pool without a live node gets one    *)
(* again, even if no endpoint sends new heads: outOfSyncLoop forces the    *)
(* node back into the live pool.                                           *)
(***************************************************************************)
PoolRecovers == (Healthy # {} /\ LiveNodes = {}) ~> (LiveNodes # {} \/ closing)

(***************************************************************************)
(* Close of the pool returns: every loop notices that its node stops,      *)
(* whatever it was doing.                                                  *)
(***************************************************************************)
PoolCloseCompletes == closing ~> closed = Node

(***************************************************************************)
(* "Select returns a Node, or nil if none can be selected": checkLease     *)
(* copes with a selector that finds no live node.                          *)
(***************************************************************************)
LeaseNeverPanics == "checkLease" \notin panicked
=============================================================================

-------------------------- MODULE MultiNodeProofs --------------------------
(***************************************************************************)
(* No transition of a node's state machine panics and no node is left      *)
(* without its loop, for any number of nodes, any configuration and any    *)
(* block numbers.                                                          *)
(***************************************************************************)
EXTENDS MultiNode, TLAPS

LoopKind == {"None", "Start", "Alive", "Unreachable", "OutOfSync",
             "InvalidChainID", "Syncing"}
LoopPC == {"exit", "dial", "verify", "undo", "enter", "conn", "subscribe",
           "list", "loop", "declare"}
LoopNext == {"None", "Alive", "InSync", "OutOfSync", "Unreachable",
             "InvalidChainID", "Syncing", "Len"}

LoopRecord == [kind : LoopKind, pc : LoopPC, next : LoopNext]

TypeOK ==
  /\ state \in [Node -> NodeState]
  /\ loop \in [Node -> LoopRecord]
  /\ stopped \in [Node -> BOOLEAN]
  /\ syncIssues \in [Node -> SUBSET syncStatus]

(***************************************************************************)
(* What a loop l may find in the state field s, at each program counter:   *)
(* the state it goes with, or Closed.  Once the node is stopped the field  *)
(* may be either, since setState overwrites Closed.                        *)
(***************************************************************************)
StateFits(s, l) ==
  /\ l.pc = "dial" => \/ l.kind = "Start" /\ s \in {"Undialed", "Closed"}
                      \/ l.kind = "Unreachable" /\ s \in {"Unreachable", "Closed"}
  /\ l.pc = "verify" => /\ l.kind \in {"Start", "Unreachable"}
                        /\ s \in {"Dialed", "Closed"}
  /\ l.pc = "undo" => l.kind = "Unreachable" /\ s \in {"Dialed", "Closed"}
  /\ l.pc = "enter" =>
       /\ l.kind \in {"Alive", "Unreachable", "OutOfSync", "InvalidChainID",
                      "Syncing"}
       /\ s \in {l.kind, "Closed"}
  /\ l.pc = "conn" => /\ l.kind \in {"OutOfSync", "InvalidChainID", "Syncing"}
                      /\ s \in {l.kind, "Closed"}
  /\ l.pc \in {"subscribe", "list"} => /\ l.kind \in {"Alive", "OutOfSync"}
                                       /\ s \in {l.kind, "Closed"}
  /\ l.pc = "loop" =>
       /\ l.kind \in {"Alive", "OutOfSync", "InvalidChainID", "Syncing"}
       /\ s \in {l.kind, "Closed"}

\* A loop that declares a state has a transition to it, or the node is closed.
DeclareFits(s, l) ==
  l.pc = "declare" =>
    \/ s = "Closed"
    \/ /\ l.next \in {"Alive", "InSync", "OutOfSync", "Unreachable",
                      "InvalidChainID", "Syncing"}
       /\ s \in From(l.next)
       /\ \/ l.kind = s
          \/ l.kind \in {"Start", "Unreachable"} /\ s \in {"Undialed", "Dialed"}

\* Only a node that stops is closed, or has a state and no loop.
StopFits(s, l, stop) ==
  /\ s = "Closed" => stop
  /\ (l.pc = "exit" /\ ~stop) => s = "Undialed"

\* From the declaration on, outOfSyncLoop has an issue to wait for.
IssuesFit(l, issues) ==
  /\ (l.kind = "OutOfSync" /\ l.pc \in {"enter", "conn", "subscribe", "list", "loop"})
       => issues # {}
  /\ (l.pc = "declare" /\ l.next = "OutOfSync") => issues # {}

Fits(s, l, stop, issues) ==
  /\ StateFits(s, l) /\ DeclareFits(s, l)
  /\ StopFits(s, l, stop) /\ IssuesFit(l, issues)

NodeFits(n) == Fits(state[n], loop[n], stopped[n], syncIssues[n])

PoolInv ==
  /\ TypeOK
  /\ \A n \in Node : NodeFits(n)
  /\ StateMachineNeverPanics

-----------------------------------------------------------------------------
(* What Goto does to the record of a loop. *)
LEMMA GotoMoves ==
  ASSUME TypeOK, NEW n \in Node, NEW pc \in LoopPC, Goto(n, pc)
  PROVE  /\ loop' \in [Node -> LoopRecord]
         /\ loop'[n].kind = loop[n].kind /\ loop'[n].pc = pc
         /\ \A m \in Node : m # n => loop'[m] = loop[m]
  BY DEF TypeOK, Goto, LoopRecord

(* What Decide does to the record of a loop. *)
LEMMA DecideMoves ==
  ASSUME TypeOK, NEW n \in Node, NEW s \in LoopNext, Decide(n, s)
  PROVE  /\ loop' \in [Node -> LoopRecord]
         /\ loop'[n].kind = loop[n].kind /\ loop'[n].pc = "declare"
         /\ loop'[n].next = s
         /\ \A m \in Node : m # n => loop'[m] = loop[m]
  <1>1. "declare" \in LoopPC  BY DEF LoopPC
  <1> QED  BY <1>1 DEF TypeOK, Decide, LoopRecord

(* What replacing the record of a loop does. *)
LEMMA LoopReplaced ==
  ASSUME TypeOK, NEW n \in Node, NEW l \in LoopRecord,
         loop' = [loop EXCEPT ![n] = l]
  PROVE  /\ loop' \in [Node -> LoopRecord] /\ loop'[n] = l
         /\ \A m \in Node : m # n => loop'[m] = loop[m]
  BY DEF TypeOK

(* NoLoop is a record of a loop, and fits a node that stops. *)
LEMMA NoLoopFits ==
  /\ NoLoop \in LoopRecord /\ NoLoop.pc = "exit" /\ NoLoop.kind = "None"
  /\ \A s, issues : Fits(s, NoLoop, TRUE, issues)
  BY DEF NoLoop, LoopRecord, LoopKind, LoopPC, LoopNext, Fits, StateFits,
         DeclareFits, StopFits, IssuesFit

(***************************************************************************)
(* A step of one node that leaves the others alone and does not panic      *)
(* preserves the invariant if its own state and loop still fit.            *)
(***************************************************************************)
LEMMA NodeMoves ==
  ASSUME PoolInv, NEW n \in Node, TypeOK', panicked' = panicked,
         \A m \in Node : m # n => /\ state'[m] = state[m]
                                  /\ loop'[m] = loop[m]
                                  /\ stopped'[m] = stopped[m]
                                  /\ syncIssues'[m] = syncIssues[m],
         Fits(state'[n], loop'[n], stopped'[n], syncIssues'[n])
  PROVE  PoolInv'
  <1>1. \A m \in Node : NodeFits(m)'
    BY DEF PoolInv, NodeFits
  <1> QED  BY <1>1 DEF PoolInv, StateMachineNeverPanics

(* Goto in a step that changes neither the state nor the issues. *)
LEMMA GotoInv ==
  ASSUME PoolInv, NEW n \in Node, NEW pc \in LoopPC, Goto(n, pc),
         UNCHANGED <<state, stopped, syncIssues, panicked>>,
         \A l \in LoopRecord : (l.kind = loop[n].kind /\ l.pc = pc) =>
            Fits(state[n], l, stopped[n], syncIssues[n])
  PROVE  PoolInv'
  <1>1. TypeOK  BY DEF PoolInv
  <1>2. /\ loop' \in [Node -> LoopRecord]
        /\ loop'[n].kind = loop[n].kind /\ loop'[n].pc = pc
        /\ \A m \in Node : m # n => loop'[m] = loop[m]
    BY <1>1, GotoMoves
  <1>3. TypeOK'  BY <1>1, <1>2 DEF TypeOK
  <1>4. Fits(state'[n], loop'[n], stopped'[n], syncIssues'[n])  BY <1>2
  <1> QED  BY <1>2, <1>3, <1>4, NodeMoves

(* Decide, when the declared state has a transition from the present one. *)
LEMMA DecideInv ==
  ASSUME PoolInv, NEW n \in Node, NEW s \in LoopNext, Decide(n, s),
         UNCHANGED <<state, stopped, syncIssues, panicked>>,
         \A l \in LoopRecord :
            (l.kind = loop[n].kind /\ l.pc = "declare" /\ l.next = s) =>
               Fits(state[n], l, stopped[n], syncIssues[n])
  PROVE  PoolInv'
  <1>1. TypeOK  BY DEF PoolInv
  <1>2. /\ loop' \in [Node -> LoopRecord]
        /\ loop'[n].kind = loop[n].kind /\ loop'[n].pc = "declare"
        /\ loop'[n].next = s
        /\ \A m \in Node : m # n => loop'[m] = loop[m]
    BY <1>1, DecideMoves
  <1>3. TypeOK'  BY <1>1, <1>2 DEF TypeOK
  <1>4. Fits(state'[n], loop'[n], stopped'[n], syncIssues'[n])  BY <1>2
  <1> QED  BY <1>2, <1>3, <1>4, NodeMoves

-----------------------------------------------------------------------------
(* A step that leaves the nodes alone preserves the invariant. *)
LEMMA UnchangedInv ==
  ASSUME PoolInv, UNCHANGED <<state, loop, stopped, syncIssues>>,
         panicked' \subseteq panicked \cup {"checkLease"}
  PROVE  PoolInv'
  <1>1. TypeOK'  BY DEF PoolInv, TypeOK
  <1>2. \A n \in Node : NodeFits(n)'  BY DEF PoolInv, NodeFits
  <1> QED  BY <1>1, <1>2 DEF PoolInv, StateMachineNeverPanics

(* start, dialling and the way back to the next dial. *)
LEMMA DialInv ==
  ASSUME PoolInv, NEW n \in Node,
         start(n) \/ StartDialFails(n) \/ Dial(n) \/ Undo(n)
  PROVE  PoolInv'
  <1>1. TypeOK /\ NodeFits(n) /\ state[n] \in NodeState  BY DEF PoolInv, TypeOK
  <1>2. CASE start(n)
    <2>1. Loop("Start", "dial") \in LoopRecord
      BY DEF Loop, LoopRecord, LoopKind, LoopPC, LoopNext
    <2>2. /\ loop' \in [Node -> LoopRecord] /\ loop'[n] = Loop("Start", "dial")
          /\ \A m \in Node : m # n => loop'[m] = loop[m]
      BY <1>1, <1>2, <2>1, LoopReplaced DEF start
    <2>3. UNCHANGED <<state, stopped, syncIssues, panicked>> /\ state[n] = "Undialed"
      BY <1>2 DEF start, chainInfo
    <2>4. TypeOK'  BY <1>1, <2>2, <2>3 DEF TypeOK
    <2>5. Fits(state'[n], loop'[n], stopped'[n], syncIssues'[n])
      BY <2>2, <2>3 DEF Loop, Fits, StateFits, DeclareFits, StopFits, IssuesFit
    <2> QED  BY <2>2, <2>3, <2>4, <2>5, NodeMoves
  <1>3. CASE StartDialFails(n)
    <2>1. /\ UNCHANGED <<state, stopped, syncIssues, panicked>>
          /\ loop[n].kind = "Start" /\ loop[n].pc = "dial"
          /\ Decide(n, "Unreachable")
      BY <1>3 DEF StartDialFails, chainInfo, At
    <2>2. state[n] \in {"Undialed", "Closed"} /\ (state[n] = "Closed" => stopped[n])
      BY <1>1, <2>1 DEF NodeFits, Fits, StateFits, StopFits
    <2>3. ASSUME NEW l \in LoopRecord, l.kind = "Start", l.pc = "declare",
                 l.next = "Unreachable"
          PROVE  Fits(state[n], l, stopped[n], syncIssues[n])
      BY <2>2, <2>3 DEF Fits, StateFits, DeclareFits, StopFits, IssuesFit, From
    <2>4. "Unreachable" \in LoopNext  BY DEF LoopNext
    <2> QED  BY <2>1, <2>3, <2>4, DecideInv
  <1>4. CASE Dial(n) \/ Undo(n)
    <2>1. PICK s \in NodeState, pc \in LoopPC :
            /\ state' = [state EXCEPT ![n] = s] /\ Goto(n, pc)
            /\ UNCHANGED <<stopped, syncIssues, panicked>>
            /\ \/ loop[n].pc = "dial" /\ s = "Dialed" /\ pc = "verify"
               \/ loop[n].pc = "undo" /\ s = "Unreachable" /\ pc = "dial"
      <3>1. /\ "Dialed" \in NodeState /\ "Unreachable" \in NodeState
            /\ "verify" \in LoopPC /\ "dial" \in LoopPC
        BY DEF NodeState, LoopPC
      <3> QED  BY <1>4, <3>1 DEF Dial, Undo, chainInfo
    <2>2. /\ loop' \in [Node -> LoopRecord]
          /\ loop'[n].kind = loop[n].kind /\ loop'[n].pc = pc
          /\ \A m \in Node : m # n => loop'[m] = loop[m]
      BY <1>1, <2>1, GotoMoves
    <2>3. /\ state' \in [Node -> NodeState] /\ state'[n] = s
          /\ \A m \in Node : m # n => state'[m] = state[m]
      BY <1>1, <2>1 DEF TypeOK
    <2>4. TypeOK'  BY <1>1, <2>1, <2>2, <2>3 DEF TypeOK
    <2>5. Fits(state'[n], loop'[n], stopped'[n], syncIssues'[n])
      BY <1>1, <2>1, <2>2, <2>3
      DEF NodeFits, Fits, StateFits, DeclareFits, StopFits, IssuesFit
    <2> QED  BY <2>1, <2>2, <2>3, <2>4, <2>5, NodeMoves
  <1> QED  BY <1>2, <1>3, <1>4

(***************************************************************************)
(* A loop finds a state it may verify, so verifyChainID does not panic,    *)
(* and what it learns is a state it may declare.                           *)
(***************************************************************************)
LEMMA VerifyInv ==
  ASSUME PoolInv, NEW n \in Node, NEW r \in NodeState \cup {"Len"},
         Verify(n, r) \/ Connect(n, r) \/ Recheck(n, r)
  PROVE  PoolInv'
  <1>1. TypeOK /\ NodeFits(n)  BY DEF PoolInv
  <1>2. /\ UNCHANGED <<state, stopped, syncIssues>>
        /\ loop[n].pc \in {"verify", "conn", "loop"}
        /\ loop[n].pc = "loop" => loop[n].kind \in {"InvalidChainID", "Syncing"}
        /\ VerifyPanics(n) \/ UNCHANGED panicked
    BY DEF Verify, Connect, Recheck, chainInfo, At
  <1>3. /\ loop[n].pc = "verify" =>
             /\ loop[n].kind \in {"Start", "Unreachable"}
             /\ state[n] \in {"Dialed", "Closed"}
        /\ loop[n].pc = "conn" =>
             /\ loop[n].kind \in {"OutOfSync", "InvalidChainID", "Syncing"}
             /\ state[n] \in {loop[n].kind, "Closed"}
        /\ loop[n].pc = "loop" => state[n] \in {loop[n].kind, "Closed"}
        /\ state[n] = "Closed" => stopped[n]
        /\ (loop[n].pc = "conn" /\ loop[n].kind = "OutOfSync") =>
               syncIssues[n] # {}
    BY <1>1, <1>2 DEF NodeFits, Fits, StateFits, StopFits, IssuesFit
  <1>4. UNCHANGED panicked
    BY <1>2, <1>3 DEF VerifyPanics, Verifiable
  <1>5. /\ r \in {"Len", "Unreachable", "InvalidChainID", "Alive", "Syncing"}
        /\ state[n] # "Closed" => r # "Len"
    BY DEF Verify, Connect, Recheck, verifyConn
  <1>6. r \in LoopNext  BY <1>5 DEF LoopNext
  <1>7. CASE Decide(n, r)
    <2>1. loop[n].pc # "verify" =>
            \/ state[n] = "Closed"
            \/ loop[n].kind # r /\ (loop[n].kind = "OutOfSync" => r # "Alive")
      <3>1. loop'[n].pc = "declare"  BY <1>1, <1>6, <1>7, DecideMoves
      <3>2. "loop" \in LoopPC /\ "subscribe" \in LoopPC  BY DEF LoopPC
      <3>3. ~Goto(n, "loop") /\ ~Goto(n, "subscribe")
        BY <1>1, <3>1, <3>2, GotoMoves
      <3> QED  BY <1>2, <1>3, <1>5, <3>3 DEF Verify, Connect, Recheck, At
    <2>2. ASSUME NEW l \in LoopRecord, l.kind = loop[n].kind, l.pc = "declare",
                 l.next = r
          PROVE  Fits(state[n], l, stopped[n], syncIssues[n])
      <3>1. StateFits(state[n], l) /\ StopFits(state[n], l, stopped[n])
            /\ IssuesFit(l, syncIssues[n])
        BY <1>3, <1>5, <2>2 DEF StateFits, StopFits, IssuesFit
      <3>2. DeclareFits(state[n], l)
        BY <1>2, <1>3, <1>5, <2>1, <2>2 DEF DeclareFits, From
      <3> QED  BY <3>1, <3>2 DEF Fits
    <2> QED  BY <1>2, <1>4, <1>6, <1>7, <2>2, DecideInv
  <1>8. ASSUME NEW pc \in LoopPC, Goto(n, pc),
               \/ pc = "undo" /\ loop[n].kind = "Unreachable" /\ loop[n].pc = "verify"
               \/ pc = "subscribe" /\ loop[n].kind = "OutOfSync" /\ loop[n].pc = "conn"
               \/ pc = "loop" /\ loop[n].pc = "conn"
        PROVE  PoolInv'
    <2>1. ASSUME NEW l \in LoopRecord, l.kind = loop[n].kind, l.pc = pc
          PROVE  Fits(state[n], l, stopped[n], syncIssues[n])
      BY <1>3, <1>8, <2>1
      DEF Fits, StateFits, DeclareFits, StopFits, IssuesFit
    <2> QED  BY <1>2, <1>4, <1>8, <2>1, GotoInv
  <1>9. "undo" \in LoopPC /\ "subscribe" \in LoopPC /\ "loop" \in LoopPC
    BY DEF LoopPC
  <1>10. CASE Verify(n, r)  BY <1>7, <1>8, <1>9, <1>10 DEF Verify
  <1>11. CASE Connect(n, r)  BY <1>7, <1>8, <1>9, <1>11 DEF Connect
  <1>12. CASE Recheck(n, r)  BY <1>7, <1>12 DEF Recheck
  <1> QED  BY <1>10, <1>11, <1>12

(* The sanity check at the head of a loop finds the state of the loop. *)
LEMMA EnterInv ==
  ASSUME PoolInv, NEW n \in Node, Enter(n)
  PROVE  PoolInv'
  <1>1. TypeOK /\ NodeFits(n)  BY DEF PoolInv
  <1>2. UNCHANGED <<state, stopped, syncIssues>> /\ loop[n].pc = "enter"
    BY DEF Enter, chainInfo
  <1>3. /\ loop[n].kind \in {"Alive", "Unreachable", "OutOfSync",
                             "InvalidChainID", "Syncing"}
        /\ state[n] \in {loop[n].kind, "Closed"}
        /\ state[n] = "Closed" => stopped[n]
        /\ loop[n].kind = "OutOfSync" => syncIssues[n] # {}
    BY <1>1, <1>2 DEF NodeFits, Fits, StateFits, StopFits, IssuesFit
  <1>4. UNCHANGED panicked  BY <1>3 DEF Enter
  <1>5. CASE state[n] = "Closed"
    <2>1. loop' = [loop EXCEPT ![n] = NoLoop] /\ stopped[n] = TRUE
      BY <1>1, <1>3, <1>5 DEF Enter, TypeOK
    <2>2. /\ loop' \in [Node -> LoopRecord] /\ loop'[n] = NoLoop
          /\ \A m \in Node : m # n => loop'[m] = loop[m]
      BY <1>1, <2>1, NoLoopFits, LoopReplaced
    <2>3. TypeOK'  BY <1>1, <1>2, <2>2 DEF TypeOK
    <2>4. Fits(state'[n], loop'[n], stopped'[n], syncIssues'[n])
      BY <1>2, <2>1, <2>2, NoLoopFits
    <2> QED  BY <1>2, <1>4, <2>2, <2>3, <2>4, NodeMoves
  <1>6. CASE state[n] # "Closed"
    <2>1. PICK pc \in LoopPC :
            /\ Goto(n, pc)
            /\ pc = IF loop[n].kind = "Alive" THEN "subscribe"
                    ELSE IF loop[n].kind = "Unreachable" THEN "dial" ELSE "conn"
      BY <1>6 DEF Enter, LoopPC
    <2>2. ASSUME NEW l \in LoopRecord, l.kind = loop[n].kind, l.pc = pc
          PROVE  Fits(state[n], l, stopped[n], syncIssues[n])
      BY <1>3, <2>1, <2>2
      DEF Fits, StateFits, DeclareFits, StopFits, IssuesFit
    <2> QED  BY <1>2, <1>4, <2>1, <2>2, GotoInv
  <1> QED  BY <1>5, <1>6

-----------------------------------------------------------------------------
(***************************************************************************)
(* The steps on the subscription, and the alive loop's decision that the   *)
(* node does not answer.                                                   *)
(***************************************************************************)
LEMMA SubscriptionInv ==
  ASSUME PoolInv, NEW n \in Node,
         \/ Subscribe(n) \/ SubscribeFails(n) \/ List(n)
         \/ FinalizedSubscribeFails(n) \/ SubEnded(n) \/ AlivePollsFail(n)
  PROVE  PoolInv'
  <1>1. TypeOK /\ NodeFits(n)  BY DEF PoolInv
  <1>2. /\ UNCHANGED <<state, stopped, syncIssues, panicked>>
        /\ loop[n].pc \in {"subscribe", "list", "loop"}
    BY DEF Subscribe, SubscribeFails, List, FinalizedSubscribeFails, SubEnded,
           AlivePollsFail, At, chainInfo
  <1>3. /\ loop[n].kind \in {"Alive", "OutOfSync", "InvalidChainID", "Syncing"}
        /\ loop[n].pc # "loop" => loop[n].kind \in {"Alive", "OutOfSync"}
        /\ state[n] \in {loop[n].kind, "Closed"}
        /\ state[n] = "Closed" => stopped[n]
        /\ loop[n].kind = "OutOfSync" => syncIssues[n] # {}
    BY <1>1, <1>2 DEF NodeFits, Fits, StateFits, StopFits, IssuesFit
  <1>4. CASE Decide(n, "Unreachable")
    <2>1. ASSUME NEW l \in LoopRecord, l.kind = loop[n].kind, l.pc = "declare",
                 l.next = "Unreachable"
          PROVE  Fits(state[n], l, stopped[n], syncIssues[n])
      BY <1>3, <2>1 DEF Fits, StateFits, DeclareFits, StopFits, IssuesFit, From
    <2>2. "Unreachable" \in LoopNext  BY DEF LoopNext
    <2> QED  BY <1>2, <1>4, <2>1, <2>2, DecideInv
  <1>5. ASSUME NEW pc \in {"list", "loop"}, Goto(n, pc), loop[n].pc # "loop"
        PROVE  PoolInv'
    <2>1. ASSUME NEW l \in LoopRecord, l.kind = loop[n].kind, l.pc = pc
          PROVE  Fits(state[n], l, stopped[n], syncIssues[n])
      BY <1>3, <1>5, <2>1 DEF Fits, StateFits, DeclareFits, StopFits, IssuesFit
    <2>2. pc \in LoopPC  BY DEF LoopPC
    <2> QED  BY <1>2, <1>5, <2>1, <2>2, GotoInv
  <1> QED
    BY <1>4, <1>5 DEF Subscribe, SubscribeFails, List, FinalizedSubscribeFails,
                      SubEnded, AlivePollsFail

(***************************************************************************)
(* The steps that change the issues: aliveLoop leaves with one, and        *)
(* outOfSyncLoop leaves when the last is gone.                             *)
(***************************************************************************)
LEMMA IssuesInv ==
  ASSUME PoolInv, NEW n \in Node, NEW issues \in SUBSET syncStatus,
         NEW next \in LoopNext,
         syncIssues' = [syncIssues EXCEPT ![n] = issues],
         UNCHANGED <<state, stopped, panicked>>, loop[n].pc = "loop",
         \/ UNCHANGED loop /\ issues # {}
         \/ /\ Decide(n, next)
            /\ \/ loop[n].kind = "Alive" /\ next = "OutOfSync" /\ issues # {}
               \/ loop[n].kind = "OutOfSync" /\ next = "InSync"
  PROVE  PoolInv'
  <1>1. TypeOK /\ NodeFits(n)  BY DEF PoolInv
  <1>2. /\ syncIssues' \in [Node -> SUBSET syncStatus] /\ syncIssues'[n] = issues
        /\ \A m \in Node : m # n => syncIssues'[m] = syncIssues[m]
    BY <1>1 DEF TypeOK
  <1>3. /\ state[n] \in {loop[n].kind, "Closed"}
        /\ state[n] = "Closed" => stopped[n]
    BY <1>1 DEF NodeFits, Fits, StateFits, StopFits
  <1>4. CASE UNCHANGED loop /\ issues # {}
    <2>1. TypeOK'  BY <1>1, <1>2, <1>4 DEF TypeOK
    <2>2. Fits(state'[n], loop'[n], stopped'[n], syncIssues'[n])
      BY <1>1, <1>2, <1>4 DEF NodeFits, Fits, IssuesFit
    <2> QED  BY <1>2, <1>4, <2>1, <2>2, NodeMoves
  <1>5. CASE /\ Decide(n, next)
             /\ \/ loop[n].kind = "Alive" /\ next = "OutOfSync" /\ issues # {}
                \/ loop[n].kind = "OutOfSync" /\ next = "InSync"
    <2>1. /\ loop' \in [Node -> LoopRecord]
          /\ loop'[n].kind = loop[n].kind /\ loop'[n].pc = "declare"
          /\ loop'[n].next = next
          /\ \A m \in Node : m # n => loop'[m] = loop[m]
      BY <1>1, <1>5, DecideMoves
    <2>2. TypeOK'  BY <1>1, <1>2, <2>1 DEF TypeOK
    <2>3. Fits(state'[n], loop'[n], stopped'[n], syncIssues'[n])
      BY <1>2, <1>3, <1>5, <2>1
      DEF Fits, StateFits, DeclareFits, StopFits, IssuesFit, From
    <2> QED  BY <1>2, <2>1, <2>2, <2>3, NodeMoves
  <1> QED  BY <1>4, <1>5

(* The heads and timers of aliveLoop and outOfSyncLoop. *)
LEMMA HeadsInv ==
  ASSUME PoolInv, NEW n \in Node, NEW b \in Block,
         \/ AliveHead(n, b) \/ AliveOutOfSync(n) \/ OutOfSyncHead(n, b)
         \/ OutOfSyncFinalizedHead(n) \/ OutOfSyncNoHeads(n)
         \/ OutOfSyncZombie(n)
  PROVE  PoolInv'
  <1>1. /\ TypeOK /\ NodeFits(n) /\ syncIssues[n] \in SUBSET syncStatus
        /\ "OutOfSync" \in LoopNext /\ "InSync" \in LoopNext
    BY DEF PoolInv, TypeOK, LoopNext
  <1>2. At(n, "OutOfSync", "loop") => syncIssues[n] # {}
    BY <1>1 DEF NodeFits, Fits, IssuesFit, At
  <1>3. ASSUME NEW issues \in SUBSET syncStatus, SetIssues(n, issues),
               At(n, "OutOfSync", "loop"), UNCHANGED <<state, stopped, panicked>>
        PROVE  PoolInv'
    BY <1>1, <1>3, IssuesInv DEF SetIssues, At
  <1>4. ASSUME UNCHANGED <<state, loop, stopped, syncIssues, panicked>>
        PROVE  PoolInv'
    BY <1>4, UnchangedInv
  <1>5. CASE AliveHead(n, b)  BY <1>4, <1>5 DEF AliveHead
  <1>6. CASE AliveOutOfSync(n)
    <2>1. PICK issue \in Issues(n) :
            syncIssues' = [syncIssues EXCEPT ![n] = {issue}]
      BY <1>6 DEF AliveOutOfSync
    <2>2. {issue} \in SUBSET syncStatus /\ {issue} # {}
      BY <2>1 DEF Issues, syncStatus
    <2> QED
      BY <1>1, <1>6, <2>1, <2>2, IssuesInv DEF AliveOutOfSync, At
  <1>7. CASE OutOfSyncHead(n, b)
    <2>1. (syncIssues[n] \ {"NoNewHead"}) \cup {"NotInSyncWithPool"}
            \in SUBSET syncStatus
      BY <1>1 DEF syncStatus
    <2>2. syncIssues[n] \ {"NoNewHead", "NotInSyncWithPool"} \in SUBSET syncStatus
      BY <1>1
    <2> QED  BY <1>3, <1>4, <1>7, <2>1, <2>2 DEF OutOfSyncHead
  <1>8. CASE OutOfSyncFinalizedHead(n)
    <2>1. syncIssues[n] \ {"NoNewFinalizedHead"} \in SUBSET syncStatus  BY <1>1
    <2> QED  BY <1>3, <1>8, <2>1 DEF OutOfSyncFinalizedHead
  <1>9. CASE OutOfSyncNoHeads(n)
    <2>1. PICK issue \in {"NoNewHead", "NoNewFinalizedHead"} :
            syncIssues' = [syncIssues EXCEPT ![n] = @ \cup {issue}]
      BY <1>9 DEF OutOfSyncNoHeads
    <2>2. /\ syncIssues[n] \cup {issue} \in SUBSET syncStatus
          /\ syncIssues[n] \cup {issue} # {}
      BY <1>1 DEF syncStatus
    <2> QED
      BY <1>1, <1>9, <2>1, <2>2, IssuesInv DEF OutOfSyncNoHeads, At
  <1>10. CASE OutOfSyncZombie(n)
    <2>1. /\ At(n, "OutOfSync", "loop") /\ Decide(n, "InSync")
          /\ UNCHANGED <<state, stopped, syncIssues, panicked>>
      BY <1>10 DEF OutOfSyncZombie, chainInfo
    <2>2. ASSUME NEW l \in LoopRecord, l.kind = loop[n].kind, l.pc = "declare",
                 l.next = "InSync"
          PROVE  Fits(state[n], l, stopped[n], syncIssues[n])
      BY <1>1, <2>1, <2>2
      DEF NodeFits, Fits, StateFits, DeclareFits, StopFits, IssuesFit, From, At
    <2> QED  BY <1>1, <2>1, <2>2, DecideInv
  <1> QED  BY <1>5, <1>6, <1>7, <1>8, <1>9, <1>10

(***************************************************************************)
(* A declaration finds a state it may come from, and starts the loop of    *)
(* the state it declares.                                                  *)
(***************************************************************************)
LEMMA DeclareInv ==
  ASSUME PoolInv, NEW n \in Node, declare(n)
  PROVE  PoolInv'
  <1> DEFINE s == loop[n].next
  <1>1. TypeOK /\ NodeFits(n)  BY DEF PoolInv
  <1>2. /\ loop[n].pc = "declare" /\ state[n] # "Closed"
        /\ panicked' = IF state[n] \in From(s) THEN panicked
                                             ELSE panicked \cup {"transition"}
        /\ state' = [state EXCEPT ![n] = Kind(s)]
        /\ loop' = [loop EXCEPT ![n] = Loop(Kind(s), "enter")]
        /\ syncIssues' =
             [syncIssues EXCEPT ![n] = IF s = "OutOfSync" THEN @ ELSE {}]
        /\ UNCHANGED stopped
    BY DEF declare
  <1>3. /\ s \in {"Alive", "InSync", "OutOfSync", "Unreachable",
                  "InvalidChainID", "Syncing"}
        /\ state[n] \in From(s)
        /\ s = "OutOfSync" => syncIssues[n] # {}
    BY <1>1, <1>2 DEF NodeFits, Fits, DeclareFits, IssuesFit
  <1>4. UNCHANGED panicked  BY <1>2, <1>3
  <1>5. Kind(s) \in {"Alive", "OutOfSync", "Unreachable", "InvalidChainID",
                     "Syncing"} /\ (Kind(s) = "OutOfSync" => s = "OutOfSync")
    BY <1>3 DEF Kind
  <1> HIDE DEF s
  <1>6. Kind(s) \in NodeState /\ Kind(s) \in LoopKind
    BY <1>5 DEF NodeState, LoopKind
  <1>7. Loop(Kind(s), "enter") \in LoopRecord
    BY <1>6 DEF Loop, LoopRecord, LoopPC, LoopNext
  <1>8. /\ loop' \in [Node -> LoopRecord] /\ loop'[n] = Loop(Kind(s), "enter")
        /\ \A m \in Node : m # n => loop'[m] = loop[m]
    BY <1>1, <1>2, <1>7, LoopReplaced
  <1>9. /\ state' \in [Node -> NodeState] /\ state'[n] = Kind(s)
        /\ \A m \in Node : m # n => state'[m] = state[m]
    BY <1>1, <1>2, <1>6 DEF TypeOK
  <1>10. /\ syncIssues' \in [Node -> SUBSET syncStatus]
         /\ s = "OutOfSync" => syncIssues'[n] = syncIssues[n]
         /\ \A m \in Node : m # n => syncIssues'[m] = syncIssues[m]
    BY <1>1, <1>2 DEF TypeOK
  <1>11. TypeOK'  BY <1>1, <1>2, <1>8, <1>9, <1>10 DEF TypeOK
  <1>12. Fits(state'[n], loop'[n], stopped'[n], syncIssues'[n])
    <2>1. loop'[n].pc = "enter" /\ loop'[n].kind = Kind(s)
      BY <1>8 DEF Loop
    <2> QED
      BY <1>3, <1>5, <1>9, <1>10, <2>1
      DEF Fits, StateFits, DeclareFits, StopFits, IssuesFit
  <1> QED  BY <1>2, <1>4, <1>8, <1>9, <1>10, <1>11, <1>12, NodeMoves

(* A loop ends only when its node stops. *)
LEMMA StopInv ==
  ASSUME PoolInv, NEW n \in Node, declareClosed(n) \/ Stop(n)
  PROVE  PoolInv'
  <1>1. TypeOK /\ NodeFits(n)  BY DEF PoolInv
  <1>2. /\ loop' = [loop EXCEPT ![n] = NoLoop]
        /\ UNCHANGED <<state, stopped, syncIssues, panicked>>
    BY DEF declareClosed, Stop, chainInfo
  <1>3. stopped[n] = TRUE
    BY <1>1 DEF declareClosed, Stop, NodeFits, Fits, StopFits, TypeOK
  <1>4. /\ loop' \in [Node -> LoopRecord] /\ loop'[n] = NoLoop
        /\ \A m \in Node : m # n => loop'[m] = loop[m]
    BY <1>1, <1>2, NoLoopFits, LoopReplaced
  <1>5. TypeOK'  BY <1>1, <1>2, <1>4 DEF TypeOK
  <1>6. Fits(state'[n], loop'[n], stopped'[n], syncIssues'[n])
    BY <1>2, <1>3, <1>4, NoLoopFits
  <1> QED  BY <1>2, <1>4, <1>5, <1>6, NodeMoves

(* Close may set the state at any program counter. *)
LEMMA CloseInv ==
  ASSUME PoolInv, NEW n \in Node, close(n)
  PROVE  PoolInv'
  <1>1. TypeOK /\ NodeFits(n) /\ "Closed" \in NodeState
    BY DEF PoolInv, NodeState
  <1>2. /\ stopped' = [stopped EXCEPT ![n] = TRUE]
        /\ state' = [state EXCEPT ![n] = "Closed"]
        /\ UNCHANGED <<loop, syncIssues, panicked>>
    BY DEF close, chainInfo
  <1>3. /\ stopped' \in [Node -> BOOLEAN] /\ stopped'[n] = TRUE
        /\ \A m \in Node : m # n => stopped'[m] = stopped[m]
    BY <1>1, <1>2 DEF TypeOK
  <1>4. /\ state' \in [Node -> NodeState] /\ state'[n] = "Closed"
        /\ \A m \in Node : m # n => state'[m] = state[m]
    BY <1>1, <1>2 DEF TypeOK
  <1>5. TypeOK'  BY <1>1, <1>2, <1>3, <1>4 DEF TypeOK
  <1>6. Fits(state'[n], loop'[n], stopped'[n], syncIssues'[n])
    BY <1>1, <1>2, <1>3, <1>4
    DEF NodeFits, Fits, StateFits, DeclareFits, StopFits, IssuesFit
  <1> QED  BY <1>2, <1>3, <1>4, <1>5, <1>6, NodeMoves

-----------------------------------------------------------------------------
(* Every step of a loop preserves the invariant. *)
LEMMA LoopStepInv ==
  ASSUME PoolInv, NEW n \in Node, LoopStep(n)
  PROVE  PoolInv'
  <1>1. CASE StartDialFails(n) \/ Dial(n) \/ Undo(n)  BY <1>1, DialInv
  <1>2. CASE Enter(n)  BY <1>2, EnterInv
  <1>3. ASSUME NEW r \in NodeState \cup {"Len"},
               Verify(n, r) \/ Connect(n, r) \/ Recheck(n, r)
        PROVE  PoolInv'
    BY <1>3, VerifyInv
  <1>4. CASE \/ Subscribe(n) \/ SubscribeFails(n) \/ List(n)
             \/ FinalizedSubscribeFails(n) \/ SubEnded(n) \/ AlivePollsFail(n)
    BY <1>4, SubscriptionInv
  <1>5. ASSUME NEW b \in Block, AliveHead(n, b) \/ OutOfSyncHead(n, b)
        PROVE  PoolInv'
    BY <1>5, HeadsInv
  <1>6. CASE \/ AliveOutOfSync(n) \/ OutOfSyncFinalizedHead(n)
             \/ OutOfSyncNoHeads(n) \/ OutOfSyncZombie(n)
    <2>1. 0 \in Block  BY NodeAssumption DEF Block
    <2> QED  BY <1>6, <2>1, HeadsInv
  <1>7. CASE declare(n)  BY <1>7, DeclareInv
  <1>8. CASE declareClosed(n) \/ Stop(n)  BY <1>8, StopInv
  <1> QED
    BY <1>1, <1>2, <1>3, <1>4, <1>5, <1>6, <1>7, <1>8 DEF LoopStep

(* The pool starts with nodes that are not dialled and no loops. *)
LEMMA InitInv == Init => PoolInv
  <1> SUFFICES ASSUME Init PROVE PoolInv  OBVIOUS
  <1>1. TypeOK
    BY NoLoopFits DEF Init, NodeInit, TypeOK, NodeState
  <1>2. ASSUME NEW n \in Node PROVE NodeFits(n)
    BY NoLoopFits DEF Init, NodeInit, NodeFits, Fits, StateFits, DeclareFits,
                      StopFits, IssuesFit
  <1> QED  BY <1>1, <1>2 DEF PoolInv, StateMachineNeverPanics, Init, NodeInit

(* Every step of the pool preserves the invariant. *)
LEMMA NextInv == PoolInv /\ [Next]_vars => PoolInv'
  <1> SUFFICES ASSUME PoolInv, [Next]_vars PROVE PoolInv'  OBVIOUS
  <1>1. ASSUME NEW n \in Node, LoopStep(n) PROVE PoolInv'
    BY <1>1, LoopStepInv
  <1>2. ASSUME NEW n \in Node, StartNode(n) PROVE PoolInv'
    BY <1>2, DialInv DEF StartNode
  <1>3. ASSUME NEW n \in Node, CloseNode(n) PROVE PoolInv'
    BY <1>3, CloseInv DEF CloseNode
  <1>4. ASSUME NEW n \in Node, Cleanup(n) \/ CloseNodeReturns(n) \/ LeaseVisit(n)
        PROVE  PoolInv'
    <2>1. /\ UNCHANGED <<state, loop, stopped, syncIssues>>
          /\ panicked' \subseteq panicked \cup {"checkLease"}
      BY <1>4 DEF Cleanup, CloseNodeReturns, LeaseVisit, chainInfo
    <2> QED  BY <2>1, UnchangedInv
  <1>5. CASE SelectNode \/ LeaseSelect \/ LeaseSwitch \/ Close \/ UNCHANGED vars
    <2>1. UNCHANGED <<state, loop, stopped, syncIssues, panicked>>
      BY <1>5 DEF SelectNode, LeaseSelect, LeaseSwitch, Close, chainInfo,
                  nodeVars, vars
    <2> QED  BY <2>1, UnchangedInv
  <1> QED  BY <1>1, <1>2, <1>3, <1>4, <1>5 DEF Next

(* The invariant that all of this rests on holds in every reachable state. *)
LEMMA PoolInvariant == Spec => []PoolInv
  BY InitInv, NextInv, PTL DEF Spec

(***************************************************************************)
(* Whatever the number of nodes, the configuration and the answers of the  *)
(* endpoints, no sanity check and no transition method of node_fsm.go and  *)
(* node_lifecycle.go panics.                                               *)
(***************************************************************************)
THEOREM NeverPanics == Spec => []StateMachineNeverPanics
  <1>1. PoolInv => StateMachineNeverPanics  BY DEF PoolInv
  <1> QED  BY <1>1, PoolInvariant, PTL

(***************************************************************************)
(* A node that is not being closed always has the loop of its state, and   *)
(* an out-of-sync loop always an issue that keeps it out of the pool.      *)
(***************************************************************************)
THEOREM Watched == Spec => []AlwaysWatched
  <1>1. PoolInv => AlwaysWatched
    <2> SUFFICES ASSUME PoolInv, NEW n \in Node, stopped[n] = FALSE,
                        state[n] # "Undialed"
                 PROVE  /\ \/ loop[n].kind = state[n]
                           \/ /\ state[n] = "Dialed"
                              /\ loop[n].kind \in {"Start", "Unreachable"}
                        /\ At(n, "OutOfSync", "loop") => syncIssues[n] # {}
      BY DEF AlwaysWatched, PoolInv, TypeOK
    <2>1. NodeFits(n) /\ loop[n] \in LoopRecord  BY DEF PoolInv, TypeOK
    <2>2. state[n] # "Closed" /\ loop[n].pc # "exit"
      BY <2>1 DEF NodeFits, Fits, StopFits
    <2>3. loop[n].pc \in LoopPC  BY <2>1 DEF LoopRecord
    <2>4. At(n, "OutOfSync", "loop") => syncIssues[n] # {}
      BY <2>1 DEF NodeFits, Fits, IssuesFit, At
    <2> QED
      BY <2>1, <2>2, <2>3, <2>4
      DEF NodeFits, Fits, StateFits, DeclareFits, LoopPC
  <1> QED  BY <1>1, PoolInvariant, PTL
=============================================================================

------------------------- MODULE TransactionSender -------------------------
(***************************************************************************)
(* SendTransaction (multinode/transaction_sender.go): a transaction is     *)
(* broadcast to all live nodes by a goroutine each, the answers of the     *)
(* primary nodes are collected until one succeeds, enough have come or a   *)
(* timer fires, and a second goroutine looks for contradictions in them.   *)
(* One call is followed; Close of the sender, the end of the caller's      *)
(* context and the stop of the MultiNode come at any moment.               *)
(*                                                                         *)
(* The goroutines run under the context of DoAll, which also ends with the *)
(* MultiNode, the collector under the context of the call.  txResults and  *)
(* txResultsToReport are unbuffered: a send is a step of both sides.  The  *)
(* state of a primary node is that of NodeLifecycle; here it may be alive  *)
(* or not at its visit.  DoAll visits the nodes in any order.              *)
(***************************************************************************)
EXTENDS SendOnlyNode, FiniteSets, Sequences

CONSTANTS
  Primary,       \* the primary nodes
  Results        \* the results broadcastTxAsync may return

SendTxReturnCode ==
  {"Successful", "Fatal", "Retryable", "Underpriced", "Unknown", "Unsupported",
   "TransactionAlreadyKnown", "InsufficientFunds", "ExceedsMaxFee",
   "FeeOutOfValidRange", "TerminallyStuck"}

sendTxSevereErrors == {"Fatal", "Underpriced", "Unsupported", "ExceedsMaxFee",
                       "FeeOutOfValidRange", "Unknown"}
sendTxSuccessfulCodes == {"Successful", "TransactionAlreadyKnown"}

Result(code, err) == [code |-> code, err |-> err]
ZeroResult == Result("zero", "nil")      \* the zero value of sendTxResult

ASSUME SenderAssumption ==
  /\ Primary # {} /\ Primary \cap SendOnly = {}
  /\ Results \subseteq [code : SendTxReturnCode, err : {"nil", "rpc"}]

VARIABLES
  pc,            \* SendTransaction: idle, doAll, collect, returned
  todo,          \* DoAll: nodes still to visit
  task,          \* the goroutine of each node
  collected,     \* errorsByCode of the collector
  resultsCount,
  closer,        \* the goroutine that closes the channels
  reporter,      \* reportSendTxAnomalies
  ret,           \* what SendTransaction returned
  ctxDone,       \* the caller's context has ended
  mnStopped,     \* chStop of the MultiNode is closed
  service        \* the sender's life: Started, Stopping, Stopped

callVars == <<pc, todo, collected, resultsCount, ret>>
vars == <<soVars, callVars, task, closer, reporter, ctxDone, mnStopped,
          service>>

NoTask == [pc |-> "none", res |-> ZeroResult]
Ended == [pc |-> "done", res |-> ZeroResult]

Init ==
  /\ SendOnlyInit
  /\ pc = "idle" /\ todo = {}
  /\ task = [n \in Primary \cup SendOnly |-> NoTask]
  /\ collected = {} /\ resultsCount = 0
  /\ closer = "none"
  /\ reporter = [pc |-> "none", seen |-> {}, alarm |-> FALSE]
  /\ ret = ZeroResult
  /\ ctxDone = FALSE /\ mnStopped = FALSE
  /\ service = "Started"

\* The context of the call; it is cancelled when SendTransaction returns.
CallDone == ctxDone \/ service # "Started" \/ pc = "returned"
TaskDone == CallDone \/ mnStopped

-----------------------------------------------------------------------------
\* The nodes a visit of DoAll may find alive.
MayBeAlive(n) == n \in SendOnly => soState[n] = "Alive"
MayBeDead(n) == n \in SendOnly => soState[n] # "Alive"

Healthy == {n \in Primary : task[n].pc # "none"}

SendTransaction ==
  /\ pc = "idle"
  /\ pc' = "doAll" /\ todo' = Primary
  /\ UNCHANGED <<soVars, task, collected, resultsCount, ret, closer, reporter,
                 ctxDone, mnStopped, service>>

(***************************************************************************)
(* DoAll: a live node gets its goroutine.  The send-only nodes come after  *)
(* the primary ones.  A stop reaches the context a little later than the   *)
(* end of the caller's context does, so DoAll may go on for a while.       *)
(***************************************************************************)
Visit(n) ==
  /\ pc = "doAll" /\ n \in todo /\ ~ctxDone
  /\ \/ /\ MayBeAlive(n)
        /\ task' = [task EXCEPT ![n].pc = "sending"]
     \/ MayBeDead(n) /\ UNCHANGED task
  /\ todo' = IF todo = {n} /\ n \in Primary THEN SendOnly ELSE todo \ {n}
  /\ UNCHANGED <<soVars, pc, collected, resultsCount, ret, closer, reporter,
                 ctxDone, mnStopped, service>>

\* DoAll gives up: no live primary node, or its context is done.
DoAllFails ==
  /\ pc = "doAll"
  /\ \/ todo # {} /\ TaskDone /\ ret' = Result("Retryable", "ctx")
     \/ todo = {} /\ Healthy = {} /\ ret' = Result("Retryable", "erroring")
  /\ pc' = "returned" /\ closer' = "waiting" /\ todo' = {}
  /\ UNCHANGED <<soVars, task, collected, resultsCount, reporter, ctxDone,
                 mnStopped, service>>

StartCollecting ==
  /\ pc = "doAll" /\ todo = {} /\ Healthy # {}
  /\ pc' = "collect" /\ closer' = "waiting"
  /\ reporter' = [reporter EXCEPT !.pc = "running"]
  /\ UNCHANGED <<soVars, todo, task, collected, resultsCount, ret, ctxDone,
                 mnStopped, service>>

-----------------------------------------------------------------------------
\* broadcastTxAsync: the RPC call and the classification of its error.
broadcastTxAsync(n, r) ==
  /\ task[n].pc = "sending"
  /\ task' = [task EXCEPT ![n] = IF n \in Primary
                                  THEN [pc |-> "deliver", res |-> r] ELSE Ended]
  /\ UNCHANGED <<soVars, callVars, closer, reporter, ctxDone, mnStopped,
                 service>>

\* Mutant of TaskGivesUp: the first send does not watch the context.
TaskGivesUpOnce(n) ==
  /\ task[n].pc = "report" /\ TaskDone
  /\ task' = [task EXCEPT ![n] = Ended]
  /\ UNCHANGED <<soVars, callVars, closer, reporter, ctxDone, mnStopped,
                 service>>

TaskGivesUp(n) ==
  /\ task[n].pc \in {"deliver", "report"} /\ TaskDone
  /\ task' = [task EXCEPT ![n] = Ended]
  /\ UNCHANGED <<soVars, callVars, closer, reporter, ctxDone, mnStopped,
                 service>>

CloseChannels ==
  /\ closer = "waiting"
  /\ \A n \in Primary : task[n].pc \in {"none", "done"}
  /\ closer' = "done"
  /\ UNCHANGED <<soVars, callVars, task, reporter, ctxDone, mnStopped,
                 service>>

-----------------------------------------------------------------------------
HasCode(S, codes) == {r \in S : r.code \in codes}

\* Mutant of aggregateTxResults: severe errors are looked for first.
SevereFirst(S) ==
  LET success == HasCode(S, sendTxSuccessfulCodes)
      severe == HasCode(S, sendTxSevereErrors)
  IN  IF severe # {} THEN severe
      ELSE IF success # {} THEN success
      ELSE IF S # {} THEN S
      ELSE {Result("Retryable", "expected")}

(***************************************************************************)
(* The results it may return: of several with the same rank, which one is  *)
(* the first depends on the order of arrival and of the map.               *)
(***************************************************************************)
aggregateTxResults(S) ==
  LET success == HasCode(S, sendTxSuccessfulCodes)
      severe == HasCode(S, sendTxSevereErrors)
  IN  IF success # {} THEN success
      ELSE IF severe # {} THEN severe
      ELSE IF S # {} THEN S
      ELSE {Result("Retryable", "expected")}

Contradiction(S) == /\ HasCode(S, sendTxSuccessfulCodes) # {}
                    /\ HasCode(S, sendTxSevereErrors) # {}

\* ceil(healthyNodesNum * sendTxQuorum), sendTxQuorum = 0.7
requiredResults == (7 * Cardinality(Healthy) + 9) \div 10

\* collectTxResults: one result, and the end of the loop.
Collect(r) ==
  /\ pc = "collect"
  /\ collected' = collected \cup {r}
  /\ resultsCount' = resultsCount + 1
  /\ IF r.code \in sendTxSuccessfulCodes \/ resultsCount' >= requiredResults
     THEN pc' = "returned" /\ ret' \in aggregateTxResults(collected')
     ELSE UNCHANGED <<pc, ret>>
  /\ UNCHANGED todo

Deliver(n) ==
  /\ task[n].pc = "deliver"
  /\ Collect(task[n].res)
  /\ task' = [task EXCEPT ![n].pc = "report"]
  /\ UNCHANGED <<soVars, closer, reporter, ctxDone, mnStopped, service>>

\* A receive from the closed channel yields the zero result.
CollectClosed ==
  /\ closer = "done"
  /\ Collect(ZeroResult)
  /\ UNCHANGED <<soVars, task, closer, reporter, ctxDone, mnStopped, service>>

SoftTimeout ==
  /\ pc = "collect" /\ resultsCount > 0
  /\ pc' = "returned" /\ ret' \in aggregateTxResults(collected)
  /\ UNCHANGED <<soVars, todo, task, collected, resultsCount, closer, reporter,
                 ctxDone, mnStopped, service>>

CollectDone ==
  /\ pc = "collect" /\ CallDone
  /\ pc' = "returned" /\ ret' = Result("Retryable", "ctx")
  /\ UNCHANGED <<soVars, todo, task, collected, resultsCount, closer, reporter,
                 ctxDone, mnStopped, service>>

-----------------------------------------------------------------------------
\* reportSendTxAnomalies: it takes results until the channel is closed.
Report(n) ==
  /\ task[n].pc = "report" /\ reporter.pc = "running"
  /\ reporter' = [reporter EXCEPT !.seen = @ \cup {task[n].res}]
  /\ task' = [task EXCEPT ![n] = Ended]
  /\ UNCHANGED <<soVars, callVars, closer, ctxDone, mnStopped, service>>

ReportEnds ==
  /\ reporter.pc = "running" /\ closer = "done"
  /\ reporter' = [reporter EXCEPT !.pc = "done",
                                  !.alarm = Contradiction(reporter.seen)]
  /\ UNCHANGED <<soVars, callVars, task, closer, ctxDone, mnStopped, service>>

-----------------------------------------------------------------------------
CallerCancels ==
  /\ ~ctxDone /\ ctxDone' = TRUE
  /\ UNCHANGED <<soVars, callVars, task, closer, reporter, mnStopped, service>>

MultiNodeStops ==
  /\ ~mnStopped /\ mnStopped' = TRUE
  /\ UNCHANGED <<soVars, callVars, task, closer, reporter, ctxDone, service>>

\* txSender.wg: the goroutines Close waits for.
wg == {n \in SendOnly : task[n].pc = "sending"}
        \cup {g \in {"closer"} : closer = "waiting"}
        \cup {g \in {"reporter"} : reporter.pc = "running"}

Close ==
  /\ service = "Started" /\ service' = "Stopping"
  /\ UNCHANGED <<soVars, callVars, task, closer, reporter, ctxDone, mnStopped>>

CloseReturns ==
  /\ service = "Stopping" /\ wg = {} /\ service' = "Stopped"
  /\ UNCHANGED <<soVars, callVars, task, closer, reporter, ctxDone, mnStopped>>

Task(n) == \/ \E r \in Results : broadcastTxAsync(n, r)
           \/ TaskGivesUp(n) \/ Deliver(n) \/ Report(n)

CallStep == \/ \E n \in Primary \cup SendOnly : Visit(n)
            \/ DoAllFails \/ StartCollecting
            \/ CollectClosed \/ CollectDone

Helpers == CloseChannels \/ ReportEnds

Next ==
  \/ SendTransaction \/ CallStep \/ SoftTimeout \/ Helpers
  \/ \E n \in Primary \cup SendOnly : Task(n)
  \/ CallerCancels \/ MultiNodeStops \/ Close \/ CloseReturns
  \/ \E s \in SendOnly :
       /\ SendOnlyStep(s)
       /\ UNCHANGED <<callVars, task, closer, reporter, ctxDone, mnStopped,
                      service>>

Spec == Init /\ [][Next]_vars

(***************************************************************************)
(* Fairness.  Goroutines run, RPC calls return at the latest when their    *)
(* context or the client's timeout ends them, and the endpoints in         *)
(* Answering, asked again and again, in the end give the right chain ID.   *)
(* Nothing is assumed of the soft timer nor of the caller's context.       *)
(***************************************************************************)
SoStep(A) == A /\ UNCHANGED <<callVars, task, closer, reporter, ctxDone,
                              mnStopped, service>>

SenderFairness ==
  /\ WF_vars(CallStep) /\ WF_vars(Helpers) /\ WF_vars(CloseReturns)
  /\ \A n \in Primary \cup SendOnly : WF_vars(Task(n))
  /\ \A s \in SendOnly :
       /\ WF_vars(SoStep(\E a \in {"same", "error", "other"} : SoCheck(s, a)))
       /\ SF_vars(SoStep(SoVerify(s, "same")))

FairSpec == Spec /\ SenderFairness

-----------------------------------------------------------------------------
(***************************************************************************)
(* A success that reached the collector is what the caller gets, a severe  *)
(* error is returned only when no success was collected, and no success is *)
(* returned that no primary node reported.                                 *)
(***************************************************************************)
AnswerIsBestCollected ==
  pc = "returned" =>
    /\ HasCode(collected, sendTxSuccessfulCodes) # {} =>
         ret \in HasCode(collected, sendTxSuccessfulCodes)
    /\ ret.code \in sendTxSuccessfulCodes \cup sendTxSevereErrors =>
         ret \in collected

(***************************************************************************)
(* Nothing is left behind: a call returns, and its broadcasts, the closer  *)
(* and the reporter end although nobody may receive their results any      *)
(* more; and a Close of the sender that has begun returns.                 *)
(***************************************************************************)
Drained ==
  /\ pc = "returned" /\ closer = "done" /\ reporter.pc # "running"
  /\ \A n \in Primary \cup SendOnly : task[n].pc \in {"none", "done"}

SenderDrains ==
  /\ pc = "doAll" ~> Drained
  /\ service = "Stopping" ~> service = "Stopped"

(***************************************************************************)
(* A send-only node whose first chain ID check failed joins the broadcasts *)
(* in the end, unless it is closed: verifyLoop repeats the check.          *)
(***************************************************************************)
SendOnlyRecovers ==
  \A s \in SendOnly :
    soState[s] \in {"Unreachable", "InvalidChainID"}
      ~> (soState[s] = "Alive" \/ soStopped[s])

=============================================================================

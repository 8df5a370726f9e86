---------------------- MODULE TransactionSenderProofs ----------------------
(***************************************************************************)
(* SendTransaction returns the best answer it has collected, and reports a *)
(* contradiction only between answers it has collected, for any number of  *)
(* nodes and whatever they answer.                                         *)
(***************************************************************************)
EXTENDS TransactionSender, TLAPS

TaskType ==
  [pc : {"none", "sending", "deliver", "report", "done"},
   res : Results \cup {ZeroResult}]

ReporterType ==
  [pc : {"none", "running", "done"}, seen : SUBSET (Results \cup {ZeroResult}),
   alarm : BOOLEAN]

TypeOK ==
  /\ pc \in {"idle", "doAll", "collect", "returned"}
  /\ task \in [Primary \cup SendOnly -> TaskType]
  /\ reporter \in ReporterType

(***************************************************************************)
(* Before the collector starts nothing is collected, and it does not go on *)
(* after a success: a context that ends it, or a soft timeout, can not     *)
(* hide one.                                                               *)
(***************************************************************************)
CollectorWaits ==
  /\ pc \in {"idle", "doAll"} => collected = {}
  /\ pc = "collect" => HasCode(collected, sendTxSuccessfulCodes) = {}

(***************************************************************************)
(* A goroutine hands its result to the reporter only after the collector   *)
(* has taken it, and alarm speaks of what the reporter has seen.           *)
(***************************************************************************)
ReportedAfterCollected ==
  /\ \A n \in Primary \cup SendOnly :
       task[n].pc = "report" => task[n].res \in collected
  /\ reporter.seen \subseteq collected
  /\ reporter.alarm = TRUE => Contradiction(reporter.seen)

(***************************************************************************)
(* reportSendTxAnomalies raises no false alarm: when it reports that nodes *)
(* disagree, the collector has taken a success and a severe error.         *)
(***************************************************************************)
AlarmIsReal == reporter.alarm = TRUE => Contradiction(collected)

SenderInv ==
  TypeOK /\ CollectorWaits /\ AnswerIsBestCollected /\ ReportedAfterCollected

-----------------------------------------------------------------------------
(* aggregateTxResults returns the best of what it is given. *)
LEMMA AggregateIsBest ==
  ASSUME NEW S, NEW r \in aggregateTxResults(S)
  PROVE  /\ HasCode(S, sendTxSuccessfulCodes) # {} =>
              r \in HasCode(S, sendTxSuccessfulCodes)
         /\ r.code \in sendTxSuccessfulCodes \cup sendTxSevereErrors => r \in S
  <1>1. CASE HasCode(S, sendTxSuccessfulCodes) # {}
    BY <1>1 DEF aggregateTxResults, HasCode
  <1>2. CASE /\ HasCode(S, sendTxSuccessfulCodes) = {}
             /\ HasCode(S, sendTxSevereErrors) # {}
    BY <1>2 DEF aggregateTxResults, HasCode
  <1>3. CASE /\ HasCode(S, sendTxSuccessfulCodes) = {}
             /\ HasCode(S, sendTxSevereErrors) = {} /\ S # {}
    BY <1>3 DEF aggregateTxResults
  <1>4. CASE /\ HasCode(S, sendTxSuccessfulCodes) = {}
             /\ HasCode(S, sendTxSevereErrors) = {} /\ S = {}
    <2>1. r = Result("Retryable", "expected")  BY <1>4 DEF aggregateTxResults
    <2> QED
      BY <1>4, <2>1 DEF Result, sendTxSuccessfulCodes, sendTxSevereErrors
  <1> QED  BY <1>1, <1>2, <1>3, <1>4

(* A contradiction in some answers is one in any larger set of answers. *)
LEMMA ContradictionGrows ==
  ASSUME NEW S, NEW T, S \subseteq T, Contradiction(S)
  PROVE  Contradiction(T)
  BY DEF Contradiction, HasCode

(* Nothing has been sent, collected or reported at first. *)
LEMMA InitInv == Init => SenderInv
  BY DEF Init, SenderInv, TypeOK, TaskType, ReporterType, CollectorWaits,
         AnswerIsBestCollected, ReportedAfterCollected, NoTask

(***************************************************************************)
(* A step that changes only the goroutines, and lets none of them go to    *)
(* the reporter without its result collected, preserves the invariant.     *)
(***************************************************************************)
LEMMA TaskMoves ==
  ASSUME SenderInv, NEW n \in Primary \cup SendOnly, NEW t \in TaskType,
         task' = [task EXCEPT ![n] = t], t.pc # "report",
         UNCHANGED <<pc, collected, ret, reporter>>
  PROVE  SenderInv'
  <1>1. TypeOK'  BY DEF SenderInv, TypeOK
  <1>2. CollectorWaits' /\ AnswerIsBestCollected'
    BY DEF SenderInv, CollectorWaits, AnswerIsBestCollected
  <1>3. \A m \in Primary \cup SendOnly :
          task'[m].pc = "report" => task[m] = task'[m]
    BY DEF SenderInv, TypeOK
  <1>4. ReportedAfterCollected'
    BY <1>3 DEF SenderInv, ReportedAfterCollected
  <1> QED  BY <1>1, <1>2, <1>4 DEF SenderInv

(* DoAll and the start of the collector. *)
LEMMA DoAllInv ==
  ASSUME SenderInv,
         \/ SendTransaction \/ DoAllFails \/ StartCollecting
         \/ \E n \in Primary \cup SendOnly : Visit(n)
  PROVE  SenderInv'
  <1>1. CASE SendTransaction
    BY <1>1 DEF SendTransaction, SenderInv, TypeOK, CollectorWaits,
                AnswerIsBestCollected, ReportedAfterCollected
  <1>2. CASE DoAllFails
    <2>1. /\ collected' = {} /\ pc' = "returned"
          /\ ret' \in {Result("Retryable", "ctx"), Result("Retryable", "erroring")}
          /\ UNCHANGED <<task, reporter, collected>>
      BY <1>2 DEF DoAllFails, SenderInv, CollectorWaits
    <2>2. AnswerIsBestCollected'
      BY <2>1 DEF AnswerIsBestCollected, HasCode, Result, sendTxSuccessfulCodes,
                  sendTxSevereErrors
    <2> QED
      BY <2>1, <2>2
      DEF SenderInv, TypeOK, CollectorWaits, ReportedAfterCollected
  <1>3. CASE StartCollecting
    <2>1. /\ pc = "doAll" /\ pc' = "collect"
          /\ reporter' = [reporter EXCEPT !.pc = "running"]
          /\ UNCHANGED <<task, collected>>
      BY <1>3 DEF StartCollecting
    <2>2. /\ reporter' \in ReporterType /\ reporter'.seen = reporter.seen
          /\ reporter'.alarm = reporter.alarm
      BY <2>1 DEF SenderInv, TypeOK, ReporterType
    <2>3. TypeOK'  BY <2>1, <2>2 DEF SenderInv, TypeOK
    <2>4. CollectorWaits' /\ AnswerIsBestCollected'
      BY <2>1 DEF SenderInv, CollectorWaits, AnswerIsBestCollected, HasCode
    <2>5. ReportedAfterCollected'
      BY <2>1, <2>2 DEF SenderInv, ReportedAfterCollected
    <2> QED  BY <2>3, <2>4, <2>5 DEF SenderInv
  <1>4. ASSUME NEW n \in Primary \cup SendOnly, Visit(n)
        PROVE  SenderInv'
    <2>1. UNCHANGED <<pc, collected, ret, reporter>>  BY <1>4 DEF Visit
    <2>2. CASE task' = [task EXCEPT ![n].pc = "sending"]
      <3>1. PICK t \in TaskType : t.pc = "sending" /\ task' = [task EXCEPT ![n] = t]
        <4>1. [task[n] EXCEPT !.pc = "sending"] \in TaskType
          BY DEF SenderInv, TypeOK, TaskType
        <4>2. [task[n] EXCEPT !.pc = "sending"].pc = "sending"
          BY DEF SenderInv, TypeOK, TaskType
        <4> QED  BY <2>2, <4>1, <4>2
      <3> QED  BY <2>1, <3>1, TaskMoves
    <2>3. CASE UNCHANGED task
      BY <2>1, <2>3 DEF SenderInv, TypeOK, CollectorWaits,
                        AnswerIsBestCollected, ReportedAfterCollected
    <2> QED  BY <1>4, <2>2, <2>3 DEF Visit
  <1> QED  BY <1>1, <1>2, <1>3, <1>4

(***************************************************************************)
(* The collector: it stops at the first success, and the answer it gives   *)
(* then is the best of what it has.                                        *)
(***************************************************************************)
LEMMA CollectInv ==
  ASSUME SenderInv, NEW r, Collect(r)
  PROVE  /\ pc' \in {"collect", "returned"} /\ collected' = collected \cup {r}
         /\ CollectorWaits' /\ AnswerIsBestCollected'
  <1>1. /\ pc = "collect" /\ collected' = collected \cup {r}
        /\ HasCode(collected, sendTxSuccessfulCodes) = {}
    BY DEF Collect, SenderInv, CollectorWaits
  <1>2. CASE pc' = "returned" /\ ret' \in aggregateTxResults(collected')
    <2>1. AnswerIsBestCollected'
      BY <1>2, AggregateIsBest DEF AnswerIsBestCollected
    <2> QED  BY <1>1, <1>2, <2>1 DEF CollectorWaits
  <1>3. CASE UNCHANGED <<pc, ret>> /\ r.code \notin sendTxSuccessfulCodes
    <2>1. HasCode(collected', sendTxSuccessfulCodes) = {}
      BY <1>1, <1>3 DEF HasCode
    <2> QED  BY <1>1, <1>3, <2>1 DEF CollectorWaits, AnswerIsBestCollected
  <1> QED  BY <1>1, <1>2, <1>3 DEF Collect

(* Delivering a result, and the closed channel. *)
LEMMA DeliverInv ==
  ASSUME SenderInv, CollectClosed \/ \E n \in Primary \cup SendOnly : Deliver(n)
  PROVE  SenderInv'
  <1>1. CASE CollectClosed
    <2>1. /\ pc' \in {"collect", "returned"}
          /\ collected' = collected \cup {ZeroResult}
          /\ CollectorWaits' /\ AnswerIsBestCollected'
      BY <1>1, CollectInv DEF CollectClosed
    <2>2. UNCHANGED <<task, reporter>>  BY <1>1 DEF CollectClosed
    <2> QED
      BY <2>1, <2>2 DEF SenderInv, TypeOK, ReportedAfterCollected
  <1>2. ASSUME NEW n \in Primary \cup SendOnly, Deliver(n)
        PROVE  SenderInv'
    <2>1. /\ pc' \in {"collect", "returned"}
          /\ collected' = collected \cup {task[n].res}
          /\ CollectorWaits' /\ AnswerIsBestCollected'
      BY <1>2, CollectInv DEF Deliver
    <2>2. task' = [task EXCEPT ![n].pc = "report"] /\ UNCHANGED reporter
      BY <1>2 DEF Deliver
    <2>3. /\ task' \in [Primary \cup SendOnly -> TaskType]
          /\ task'[n].res = task[n].res
          /\ \A m \in Primary \cup SendOnly : m # n => task'[m] = task[m]
      BY <2>2 DEF SenderInv, TypeOK, TaskType
    <2>4. TypeOK'  BY <2>1, <2>2, <2>3 DEF SenderInv, TypeOK
    <2>5. ReportedAfterCollected'
      BY <2>1, <2>2, <2>3 DEF SenderInv, ReportedAfterCollected
    <2> QED  BY <2>1, <2>4, <2>5 DEF SenderInv
  <1> QED  BY <1>1, <1>2

(* The timers of the collector: neither can hide a success. *)
LEMMA CollectEndsInv ==
  ASSUME SenderInv, SoftTimeout \/ CollectDone
  PROVE  SenderInv'
  <1>1. /\ pc = "collect" /\ pc' = "returned"
        /\ UNCHANGED <<task, collected, reporter>>
        /\ HasCode(collected, sendTxSuccessfulCodes) = {}
    BY DEF SoftTimeout, CollectDone, SenderInv, CollectorWaits
  <1>2. AnswerIsBestCollected'
    <2>1. CASE SoftTimeout
      BY <1>1, <2>1, AggregateIsBest DEF SoftTimeout, AnswerIsBestCollected
    <2>2. CASE CollectDone
      <3>1. ret'.code = "Retryable"  BY <2>2 DEF CollectDone, Result
      <3> QED
        BY <1>1, <3>1 DEF AnswerIsBestCollected, sendTxSuccessfulCodes,
                          sendTxSevereErrors
    <2> QED  BY <2>1, <2>2
  <1> QED
    BY <1>1, <1>2 DEF SenderInv, TypeOK, CollectorWaits, ReportedAfterCollected

(* The goroutines that broadcast, and the reporter. *)
LEMMA TaskInv ==
  ASSUME SenderInv, NEW n \in Primary \cup SendOnly,
         TaskGivesUp(n) \/ Report(n) \/ \E r \in Results : broadcastTxAsync(n, r)
  PROVE  SenderInv'
  <1>0. Ended \in TaskType /\ Ended.pc # "report"  BY DEF Ended, TaskType
  <1>1. CASE TaskGivesUp(n)
    BY <1>0, <1>1, TaskMoves DEF TaskGivesUp, callVars
  <1>2. ASSUME NEW r \in Results, broadcastTxAsync(n, r)
        PROVE  SenderInv'
    <2>1. PICK t \in TaskType : t.pc # "report" /\ task' = [task EXCEPT ![n] = t]
      <3>1. [pc |-> "deliver", res |-> r] \in TaskType  BY DEF TaskType
      <3> QED  BY <1>0, <1>2, <3>1 DEF broadcastTxAsync
    <2> QED  BY <1>2, <2>1, TaskMoves DEF broadcastTxAsync, callVars
  <1>3. CASE Report(n)
    <2>1. /\ task[n].pc = "report" /\ task' = [task EXCEPT ![n] = Ended]
          /\ reporter' = [reporter EXCEPT !.seen = @ \cup {task[n].res}]
          /\ UNCHANGED <<pc, collected, ret>>
      BY <1>3 DEF Report, callVars
    <2>2. /\ task[n].res \in collected
          /\ task[n].res \in Results \cup {ZeroResult}
      BY <2>1 DEF SenderInv, ReportedAfterCollected, TypeOK, TaskType
    <2>3. /\ reporter' \in ReporterType
          /\ reporter'.seen = reporter.seen \cup {task[n].res}
          /\ reporter'.alarm = reporter.alarm
      BY <2>1, <2>2 DEF SenderInv, TypeOK, ReporterType
    <2>4. TypeOK'  BY <1>0, <2>1, <2>3 DEF SenderInv, TypeOK
    <2>5. CollectorWaits' /\ AnswerIsBestCollected'
      BY <2>1 DEF SenderInv, CollectorWaits, AnswerIsBestCollected
    <2>6. reporter'.alarm = TRUE => Contradiction(reporter'.seen)
      BY <2>3, ContradictionGrows DEF SenderInv, ReportedAfterCollected
    <2>7. ReportedAfterCollected'
      BY <1>0, <2>1, <2>2, <2>3, <2>6
      DEF SenderInv, TypeOK, ReportedAfterCollected
    <2> QED  BY <2>4, <2>5, <2>7 DEF SenderInv
  <1> QED  BY <1>1, <1>2, <1>3

(* The end of the reporter: it decides on what it has seen. *)
LEMMA ReportEndsInv ==
  ASSUME SenderInv, ReportEnds
  PROVE  SenderInv'
  <1>1. /\ reporter' = [reporter EXCEPT !.pc = "done",
                                        !.alarm = Contradiction(reporter.seen)]
        /\ UNCHANGED <<pc, collected, ret, task>>
    BY DEF ReportEnds, callVars
  <1>2. Contradiction(reporter.seen) \in BOOLEAN  BY DEF Contradiction
  <1>3. /\ reporter' \in ReporterType /\ reporter'.seen = reporter.seen
        /\ reporter'.alarm = Contradiction(reporter.seen)
    BY <1>1, <1>2 DEF SenderInv, TypeOK, ReporterType
  <1>4. TypeOK' /\ CollectorWaits' /\ AnswerIsBestCollected'
    BY <1>1, <1>3
    DEF SenderInv, TypeOK, CollectorWaits, AnswerIsBestCollected
  <1>5. ReportedAfterCollected'
    <2>1. reporter'.alarm = TRUE => Contradiction(reporter'.seen)
      BY <1>3, Zenon
    <2> QED  BY <1>1, <1>3, <2>1 DEF SenderInv, ReportedAfterCollected
  <1> QED  BY <1>4, <1>5 DEF SenderInv

(* Every step of the sender preserves the invariant. *)
LEMMA NextInv == SenderInv /\ [Next]_vars => SenderInv'
  <1> SUFFICES ASSUME SenderInv, [Next]_vars PROVE SenderInv'  OBVIOUS
  <1>1. CASE SendTransaction \/ CallStep
    BY <1>1, DoAllInv, DeliverInv, CollectEndsInv DEF CallStep
  <1>2. CASE SoftTimeout  BY <1>2, CollectEndsInv
  <1>3. CASE ReportEnds  BY <1>3, ReportEndsInv
  <1>4. ASSUME NEW n \in Primary \cup SendOnly, Task(n)
        PROVE  SenderInv'
    BY <1>4, TaskInv, DeliverInv DEF Task
  <1>5. CASE UNCHANGED <<callVars, task, reporter>>
    BY <1>5 DEF callVars, SenderInv, TypeOK, CollectorWaits,
                AnswerIsBestCollected, ReportedAfterCollected
  <1> QED
    BY <1>1, <1>2, <1>3, <1>4, <1>5
    DEF Next, Helpers, CloseChannels, CallerCancels, MultiNodeStops, Close,
        CloseReturns, vars

(* The invariant that the two theorems rest on. *)
LEMMA SenderInvariant == Spec => []SenderInv
  BY InitInv, NextInv, PTL DEF Spec

(***************************************************************************)
(* A success that reached collectTxResults is what SendTransaction         *)
(* returns, whichever timer or context ends the collection, and a severe   *)
(* error or a success is never made up.                                    *)
(***************************************************************************)
THEOREM BestAnswer == Spec => []AnswerIsBestCollected
  <1>1. SenderInv => AnswerIsBestCollected  BY DEF SenderInv
  <1> QED  BY <1>1, SenderInvariant, PTL

(***************************************************************************)
(* An anomaly that reportSendTxAnomalies reports is one of the answers     *)
(* that the collector took, although the two goroutines take them at       *)
(* different moments.                                                      *)
(***************************************************************************)
THEOREM NoFalseAlarm == Spec => []AlarmIsReal
  <1>1. SenderInv => AlarmIsReal
    BY ContradictionGrows DEF SenderInv, ReportedAfterCollected, AlarmIsReal
  <1> QED  BY <1>1, SenderInvariant, PTL
=============================================================================

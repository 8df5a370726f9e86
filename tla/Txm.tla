-------------------------------- MODULE Txm --------------------------------
(***************************************************************************)
(* The Solana transaction manager (pkg/solana/txm/txm.go): the goroutines  *)
(* run, confirm and simulate, one retry goroutine per transaction, one     *)
(* goroutine per rebroadcast and one per batch of signature statuses, over *)
(* the in-flight transactions of PendingTx.                                *)
(*                                                                         *)
(* A job is one call of Enqueue; it also names the id that New gives it.   *)
(* Its signature is a function of its payload and its fee, so two jobs of  *)
(* one payload share signatures, and so do bumps past the maximum fee.     *)
(* Time is nondeterministic: the retry timeout and the confirm timeout of  *)
(* a job may elapse at any moment.                                         *)
(***************************************************************************)
EXTENDS PendingTx, Naturals, Sequences, FiniteSets

CONSTANTS
  Payload,       \* Payload[j]: the transaction that job j enqueues
  MaxFee,        \* fee level at which CalculateFee reaches its maximum
  MaxBump,       \* bound: fee bumps of one job
  MaxSenders,    \* bound: rebroadcasts of one job under way at a time
  MaxQueueLen,   \* capacity of chSend and of chSim
  MaxSigsToConfirm

Job == Id

ASSUME TxmAssumption ==
  /\ MaxFee \in Nat /\ MaxBump \in Nat /\ MaxSenders \in Nat
  /\ MaxQueueLen \in Nat \ {0} /\ MaxSigsToConfirm \in Nat \ {0}
  /\ \A j \in Job, f \in 0..MaxFee : <<Payload[j], f>> \in Signature

VARIABLES
  enqueued,    \* jobs that called Enqueue
  chSend,      \* queue of jobs
  chSim,       \* queue of jobs
  stopped,     \* chStop is closed
  closed,      \* Close has returned
  runner,      \* what run is doing
  simulator,   \* "loop" or "exit"
  retry,       \* the retry goroutine of each job
  bumpCount,
  sigs,        \* indices of each job's signatureList that are set
  timedOut,    \* jobs whose retry context has timed out
  aged,        \* jobs older than TxConfirmTimeout
  senders,     \* rebroadcast goroutines
  sent,        \* signatures each job has broadcast
  chain,       \* what the cluster knows of a signature
  confirmer,   \* "idle", "fetch" or "exit"
  todo,        \* listed signatures whose statuses are not fetched yet
  workers,     \* batch goroutines: the statuses each has left to process,
               \* and the signature it has found expired, if any
  outcome      \* how each job left the in-flight set

queues == <<enqueued, chSend, chSim>>
retries == <<retry, bumpCount, sigs, timedOut, senders>>
confirmation == <<confirmer, todo, workers>>
control == <<stopped, closed, runner, simulator>>
vars == <<pendingVars, queues, control, retries, confirmation, aged, sent,
          chain, outcome>>

Loop == [pc |-> "loop", job |-> Nil]
Exit == [pc |-> "exit", job |-> Nil]

(* The statuses of convertStatus, and processed transactions that failed. *)
Status == {"NotFound", "Processed", "ProcessedErr", "ConfirmedRevert",
           "ConfirmedSuccess"}

convertStatus(st) ==
  CASE st = "NotFound" -> 0
    [] st \in {"Processed", "ProcessedErr"} -> 1
    [] st = "ConfirmedRevert" -> 2
    [] st = "ConfirmedSuccess" -> 3

(* The signature of job j after n bumps: CalculateFee grows up to a maximum. *)
buildTx(j, n) == <<Payload[j], IF n < MaxFee THEN n ELSE MaxFee>>

\* Mutant of ctxDone: the retry context is not derived from chStop.
ctxDoneDetached(j) == j \in timedOut \/ j \in finished

ctxDone(j) == stopped \/ j \in timedOut \/ j \in finished

Init ==
  /\ PendingInit
  /\ enqueued = {} /\ chSend = <<>> /\ chSim = <<>>
  /\ stopped = FALSE /\ closed = FALSE
  /\ runner = Loop /\ simulator = "loop"
  /\ retry = [j \in Job |-> "none"]
  /\ bumpCount = [j \in Job |-> 0]
  /\ sigs = [j \in Job |-> {}]
  /\ timedOut = {} /\ aged = {} /\ senders = {}
  /\ sent = [j \in Job |-> {}]
  /\ chain = [s \in Signature |-> "open"]
  /\ confirmer = "idle" /\ todo = {} /\ workers = {}
  /\ outcome = [j \in Job |-> "none"]

-----------------------------------------------------------------------------
(* Enqueue: a missing key, a failed estimate of the compute unit limit or a
   full chSend refuses the job, which changes nothing.  Transactions are
   enqueued unsigned, so the estimate has no signature to report. *)
Enqueue(j) ==
  /\ ~stopped
  /\ j \notin enqueued
  /\ Len(chSend) < MaxQueueLen
  /\ enqueued' = enqueued \cup {j}
  /\ chSend' = Append(chSend, j)
  /\ UNCHANGED <<pendingVars, chSim, control, retries, confirmation, aged,
                 sent, chain, outcome>>

(***************************************************************************)
(* run and sendWithRetry                                                   *)
(***************************************************************************)
RunReceive ==
  /\ runner = Loop
  /\ chSend # <<>>
  /\ runner' = [pc |-> "send", job |-> Head(chSend)]
  /\ chSend' = Tail(chSend)
  /\ UNCHANGED <<pendingVars, enqueued, chSim, stopped, closed, simulator,
                 retries, confirmation, aged, sent, chain, outcome>>

\* No client, a build error, or a first SendTx that the RPC refuses.
RunSendFails ==
  /\ runner.pc = "send"
  /\ runner' = Loop
  /\ UNCHANGED <<pendingVars, queues, stopped, closed, simulator, retries,
                 confirmation, aged, sent, chain, outcome>>

RunSends ==
  /\ runner.pc = "send"
  /\ sent' = [sent EXCEPT ![runner.job] = @ \cup {buildTx(runner.job, 0)}]
  /\ runner' = [runner EXCEPT !.pc = "store"]
  /\ UNCHANGED <<pendingVars, queues, stopped, closed, simulator, retries,
                 confirmation, aged, chain, outcome>>

\* txs.New, the first entry of sigs, the retry goroutine, and the simulation
\* queue, which is skipped when it is full.
RunStores ==
  LET j == runner.job
      sig == buildTx(j, 0) IN
  /\ runner.pc = "store"
  /\ \/ /\ Track(j, sig)
        /\ retry' = [retry EXCEPT ![j] = "running"]
        /\ sigs' = [sigs EXCEPT ![j] = {0}]
        /\ chSim' = IF Len(chSim) < MaxQueueLen THEN Append(chSim, j)
                                                ELSE chSim
     \/ /\ owner[sig] # Nil
        /\ UNCHANGED <<pendingVars, retry, sigs, chSim>>
  /\ runner' = Loop
  /\ UNCHANGED <<enqueued, chSend, stopped, closed, simulator, bumpCount,
                 timedOut, senders, confirmation, aged, sent, chain, outcome>>

RunExit ==
  /\ runner = Loop
  /\ stopped
  /\ runner' = Exit
  /\ UNCHANGED <<pendingVars, queues, stopped, closed, simulator, retries,
                 confirmation, aged, sent, chain, outcome>>

(***************************************************************************)
(* The retry goroutine of job j.  When its context is done and its timer   *)
(* has fired, select may still take the timer.                             *)
(***************************************************************************)
Sender(j, bump, count) ==
  [job |-> j, bump |-> bump, count |-> count, pc |-> "send"]

MaySpawn(j) == Cardinality({r \in senders : r.job = j}) < MaxSenders

RetryTick(j) ==
  /\ retry[j] = "running" /\ MaySpawn(j)
  /\ senders' = senders \cup {Sender(j, FALSE, bumpCount[j])}
  /\ UNCHANGED <<pendingVars, queues, control, retry, bumpCount, sigs,
                 timedOut, confirmation, aged, sent, chain, outcome>>

RetryBump(j) ==
  /\ retry[j] = "running" /\ MaySpawn(j)
  /\ bumpCount[j] < MaxBump
  /\ bumpCount' = [bumpCount EXCEPT ![j] = @ + 1]
  /\ senders' = senders \cup {Sender(j, TRUE, bumpCount[j] + 1)}
  /\ UNCHANGED <<pendingVars, queues, control, retry, sigs, timedOut,
                 confirmation, aged, sent, chain, outcome>>

\* The bumped transaction cannot be built: the goroutine does not wait for
\* its rebroadcasts.
RetryBuildFails(j) ==
  /\ retry[j] = "running"
  /\ bumpCount[j] < MaxBump
  /\ bumpCount' = [bumpCount EXCEPT ![j] = @ + 1]
  /\ retry' = [retry EXCEPT ![j] = "done"]
  /\ UNCHANGED <<pendingVars, queues, control, sigs, timedOut, senders,
                 confirmation, aged, sent, chain, outcome>>

RetryStop(j) ==
  /\ retry[j] = "running"
  /\ ctxDone(j)
  /\ retry' = [retry EXCEPT ![j] = "draining"]
  /\ UNCHANGED <<pendingVars, queues, control, bumpCount, sigs, timedOut,
                 senders, confirmation, aged, sent, chain, outcome>>

RetryExit(j) ==
  /\ retry[j] = "draining"
  /\ \A r \in senders : r.job # j
  /\ retry' = [retry EXCEPT ![j] = "done"]
  /\ UNCHANGED <<pendingVars, queues, control, bumpCount, sigs, timedOut,
                 senders, confirmation, aged, sent, chain, outcome>>

(***************************************************************************)
(* A rebroadcast goroutine.                                                *)
(***************************************************************************)
SenderFails(r) ==
  /\ r.pc = "send"
  /\ senders' = senders \ {r}
  /\ UNCHANGED <<pendingVars, queues, control, retry, bumpCount, sigs,
                 timedOut, confirmation, aged, sent, chain, outcome>>

SenderSends(r) ==
  /\ r.pc = "send"
  /\ sent' = [sent EXCEPT ![r.job] = @ \cup {buildTx(r.job, r.count)}]
  /\ senders' = (senders \ {r})
                  \cup {[r EXCEPT !.pc = IF r.bump THEN "add" ELSE "wait"]}
  /\ UNCHANGED <<pendingVars, queues, control, retry, bumpCount, sigs,
                 timedOut, confirmation, aged, chain, outcome>>

SenderAdds(r) ==
  LET sig == buildTx(r.job, r.count) IN
  /\ r.pc = "add"
  /\ \/ /\ Attach(r.job, sig)
        /\ sigs' = [sigs EXCEPT ![r.job] = @ \cup {r.count}]
        /\ senders' = (senders \ {r}) \cup {[r EXCEPT !.pc = "wait"]}
     \/ /\ owner[sig] # Nil \/ r.job \notin inflight
        /\ senders' = senders \ {r}
        /\ UNCHANGED <<pendingVars, sigs>>
  /\ UNCHANGED <<queues, control, retry, bumpCount, timedOut, confirmation,
                 aged, sent, chain, outcome>>

\* Mutant of SenderWaits: waits for the signature only.
SenderWaitsForever(r) ==
  /\ r.pc = "wait"
  /\ r.count \in sigs[r.job]
  /\ senders' = senders \ {r}
  /\ UNCHANGED <<pendingVars, queues, control, retry, bumpCount, sigs,
                 timedOut, confirmation, aged, sent, chain, outcome>>

\* Until the bump with this count has stored its signature, or ctx is done.
SenderWaits(r) ==
  /\ r.pc = "wait"
  /\ r.count \in sigs[r.job] \/ ctxDone(r.job)
  /\ senders' = senders \ {r}
  /\ UNCHANGED <<pendingVars, queues, control, retry, bumpCount, sigs,
                 timedOut, confirmation, aged, sent, chain, outcome>>

(***************************************************************************)
(* Timers: the retry timeout starts before the first SendTx, the confirm   *)
(* timeout in New.                                                         *)
(***************************************************************************)
RetryTimeout(j) ==
  /\ sent[j] # {}
  /\ ~ctxDone(j)
  /\ timedOut' = timedOut \cup {j}
  /\ UNCHANGED <<pendingVars, queues, control, retry, bumpCount, sigs,
                 senders, confirmation, aged, sent, chain, outcome>>

ConfirmTimeout(j) ==
  /\ j \in inflight \ aged
  /\ aged' = aged \cup {j}
  /\ UNCHANGED <<pendingVars, queues, control, retries, confirmation, sent,
                 chain, outcome>>

-----------------------------------------------------------------------------
(***************************************************************************)
(* OnSuccess and OnError: the transaction that owns s, if any, leaves.     *)
(***************************************************************************)
Resolve(s, how) ==
  \/ /\ owner[s] # Nil
     /\ Finish(owner[s])
     /\ outcome' = [outcome EXCEPT ![owner[s]] = how]
  \/ /\ owner[s] = Nil
     /\ UNCHANGED <<pendingVars, outcome>>

(***************************************************************************)
(* confirm.  ListAll returns the signatures in any order, so a batch is    *)
(* any of them; a batch whose statuses cannot be fetched ends the round.   *)
(***************************************************************************)
ConfirmTick ==
  /\ confirmer = "idle"
  /\ todo' = {s \in Signature : owner[s] # Nil}
  /\ todo' # {}
  /\ confirmer' = "fetch"
  /\ UNCHANGED <<pendingVars, queues, control, retries, workers, aged, sent,
                 chain, outcome>>

\* External: what an RPC endpoint may answer.  It may lag behind the cluster,
\* and it may have processed the signature in a block that is then forgotten.
Answer(s) ==
  CASE chain[s] = "open" -> {"NotFound", "Processed", "ProcessedErr"}
    [] chain[s] = "succeeded" -> {"NotFound", "Processed", "ConfirmedSuccess"}
    [] chain[s] = "failed" -> {"NotFound", "ProcessedErr", "ConfirmedRevert"}

Batch(S) == {B \in SUBSET S : Cardinality(B) =
               IF Cardinality(S) < MaxSigsToConfirm THEN Cardinality(S)
                                                    ELSE MaxSigsToConfirm}

ConfirmFetch ==
  /\ confirmer = "fetch"
  /\ todo # {}
  /\ \E B \in Batch(todo) :
       /\ \E res \in [B -> Status] :
            /\ \A s \in B : res[s] \in Answer(s)
            /\ workers' = workers \cup {[res |-> res, expired |-> Nil]}
       /\ todo' = todo \ B
  /\ UNCHANGED <<pendingVars, queues, control, retries, confirmer, aged,
                 sent, chain, outcome>>

ConfirmFetchFails ==
  /\ confirmer = "fetch"
  /\ todo # {}
  /\ todo' = {}
  /\ UNCHANGED <<pendingVars, queues, control, retries, confirmer, workers,
                 aged, sent, chain, outcome>>

ConfirmRoundEnds ==
  /\ confirmer = "fetch"
  /\ todo = {} /\ workers = {}
  /\ confirmer' = "idle"
  /\ UNCHANGED <<pendingVars, queues, control, retries, todo, workers, aged,
                 sent, chain, outcome>>

ConfirmExit ==
  /\ confirmer = "idle"
  /\ stopped
  /\ confirmer' = "exit"
  /\ UNCHANGED <<pendingVars, queues, control, retries, todo, workers, aged,
                 sent, chain, outcome>>

\* Mutant of Expired: the start time is looked up under the wrong key.
ExpiredNever(s) == owner[s] # Nil /\ owner[s] \in finished

Expired(s) == owner[s] # Nil /\ owner[s] \in aged

\* Mutant of HighestFirst: the statuses are not sorted.
AnyOrder(res) == DOMAIN res

\* SortSignaturesAndResults: the signatures a batch goroutine may take next.
HighestFirst(res) ==
  {s \in DOMAIN res : \A t \in DOMAIN res :
     convertStatus(res[t]) <= convertStatus(res[s])}

\* The batch goroutine after it has dealt with signature s of its batch.
Advance(w, s, expired) ==
  LET left == [t \in DOMAIN w.res \ {s} |-> w.res[t]] IN
  workers' = (workers \ {w}) \cup
               (IF DOMAIN left = {} /\ expired = Nil THEN {}
                ELSE {[res |-> left, expired |-> expired]})

\* Mutant of ProcessSig: takes a processed signature for a confirmed one.
ProcessSigEager(w) ==
  /\ w.expired = Nil
  /\ \E s \in HighestFirst(w.res) :
       \/ /\ w.res[s] = "NotFound"
          /\ Advance(w, s, IF Expired(s) THEN s ELSE Nil)
          /\ UNCHANGED <<pendingVars, outcome>>
       \/ /\ w.res[s] # "NotFound"
          /\ Advance(w, s, Nil)
          /\ Resolve(s, IF w.res[s] \in {"Processed", "ConfirmedSuccess"}
                         THEN "success" ELSE "revert")
  /\ UNCHANGED <<queues, control, retries, confirmer, todo, aged, sent, chain>>

\* One iteration of processSigs, up to the call of OnError for a signature
\* that Expired has found too old.
ProcessSig(w) ==
  /\ w.expired = Nil
  /\ \E s \in HighestFirst(w.res) :
       \/ /\ w.res[s] \in {"NotFound", "Processed"}
          /\ Advance(w, s, IF Expired(s) THEN s ELSE Nil)
          /\ UNCHANGED <<pendingVars, outcome>>
       \/ /\ w.res[s] \in {"ProcessedErr", "ConfirmedRevert"}
          /\ Advance(w, s, Nil)
          /\ Resolve(s, "revert")
       \/ /\ w.res[s] = "ConfirmedSuccess"
          /\ Advance(w, s, Nil)
          /\ Resolve(s, "success")
  /\ UNCHANGED <<queues, control, retries, confirmer, todo, aged, sent, chain>>

\* The call of OnError for an expired signature.
ProcessExpired(w) ==
  /\ w.expired # Nil
  /\ Resolve(w.expired, "drop")
  /\ workers' = (workers \ {w}) \cup
                  (IF DOMAIN w.res = {} THEN {}
                   ELSE {[w EXCEPT !.expired = Nil]})
  /\ UNCHANGED <<queues, control, retries, confirmer, todo, aged, sent, chain>>

(***************************************************************************)
(* simulate: the simulation succeeds, fails, or predicts that the          *)
(* transaction will revert; only the last ends the transaction.            *)
(***************************************************************************)
Simulate ==
  /\ simulator = "loop"
  /\ chSim # <<>>
  /\ chSim' = Tail(chSim)
  /\ \/ UNCHANGED <<pendingVars, outcome>>
     \/ Resolve(buildTx(Head(chSim), 0), "simulation")
  /\ UNCHANGED <<enqueued, chSend, control, retries, confirmation, aged,
                 sent, chain>>

SimulateExit ==
  /\ simulator = "loop"
  /\ stopped
  /\ simulator' = "exit"
  /\ UNCHANGED <<pendingVars, queues, stopped, closed, runner, retries,
                 confirmation, aged, sent, chain, outcome>>

(***************************************************************************)
(* Close                                                                   *)
(***************************************************************************)
Close ==
  /\ ~stopped
  /\ stopped' = TRUE
  /\ UNCHANGED <<pendingVars, queues, closed, runner, simulator, retries,
                 confirmation, aged, sent, chain, outcome>>

CloseReturns ==
  /\ stopped /\ ~closed
  /\ runner = Exit /\ simulator = "exit" /\ confirmer = "exit"
  /\ \A j \in Job : retry[j] \in {"none", "done"}
  /\ closed' = TRUE
  /\ UNCHANGED <<pendingVars, queues, stopped, runner, simulator, retries,
                 confirmation, aged, sent, chain, outcome>>

(***************************************************************************)
(* External: the cluster may confirm a broadcast signature, as a success   *)
(* or as a failure, for good.                                              *)
(***************************************************************************)
Cluster ==
  /\ \E s \in UNION {sent[j] : j \in Job} :
       /\ chain[s] = "open"
       /\ \E st \in {"succeeded", "failed"} :
            chain' = [chain EXCEPT ![s] = st]
  /\ UNCHANGED <<pendingVars, queues, control, retries, confirmation, aged,
                 sent, outcome>>

Next ==
  \/ \E j \in Job :
       \/ Enqueue(j)
       \/ RetryTick(j) \/ RetryBump(j) \/ RetryBuildFails(j)
       \/ RetryStop(j) \/ RetryExit(j)
       \/ RetryTimeout(j) \/ ConfirmTimeout(j)
  \/ RunReceive \/ RunSendFails \/ RunSends \/ RunStores \/ RunExit
  \/ \E r \in senders :
       SenderFails(r) \/ SenderSends(r) \/ SenderAdds(r) \/ SenderWaits(r)
  \/ ConfirmTick \/ ConfirmFetch \/ ConfirmFetchFails \/ ConfirmRoundEnds
  \/ ConfirmExit
  \/ \E w \in workers : ProcessSig(w) \/ ProcessExpired(w)
  \/ Simulate \/ SimulateExit
  \/ Close \/ CloseReturns
  \/ Cluster

Spec == Init /\ [][Next]_vars

(***************************************************************************)
(* Fairness.  Every goroutine keeps running and every RPC call returns; an *)
(* RPC endpoint that is asked again and again answers in the end (strong   *)
(* fairness of ConfirmFetch), and the confirm timeout elapses.             *)
(***************************************************************************)
Fairness ==
  /\ WF_vars(RunReceive \/ RunSendFails \/ RunSends \/ RunStores)
  /\ WF_vars(RunExit)
  /\ \A j \in Job : /\ WF_vars(RetryStop(j) \/ RetryExit(j))
                    /\ WF_vars(ConfirmTimeout(j))
  /\ WF_vars(\E r \in senders : \/ SenderFails(r) \/ SenderSends(r)
                                \/ SenderAdds(r) \/ SenderWaits(r))
  /\ WF_vars(ConfirmTick \/ ConfirmRoundEnds) /\ SF_vars(ConfirmFetch)
  /\ WF_vars(ConfirmExit)
  /\ WF_vars(\E w \in workers : ProcessSig(w) \/ ProcessExpired(w))
  /\ WF_vars(SimulateExit) /\ WF_vars(CloseReturns)

FairSpec == Spec /\ Fairness

-----------------------------------------------------------------------------
(***************************************************************************)
(* OnSuccess: a transaction is reported as successful only if one of the   *)
(* copies broadcast for it is confirmed on chain, however stale the batch  *)
(* of statuses.                                                            *)
(***************************************************************************)
SuccessIsConfirmed ==
  \A j \in Job : outcome[j] = "success" =>
    \E s \in sent[j] : chain[s] = "succeeded"

(***************************************************************************)
(* processSigs: "sort signatures and results process successful first"     *)
(* (txm.go).  However many batches are dealt with at a time, none of them  *)
(* fails a transaction, for a status or for its age, while it holds a      *)
(* success of another copy of it.  Batches are not sorted against each     *)
(* other: a failure in one may win over a success in the next.             *)
(***************************************************************************)
SuccessfulFirstInBatch ==
  [][\A j \in Job :
       (outcome[j] = "none" /\ outcome'[j] \in {"revert", "drop"}) =>
         \A w \in workers : (ProcessSig(w) \/ ProcessExpired(w)) =>
           ~\E s \in DOMAIN w.res :
              owner[s] = j /\ w.res[s] = "ConfirmedSuccess"]_vars

(***************************************************************************)
(* sendWithRetry: "take currentTx and broadcast, if bumped fee -> save     *)
(* signature to list" (txm.go).  Every copy that was broadcast for an      *)
(* in-flight transaction is tracked for confirmation, or the goroutine     *)
(* that will store its signature is still at work.                         *)
(***************************************************************************)
BroadcastIsTracked ==
  \A j \in inflight : \A s \in sent[j] :
    \/ owner[s] # Nil
    \/ \E r \in senders : /\ r.job = j /\ r.bump /\ r.pc \in {"send", "add"}
                          /\ buildTx(j, r.count) = s

(***************************************************************************)
(* Every transaction in flight is resolved in the end, or the manager is   *)
(* closed.                                                                 *)
(***************************************************************************)
EventuallyResolved ==
  \A j \in Job : j \in inflight ~> (j \in finished \/ stopped)

(***************************************************************************)
(* The retry goroutine of a resolved transaction ends.                     *)
(***************************************************************************)
RetryEnds == \A j \in Job : j \in finished ~> retry[j] = "done"

(***************************************************************************)
(* Close returns: no goroutine it waits for is stuck.                      *)
(***************************************************************************)
CloseCompletes == stopped ~> closed
=============================================================================

----------------------------- MODULE TxmProofs -----------------------------
(***************************************************************************)
(* What the transaction manager reports is true and final, and it uses     *)
(* pending transactions as PendingTx says, for any number of jobs,         *)
(* signatures, bumps, rebroadcasts and batches.                            *)
(***************************************************************************)
EXTENDS Txm, FiniteSetTheorems, TLAPS

SenderType == [job : Job, bump : BOOLEAN, count : Nat,
               pc : {"send", "add", "wait"}]

WorkersTyped ==
  \A w \in workers : /\ DOMAIN w.res \subseteq Signature
                     /\ \A s \in DOMAIN w.res : w.res[s] \in Status
                     /\ w.expired \in Signature \cup {Nil}

TypeOK ==
  /\ inflight \subseteq Id /\ finished \subseteq Id
  /\ owner \in [Signature -> Id \cup {Nil}]
  /\ chSend \in Seq(Job) /\ chSim \in Seq(Job)
  /\ runner \in [pc : {"loop", "send", "store", "exit"}, job : Job \cup {Nil}]
  /\ runner.pc \in {"send", "store"} => runner.job \in Job
  /\ bumpCount \in [Job -> Nat]
  /\ senders \subseteq SenderType
  /\ sent \in [Job -> SUBSET Signature]
  /\ chain \in [Signature -> {"open", "succeeded", "failed"}]
  /\ outcome \in [Job -> {"none", "success", "revert", "drop", "simulation"}]
  /\ todo \subseteq Signature
  /\ WorkersTyped

(***************************************************************************)
(* Only transactions in flight own signatures, and the ones that have left *)
(* are exactly the ones with an outcome.                                   *)
(***************************************************************************)
OwnersInFlight ==
  /\ inflight \cap finished = {}
  /\ \A s \in Signature : owner[s] # Nil => owner[s] \in inflight
  /\ \A j \in Job : outcome[j] # "none" <=> j \in finished

(***************************************************************************)
(* A signature is tracked, or about to be, only for a job that has         *)
(* broadcast it.                                                           *)
(***************************************************************************)
OwnersHaveSent ==
  /\ \A s \in Signature : owner[s] # Nil => s \in sent[owner[s]]
  /\ runner.pc = "store" => buildTx(runner.job, 0) \in sent[runner.job]
  /\ \A r \in senders : r.pc = "add" => buildTx(r.job, r.count) \in sent[r.job]

(***************************************************************************)
(* A batch goroutine knows of no success that is not on chain; and once it *)
(* has come to a signature that expired, no success is left in its batch,  *)
(* since it takes the successful ones first.                               *)
(***************************************************************************)
BatchesTrue ==
  \A w \in workers : \A s \in DOMAIN w.res : w.res[s] = "ConfirmedSuccess" =>
    chain[s] = "succeeded" /\ w.expired = Nil

TxmInv ==
  TypeOK /\ OwnersInFlight /\ OwnersHaveSent /\ BatchesTrue /\ SuccessIsConfirmed

(***************************************************************************)
(* OnSuccess and OnError: whatever is reported of a transaction is         *)
(* reported once.                                                          *)
(***************************************************************************)
ReportedOnce ==
  [][\A j \in Job : outcome[j] # "none" => outcome'[j] = outcome[j]]_vars

-----------------------------------------------------------------------------
(* Every signature that the manager builds is one. *)
LEMMA BuildTxType ==
  ASSUME NEW j \in Job, NEW n \in Nat
  PROVE  buildTx(j, n) \in Signature
  BY TxmAssumption DEF buildTx

(* What Track and Attach do to the owners. *)
LEMMA OwnerSet ==
  ASSUME TypeOK, NEW j \in Id, NEW s \in Signature,
         owner' = [owner EXCEPT ![s] = j]
  PROVE  /\ owner' \in [Signature -> Id \cup {Nil}] /\ owner'[s] = j
         /\ \A t \in Signature : t # s => owner'[t] = owner[t]
  BY DEF TypeOK

(* The manager starts with nothing in flight. *)
LEMMA InitInv == Init => TxmInv
  <1> SUFFICES ASSUME Init PROVE TxmInv  OBVIOUS
  <1>1. chSend \in Seq(Job) /\ chSim \in Seq(Job)  BY DEF Init
  <1>2. TypeOK  BY <1>1 DEF Init, PendingInit, TypeOK, WorkersTyped, Loop
  <1>3. OwnersInFlight /\ OwnersHaveSent /\ BatchesTrue /\ SuccessIsConfirmed
    BY DEF Init, PendingInit, Loop, OwnersInFlight, OwnersHaveSent, BatchesTrue,
           SuccessIsConfirmed
  <1> QED  BY <1>2, <1>3 DEF TxmInv

(* Enqueue and the main loop of run. *)
LEMMA RunInv ==
  ASSUME TxmInv,
         \/ RunReceive \/ RunSendFails \/ RunExit
         \/ \E j \in Job : Enqueue(j)
  PROVE  TxmInv'
  <1>1. UNCHANGED <<inflight, owner, finished, chSim, bumpCount, senders, sent,
                    chain, outcome, todo, workers>>
    BY DEF RunReceive, RunSendFails, RunExit, Enqueue, pendingVars, queues,
           retries, confirmation
  <1>2. OwnersInFlight' /\ BatchesTrue' /\ SuccessIsConfirmed'
    BY <1>1 DEF TxmInv, OwnersInFlight, BatchesTrue, SuccessIsConfirmed
  <1>3. chSend' \in Seq(Job)
    <2>1. chSend \in Seq(Job)  BY DEF TxmInv, TypeOK
    <2>2. CASE RunReceive  BY <2>1, <2>2 DEF RunReceive
    <2>3. CASE RunSendFails \/ RunExit
      BY <2>1, <2>3 DEF RunSendFails, RunExit, queues
    <2>4. ASSUME NEW j \in Job, Enqueue(j) PROVE chSend' \in Seq(Job)
      BY <2>1, <2>4 DEF Enqueue
    <2> QED  BY <2>2, <2>3, <2>4
  <1>4. /\ runner' \in [pc : {"loop", "send", "store", "exit"}, job : Job \cup {Nil}]
        /\ runner'.pc \in {"send", "store"} => runner'.job \in Job
        /\ runner'.pc = "store" => UNCHANGED runner
    <2>1. CASE RunReceive
      <3>1. Head(chSend) \in Job
        BY <2>1 DEF RunReceive, TxmInv, TypeOK
      <3> QED  BY <2>1, <3>1 DEF RunReceive
    <2>2. CASE RunSendFails \/ RunExit
      BY <2>2 DEF RunSendFails, RunExit, Loop, Exit
    <2>3. ASSUME NEW j \in Job, Enqueue(j)
          PROVE  UNCHANGED runner
      BY <2>3 DEF Enqueue, control
    <2> QED  BY <2>1, <2>2, <2>3 DEF TxmInv, TypeOK
  <1>5. TypeOK'  BY <1>1, <1>3, <1>4 DEF TxmInv, TypeOK, WorkersTyped
  <1>6. OwnersHaveSent'  BY <1>1, <1>4 DEF TxmInv, OwnersHaveSent
  <1> QED  BY <1>2, <1>5, <1>6 DEF TxmInv

(***************************************************************************)
(* A broadcast: the job's set of sent signatures grows, and the goroutine  *)
(* that sent it may store it next.                                         *)
(***************************************************************************)
LEMMA BroadcastInv ==
  ASSUME TxmInv, RunSends \/ \E r \in senders : SenderSends(r)
  PROVE  TxmInv'
  <1>1. UNCHANGED <<inflight, owner, finished, chSend, chSim, bumpCount, chain,
                    outcome, todo, workers>>
    BY DEF RunSends, SenderSends, pendingVars, queues, retries, confirmation
  <1>2. PICK j \in Job, n \in Nat :
          /\ sent' = [sent EXCEPT ![j] = @ \cup {buildTx(j, n)}]
          /\ \/ /\ runner.pc = "send" /\ runner.job = j /\ n = 0
                /\ runner' = [runner EXCEPT !.pc = "store"] /\ UNCHANGED senders
             \/ \E r \in senders :
                  /\ r.job = j /\ r.count = n /\ UNCHANGED runner
                  /\ senders' = (senders \ {r})
                       \cup {[r EXCEPT !.pc = IF r.bump THEN "add" ELSE "wait"]}
    <2>1. CASE RunSends
      BY <2>1 DEF RunSends, retries, TxmInv, TypeOK
    <2>2. ASSUME NEW r \in senders, SenderSends(r)
          PROVE  /\ r.job \in Job /\ r.count \in Nat /\ UNCHANGED runner
                 /\ sent' = [sent EXCEPT ![r.job] = @ \cup {buildTx(r.job, r.count)}]
                 /\ senders' = (senders \ {r})
                      \cup {[r EXCEPT !.pc = IF r.bump THEN "add" ELSE "wait"]}
      BY <2>2 DEF SenderSends, control, TxmInv, TypeOK, SenderType
    <2> QED  BY <2>1, <2>2
  <1>3. /\ sent' \in [Job -> SUBSET Signature] /\ buildTx(j, n) \in sent'[j]
        /\ \A i \in Job : sent[i] \subseteq sent'[i]
    BY <1>2, BuildTxType DEF TxmInv, TypeOK
  <1>4. /\ senders' \subseteq SenderType
        /\ \A q \in senders' : q.pc = "add" =>
             q \in senders \/ (q.job = j /\ q.count = n)
    BY <1>2 DEF TxmInv, TypeOK, SenderType
  <1>5. /\ runner' \in [pc : {"loop", "send", "store", "exit"}, job : Job \cup {Nil}]
        /\ runner'.pc \in {"send", "store"} => runner'.job \in Job
        /\ UNCHANGED runner \/ (runner'.job = j /\ n = 0)
    BY <1>2 DEF TxmInv, TypeOK
  <1>6. TypeOK'  BY <1>1, <1>3, <1>4, <1>5 DEF TxmInv, TypeOK, WorkersTyped
  <1>7. OwnersInFlight' /\ BatchesTrue'
    BY <1>1 DEF TxmInv, OwnersInFlight, BatchesTrue
  <1>8. OwnersHaveSent'
    <2>1. \A s \in Signature : owner'[s] # Nil => s \in sent'[owner'[s]]
      BY <1>1, <1>3 DEF TxmInv, TypeOK, OwnersHaveSent, Job
    <2>2. runner'.pc = "store" => buildTx(runner'.job, 0) \in sent'[runner'.job]
      BY <1>3, <1>5 DEF TxmInv, TypeOK, OwnersHaveSent
    <2>3. \A q \in senders' : q.pc = "add" => buildTx(q.job, q.count) \in sent'[q.job]
      BY <1>3, <1>4 DEF TxmInv, TypeOK, SenderType, OwnersHaveSent
    <2> QED  BY <2>1, <2>2, <2>3 DEF OwnersHaveSent
  <1>9. SuccessIsConfirmed'
    BY <1>1, <1>3 DEF TxmInv, SuccessIsConfirmed
  <1> QED  BY <1>6, <1>7, <1>8, <1>9 DEF TxmInv

(***************************************************************************)
(* New and Add: a job becomes the owner of a signature that it has sent.   *)
(***************************************************************************)
LEMMA OwnerInv ==
  ASSUME TxmInv, NEW j \in Job, NEW s \in Signature, s \in sent[j],
         Track(j, s) \/ Attach(j, s),
         chSim' \in Seq(Job), UNCHANGED chSend,
         runner' \in {runner, Loop}, senders' \subseteq SenderType,
         \A r \in senders' : r.pc = "add" => r \in senders,
         UNCHANGED <<bumpCount, sent, chain, outcome, todo, workers>>
  PROVE  TxmInv'
  <1>1. /\ inflight' \subseteq Id /\ finished' = finished
        /\ inflight \subseteq inflight' /\ j \in inflight'
        /\ inflight' \cap finished = {}
        /\ owner' = [owner EXCEPT ![s] = j]
    BY DEF Track, Attach, TxmInv, TypeOK, OwnersInFlight, Job
  <1>2. /\ owner' \in [Signature -> Id \cup {Nil}] /\ owner'[s] = j
        /\ \A t \in Signature : t # s => owner'[t] = owner[t]
    BY <1>1, OwnerSet DEF TxmInv, Job
  <1>3. /\ runner' \in [pc : {"loop", "send", "store", "exit"}, job : Job \cup {Nil}]
        /\ runner'.pc \in {"send", "store"} => runner' = runner
    BY DEF Loop, TxmInv, TypeOK
  <1>4. TypeOK'  BY <1>1, <1>2, <1>3 DEF TxmInv, TypeOK, WorkersTyped
  <1>5. OwnersInFlight'  BY <1>1, <1>2 DEF TxmInv, OwnersInFlight
  <1>6. OwnersHaveSent'
    <2>1. \A t \in Signature : owner'[t] # Nil => t \in sent'[owner'[t]]
      BY <1>2 DEF TxmInv, OwnersHaveSent
    <2>2. runner'.pc = "store" => buildTx(runner'.job, 0) \in sent'[runner'.job]
      BY <1>3 DEF TxmInv, OwnersHaveSent
    <2> QED  BY <2>1, <2>2 DEF TxmInv, OwnersHaveSent
  <1>7. BatchesTrue' /\ SuccessIsConfirmed'
    BY DEF TxmInv, BatchesTrue, SuccessIsConfirmed
  <1> QED  BY <1>4, <1>5, <1>6, <1>7 DEF TxmInv

(***************************************************************************)
(* Steps that only move goroutines: what they leave of the runner and of   *)
(* the senders was there before, or is about to send.                      *)
(***************************************************************************)
LEMMA MovesInv ==
  ASSUME TxmInv, runner' \in {runner, Loop, Exit}, senders' \subseteq SenderType,
         \A r \in senders' : r.pc = "add" => r \in senders,
         bumpCount' \in [Job -> Nat],
         UNCHANGED <<inflight, owner, finished, chSend, chSim, sent, chain,
                     outcome, todo, workers>>
  PROVE  TxmInv'
  <1>1. /\ runner' \in [pc : {"loop", "send", "store", "exit"}, job : Job \cup {Nil}]
        /\ runner'.pc \in {"send", "store"} => runner' = runner
    BY DEF Loop, Exit, TxmInv, TypeOK
  <1>2. TypeOK'  BY <1>1 DEF TxmInv, TypeOK, WorkersTyped
  <1>3. OwnersHaveSent'  BY <1>1 DEF TxmInv, OwnersHaveSent
  <1>4. OwnersInFlight' /\ BatchesTrue' /\ SuccessIsConfirmed'
    BY DEF TxmInv, OwnersInFlight, BatchesTrue, SuccessIsConfirmed
  <1> QED  BY <1>2, <1>3, <1>4 DEF TxmInv

(* run stores the transaction it has sent, or drops it. *)
LEMMA RunStoresInv ==
  ASSUME TxmInv, RunStores
  PROVE  TxmInv'
  <1> DEFINE j == runner.job
             sig == buildTx(j, 0)
  <1>1. /\ j \in Job /\ sig \in Signature /\ sig \in sent[j] /\ runner' = Loop
        /\ UNCHANGED <<chSend, bumpCount, senders, sent, chain, outcome, todo,
                       workers>>
    <2>1. runner.pc = "store" /\ j \in Job
      BY DEF RunStores, TxmInv, TypeOK
    <2>2. sig \in Signature  BY <2>1, BuildTxType
    <2> QED
      BY <2>1, <2>2 DEF RunStores, TxmInv, OwnersHaveSent, confirmation
  <1>2. CASE Track(j, sig) /\ chSim' = IF Len(chSim) < MaxQueueLen
                                       THEN Append(chSim, j) ELSE chSim
    <2>1. chSim' \in Seq(Job)  BY <1>1, <1>2 DEF TxmInv, TypeOK
    <2> HIDE DEF j, sig
    <2> QED  BY <1>1, <1>2, <2>1, OwnerInv DEF TxmInv, TypeOK
  <1>3. CASE UNCHANGED <<pendingVars, chSim>>
    BY <1>1, <1>3, MovesInv DEF pendingVars, TxmInv, TypeOK
  <1> QED  BY <1>2, <1>3 DEF RunStores

(* The retry goroutines and the rebroadcasts that they start. *)
LEMMA RetryInv ==
  ASSUME TxmInv, NEW j \in Job,
         \/ RetryTick(j) \/ RetryBump(j) \/ RetryBuildFails(j) \/ RetryStop(j)
         \/ RetryExit(j) \/ RetryTimeout(j) \/ ConfirmTimeout(j)
  PROVE  TxmInv'
  <1>1. UNCHANGED <<inflight, owner, finished, chSend, chSim, sent, chain,
                    outcome, todo, workers, runner>>
    BY DEF RetryTick, RetryBump, RetryBuildFails, RetryStop, RetryExit,
           RetryTimeout, ConfirmTimeout, pendingVars, queues, control,
           confirmation
  <1>2. bumpCount \in [Job -> Nat] /\ senders \subseteq SenderType
    BY DEF TxmInv, TypeOK
  <1>3. /\ bumpCount' \in [Job -> Nat]
        /\ \/ UNCHANGED senders
           \/ \E b \in BOOLEAN, n \in Nat : senders' = senders \cup {Sender(j, b, n)}
    <2>1. bumpCount[j] \in Nat /\ bumpCount[j] + 1 \in Nat  BY <1>2
    <2>2. CASE RetryTick(j)  BY <1>2, <2>1, <2>2 DEF RetryTick
    <2>3. CASE RetryBump(j)  BY <1>2, <2>1, <2>3 DEF RetryBump
    <2>4. CASE RetryBuildFails(j)  BY <1>2, <2>1, <2>4 DEF RetryBuildFails
    <2>5. CASE UNCHANGED <<bumpCount, senders>>  BY <1>2, <2>5
    <2> QED
      BY <2>2, <2>3, <2>4, <2>5
      DEF RetryStop, RetryExit, RetryTimeout, ConfirmTimeout, retries
  <1>4. \A b \in BOOLEAN, n \in Nat :
          Sender(j, b, n) \in SenderType /\ Sender(j, b, n).pc = "send"
    BY DEF Sender, SenderType
  <1>5. /\ senders' \subseteq SenderType
        /\ \A r \in senders' : r.pc = "add" => r \in senders
    BY <1>2, <1>3, <1>4
  <1> QED  BY <1>1, <1>3, <1>5, MovesInv

(* The rebroadcast goroutines. *)
LEMMA SenderInv ==
  ASSUME TxmInv, NEW r \in senders,
         SenderFails(r) \/ SenderAdds(r) \/ SenderWaits(r)
  PROVE  TxmInv'
  <1>1. r \in SenderType /\ senders \subseteq SenderType /\ runner' = runner
        /\ UNCHANGED <<chSend, chSim, bumpCount, sent, chain, outcome, todo,
                       workers>>
    BY DEF SenderFails, SenderAdds, SenderWaits, queues, control, confirmation,
           TxmInv, TypeOK
  <1>2. /\ senders' \subseteq SenderType
        /\ \A q \in senders' : q.pc = "add" => q \in senders
    <2>1. [r EXCEPT !.pc = "wait"] \in SenderType /\ [r EXCEPT !.pc = "wait"].pc = "wait"
      BY <1>1 DEF SenderType
    <2> QED  BY <1>1, <2>1 DEF SenderFails, SenderAdds, SenderWaits
  <1>3. CASE UNCHANGED pendingVars
    BY <1>1, <1>2, <1>3, MovesInv DEF pendingVars, TxmInv, TypeOK
  <1>4. CASE /\ r.pc = "add" /\ Attach(r.job, buildTx(r.job, r.count))
    <2>1. /\ r.job \in Job /\ r.count \in Nat
          /\ buildTx(r.job, r.count) \in sent[r.job]
      BY <1>1, <1>4 DEF SenderType, TxmInv, OwnersHaveSent
    <2>2. buildTx(r.job, r.count) \in Signature  BY <2>1, BuildTxType
    <2> QED
      BY <1>1, <1>2, <1>4, <2>1, <2>2, OwnerInv DEF TxmInv, TypeOK
  <1> QED  BY <1>3, <1>4 DEF SenderFails, SenderAdds, SenderWaits

-----------------------------------------------------------------------------
(* A step of the confirmer or of the simulator that resolves nothing. *)
LEMMA UnresolvedInv ==
  ASSUME TxmInv, UNCHANGED <<pendingVars, outcome>>,
         UNCHANGED <<chSend, runner, bumpCount, senders, sent, chain>>,
         chSim' \in Seq(Job), todo' \subseteq Signature, WorkersTyped',
         BatchesTrue'
  PROVE  TxmInv'
  <1>1. TypeOK'  BY DEF TxmInv, TypeOK, WorkersTyped, pendingVars
  <1>2. OwnersInFlight' /\ OwnersHaveSent' /\ SuccessIsConfirmed'
    BY DEF TxmInv, OwnersInFlight, OwnersHaveSent, SuccessIsConfirmed,
           pendingVars
  <1> QED  BY <1>1, <1>2 DEF TxmInv

(***************************************************************************)
(* OnSuccess and OnError: the owner of the signature was in flight and had *)
(* no outcome; a success is on chain, and the owner has sent it.           *)
(***************************************************************************)
LEMMA ResolveInv ==
  ASSUME TxmInv, NEW s \in Signature,
         NEW how \in {"success", "revert", "drop", "simulation"},
         Resolve(s, how), how = "success" => chain[s] = "succeeded",
         UNCHANGED <<chSend, runner, bumpCount, senders, sent, chain>>,
         chSim' \in Seq(Job), todo' \subseteq Signature, WorkersTyped',
         BatchesTrue'
  PROVE  /\ TxmInv'
         /\ \A j \in Job : outcome[j] # "none" => outcome'[j] = outcome[j]
         /\ \A j \in Job : outcome'[j] # outcome[j] => owner[s] = j
  <1>1. CASE owner[s] = Nil
    <2>1. UNCHANGED <<pendingVars, outcome>>
      BY <1>1, NilAssumption DEF Resolve
    <2> QED  BY <2>1, UnresolvedInv
  <1>2. CASE owner[s] # Nil
    <2> DEFINE o == owner[s]
    <2>1. /\ o \in Job /\ o \in inflight /\ o \notin finished
          /\ outcome[o] = "none" /\ s \in sent[o]
      BY <1>2 DEF TxmInv, TypeOK, OwnersInFlight, OwnersHaveSent, Job
    <2>2. Finish(o) /\ outcome' = [outcome EXCEPT ![o] = how]
      BY <1>2 DEF Resolve
    <2> HIDE DEF o
    <2>3. /\ outcome' \in [Job -> {"none", "success", "revert", "drop", "simulation"}]
          /\ outcome'[o] = how
          /\ \A j \in Job : j # o => outcome'[j] = outcome[j]
      BY <2>1, <2>2 DEF TxmInv, TypeOK
    <2>4. /\ inflight' = inflight \ {o} /\ finished' = finished \cup {o}
          /\ owner' \in [Signature -> Id \cup {Nil}]
          /\ \A t \in Signature : owner'[t] # Nil =>
               owner'[t] = owner[t] /\ owner[t] # o
      <3>1. owner' = [t \in Signature |-> IF owner[t] = o THEN Nil ELSE owner[t]]
        BY <2>2 DEF Finish
      <3> QED  BY <2>2, <3>1 DEF Finish, TxmInv, TypeOK
    <2>5. TypeOK'
      BY <2>1, <2>3, <2>4 DEF TxmInv, TypeOK, WorkersTyped, Job
    <2>6. OwnersInFlight'
      BY <2>1, <2>3, <2>4 DEF TxmInv, OwnersInFlight
    <2>7. OwnersHaveSent'
      BY <2>4 DEF TxmInv, OwnersHaveSent
    <2>8. SuccessIsConfirmed'
      BY <2>1, <2>3 DEF TxmInv, SuccessIsConfirmed
    <2>9. TxmInv'  BY <2>5, <2>6, <2>7, <2>8 DEF TxmInv
    <2> QED  BY <2>1, <2>3, <2>9 DEF o
  <1> QED  BY <1>1, <1>2

(* The batch that Advance leaves is a part of the one it was given. *)
LEMMA AdvanceInv ==
  ASSUME TxmInv, NEW w \in workers, NEW s \in DOMAIN w.res,
         NEW e \in Signature \cup {Nil}, Advance(w, s, e), UNCHANGED chain,
         e # Nil => \A t \in DOMAIN w.res : w.res[t] # "ConfirmedSuccess",
         w.expired = Nil
  PROVE  WorkersTyped' /\ BatchesTrue'
  <1> DEFINE left == [t \in DOMAIN w.res \ {s} |-> w.res[t]]
             v == [res |-> left, expired |-> e]
  <1>1. workers' \subseteq workers \cup {v}
    BY DEF Advance
  <1>2. /\ v.res = left /\ v.expired = e /\ DOMAIN left = DOMAIN w.res \ {s}
        /\ \A t \in DOMAIN left : left[t] = w.res[t]
    OBVIOUS
  <1> HIDE DEF left, v
  <1>3. WorkersTyped'
    BY <1>1, <1>2 DEF WorkersTyped, TxmInv, TypeOK
  <1>4. BatchesTrue'
    BY <1>1, <1>2 DEF BatchesTrue, TxmInv
  <1> QED  BY <1>3, <1>4

(***************************************************************************)
(* One iteration of processSigs.  What it takes is the highest status of   *)
(* its batch, so a failure is taken only when no success is left.          *)
(***************************************************************************)
LEMMA ProcessSigInv ==
  ASSUME TxmInv, NEW w \in workers, ProcessSig(w)
  PROVE  /\ TxmInv'
         /\ \A j \in Job : outcome[j] # "none" => outcome'[j] = outcome[j]
         /\ \A j \in Job :
              (outcome[j] = "none" /\ outcome'[j] \in {"revert", "drop"}) =>
                \A t \in DOMAIN w.res : w.res[t] # "ConfirmedSuccess"
  <1>1. /\ w.expired = Nil
        /\ UNCHANGED <<chSend, chSim, runner, bumpCount, senders, sent, chain, todo>>
    BY DEF ProcessSig, queues, control, retries
  <1>2. PICK s \in HighestFirst(w.res) :
          \/ /\ w.res[s] \in {"NotFound", "Processed"}
             /\ Advance(w, s, IF Expired(s) THEN s ELSE Nil)
             /\ UNCHANGED <<pendingVars, outcome>>
          \/ /\ w.res[s] \in {"ProcessedErr", "ConfirmedRevert"}
             /\ Advance(w, s, Nil)
             /\ Resolve(s, "revert")
          \/ /\ w.res[s] = "ConfirmedSuccess"
             /\ Advance(w, s, Nil)
             /\ Resolve(s, "success")
    BY DEF ProcessSig
  <1>3. /\ s \in DOMAIN w.res /\ s \in Signature
        /\ \A t \in DOMAIN w.res : w.res[t] \in Status
        /\ \A t \in DOMAIN w.res :
             convertStatus(w.res[t]) <= convertStatus(w.res[s])
        /\ chSim \in Seq(Job) /\ todo \subseteq Signature
    BY <1>2 DEF HighestFirst, TxmInv, TypeOK, WorkersTyped
  <1>4. w.res[s] # "ConfirmedSuccess" =>
          \A t \in DOMAIN w.res : w.res[t] # "ConfirmedSuccess"
    BY <1>3 DEF convertStatus, Status
  <1>5. CASE /\ w.res[s] \in {"NotFound", "Processed"}
             /\ Advance(w, s, IF Expired(s) THEN s ELSE Nil)
             /\ UNCHANGED <<pendingVars, outcome>>
    <2>1. WorkersTyped' /\ BatchesTrue'
      BY <1>1, <1>3, <1>4, <1>5, AdvanceInv
    <2>2. TxmInv'  BY <1>1, <1>3, <1>5, <2>1, UnresolvedInv
    <2> QED  BY <1>5, <2>2
  <1>6. CASE /\ w.res[s] \in {"ProcessedErr", "ConfirmedRevert"}
             /\ Advance(w, s, Nil)
             /\ Resolve(s, "revert")
    <2>1. WorkersTyped' /\ BatchesTrue'  BY <1>1, <1>3, <1>6, AdvanceInv
    <2> QED  BY <1>1, <1>3, <1>4, <1>6, <2>1, ResolveInv
  <1>7. CASE /\ w.res[s] = "ConfirmedSuccess"
             /\ Advance(w, s, Nil)
             /\ Resolve(s, "success")
    <2>1. WorkersTyped' /\ BatchesTrue'  BY <1>1, <1>3, <1>7, AdvanceInv
    <2>2. chain[s] = "succeeded"  BY <1>3, <1>7 DEF TxmInv, BatchesTrue
    <2>3. /\ TxmInv'
          /\ \A j \in Job : outcome[j] # "none" => outcome'[j] = outcome[j]
      BY <1>1, <1>3, <1>7, <2>1, <2>2, ResolveInv
    <2>4. \A j \in Job : outcome'[j] \in {outcome[j], "success"}
      BY <1>7 DEF Resolve, TxmInv, TypeOK
    <2> QED  BY <2>3, <2>4
  <1> QED  BY <1>2, <1>5, <1>6, <1>7

(* OnError for an expired signature: its batch holds no success. *)
LEMMA ProcessExpiredInv ==
  ASSUME TxmInv, NEW w \in workers, ProcessExpired(w)
  PROVE  /\ TxmInv'
         /\ \A j \in Job : outcome[j] # "none" => outcome'[j] = outcome[j]
         /\ \A t \in DOMAIN w.res : w.res[t] # "ConfirmedSuccess"
  <1> DEFINE v == [w EXCEPT !.expired = Nil]
  <1>1. /\ w.expired # Nil /\ Resolve(w.expired, "drop")
        /\ workers' \subseteq workers \cup {v}
        /\ UNCHANGED <<chSend, chSim, runner, bumpCount, senders, sent, chain, todo>>
    BY DEF ProcessExpired, queues, control, retries
  <1>2. w.expired \in Signature /\ chSim \in Seq(Job) /\ todo \subseteq Signature
    BY <1>1 DEF TxmInv, TypeOK, WorkersTyped
  <1>3. \A t \in DOMAIN w.res : w.res[t] # "ConfirmedSuccess"
    BY <1>1 DEF TxmInv, BatchesTrue
  <1>4. v.res = w.res /\ v.expired = Nil
    OBVIOUS
  <1> HIDE DEF v
  <1>5. WorkersTyped'  BY <1>1, <1>4 DEF WorkersTyped, TxmInv, TypeOK
  <1>6. BatchesTrue'  BY <1>1, <1>3, <1>4 DEF BatchesTrue, TxmInv
  <1> QED  BY <1>1, <1>2, <1>3, <1>5, <1>6, ResolveInv

(* The rounds of confirm, and the simulation. *)
LEMMA ConfirmInv ==
  ASSUME TxmInv,
         \/ ConfirmTick \/ ConfirmFetch \/ ConfirmFetchFails
         \/ ConfirmRoundEnds \/ ConfirmExit \/ Simulate
  PROVE  /\ TxmInv'
         /\ \A j \in Job : outcome[j] # "none" => outcome'[j] = outcome[j]
         /\ \A j \in Job : outcome'[j] \in {outcome[j], "simulation"}
  <1>0. /\ UNCHANGED <<chSend, runner, bumpCount, senders, sent, chain>>
        /\ chSim \in Seq(Job) /\ WorkersTyped /\ BatchesTrue
        /\ todo \subseteq Signature
    BY DEF ConfirmTick, ConfirmFetch, ConfirmFetchFails, ConfirmRoundEnds,
           ConfirmExit, Simulate, queues, control, retries, TxmInv, TypeOK
  <1>1. CASE ConfirmTick \/ ConfirmFetchFails \/ ConfirmRoundEnds \/ ConfirmExit
    <2>1. /\ UNCHANGED <<pendingVars, outcome, chSim, workers>>
          /\ todo' \subseteq Signature
      BY <1>0, <1>1 DEF ConfirmTick, ConfirmFetchFails, ConfirmRoundEnds,
                        ConfirmExit, queues
    <2>2. WorkersTyped' /\ BatchesTrue'
      BY <1>0, <2>1 DEF WorkersTyped, BatchesTrue
    <2> QED  BY <1>0, <2>1, <2>2, UnresolvedInv
  <1>2. CASE ConfirmFetch
    <2>0. PICK B \in Batch(todo) :
            /\ \E res \in [B -> Status] :
                 /\ \A s \in B : res[s] \in Answer(s)
                 /\ workers' = workers \cup {[res |-> res, expired |-> Nil]}
            /\ todo' = todo \ B
      BY <1>2 DEF ConfirmFetch
    <2>1. PICK res \in [B -> Status] :
            /\ \A s \in B : res[s] \in Answer(s)
            /\ workers' = workers \cup {[res |-> res, expired |-> Nil]}
      BY <2>0
    <2>2. B \subseteq Signature  BY <1>0, <2>0 DEF Batch
    <2>3. ASSUME NEW s \in B, res[s] = "ConfirmedSuccess"
          PROVE  chain[s] = "succeeded"
      BY <2>1, <2>2, <2>3 DEF Answer, TxmInv, TypeOK
    <2>4. /\ UNCHANGED <<pendingVars, outcome, chSim>> /\ todo' \subseteq Signature
      BY <1>0, <1>2, <2>0 DEF ConfirmFetch, queues
    <2> DEFINE v == [res |-> res, expired |-> Nil]
    <2>5. v.res = res /\ v.expired = Nil /\ DOMAIN res = B  OBVIOUS
    <2>6. workers' = workers \cup {v}  BY <2>1
    <2> HIDE DEF v
    <2>7. WorkersTyped'
      BY <1>0, <2>1, <2>2, <2>5, <2>6 DEF WorkersTyped
    <2>8. BatchesTrue'
      BY <1>0, <2>3, <2>5, <2>6 DEF BatchesTrue
    <2> QED  BY <1>0, <2>4, <2>7, <2>8, UnresolvedInv
  <1>3. CASE Simulate
    <2>1. /\ chSim # <<>> /\ chSim' = Tail(chSim) /\ UNCHANGED <<todo, workers>>
      BY <1>3 DEF Simulate, confirmation
    <2>2. chSim' \in Seq(Job) /\ Head(chSim) \in Job  BY <1>0, <2>1
    <2>3. WorkersTyped' /\ BatchesTrue'
      BY <1>0, <2>1 DEF WorkersTyped, BatchesTrue
    <2>4. CASE UNCHANGED <<pendingVars, outcome>>
      BY <1>0, <2>1, <2>2, <2>3, <2>4, UnresolvedInv
    <2>5. CASE Resolve(buildTx(Head(chSim), 0), "simulation")
      <3>1. buildTx(Head(chSim), 0) \in Signature  BY <2>2, BuildTxType
      <3>2. \A j \in Job : outcome'[j] \in {outcome[j], "simulation"}
        BY <2>5 DEF Resolve, TxmInv, TypeOK
      <3> QED
        BY <1>0, <2>1, <2>2, <2>3, <2>5, <3>1, <3>2, ResolveInv
    <2> QED  BY <1>3, <2>4, <2>5 DEF Simulate
  <1> QED  BY <1>1, <1>2, <1>3

(* The cluster confirms: what has succeeded stays so. *)
LEMMA ClusterInv ==
  ASSUME TxmInv, Cluster
  PROVE  TxmInv'
  <1>1. /\ UNCHANGED <<inflight, owner, finished, chSend, chSim, runner,
                       bumpCount, senders, sent, outcome, todo, workers>>
        /\ chain' \in [Signature -> {"open", "succeeded", "failed"}]
        /\ \A s \in Signature : chain[s] = "succeeded" => chain'[s] = "succeeded"
    <2>1. PICK s \in UNION {sent[j] : j \in Job} :
            /\ chain[s] = "open"
            /\ \E st \in {"succeeded", "failed"} : chain' = [chain EXCEPT ![s] = st]
      BY DEF Cluster
    <2> QED
      BY <2>1 DEF Cluster, pendingVars, queues, control, retries, confirmation,
                  TxmInv, TypeOK
  <1>2. TypeOK'  BY <1>1 DEF TxmInv, TypeOK, WorkersTyped
  <1>3. OwnersInFlight' /\ OwnersHaveSent'
    BY <1>1 DEF TxmInv, OwnersInFlight, OwnersHaveSent
  <1>4. BatchesTrue'
    BY <1>1 DEF TxmInv, TypeOK, WorkersTyped, BatchesTrue
  <1>5. SuccessIsConfirmed'
    <2> SUFFICES ASSUME NEW j \in Job, outcome'[j] = "success"
                 PROVE  \E s \in sent'[j] : chain'[s] = "succeeded"
      BY DEF SuccessIsConfirmed
    <2>1. PICK s \in sent[j] : chain[s] = "succeeded"
      BY <1>1 DEF TxmInv, SuccessIsConfirmed
    <2>2. s \in Signature  BY <2>1 DEF TxmInv, TypeOK
    <2> QED  BY <1>1, <2>1, <2>2
  <1> QED  BY <1>2, <1>3, <1>4, <1>5 DEF TxmInv

(***************************************************************************)
(* Every step of the manager preserves the invariant; only processSigs     *)
(* and the simulation change an outcome, and never one that is set.        *)
(***************************************************************************)
LEMMA NextInv ==
  ASSUME TxmInv, [Next]_vars
  PROVE  /\ TxmInv'
         /\ \A j \in Job : outcome[j] # "none" => outcome'[j] = outcome[j]
         /\ \/ \E w \in workers : ProcessSig(w) \/ ProcessExpired(w)
            \/ \A j \in Job : outcome'[j] \in {outcome[j], "simulation"}
  <1>1. CASE \/ RunReceive \/ RunSendFails \/ RunExit
             \/ \E j \in Job : Enqueue(j)
    BY <1>1, RunInv DEF RunReceive, RunSendFails, RunExit, Enqueue
  <1>2. CASE RunSends \/ \E r \in senders : SenderSends(r)
    BY <1>2, BroadcastInv DEF RunSends, SenderSends
  <1>3. CASE RunStores  BY <1>3, RunStoresInv DEF RunStores
  <1>4. ASSUME NEW j \in Job,
               \/ RetryTick(j) \/ RetryBump(j) \/ RetryBuildFails(j)
               \/ RetryStop(j) \/ RetryExit(j) \/ RetryTimeout(j)
               \/ ConfirmTimeout(j)
        PROVE  TxmInv' /\ UNCHANGED outcome
    BY <1>4, RetryInv DEF RetryTick, RetryBump, RetryBuildFails, RetryStop,
                          RetryExit, RetryTimeout, ConfirmTimeout
  <1>5. ASSUME NEW r \in senders,
               SenderFails(r) \/ SenderAdds(r) \/ SenderWaits(r)
        PROVE  TxmInv' /\ UNCHANGED outcome
    BY <1>5, SenderInv DEF SenderFails, SenderAdds, SenderWaits
  <1>6. CASE \/ ConfirmTick \/ ConfirmFetch \/ ConfirmFetchFails
             \/ ConfirmRoundEnds \/ ConfirmExit \/ Simulate
    BY <1>6, ConfirmInv
  <1>7. ASSUME NEW w \in workers, ProcessSig(w) \/ ProcessExpired(w)
        PROVE  /\ TxmInv'
               /\ \A j \in Job : outcome[j] # "none" => outcome'[j] = outcome[j]
    BY <1>7, ProcessSigInv, ProcessExpiredInv
  <1>8. CASE SimulateExit \/ Close \/ CloseReturns \/ UNCHANGED vars
    <2>1. UNCHANGED <<inflight, owner, finished, chSend, chSim, runner,
                      bumpCount, senders, sent, chain, outcome, todo, workers>>
      BY <1>8 DEF SimulateExit, Close, CloseReturns, vars, pendingVars, queues,
                  control, retries, confirmation
    <2> QED  BY <2>1, MovesInv DEF TxmInv, TypeOK
  <1>9. CASE Cluster  BY <1>9, ClusterInv DEF Cluster
  <1> QED
    BY <1>1, <1>2, <1>3, <1>4, <1>5, <1>6, <1>7, <1>8, <1>9 DEF Next

(* The invariant that the theorems rest on. *)
LEMMA TxmInvariant == Spec => []TxmInv
  BY InitInv, NextInv, PTL DEF Spec

(***************************************************************************)
(* OnSuccess is called only for a transaction with a copy that is          *)
(* confirmed on chain, whatever the batches, bumps and late goroutines.    *)
(***************************************************************************)
THEOREM SuccessConfirmed == Spec => []SuccessIsConfirmed
  <1>1. TxmInv => SuccessIsConfirmed  BY DEF TxmInv
  <1> QED  BY <1>1, TxmInvariant, PTL

(***************************************************************************)
(* Of the confirmer's batches, the expiry and the simulation, which all    *)
(* race for a transaction, exactly one reports its outcome.                *)
(***************************************************************************)
THEOREM OneReport == Spec => ReportedOnce
  <1>1. TxmInv /\ [Next]_vars =>
          [\A j \in Job : outcome[j] # "none" => outcome'[j] = outcome[j]]_vars
    BY NextInv
  <1> QED  BY <1>1, TxmInvariant, PTL DEF Spec, ReportedOnce

(***************************************************************************)
(* "sort signatures and results process successful first": a batch never   *)
(* fails a transaction while it holds a success of the same transaction.   *)
(***************************************************************************)
THEOREM SuccessfulFirstWithinBatch == Spec => SuccessfulFirstInBatch
  <1> DEFINE A == \A j \in Job :
                    (outcome[j] = "none" /\ outcome'[j] \in {"revert", "drop"}) =>
                      \A w \in workers : (ProcessSig(w) \/ ProcessExpired(w)) =>
                        ~\E s \in DOMAIN w.res :
                           owner[s] = j /\ w.res[s] = "ConfirmedSuccess"
  <1>1. TxmInv => A
    BY ProcessSigInv, ProcessExpiredInv
  <1>2. TxmInv /\ [Next]_vars => [A]_vars  BY <1>1
  <1> QED  BY <1>2, TxmInvariant, PTL DEF Spec, SuccessfulFirstInBatch

-----------------------------------------------------------------------------
(* Resolving a signature is a Remove of PendingTx, or nothing. *)
LEMMA ResolveFinishes ==
  ASSUME TxmInv, NEW s \in Signature, NEW how, Resolve(s, how)
  PROVE  [PendingNext]_pendingVars
  BY DEF Resolve, PendingNext, TxmInv, TypeOK

(***************************************************************************)
(* The manager treats pending transactions as PendingTx specifies: every   *)
(* step is one New, Add or Remove of it, or leaves them alone.             *)
(***************************************************************************)
THEOREM UsesPendingTx == Spec => PendingSpec
  <1>1. Init => PendingInit  BY DEF Init
  <1>2. ASSUME TxmInv, [Next]_vars PROVE [PendingNext]_pendingVars
    <2>1. CASE RunStores
      <3>1. runner.pc = "store" /\ runner.job \in Job
        BY <1>2, <2>1 DEF RunStores, TxmInv, TypeOK
      <3>2. buildTx(runner.job, 0) \in Signature  BY <3>1, BuildTxType
      <3> QED  BY <2>1, <3>1, <3>2 DEF RunStores, PendingNext, Job
    <2>2. ASSUME NEW r \in senders, SenderAdds(r)
          PROVE  [PendingNext]_pendingVars
      <3>1. r.job \in Job /\ r.count \in Nat
        BY <1>2 DEF TxmInv, TypeOK, SenderType
      <3>2. buildTx(r.job, r.count) \in Signature  BY <3>1, BuildTxType
      <3> QED  BY <2>2, <3>1, <3>2 DEF SenderAdds, PendingNext, Job
    <2>3. ASSUME NEW w \in workers, ProcessSig(w)
          PROVE  [PendingNext]_pendingVars
      <3>1. PICK s \in HighestFirst(w.res) :
              \/ UNCHANGED pendingVars
              \/ Resolve(s, "revert") \/ Resolve(s, "success")
        BY <2>3 DEF ProcessSig
      <3>2. s \in Signature
        BY <1>2, <3>1 DEF HighestFirst, TxmInv, TypeOK, WorkersTyped
      <3> QED  BY <1>2, <3>1, <3>2, ResolveFinishes
    <2>4. ASSUME NEW w \in workers, ProcessExpired(w)
          PROVE  [PendingNext]_pendingVars
      <3>1. w.expired \in Signature /\ Resolve(w.expired, "drop")
        BY <1>2, <2>4 DEF ProcessExpired, TxmInv, TypeOK, WorkersTyped
      <3> QED  BY <1>2, <3>1, ResolveFinishes
    <2>5. CASE Simulate
      <3>1. Head(chSim) \in Job
        BY <1>2, <2>5 DEF Simulate, TxmInv, TypeOK
      <3>2. buildTx(Head(chSim), 0) \in Signature  BY <3>1, BuildTxType
      <3> QED  BY <1>2, <2>5, <3>2, ResolveFinishes DEF Simulate
    <2>6. CASE UNCHANGED pendingVars  BY <2>6
    <2> QED
      BY <1>2, <2>1, <2>2, <2>3, <2>4, <2>5, <2>6
      DEF Next, vars, Enqueue, RetryTick, RetryBump,
          RetryBuildFails, RetryStop, RetryExit, RetryTimeout, ConfirmTimeout,
          RunReceive, RunSendFails, RunSends, RunExit, SenderFails,
          SenderSends, SenderWaits, ConfirmTick, ConfirmFetch,
          ConfirmFetchFails, ConfirmRoundEnds, ConfirmExit, SimulateExit,
          Close, CloseReturns, Cluster
  <1> QED  BY <1>1, <1>2, TxmInvariant, PTL DEF Spec, PendingSpec
=============================================================================

----------------------- MODULE PendingTxContextProofs -----------------------
(***************************************************************************)
(* The maps of pendingTxContext agree, count every transaction once and    *)
(* implement PendingTx, for any number of goroutines, ids and signatures.  *)
(***************************************************************************)
EXTENDS PendingTxContext, TLAPS

(***************************************************************************)
(* A caller between Remove and its counter owns the id it counts: the id   *)
(* is cancelled, not counted yet, and no other caller is about to count    *)
(* it.                                                                     *)
(***************************************************************************)
CountersExclusive ==
  /\ \A c \in Caller : call[c].op = "Count" =>
       call[c].id \in cancelled /\ counted[call[c].id] = 0
  /\ \A c, d \in Caller :
       (call[c].op = "Count" /\ call[d].op = "Count" /\ call[c].id = call[d].id)
         => c = d
  /\ \A id \in Id : id \notin cancelled => counted[id] = 0

RemovedForGood == cancelled \cap Present = {}

ContextInv ==
  TypeOK /\ MapsAgree /\ OneOutcome /\ RemovedForGood /\ CountersExclusive

-----------------------------------------------------------------------------
(* The empty maps satisfy the inductive invariant. *)
LEMMA InitInv == Init => ContextInv
  BY ContextAssumption
  DEF Init, Idle, ContextInv, TypeOK, MapsAgree, OneOutcome, RemovedForGood,
      CountersExclusive, Present

(***************************************************************************)
(* A call that starts, or that returns without touching the maps, disturbs *)
(* only the type of call.                                                  *)
(***************************************************************************)
LEMMA StartInv ==
  ASSUME ContextInv, NEW c \in Caller, NEW s \in Signature,
         NEW id \in Id \cup {Nil}, NEW op \in {"New", "Add", "Remove"},
         op # "New" => id \in Id, Start(c, op, s, id)
  PROVE  ContextInv'
  <1>1. /\ UNCHANGED <<maps, counted>> /\ UNCHANGED Present
        /\ call' = [call EXCEPT ![c] = [op |-> op, sig |-> s, id |-> id]]
    BY DEF Start, maps, Present
  <1>2. /\ call'[c] = [op |-> op, sig |-> s, id |-> id]
        /\ \A d \in Caller : d # c => call'[d] = call[d]
    BY <1>1 DEF ContextInv, TypeOK
  <1>3. TypeOK'
    BY <1>1, <1>2 DEF ContextInv, TypeOK, maps
  <1>4. MapsAgree' /\ OneOutcome' /\ RemovedForGood'
    BY <1>1 DEF ContextInv, MapsAgree, OneOutcome, RemovedForGood, maps
  <1>5. CountersExclusive'
    BY <1>1, <1>2 DEF ContextInv, CountersExclusive, maps
  <1> QED  BY <1>3, <1>4, <1>5 DEF ContextInv

(* The second critical section of New preserves the invariant. *)
LEMMA NewCommitInv ==
  ASSUME ContextInv, NEW c \in Caller, NewCommit(c)
  PROVE  ContextInv'
  <1> DEFINE s == call[c].sig
  <1>1. /\ s \in Signature /\ Return(c) /\ UNCHANGED counted
        /\ call[c].op = "New"
    BY DEF ContextInv, TypeOK, NewCommit
  <1>2. /\ call'[c] = Idle
        /\ \A d \in Caller : d # c => call'[d] = call[d]
        /\ call' \in [Caller -> [op : {"Idle", "New", "Add", "Remove", "Count"},
                                 sig : Signature \cup {Nil},
                                 id : Id \cup {Nil}]]
    BY <1>1 DEF ContextInv, TypeOK, Return, Idle
  <1>3. Idle.op = "Idle"  BY DEF Idle
  <1> HIDE DEF s
  <1>4. CASE UNCHANGED maps
    <2>1. UNCHANGED Present  BY <1>4 DEF maps, Present
    <2>2. TypeOK'
      BY <1>1, <1>2, <1>3, <1>4 DEF ContextInv, TypeOK, maps
    <2>3. MapsAgree' /\ OneOutcome' /\ RemovedForGood' /\ CountersExclusive'
      BY <1>1, <1>2, <1>3, <1>4, <2>1
      DEF ContextInv, MapsAgree, OneOutcome, RemovedForGood,
          CountersExclusive, maps
    <2> QED  BY <2>2, <2>3 DEF ContextInv
  <1>5. ASSUME MayNew(s), NEW id \in Id, Fresh(id),
               cancelBy' = cancelBy \cup {id},
               timestamp' = timestamp \cup {id},
               sigToID' = [sigToID EXCEPT ![s] = id],
               idToSigs' = [idToSigs EXCEPT ![id] = {s}],
               UNCHANGED cancelled
        PROVE  ContextInv'
    <2>1. Present' = Present \cup {id}
      BY <1>5, <1>1 DEF Present, ContextInv, TypeOK
    <2>2. TypeOK'
      BY <1>1, <1>2, <1>3, <1>5 DEF ContextInv, TypeOK
    <2>3. idToSigs[id] = {}  BY <1>5 DEF Fresh, Present
    <2>4. MapsAgree'
      <3>1. cancelBy' = Present' /\ timestamp' = Present'
        BY <1>5, <2>1 DEF ContextInv, MapsAgree
      <3>2. ASSUME NEW x \in Signature, NEW y \in Id
            PROVE  sigToID'[x] = y <=> x \in idToSigs'[y]
        BY <1>1, <1>5, <2>3, ContextAssumption
        DEF ContextInv, TypeOK, MapsAgree, MayNew
      <3> QED  BY <3>1, <3>2 DEF MapsAgree
    <2>5. OneOutcome' /\ RemovedForGood' /\ CountersExclusive'
      BY <1>1, <1>2, <1>3, <1>5, <2>1
      DEF ContextInv, OneOutcome, RemovedForGood, CountersExclusive, Fresh
    <2> QED  BY <2>2, <2>4, <2>5 DEF ContextInv
  <1> QED  BY <1>4, <1>5 DEF NewCommit, s

(* The second critical section of Add preserves the invariant. *)
LEMMA AddCommitInv ==
  ASSUME ContextInv, NEW c \in Caller, AddCommit(c)
  PROVE  ContextInv'
  <1> DEFINE s == call[c].sig
             id == call[c].id
  <1>1. /\ s \in Signature /\ id \in Id /\ Return(c) /\ UNCHANGED counted
        /\ call[c].op = "Add"
    BY DEF ContextInv, TypeOK, AddCommit
  <1>2. /\ call'[c] = Idle
        /\ \A d \in Caller : d # c => call'[d] = call[d]
        /\ call' \in [Caller -> [op : {"Idle", "New", "Add", "Remove", "Count"},
                                 sig : Signature \cup {Nil},
                                 id : Id \cup {Nil}]]
    BY <1>1 DEF ContextInv, TypeOK, Return, Idle
  <1>3. Idle.op = "Idle"  BY DEF Idle
  <1> HIDE DEF s, id
  <1>4. CASE UNCHANGED maps
    <2>1. UNCHANGED Present  BY <1>4 DEF maps, Present
    <2>2. TypeOK'
      BY <1>1, <1>2, <1>3, <1>4 DEF ContextInv, TypeOK, maps
    <2>3. MapsAgree' /\ OneOutcome' /\ RemovedForGood' /\ CountersExclusive'
      BY <1>1, <1>2, <1>3, <1>4, <2>1
      DEF ContextInv, MapsAgree, OneOutcome, RemovedForGood,
          CountersExclusive, maps
    <2> QED  BY <2>2, <2>3 DEF ContextInv
  <1>5. ASSUME MayAdd(id, s),
               sigToID' = [sigToID EXCEPT ![s] = id],
               idToSigs' = [idToSigs EXCEPT ![id] = @ \cup {s}],
               UNCHANGED <<cancelBy, timestamp, cancelled>>
        PROVE  ContextInv'
    <2>1. Present' = Present
      BY <1>5, <1>1 DEF Present, MayAdd, ContextInv, TypeOK
    <2>2. TypeOK'
      BY <1>1, <1>2, <1>3, <1>5 DEF ContextInv, TypeOK
    <2>3. MapsAgree'
      BY <1>1, <1>5, <2>1, ContextAssumption
      DEF ContextInv, TypeOK, MapsAgree, MayAdd
    <2>4. OneOutcome' /\ RemovedForGood' /\ CountersExclusive'
      BY <1>1, <1>2, <1>3, <1>5, <2>1
      DEF ContextInv, OneOutcome, RemovedForGood, CountersExclusive
    <2> QED  BY <2>2, <2>3, <2>4 DEF ContextInv
  <1> QED  BY <1>4, <1>5 DEF AddCommit, s, id

(***************************************************************************)
(* The id Remove finds under the write lock is present, because the maps   *)
(* agree: the early exit that would return an id again is never taken.     *)
(***************************************************************************)
LEMMA OwnedIsPresent ==
  ASSUME ContextInv, NEW s \in Signature, sigToID[s] # Nil
  PROVE  sigToID[s] \in Id /\ sigToID[s] \in Present
  BY DEF ContextInv, TypeOK, MapsAgree, Present

(* The second critical section of Remove preserves the invariant. *)
LEMMA RemoveCommitInv ==
  ASSUME ContextInv, NEW c \in Caller, RemoveCommit(c)
  PROVE  ContextInv'
  <1> DEFINE sig == call[c].sig
             id == sigToID[sig]
  <1>1. /\ sig \in Signature /\ UNCHANGED counted
        /\ call[c].op = "Remove"
    BY DEF ContextInv, TypeOK, RemoveCommit
  <1>2. CASE id = Nil
    <2>1. UNCHANGED maps /\ Return(c)
      BY <1>2 DEF RemoveCommit, MayRemove
    <2>2. /\ call'[c] = Idle
          /\ \A d \in Caller : d # c => call'[d] = call[d]
          /\ call' \in [Caller -> [op : {"Idle", "New", "Add", "Remove", "Count"},
                                   sig : Signature \cup {Nil},
                                   id : Id \cup {Nil}]]
      BY <2>1 DEF ContextInv, TypeOK, Return, Idle
    <2>3. Idle.op = "Idle"  BY DEF Idle
    <2>4. UNCHANGED Present  BY <2>1 DEF maps, Present
    <2>5. TypeOK'
      BY <1>1, <2>1, <2>2, <2>3 DEF ContextInv, TypeOK, maps
    <2>6. MapsAgree' /\ OneOutcome' /\ RemovedForGood' /\ CountersExclusive'
      BY <1>1, <2>1, <2>2, <2>3, <2>4
      DEF ContextInv, MapsAgree, OneOutcome, RemovedForGood,
          CountersExclusive, maps
    <2> QED  BY <2>5, <2>6 DEF ContextInv
  <1>3. CASE id # Nil
    <2>1. id \in Id /\ id \in Present  BY <1>1, <1>3, OwnedIsPresent
    <2>2. /\ cancelBy' = cancelBy \ {id}
          /\ timestamp' = timestamp \ {id}
          /\ idToSigs' = [idToSigs EXCEPT ![id] = {}]
          /\ sigToID' = [s \in Signature |->
                           IF s \in idToSigs[id] THEN Nil ELSE sigToID[s]]
          /\ cancelled' = cancelled \cup {id}
          /\ call' = [call EXCEPT ![c].op = "Count", ![c].id = id]
      BY <1>3, <2>1 DEF RemoveCommit, MayRemove
    <2> HIDE DEF sig, id
    <2>3. /\ call'[c].op = "Count" /\ call'[c].id = id
          /\ call'[c].sig = call[c].sig
          /\ \A d \in Caller : d # c => call'[d] = call[d]
          /\ call' \in [Caller -> [op : {"Idle", "New", "Add", "Remove", "Count"},
                                   sig : Signature \cup {Nil},
                                   id : Id \cup {Nil}]]
      BY <2>1, <2>2 DEF ContextInv, TypeOK
    <2>4. Present' = Present \ {id}
      BY <2>1, <2>2 DEF Present, ContextInv, TypeOK
    <2>5. TypeOK'
      BY <1>1, <2>1, <2>2, <2>3 DEF ContextInv, TypeOK, sig
    <2>6. MapsAgree'
      <3>1. cancelBy' = Present' /\ timestamp' = Present'
        BY <2>2, <2>4 DEF ContextInv, MapsAgree
      <3>2. ASSUME NEW x \in Signature, NEW y \in Id
            PROVE  sigToID'[x] = y <=> x \in idToSigs'[y]
        BY <2>1, <2>2, ContextAssumption
        DEF ContextInv, TypeOK, MapsAgree
      <3> QED  BY <3>1, <3>2 DEF MapsAgree
    <2>7. id \notin cancelled /\ counted[id] = 0
      BY <2>1 DEF ContextInv, RemovedForGood, CountersExclusive
    <2>8. OneOutcome' /\ RemovedForGood'
      BY <1>1, <2>1, <2>2, <2>4 DEF ContextInv, OneOutcome, RemovedForGood
    <2>9. CountersExclusive'
      BY <1>1, <2>1, <2>2, <2>3, <2>7 DEF ContextInv, CountersExclusive
    <2> QED  BY <2>5, <2>6, <2>8, <2>9 DEF ContextInv
  <1> QED  BY <1>2, <1>3

(* Counting an outcome preserves the invariant: its id was removed once. *)
LEMMA CountInv ==
  ASSUME ContextInv, NEW c \in Caller, Count(c) \/ CountSimulation(c)
  PROVE  ContextInv'
  <1>1. /\ call[c].op = "Count" /\ call[c].id \in Id
        /\ Return(c) /\ UNCHANGED maps
        /\ call[c].id \in cancelled /\ counted[call[c].id] = 0
    BY DEF ContextInv, TypeOK, CountersExclusive, Count, CountSimulation, maps
  <1>2. \/ counted' = [counted EXCEPT ![call[c].id] = @ + 1]
        \/ counted' = counted
    BY DEF Count, CountSimulation
  <1>3. /\ call'[c] = Idle
        /\ \A d \in Caller : d # c => call'[d] = call[d]
        /\ call' \in [Caller -> [op : {"Idle", "New", "Add", "Remove", "Count"},
                                 sig : Signature \cup {Nil},
                                 id : Id \cup {Nil}]]
    BY <1>1 DEF ContextInv, TypeOK, Return, Idle
  <1>4. Idle.op = "Idle"  BY DEF Idle
  <1>5. UNCHANGED Present  BY <1>1 DEF maps, Present
  <1>6. TypeOK'
    BY <1>1, <1>2, <1>3, <1>4 DEF ContextInv, TypeOK, maps
  <1>7. MapsAgree' /\ RemovedForGood'
    BY <1>1, <1>5 DEF ContextInv, MapsAgree, RemovedForGood, maps
  <1>8. /\ \A id \in Id : id # call[c].id => counted'[id] = counted[id]
        /\ counted'[call[c].id] \in {0, 1}
    BY <1>1, <1>2 DEF ContextInv, TypeOK
  <1>9. OneOutcome'
    <2>1. call[c].id \notin Present
      BY <1>1 DEF ContextInv, RemovedForGood
    <2> QED
      BY <1>1, <1>5, <1>8, <2>1 DEF ContextInv, OneOutcome, maps
  <1>10. CountersExclusive'
    <2>1. \A d \in Caller : (d # c /\ call[d].op = "Count")
                               => call[d].id # call[c].id
      BY <1>1 DEF ContextInv, CountersExclusive
    <2>2. \A d \in Caller : call[d].op = "Count" => call[d].id \in Id
      BY DEF ContextInv, TypeOK
    <2> QED
      BY <1>1, <1>3, <1>4, <1>8, <2>1, <2>2
      DEF ContextInv, CountersExclusive, maps
  <1> QED  BY <1>6, <1>7, <1>9, <1>10 DEF ContextInv

(***************************************************************************)
(* The inductive invariant.                                                *)
(***************************************************************************)
LEMMA StepInv == ContextInv /\ [Next]_vars => ContextInv'
  <1> SUFFICES ASSUME ContextInv, [Next]_vars PROVE ContextInv'
    OBVIOUS
  <1>1. ASSUME NEW c \in Caller, NEW s \in Signature, NewCheck(c, s)
        PROVE  ContextInv'
    BY <1>1, StartInv DEF NewCheck
  <1>2. ASSUME NEW c \in Caller, NEW s \in Signature, RemoveCheck(c, s)
        PROVE  ContextInv'
    <2>1. sigToID[s] \in Id /\ MayRemove(s)
      BY <1>2, OwnedIsPresent DEF RemoveCheck, MayRemove
    <2>2. Start(c, "Remove", s, sigToID[s])
      BY <1>2, <2>1 DEF RemoveCheck
    <2> QED  BY <2>1, <2>2, StartInv
  <1>3. ASSUME NEW c \in Caller, NEW s \in Signature, NEW id \in Id,
               AddCheck(c, id, s)
        PROVE  ContextInv'
    BY <1>3, StartInv DEF AddCheck
  <1>4. ASSUME NEW c \in Caller,
               \/ NewCommit(c) \/ AddCommit(c) \/ RemoveCommit(c)
               \/ Count(c) \/ CountSimulation(c)
        PROVE  ContextInv'
    BY <1>4, NewCommitInv, AddCommitInv, RemoveCommitInv, CountInv
  <1>5. CASE UNCHANGED vars
    BY <1>5
    DEF vars, maps, ContextInv, TypeOK, MapsAgree, OneOutcome,
        RemovedForGood, CountersExclusive, Present
  <1> QED  BY <1>1, <1>2, <1>3, <1>4, <1>5 DEF Next

(* The inductive invariant holds of every reachable state of the context. *)
THEOREM ContextInvariance == Spec => []ContextInv
  BY InitInv, StepInv, PTL DEF Spec

(***************************************************************************)
(* The types of the maps and of the calls in progress hold throughout.     *)
(***************************************************************************)
THEOREM ContextTypeCorrect == Spec => []TypeOK
  BY ContextInvariance, PTL DEF ContextInv

(***************************************************************************)
(* cancelBy, timestamp, sigToID and idToSigs agree between any two         *)
(* critical sections.                                                      *)
(***************************************************************************)
THEOREM MapsAlwaysAgree == Spec => []MapsAgree
  BY ContextInvariance, PTL DEF ContextInv

(***************************************************************************)
(* However many goroutines race to report a transaction, one is counted.   *)
(***************************************************************************)
THEOREM CountedOnce == Spec => []OneOutcome
  BY ContextInvariance, PTL DEF ContextInv

-----------------------------------------------------------------------------
(* Every step of the context is one step of PendingTx or leaves it unchanged. *)
LEMMA RefinementStep ==
  ContextInv /\ [Next]_vars
    => [Abstract!PendingNext]_(Abstract!pendingVars)
  <1> SUFFICES ASSUME ContextInv, [Next]_vars
               PROVE  \/ Abstract!PendingNext
                      \/ UNCHANGED <<Present, sigToID, cancelled>>
    BY DEF Abstract!pendingVars
  <1>1. CASE UNCHANGED maps
    BY <1>1 DEF maps, Present
  <1>2. ASSUME NEW c \in Caller, NewCommit(c), ~UNCHANGED maps
        PROVE  Abstract!PendingNext
    <2> DEFINE s == call[c].sig
    <2>1. s \in Signature  BY <1>2 DEF NewCommit, ContextInv, TypeOK
    <2>2. PICK id \in Id :
            /\ MayNew(s) /\ Fresh(id)
            /\ sigToID' = [sigToID EXCEPT ![s] = id]
            /\ idToSigs' = [idToSigs EXCEPT ![id] = {s}]
            /\ UNCHANGED cancelled
      BY <1>2 DEF NewCommit
    <2> HIDE DEF s
    <2>3. Present' = Present \cup {id}
      BY <2>1, <2>2 DEF Present, ContextInv, TypeOK
    <2>4. Abstract!Track(id, s)
      BY <2>2, <2>3 DEF Abstract!Track, Fresh, MayNew
    <2> QED  BY <2>1, <2>4 DEF Abstract!PendingNext
  <1>3. ASSUME NEW c \in Caller, AddCommit(c), ~UNCHANGED maps
        PROVE  Abstract!PendingNext
    <2> DEFINE s == call[c].sig
               id == call[c].id
    <2>1. s \in Signature /\ id \in Id
      BY <1>3 DEF AddCommit, ContextInv, TypeOK
    <2>2. /\ MayAdd(id, s)
          /\ sigToID' = [sigToID EXCEPT ![s] = id]
          /\ idToSigs' = [idToSigs EXCEPT ![id] = @ \cup {s}]
          /\ UNCHANGED cancelled
      BY <1>3 DEF AddCommit
    <2> HIDE DEF s, id
    <2>3. Present' = Present
      BY <2>1, <2>2 DEF Present, MayAdd, ContextInv, TypeOK
    <2>4. Abstract!Attach(id, s)
      BY <2>2, <2>3 DEF Abstract!Attach, MayAdd
    <2> QED  BY <2>1, <2>4 DEF Abstract!PendingNext
  <1>4. ASSUME NEW c \in Caller, RemoveCommit(c), ~UNCHANGED maps
        PROVE  Abstract!PendingNext
    <2> DEFINE sig == call[c].sig
               id == sigToID[sig]
    <2>1. sig \in Signature /\ MayRemove(sig)
      BY <1>4 DEF RemoveCommit, ContextInv, TypeOK
    <2>2. id \in Id /\ id \in Present
      BY <2>1, OwnedIsPresent DEF MayRemove
    <2>3. /\ idToSigs' = [idToSigs EXCEPT ![id] = {}]
          /\ sigToID' = [s \in Signature |->
                           IF s \in idToSigs[id] THEN Nil ELSE sigToID[s]]
          /\ cancelled' = cancelled \cup {id}
      BY <1>4, <2>1 DEF RemoveCommit
    <2> HIDE DEF sig, id
    <2>4. Present' = Present \ {id}
      BY <2>2, <2>3 DEF Present, ContextInv, TypeOK
    <2>5. sigToID' = [s \in Signature |->
                        IF sigToID[s] = id THEN Nil ELSE sigToID[s]]
      BY <2>2, <2>3 DEF ContextInv, MapsAgree
    <2>6. Abstract!Finish(id)
      BY <2>2, <2>3, <2>4, <2>5 DEF Abstract!Finish
    <2> QED  BY <2>2, <2>6 DEF Abstract!PendingNext
  <1> QED
    BY <1>1, <1>2, <1>3, <1>4
    DEF Next, NewCheck, RemoveCheck, AddCheck, Start, Count,
        CountSimulation, vars

(***************************************************************************)
(* pendingTxContext implements PendingTx: looking under the read lock and  *)
(* again under the write lock is as good as one atomic operation.          *)
(***************************************************************************)
THEOREM ContextRefinement == Spec => ImplementsPendingTx
  <1>1. Init => Abstract!PendingInit
    BY DEF Init, Abstract!PendingInit, Present
  <1> QED
    BY <1>1, RefinementStep, ContextInvariance, PTL
    DEF Spec, ImplementsPendingTx, Abstract!PendingSpec
=============================================================================

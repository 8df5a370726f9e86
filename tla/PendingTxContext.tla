-------------------------- MODULE PendingTxContext --------------------------
(***************************************************************************)
(* pendingTxContext and its metrics wrapper                                *)
(* (pkg/solana/txm/pendingtx.go), called by concurrent goroutines.  New,   *)
(* Add and Remove each look under the read lock, release it, take the      *)
(* write lock and look again, so each is two actions here.  A critical     *)
(* section is one action: the RWMutex excludes the others.  A first look   *)
(* that ends the call changes nothing and is not an action.                *)
(*                                                                         *)
(* Go maps are total functions: an absent key is Nil in sigToID and {} in  *)
(* idToSigs (no present entry is ever empty); cancelBy and timestamp are   *)
(* the sets of ids they hold.  The order of idToSigs[id] is never used.    *)
(***************************************************************************)
EXTENDS Naturals, FiniteSets

CONSTANTS
  Id, Signature, Nil,
  Caller       \* goroutines that call into the context

ASSUME ContextAssumption == Nil \notin Id

VARIABLES
  cancelBy,    \* ids that have a cancel function
  timestamp,   \* ids that have a start time
  sigToID,
  idToSigs,
  cancelled,   \* ids whose cancel function was called
  call,        \* what each caller does between its two critical sections
  counted      \* outcomes the metrics counted for an id

maps == <<cancelBy, timestamp, sigToID, idToSigs, cancelled>>
vars == <<maps, call, counted>>

Present == {id \in Id : idToSigs[id] # {}}

Idle == [op |-> "Idle", sig |-> Nil, id |-> Nil]

(* Whether a look at the maps, under either lock, lets the call go on. *)
MayNew(s) == sigToID[s] = Nil
MayAdd(id, s) == sigToID[s] = Nil /\ id \in Present
MayRemove(s) == sigToID[s] # Nil /\ sigToID[s] \in Present

Init ==
  /\ cancelBy = {}
  /\ timestamp = {}
  /\ sigToID = [s \in Signature |-> Nil]
  /\ idToSigs = [id \in Id |-> {}]
  /\ cancelled = {}
  /\ call = [c \in Caller |-> Idle]
  /\ counted = [id \in Id |-> 0]

(***************************************************************************)
(* The first critical section of each operation.                           *)
(***************************************************************************)
Start(c, op, s, id) ==
  /\ call[c] = Idle
  /\ call' = [call EXCEPT ![c] = [op |-> op, sig |-> s, id |-> id]]
  /\ UNCHANGED <<maps, counted>>

NewCheck(c, s) == MayNew(s) /\ Start(c, "New", s, Nil)

AddCheck(c, id, s) == MayAdd(id, s) /\ Start(c, "Add", s, id)

\* Remove returns the id it finds, also when idToSigs has no entry for it.
RemoveCheck(c, s) ==
  /\ sigToID[s] # Nil
  /\ Start(c, IF MayRemove(s) THEN "Remove" ELSE "Count", s, sigToID[s])

Return(c) == call' = [call EXCEPT ![c] = Idle]

(***************************************************************************)
(* The second critical section: look again, then change all four maps.     *)
(* uuid.New gives an id that was never used.                               *)
(***************************************************************************)
Fresh(id) == id \notin Present \cup cancelled

\* Mutant of NewCommit: trusts the look made under the read lock.
NewCommitUnchecked(c) ==
  LET s == call[c].sig IN
  /\ call[c].op = "New"
  /\ \E id \in Id :
       /\ Fresh(id)
       /\ cancelBy' = cancelBy \cup {id}
       /\ timestamp' = timestamp \cup {id}
       /\ sigToID' = [sigToID EXCEPT ![s] = id]
       /\ idToSigs' = [idToSigs EXCEPT ![id] = {s}]
       /\ UNCHANGED cancelled
  /\ Return(c)
  /\ UNCHANGED counted

NewCommit(c) ==
  LET s == call[c].sig IN
  /\ call[c].op = "New"
  /\ \/ /\ MayNew(s)
        /\ \E id \in Id :
             /\ Fresh(id)
             /\ cancelBy' = cancelBy \cup {id}
             /\ timestamp' = timestamp \cup {id}
             /\ sigToID' = [sigToID EXCEPT ![s] = id]
             /\ idToSigs' = [idToSigs EXCEPT ![id] = {s}]
             /\ UNCHANGED cancelled
     \/ ~MayNew(s) /\ UNCHANGED maps
  /\ Return(c)
  /\ UNCHANGED counted

AddCommit(c) ==
  LET s == call[c].sig
      id == call[c].id IN
  /\ call[c].op = "Add"
  /\ \/ /\ MayAdd(id, s)
        /\ sigToID' = [sigToID EXCEPT ![s] = id]
        /\ idToSigs' = [idToSigs EXCEPT ![id] = @ \cup {s}]
        /\ UNCHANGED <<cancelBy, timestamp, cancelled>>
     \/ ~MayAdd(id, s) /\ UNCHANGED maps
  /\ Return(c)
  /\ UNCHANGED counted

(***************************************************************************)
(* Remove, as OnSuccess and OnError call it: the id it returns is counted  *)
(* after the lock is released, so the caller goes on to Count.             *)
(***************************************************************************)
\* Mutant of RemoveCommit: uses the id found under the read lock.
RemoveCommitStale(c) ==
  LET id == call[c].id IN
  /\ call[c].op = "Remove"
  /\ cancelBy' = cancelBy \ {id}
  /\ timestamp' = timestamp \ {id}
  /\ idToSigs' = [idToSigs EXCEPT ![id] = {}]
  /\ sigToID' = [s \in Signature |->
                   IF s \in idToSigs[id] THEN Nil ELSE sigToID[s]]
  /\ cancelled' = cancelled \cup {id}
  /\ call' = [call EXCEPT ![c].op = "Count"]
  /\ UNCHANGED counted

\* Mutant of RemoveCommit: forgets the signatures of the fee-bumped copies.
RemoveCommitOneSignature(c) ==
  LET sig == call[c].sig
      id == sigToID[sig] IN
  /\ call[c].op = "Remove"
  /\ \/ /\ MayRemove(sig)
        /\ cancelBy' = cancelBy \ {id}
        /\ timestamp' = timestamp \ {id}
        /\ idToSigs' = [idToSigs EXCEPT ![id] = {}]
        /\ sigToID' = [sigToID EXCEPT ![sig] = Nil]
        /\ cancelled' = cancelled \cup {id}
     \/ ~MayRemove(sig) /\ UNCHANGED maps
  /\ IF id = Nil
     THEN Return(c)
     ELSE call' = [call EXCEPT ![c].op = "Count", ![c].id = id]
  /\ UNCHANGED counted

\* Mutant of RemoveCommit: counts also when it has lost the race.
RemoveCommitAlwaysCounts(c) ==
  LET sig == call[c].sig
      id == sigToID[sig] IN
  /\ call[c].op = "Remove"
  /\ \/ /\ MayRemove(sig)
        /\ cancelBy' = cancelBy \ {id}
        /\ timestamp' = timestamp \ {id}
        /\ idToSigs' = [idToSigs EXCEPT ![id] = {}]
        /\ sigToID' = [s \in Signature |->
                         IF s \in idToSigs[id] THEN Nil ELSE sigToID[s]]
        /\ cancelled' = cancelled \cup {id}
     \/ ~MayRemove(sig) /\ UNCHANGED maps
  /\ call' = [call EXCEPT ![c].op = "Count", ![c].id = id]
  /\ UNCHANGED counted

RemoveCommit(c) ==
  LET sig == call[c].sig
      id == sigToID[sig] IN
  /\ call[c].op = "Remove"
  /\ \/ /\ MayRemove(sig)
        /\ cancelBy' = cancelBy \ {id}
        /\ timestamp' = timestamp \ {id}
        /\ idToSigs' = [idToSigs EXCEPT ![id] = {}]
        /\ sigToID' = [s \in Signature |->
                         IF s \in idToSigs[id] THEN Nil ELSE sigToID[s]]
        /\ cancelled' = cancelled \cup {id}
     \/ ~MayRemove(sig) /\ UNCHANGED maps
  /\ IF id = Nil
     THEN Return(c)
     ELSE call' = [call EXCEPT ![c].op = "Count", ![c].id = id]
  /\ UNCHANGED counted

(* OnSuccess, OnError: the counters of success, revert and drop. *)
Count(c) ==
  /\ call[c].op = "Count"
  /\ counted' = [counted EXCEPT ![call[c].id] = @ + 1]
  /\ Return(c)
  /\ UNCHANGED maps

(* OnError after a failed simulation: its counters are not tied to the id. *)
CountSimulation(c) ==
  /\ call[c].op = "Count"
  /\ Return(c)
  /\ UNCHANGED <<maps, counted>>

Next ==
  \E c \in Caller :
    \/ \E s \in Signature : NewCheck(c, s) \/ RemoveCheck(c, s)
    \/ \E s \in Signature, id \in Id : AddCheck(c, id, s)
    \/ NewCommit(c)
    \/ AddCommit(c)
    \/ RemoveCommit(c)
    \/ Count(c)
    \/ CountSimulation(c)

Spec == Init /\ [][Next]_vars

-----------------------------------------------------------------------------
(***************************************************************************)
(* The types of the four maps and of the calls in progress.                *)
(***************************************************************************)
TypeOK ==
  /\ cancelBy \subseteq Id
  /\ timestamp \subseteq Id
  /\ sigToID \in [Signature -> Id \cup {Nil}]
  /\ idToSigs \in [Id -> SUBSET Signature]
  /\ cancelled \subseteq Id
  /\ call \in [Caller -> [op : {"Idle", "New", "Add", "Remove", "Count"},
                          sig : Signature \cup {Nil},
                          id : Id \cup {Nil}]]
  /\ counted \in [Id -> Nat]
  /\ \A c \in Caller :
       /\ call[c].op \in {"New", "Add", "Remove"} => call[c].sig \in Signature
       /\ call[c].op \in {"Add", "Remove", "Count"} => call[c].id \in Id

(***************************************************************************)
(* The four maps of pendingTxContext agree whenever no write lock is held: *)
(* Remove never calls an absent cancel function (a nil call would panic),  *)
(* Expired finds the start time of every tracked id, and a signature       *)
(* points to an id exactly when that id lists it.                          *)
(***************************************************************************)
MapsAgree ==
  /\ cancelBy = Present
  /\ timestamp = Present
  /\ \A s \in Signature, id \in Id : sigToID[s] = id <=> s \in idToSigs[id]

(***************************************************************************)
(* A transaction has one outcome: the success, revert and drop counters    *)
(* count an id at most once, whichever goroutines race to remove it, and   *)
(* only after its retry context was cancelled.                             *)
(***************************************************************************)
OneOutcome ==
  \A id \in Id : /\ counted[id] <= 1
                 /\ counted[id] = 1 => id \in cancelled \ Present

(***************************************************************************)
(* The maps implement PendingTx: the two critical sections of every call   *)
(* look like one atomic operation to the other goroutines.                 *)
(***************************************************************************)
Abstract == INSTANCE PendingTx WITH
  inflight <- Present, owner <- sigToID, finished <- cancelled

ImplementsPendingTx == Abstract!PendingSpec
=============================================================================

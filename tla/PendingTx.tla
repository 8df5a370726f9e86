----------------------------- MODULE PendingTx -----------------------------
(***************************************************************************)
(* What the transaction manager relies on from the PendingTxContext        *)
(* interface (pkg/solana/txm/pendingtx.go): every in-flight transaction    *)
(* has an id of its own, every signature belongs to at most one in-flight  *)
(* transaction, and a transaction leaves once, with all its signatures.    *)
(* Every operation is one step here; PendingTxContext is the               *)
(* implementation, whose operations take two critical sections each.       *)
(***************************************************************************)
CONSTANTS
  Id,          \* transaction ids (uuid.UUID)
  Signature,   \* transaction signatures
  Nil          \* uuid.Nil: no transaction

ASSUME NilAssumption == Nil \notin Id

VARIABLES
  inflight,    \* ids of the transactions being tracked
  owner,       \* the transaction each signature belongs to, or Nil
  finished     \* ids that have been removed, their contexts cancelled

pendingVars == <<inflight, owner, finished>>

PendingInit ==
  /\ inflight = {}
  /\ owner = [s \in Signature |-> Nil]
  /\ finished = {}

(* New: start tracking s under an id that was never used before. *)
Track(id, s) ==
  /\ id \notin inflight \cup finished
  /\ owner[s] = Nil
  /\ inflight' = inflight \cup {id}
  /\ owner' = [owner EXCEPT ![s] = id]
  /\ UNCHANGED finished

(* Add: a further signature, of a fee-bumped copy, for a tracked id. *)
Attach(id, s) ==
  /\ id \in inflight
  /\ owner[s] = Nil
  /\ owner' = [owner EXCEPT ![s] = id]
  /\ UNCHANGED <<inflight, finished>>

(* Remove: drop the transaction and all its signatures, cancel its context. *)
Finish(id) ==
  /\ id \in inflight
  /\ inflight' = inflight \ {id}
  /\ owner' = [s \in Signature |-> IF owner[s] = id THEN Nil ELSE owner[s]]
  /\ finished' = finished \cup {id}

PendingNext ==
  \/ \E id \in Id, s \in Signature : Track(id, s) \/ Attach(id, s)
  \/ \E id \in Id : Finish(id)

PendingSpec == PendingInit /\ [][PendingNext]_pendingVars
=============================================================================

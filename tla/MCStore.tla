------------------------------ MODULE MCStore ------------------------------
(***************************************************************************)
(* Model-checking instance of the store program: the ring buffers of a     *)
(* feed (Feed), its flag, and the rights over the accounts (StoreAccess).  *)
(* The modules share no state but the latest answer, which each keeps for  *)
(* itself.  A behaviour has many rounds, or rounds that raise the flag of  *)
(* a feed whose store stays as it is, or changes of every right and no     *)
(* rounds, on which no right depends.                                      *)
(***************************************************************************)
EXTENDS Feed, StoreAccess, TLC

VARIABLE part

SomeAnswers == {-3, -1, 0, 2, 3}
CtrlSymmetry == Permutations(Ctrl)

\* Who owns what makes no difference to the rounds of a feed.
OneOwner ==
  /\ \A c \in Ctrl : ctrl[c].owner = store.owner
  /\ store.owner = 1 /\ agg.owner = 1
  /\ agg.billing_access_controller = store.lowering_access_controller
  /\ agg.requester_access_controller = store.lowering_access_controller

StoreInit ==
  /\ FeedInit /\ Init
  /\ \/ part = "rounds" /\ OneOwner
     \/ part = "flags" /\ OneOwner /\ space = 0
     \/ part = "rights" /\ space = 0

StoreNext ==
  /\ UNCHANGED part
  /\ \/ part = "rounds" /\ FeedNext /\ UNCHANGED vars
     \/ part = "flags" /\ Next /\ UNCHANGED <<feedVars, ctrl, store, agg>>
     \/ /\ part = "rights" /\ Next /\ UNCHANGED feedVars
        /\ feed'.open => feed'.latest = <<>>

StoreSpec == StoreInit /\ [][StoreNext]_<<part, feedVars, vars>>
=============================================================================

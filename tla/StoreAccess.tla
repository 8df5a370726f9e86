---------------------------- MODULE StoreAccess ----------------------------
(***************************************************************************)
(* Who may do what: the store and the access_controller program            *)
(* (contracts/programs/store/src/lib.rs, access-controller/src/lib.rs) and *)
(* the guards of the OCR2 program that use them.  There is one store, one  *)
(* feed and one aggregator, and several access controllers: an instruction *)
(* names its accounts, so a caller may pass any of them.                   *)
(*                                                                         *)
(* Keys are numbers, since access lists are kept in key order.  The rounds *)
(* of the feed are in module Feed; here it has the latest answer.  A step  *)
(* is an instruction that succeeds, one that fails leaves no trace.        *)
(***************************************************************************)
EXTENDS Integers, Sequences, SequencesExt, FiniteSets

CONSTANTS
  Key,             \* keys that can sign
  Default,         \* the zero key, for which nobody can sign
  S,               \* the store account
  StoreAuthority,  \* the aggregator's address as the writer of a feed
  Ctrl,            \* access controller accounts
  MAX_ADDRS,       \* capacity of an access list
  Answer,          \* answers that are submitted
  Threshold,       \* flagging thresholds that are set
  THRESHOLD_MULTIPLIER,
  U128Max,         \* the largest u128
  MaxPending       \* bound: ownership proposals that are open at a time

ASSUME StoreAssumption ==
  /\ Key \subseteq Nat /\ Default \notin Key /\ S \notin Key \cup {Default}
  /\ StoreAuthority \notin Key \cup {Default, S}
  /\ MAX_ADDRS \in Nat \ {0} /\ THRESHOLD_MULTIPLIER \in Nat \ {0}
  /\ Answer \subseteq Int /\ Threshold \subseteq Nat /\ U128Max \in Nat
  /\ MaxPending \in Nat

VARIABLES
  ctrl,        \* the access controllers
  store,       \* the store account
  feed,        \* the feed's header
  agg,         \* owner and controllers in the aggregator's config
  granted,     \* history: who has been given access to a controller
  deviated,    \* history: a round deviated since the flag was last lowered
  breach       \* history: instructions that went through without a right

vars == <<ctrl, store, feed, agg, granted, deviated, breach>>
history == <<granted, deviated, breach>>

Owner == Key \cup {S}

\* The accounts as their owners have initialized them.
Init ==
  /\ ctrl \in [Ctrl -> [owner : Key, proposed_owner : {Default},
                        access_list : {<<>>}]]
  /\ store \in [owner : Key, proposed_owner : {Default},
                lowering_access_controller : Ctrl]
  /\ feed = [open |-> FALSE]
  /\ agg \in [owner : Key, proposed_owner : {Default},
              billing_access_controller : Ctrl,
              requester_access_controller : Ctrl]
  /\ granted = [c \in Ctrl |-> {}]
  /\ deviated = FALSE
  /\ breach = {}

Audit(op, allowed) ==
  breach' = IF allowed THEN breach ELSE breach \cup {op}

-----------------------------------------------------------------------------
(***************************************************************************)
(* The access list: a sorted array searched by bisection.                  *)
(***************************************************************************)
\* The position of k in the sorted xs, or where it belongs: Bisect[n][lo]
\* looks among the n elements from lo on.
binary_search(xs, k) ==
  LET Bisect[n \in 0..Len(xs)] ==
        [lo \in 1..Len(xs) + 1 - n |->
           IF n = 0 THEN [found |-> FALSE, at |-> lo]
           ELSE LET mid == lo + n \div 2
                IN  IF xs[mid] = k THEN [found |-> TRUE, at |-> mid]
                    ELSE IF xs[mid] < k THEN Bisect[n - 1 - n \div 2][mid + 1]
                                        ELSE Bisect[n \div 2][lo]]
  IN  Bisect[Len(xs)][1]

has_access(c, k) == binary_search(ctrl[c].access_list, k).found

remaining_capacity(xs) == MAX_ADDRS - Len(xs)

\* Mutant of Inserted: the new key goes to the end.
InsertedLast(xs, k) ==
  IF binary_search(xs, k).found THEN xs ELSE Append(xs, k)

Inserted(xs, k) ==
  LET r == binary_search(xs, k)
  IN  IF r.found THEN xs ELSE InsertAt(xs, r.at, k)

Removed(xs, k) ==
  LET r == binary_search(xs, k) IN IF r.found THEN RemoveAt(xs, r.at) ELSE xs

add_access(c, signer, k) ==
  /\ signer = ctrl[c].owner
  /\ remaining_capacity(ctrl[c].access_list) > 0
  /\ ctrl' = [ctrl EXCEPT ![c].access_list = Inserted(@, k)]
  /\ granted' = [granted EXCEPT ![c] = @ \cup {k}]
  /\ UNCHANGED <<store, feed, agg, deviated, breach>>

remove_access(c, signer, k) ==
  /\ signer = ctrl[c].owner
  /\ ctrl' = [ctrl EXCEPT ![c].access_list = Removed(@, k)]
  /\ granted' = [granted EXCEPT ![c] = @ \ {k}]
  /\ UNCHANGED <<store, feed, agg, deviated, breach>>

-----------------------------------------------------------------------------
(***************************************************************************)
(* Ownership: proposed by the owner, accepted by the new one.  The three   *)
(* programs repeat the same two instructions; a feed may also be owned by  *)
(* the store, then the store's owner acts for it.                          *)
(***************************************************************************)
Pending == Cardinality({c \in Ctrl : ctrl[c].proposed_owner # Default})
             + Cardinality({r \in {store, agg} : r.proposed_owner # Default})
             + IF feed.open /\ feed.proposed_owner # Default THEN 1 ELSE 0

Proposed(r, k) == [r EXCEPT !.proposed_owner = k]

Accepted(r) == [r EXCEPT !.owner = r.proposed_owner,
                         !.proposed_owner = Default]

transfer_ownership(c, signer, k) ==
  /\ ctrl[c].proposed_owner # Default \/ Pending < MaxPending
  /\ signer = ctrl[c].owner
  /\ ctrl' = [ctrl EXCEPT ![c] = Proposed(@, k)]
  /\ UNCHANGED <<store, feed, agg, history>>

accept_ownership(c, signer) ==
  /\ signer = ctrl[c].proposed_owner
  /\ ctrl' = [ctrl EXCEPT ![c] = Accepted(@)]
  /\ UNCHANGED <<store, feed, agg, history>>

transfer_store_ownership(signer, k) ==
  /\ store.proposed_owner # Default \/ Pending < MaxPending
  /\ signer = store.owner
  /\ store' = Proposed(store, k)
  /\ UNCHANGED <<ctrl, feed, agg, history>>

accept_store_ownership(signer) ==
  /\ signer = store.proposed_owner
  /\ store' = Accepted(store)
  /\ UNCHANGED <<ctrl, feed, agg, history>>

transfer_aggregator_ownership(signer, k) ==
  /\ agg.proposed_owner # Default \/ Pending < MaxPending
  /\ signer = agg.owner
  /\ agg' = Proposed(agg, k)
  /\ UNCHANGED <<ctrl, store, feed, history>>

accept_aggregator_ownership(signer) ==
  /\ signer = agg.proposed_owner
  /\ agg' = Accepted(agg)
  /\ UNCHANGED <<ctrl, store, feed, history>>

\* The key that has to sign for an owner: a store's owner signs for it.
SignerOf(o) == IF o = S THEN store.owner ELSE o

\* Access control owner(), on an account that has to be feed.owner.
owner(signer) == feed.open /\ signer = SignerOf(feed.owner)

transfer_feed_ownership(signer, o) ==
  /\ owner(signer)
  /\ feed.proposed_owner # Default \/ Pending < MaxPending
  /\ feed' = Proposed(feed, o)
  /\ UNCHANGED <<ctrl, store, agg, history>>

\* Mutant of accept_feed_ownership: the proposed owner need not sign.
accept_feed_unsigned(signer) ==
  /\ feed.open
  /\ feed' = Accepted(feed)
  /\ UNCHANGED <<ctrl, store, agg, history>>

accept_feed_ownership(signer) ==
  /\ feed.open /\ signer = SignerOf(feed.proposed_owner)
  /\ feed' = Accepted(feed)
  /\ UNCHANGED <<ctrl, store, agg, history>>

-----------------------------------------------------------------------------
(***************************************************************************)
(* The feed.                                                               *)
(***************************************************************************)
create_feed(signer) ==
  /\ ~feed.open
  /\ feed' = [open |-> TRUE, owner |-> signer, proposed_owner |-> Default,
              writer |-> Default, state |-> "NORMAL", flagging_threshold |-> 0,
              latest |-> <<>>]
  /\ deviated' = FALSE
  /\ UNCHANGED <<ctrl, store, agg, granted, breach>>

close_feed(signer) ==
  /\ owner(signer)
  /\ feed' = [open |-> FALSE]
  /\ UNCHANGED <<ctrl, store, agg, history>>

set_validator_config(signer, threshold) ==
  /\ owner(signer)
  /\ feed' = [feed EXCEPT !.flagging_threshold = threshold]
  /\ UNCHANGED <<ctrl, store, agg, history>>

set_writer(signer, writer) ==
  /\ owner(signer)
  /\ feed' = [feed EXCEPT !.writer = writer]
  /\ UNCHANGED <<ctrl, store, agg, history>>

Abs(x) == IF x < 0 THEN -x ELSE x

\* Mutant of is_valid: a change at the threshold is flagged, too.
is_validBelow(threshold, previous, answer) ==
  \/ previous = 0
  \/ LET ratio_numerator == Abs(answer - previous) * THRESHOLD_MULTIPLIER
     IN  /\ ratio_numerator <= U128Max
         /\ ratio_numerator \div Abs(previous) < threshold

is_valid(threshold, previous, answer) ==
  \/ previous = 0
  \/ LET ratio_numerator == Abs(answer - previous) * THRESHOLD_MULTIPLIER
     IN  /\ ratio_numerator <= U128Max
         /\ ratio_numerator \div Abs(previous) <= threshold

(***************************************************************************)
(* What is_valid is for: the change is less than threshold + 1 parts of    *)
(* the previous answer, and not too large for the comparison.              *)
(***************************************************************************)
Within(threshold, previous, answer) ==
  LET change == Abs(answer - previous) * THRESHOLD_MULTIPLIER
  IN  \/ previous = 0
      \/ change <= U128Max /\ change < (threshold + 1) * Abs(previous)

\* The change from the latest answer passes; the first answer has none.
Validated(answer) ==
  \A i \in DOMAIN feed.latest :
    is_valid(feed.flagging_threshold, feed.latest[i], answer)

Deviates(answer) ==
  \E i \in DOMAIN feed.latest :
    ~Within(feed.flagging_threshold, feed.latest[i], answer)

\* By cross-program invocation from the aggregator's transmit.
submit(answer) ==
  /\ feed.open /\ feed.writer = StoreAuthority
  /\ feed' = [feed EXCEPT !.latest = <<answer>>,
                          !.state = IF Validated(answer) THEN @
                                    ELSE "FLAGGED"]
  /\ deviated' = (deviated \/ Deviates(answer))
  /\ UNCHANGED <<ctrl, store, agg, granted, breach>>

-----------------------------------------------------------------------------
(***************************************************************************)
(* Instructions open to an access list.  The caller names the controller.  *)
(***************************************************************************)
\* Mutant of has_lowering_access: any controller will do.
has_lowering_access_any(signer, c) ==
  IF feed.owner = S THEN signer = store.owner \/ has_access(c, signer)
                    ELSE signer = feed.owner

has_lowering_access(signer, c) ==
  IF feed.owner = S
  THEN \/ signer = store.owner
       \/ c = store.lowering_access_controller /\ has_access(c, signer)
  ELSE signer = feed.owner

lower_flag(signer, c) ==
  /\ feed.open /\ has_lowering_access(signer, c)
  /\ feed' = [feed EXCEPT !.state = "NORMAL"]
  /\ deviated' = FALSE
  /\ Audit("lower_flag",
           \/ signer = SignerOf(feed.owner)
           \/ /\ feed.owner = S
              /\ signer \in granted[store.lowering_access_controller])
  /\ UNCHANGED <<ctrl, store, agg, granted>>

set_lowering_access_controller(signer, c) ==
  /\ signer = store.owner
  /\ store' = [store EXCEPT !.lowering_access_controller = c]
  /\ UNCHANGED <<ctrl, feed, agg, history>>

has_billing_access(signer, c) ==
  /\ c = agg.billing_access_controller
  /\ signer = agg.owner \/ has_access(c, signer)

has_requester_access(signer, c) ==
  /\ c = agg.requester_access_controller
  /\ signer = agg.owner \/ has_access(c, signer)

Entitled(signer, c) == signer = agg.owner \/ signer \in granted[c]

\* set_billing, pay_oracles, withdraw_funds: what they do is in Aggregator.
billing_instruction(signer, c) ==
  /\ has_billing_access(signer, c)
  /\ Audit("billing", Entitled(signer, agg.billing_access_controller))
  /\ UNCHANGED <<ctrl, store, feed, agg, granted, deviated>>

request_new_round(signer, c) ==
  /\ has_requester_access(signer, c)
  /\ Audit("request_new_round",
           Entitled(signer, agg.requester_access_controller))
  /\ UNCHANGED <<ctrl, store, feed, agg, granted, deviated>>

set_billing_access_controller(signer, c) ==
  /\ signer = agg.owner
  /\ agg' = [agg EXCEPT !.billing_access_controller = c]
  /\ UNCHANGED <<ctrl, store, feed, history>>

set_requester_access_controller(signer, c) ==
  /\ signer = agg.owner
  /\ agg' = [agg EXCEPT !.requester_access_controller = c]
  /\ UNCHANGED <<ctrl, store, feed, history>>

-----------------------------------------------------------------------------
CtrlStep(signer) ==
  \E c \in Ctrl, k \in Key :
    \/ add_access(c, signer, k) \/ remove_access(c, signer, k)
    \/ transfer_ownership(c, signer, k) \/ accept_ownership(c, signer)
    \/ transfer_ownership(c, signer, Default)

FeedStep(signer) ==
  \/ create_feed(signer) \/ close_feed(signer)
  \/ \E t \in Threshold : set_validator_config(signer, t)
  \/ set_writer(signer, StoreAuthority) \/ set_writer(signer, Default)
  \/ \E o \in Owner \cup {Default} : transfer_feed_ownership(signer, o)
  \/ accept_feed_ownership(signer)
  \/ \E c \in Ctrl : lower_flag(signer, c)

StoreStep(signer) ==
  \/ \E k \in Key \cup {Default} : transfer_store_ownership(signer, k)
  \/ accept_store_ownership(signer)
  \/ \E c \in Ctrl : set_lowering_access_controller(signer, c)

AggregatorStep(signer) ==
  \/ \E k \in Key \cup {Default} : transfer_aggregator_ownership(signer, k)
  \/ accept_aggregator_ownership(signer)
  \/ \E c \in Ctrl : \/ set_billing_access_controller(signer, c)
                     \/ set_requester_access_controller(signer, c)
                     \/ billing_instruction(signer, c)
                     \/ request_new_round(signer, c)

Next ==
  \/ \E signer \in Key : \/ CtrlStep(signer) \/ FeedStep(signer)
                         \/ StoreStep(signer) \/ AggregatorStep(signer)
  \/ \E a \in Answer : submit(a)

Spec == Init /\ [][Next]_vars

-----------------------------------------------------------------------------
(***************************************************************************)
(* The access list answers exactly for those who were added and not        *)
(* removed since: insertions and removals keep the array sorted and        *)
(* without duplicates, as the bisection needs, up to a full list.          *)
(***************************************************************************)
AccessListIsTheSet ==
  \A c \in Ctrl :
    /\ \A k \in Key : has_access(c, k) <=> k \in granted[c]
    /\ Len(ctrl[c].access_list) = Cardinality(granted[c])

(***************************************************************************)
(* No instruction that is open to an access list goes through for someone  *)
(* who is neither the owner nor on the list that the store or the          *)
(* aggregator names at that moment, whichever controller the caller        *)
(* passes.                                                                 *)
(***************************************************************************)
NoBreach == breach = {}

(***************************************************************************)
(* Ownership is never lost: after any sequence of proposals, withdrawn     *)
(* proposals and acceptances every account has an owner for whom somebody  *)
(* can sign.                                                               *)
(***************************************************************************)
OwnershipKept ==
  /\ \A c \in Ctrl : ctrl[c].owner \in Key
  /\ store.owner \in Key /\ agg.owner \in Key
  /\ feed.open => feed.owner \in Owner

(***************************************************************************)
(* The flag tells of deviations: it is up exactly when some round since it *)
(* was last lowered deviated by more than the threshold set at that time,  *)
(* or by more than the comparison can hold.                                *)
(***************************************************************************)
FlagTracksDeviation == feed.open => (feed.state = "FLAGGED" <=> deviated)
=============================================================================

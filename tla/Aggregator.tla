----------------------------- MODULE Aggregator -----------------------------
(***************************************************************************)
(* The OCR2 aggregator (contracts/programs/ocr_2/src/lib.rs): the oracle   *)
(* set it accepts from a proposal, the reports it accepts from             *)
(* transmitters, and what it owes and pays to the oracles' payees.         *)
(*                                                                         *)
(* A payment leaves the vault for the payee, or for the token receiver     *)
(* when the payee's token account is gone; both settle the same debt, so   *)
(* the destination is left out.  config_digest_from_data hashes            *)
(* config_count, so config_count stands for the digest.                    *)
(*                                                                         *)
(* earned, paid and answer are history variables: what every oracle has    *)
(* earned, what was transferred for it, and the last median accepted.      *)
(***************************************************************************)
EXTENDS Proposals, Integers, FiniteSetsExt

CONSTANTS
  token_mint,                  \* the mint of the aggregator's vault
  min_answer, max_answer,
  Answer,                      \* medians that reports may carry
  HonestAnswer,                \* medians that a correct oracle would sign
  Faulty,                      \* signers that may sign anything
  Epochs, Rounds,              \* epochs and rounds of reports
  Observers,                   \* observer counts of reports
  Price,                       \* prices set_billing is called with
  JuelsPerLamport,             \* exchange rates of reports
  ComputeUnitPrice,            \* compute unit prices of transmit calls
  LAMPORTS_PER_SIGNATURE, EXEC_PER_SIGNATURE, EXEC_BASE, MICRO, GIGA,
  U32Max, U64Max,              \* largest u32 and u64
  MaxConfigCount,              \* bound: proposals accepted (U32Max in the code)
  Amount,                      \* amounts that are sent to or withdrawn
  MaxFund                      \* bound: tokens ever sent to the vault

ASSUME AggregatorAssumption ==
  /\ Signer \subseteq Nat
  /\ Price \subseteq Nat /\ JuelsPerLamport \subseteq Nat
  /\ ComputeUnitPrice \ {None} \subseteq Nat
  /\ Epochs \subseteq Nat /\ Rounds \subseteq Nat /\ Observers \subseteq Nat
  /\ LAMPORTS_PER_SIGNATURE \in Nat /\ EXEC_PER_SIGNATURE \in Nat
  /\ EXEC_BASE \in Nat /\ MICRO \in Nat \ {0} /\ GIGA \in Nat \ {0}
  /\ U32Max \in Nat /\ U64Max \in Nat /\ MaxFund \in Nat
  /\ MaxConfigCount \in 0..U32Max
  /\ Amount \subseteq Nat

VARIABLES
  is_open,          \* the state account exists
  oracles,          \* [signer |-> [transmitter, payee, proposed_payee,
                    \*              from_round_id, payment_gjuels]]
  cfg_f,            \* config.f
  epoch, round,
  latest_round_id,  \* config.latest_aggregator_round_id
  config_count,
  billing,          \* [observation, transmission], in gjuels
  vault,            \* balance of the token vault
  funded,           \* tokens ever sent to the vault
  earned, paid, answer

configVars == <<oracles, cfg_f, config_count>>
reportVars == <<epoch, round, latest_round_id, answer>>
books == <<earned, paid>>
vars == <<proposals, is_open, configVars, reportVars, billing, vault, funded,
          books>>

OracleSet == DOMAIN oracles

-----------------------------------------------------------------------------
(* Arithmetic on u64: saturating_add saturates, checked_* abort. *)
Saturate(n) == IF n > U64Max THEN U64Max ELSE n

calculate_owed_payment_gjuels(o) ==
  (latest_round_id - o.from_round_id) * billing.observation + o.payment_gjuels

Owed == [s \in OracleSet |-> calculate_owed_payment_gjuels(oracles[s])]

TotalOwed == MapThenSumSet(LAMBDA s : Owed[s], OracleSet)

RoundsDue ==
  MapThenSumSet(LAMBDA s : latest_round_id - oracles[s].from_round_id,
                OracleSet)

PaymentsDue ==
  MapThenSumSet(LAMBDA s : oracles[s].payment_gjuels, OracleSet)

\* Mutant of calculate_total_link_due_gjuels: forgets the reimbursements.
linkDueWithoutPayments == billing.observation * RoundsDue

calculate_total_link_due_gjuels ==
  billing.observation * RoundsDue + PaymentsDue

\* The checked operations of calculate_total_link_due_gjuels succeed.
LinkDueFits ==
  /\ RoundsDue <= U32Max
  /\ calculate_total_link_due_gjuels <= U64Max

compute_unit_fee(price, signatures) ==
  LET exec_units == EXEC_PER_SIGNATURE * signatures + EXEC_BASE
      micro_lamport_fee == Saturate(exec_units * price)
  IN  Saturate(micro_lamport_fee + MICRO - 1) \div MICRO

calculate_reimbursement_gjuels(juels_per_lamport, signatures, price) ==
  LET fee == IF price = None THEN 0 ELSE compute_unit_fee(price, signatures)
      lamports == Saturate(LAMPORTS_PER_SIGNATURE + fee)
  IN  Saturate((lamports * juels_per_lamport) \div GIGA)

-----------------------------------------------------------------------------
Init ==
  /\ ProposalsInit
  /\ is_open = TRUE
  /\ oracles = NoOracles
  /\ cfg_f = 0
  /\ epoch = 0 /\ round = 0 /\ latest_round_id = 0
  /\ config_count = 0
  /\ billing = [observation |-> 0, transmission |-> 0]
  /\ vault = 0 /\ funded = 0
  /\ earned = [s \in Signer |-> 0]
  /\ paid = [s \in Signer |-> 0]
  /\ answer = None

(***************************************************************************)
(* pay_oracles_impl, as a part of the instructions that call it: every     *)
(* oracle is paid or, when one amount overflows or the vault does not hold *)
(* the total, the instruction fails.                                       *)
(***************************************************************************)
Settled == [s \in OracleSet |->
              [oracles[s] EXCEPT !.payment_gjuels = 0,
                                 !.from_round_id = latest_round_id]]

PayAll ==
  /\ is_open
  /\ \A s \in OracleSet : Owed[s] <= U64Max
  /\ TotalOwed <= vault
  /\ paid' = [s \in Signer |->
                IF s \in OracleSet THEN paid[s] + Owed[s] ELSE paid[s]]

pay_oracles ==
  /\ PayAll
  /\ oracles' = Settled
  /\ vault' = vault - TotalOwed
  /\ UNCHANGED <<proposals, is_open, cfg_f, config_count, reportVars,
                 billing, funded, earned>>

\* Mutant of set_billing: does not pay at the old price first.
set_billingUnpaid(observation, transmission) ==
  /\ is_open
  /\ billing' = [observation |-> observation, transmission |-> transmission]
  /\ UNCHANGED <<proposals, is_open, oracles, vault, paid, cfg_f,
                 config_count, reportVars, funded, earned>>

set_billing(observation, transmission) ==
  /\ PayAll
  /\ oracles' = Settled
  /\ vault' = vault - TotalOwed
  /\ billing' = [observation |-> observation, transmission |-> transmission]
  /\ UNCHANGED <<proposals, is_open, cfg_f, config_count, reportVars, funded,
                 earned>>

\* After the payout, close sends the rest of the vault to the receiver.
close ==
  /\ PayAll
  /\ is_open' = FALSE
  /\ oracles' = NoOracles
  /\ vault' = 0
  /\ UNCHANGED <<proposals, cfg_f, config_count, reportVars, billing, funded,
                 earned>>

(***************************************************************************)
(* accept_proposal: pays the old oracles, replaces them and closes the     *)
(* proposal.  epoch and round are not reset.  The owner passes the digest  *)
(* of the proposal it has reviewed: any other digest fails.                *)
(***************************************************************************)
\* The oracles of a proposal, as accept_proposal pushes them.
Accepted(p) ==
  [s \in DOMAIN proposals[p].oracles |->
     [transmitter |-> proposals[p].oracles[s].transmitter,
      payee |-> proposals[p].oracles[s].payee,
      proposed_payee |-> Default,
      from_round_id |-> latest_round_id,
      payment_gjuels |-> 0]]

accept_proposal(p) ==
  /\ PayAll
  /\ vault' = vault - TotalOwed
  /\ proposals[p] # None
  /\ proposals[p].state = FINALIZED
  /\ proposals[p].token_mint = token_mint
  /\ config_count < MaxConfigCount
  /\ oracles' = Accepted(p)
  /\ cfg_f' = proposals[p].f
  /\ config_count' = config_count + 1
  /\ proposals' = [proposals EXCEPT ![p] = None]
  /\ UNCHANGED <<is_open, reportVars, billing, funded, earned>>

(***************************************************************************)
(* withdraw_funds and withdraw_payment                                     *)
(***************************************************************************)
withdraw_funds(amount) ==
  LET due == calculate_total_link_due_gjuels
      available == IF vault > due THEN vault - due ELSE 0
  IN
  /\ is_open
  /\ LinkDueFits
  /\ vault' = vault - (IF amount < available THEN amount ELSE available)
  /\ UNCHANGED <<proposals, is_open, configVars, reportVars, billing, funded,
                 books>>

\* The first oracle whose payee is the given account: Signer is ordered.
FirstWithPayee(payee) ==
  CHOOSE s \in OracleSet :
    /\ oracles[s].payee = payee
    /\ \A t \in OracleSet : oracles[t].payee = payee => s <= t

withdraw_payment(payee) ==
  LET s == FirstWithPayee(payee) IN
  /\ is_open
  /\ MintOf[payee] = token_mint
  /\ \E t \in OracleSet : oracles[t].payee = payee
  /\ Owed[s] <= U64Max
  /\ Owed[s] <= vault
  /\ oracles' = [oracles EXCEPT ![s].payment_gjuels = 0,
                                ![s].from_round_id = latest_round_id]
  /\ vault' = vault - Owed[s]
  /\ paid' = [paid EXCEPT ![s] = @ + Owed[s]]
  /\ UNCHANGED <<proposals, is_open, cfg_f, config_count, reportVars,
                 billing, funded, earned>>

(***************************************************************************)
(* transfer_payeeship and accept_payeeship                                 *)
(***************************************************************************)
transfer_payeeship(s, proposed) ==
  /\ is_open
  /\ oracles[s].payee # proposed
  /\ MintOf[proposed] = token_mint
  /\ oracles' = [oracles EXCEPT ![s].proposed_payee = proposed]
  /\ UNCHANGED <<proposals, is_open, cfg_f, config_count, reportVars,
                 billing, vault, funded, books>>

accept_payeeship(s) ==
  /\ is_open
  /\ oracles[s].proposed_payee \in Payee
  /\ oracles' = [oracles EXCEPT ![s].payee = oracles[s].proposed_payee,
                                ![s].proposed_payee = Default]
  /\ UNCHANGED <<proposals, is_open, cfg_f, config_count, reportVars,
                 billing, vault, funded, books>>

(***************************************************************************)
(* transmit                                                                *)
(***************************************************************************)
Report == [digest : 0..MaxConfigCount, epoch : Epochs, round : Rounds,
           observer_count : Observers, median : Answer,
           juels_per_lamport : JuelsPerLamport]

Newer(rep) == \/ rep.epoch > epoch
              \/ rep.epoch = epoch /\ rep.round > round

\* Mutant of SignaturesVerify: signatures of one oracle count twice.
SignaturesVerifyDuplicates(sigs) ==
  \A i \in DOMAIN sigs : sigs[i] \in OracleSet

\* Every signature recovers to an oracle, no two of them to the same one.
SignaturesVerify(sigs) ==
  /\ \A i \in DOMAIN sigs : sigs[i] \in OracleSet
  /\ Cardinality({sigs[i] : i \in DOMAIN sigs}) = cfg_f + 1

\* External: only a faulty signer signs a median no correct oracle would.
SignaturesExist(rep, sigs) ==
  rep.median \in HonestAnswer \/ \A i \in DOMAIN sigs : sigs[i] \in Faulty

\* What oracle s earns from a round that oracle t transmits.
RoundEarning(s, t, amount) ==
  (IF s \in OracleSet THEN billing.observation ELSE 0)
    + (IF s = t THEN amount ELSE 0)

\* t is the oracle whose transmitter signs the transaction.  store::submit
\* may refuse the round, which reverts the instruction.
transmit(t, rep, price) ==
  LET reimbursement == calculate_reimbursement_gjuels(
                         rep.juels_per_lamport, cfg_f + 1, price)
      amount == Saturate(reimbursement + billing.transmission)
  IN
  /\ is_open
  /\ Newer(rep)
  /\ rep.digest = config_count
  /\ cfg_f < rep.observer_count
  /\ min_answer <= rep.median /\ rep.median <= max_answer
  /\ latest_round_id < U32Max
  /\ {sigs \in [1..(cfg_f + 1) -> Signer] :
        SignaturesExist(rep, sigs) /\ SignaturesVerify(sigs)} # {}
  /\ epoch' = rep.epoch
  /\ round' = rep.round
  /\ latest_round_id' = latest_round_id + 1
  /\ oracles' = [oracles EXCEPT ![t].payment_gjuels = Saturate(@ + amount)]
  /\ answer' = rep.median
  /\ earned' = [s \in Signer |-> earned[s] + RoundEarning(s, t, amount)]
  /\ UNCHANGED <<proposals, is_open, cfg_f, config_count, billing, vault,
                 funded, paid>>

\* External: anyone may send tokens to the vault.
Fund(amount) ==
  /\ funded + amount <= MaxFund
  /\ vault' = vault + amount
  /\ funded' = funded + amount
  /\ UNCHANGED <<proposals, is_open, configVars, reportVars, billing, books>>

Next ==
  \/ ProposalsNext /\ UNCHANGED <<is_open, configVars, reportVars, billing,
                                  vault, funded, books>>
  \/ \E p \in ProposalId : accept_proposal(p)
  \/ pay_oracles
  \/ \E o, t \in Price : set_billing(o, t)
  \/ close
  \/ \E amount \in Amount : withdraw_funds(amount) \/ Fund(amount)
  \/ \E payee \in Payee : withdraw_payment(payee)
  \/ \E s \in OracleSet : \/ \E q \in Payee : transfer_payeeship(s, q)
                          \/ accept_payeeship(s)
  \/ \E s \in OracleSet, rep \in Report, price \in ComputeUnitPrice :
       transmit(s, rep, price)

Spec == Init /\ [][Next]_vars

-----------------------------------------------------------------------------
(***************************************************************************)
(* The oracle set in force was finalized as a whole: 3f < n, transmitters  *)
(* are distinct, and every payee is a token account of the aggregator's    *)
(* mint, although several authorities edit proposals, proposals close and  *)
(* reopen, and payees hand over their payeeship.                           *)
(***************************************************************************)
ActiveConfigValid ==
  (config_count > 0 /\ is_open) =>
    /\ cfg_f > 0 /\ 3 * cfg_f < Cardinality(OracleSet)
    /\ \A s, t \in OracleSet :
         s # t => oracles[s].transmitter # oracles[t].transmitter
    /\ \A s \in OracleSet : /\ oracles[s].payee \in Payee
                            /\ MintOf[oracles[s].payee] = token_mint

(***************************************************************************)
(* Accounting of payments: whatever prices and oracle sets came and went,  *)
(* an oracle is never paid, or owed, more than it has earned, and exactly  *)
(* what it has earned unless that overflowed a u64.                        *)
(***************************************************************************)
OwedTo(s) == IF s \in OracleSet THEN Owed[s] ELSE 0

AccountsBalance ==
  \A s \in Signer :
    /\ paid[s] + OwedTo(s) <= earned[s]
    /\ earned[s] <= U64Max => paid[s] + OwedTo(s) = earned[s]

(***************************************************************************)
(* A vault that covers what is owed covers it until the next transmission  *)
(* or the close: no withdrawal, payout or change of price or oracles       *)
(* takes what oracles have earned.                                         *)
(***************************************************************************)
StaysSolvent ==
  [][(is_open /\ TotalOwed <= vault /\ latest_round_id' = latest_round_id)
       => TotalOwed' <= vault']_vars

(***************************************************************************)
(* While at most f signers of the oracle set in force are faulty, whatever *)
(* f it was accepted with, transmit accepts no median that no correct      *)
(* oracle would sign.                                                      *)
(***************************************************************************)
Tolerated == Cardinality(OracleSet \cap Faulty) <= cfg_f

AnswerEndorsed ==
  [][(<<epoch, round>>' # <<epoch, round>> /\ Tolerated)
       => answer' \in HonestAnswer]_vars
=============================================================================

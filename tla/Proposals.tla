----------------------------- MODULE Proposals -----------------------------
(***************************************************************************)
(* Configuration proposals of the OCR2 program                             *)
(* (contracts/programs/ocr_2/src/lib.rs): the staging accounts in which an *)
(* authority assembles a set of oracles before the aggregator accepts it.  *)
(*                                                                         *)
(* propose_config sorts the oracles by signer and refuses duplicates, so a *)
(* set of oracles is a function of the signer here.  The off-chain config  *)
(* is the number of bytes written.  An instruction that fails is reverted  *)
(* as a whole and is not an action.                                        *)
(***************************************************************************)
EXTENDS Naturals, Sequences, FiniteSets

CONSTANTS
  ProposalId,     \* proposal accounts
  Authority,      \* accounts that sign instructions
  Signer,         \* signing keys of oracles
  Transmitter,    \* accounts from which oracles transmit
  Payee,          \* token accounts
  Mint,           \* token mints
  MintOf,         \* MintOf[p]: the mint of token account p
  Default,        \* Pubkey::default()
  None,           \* an account that is not initialised, or an absent value
  OracleLists,    \* the lists of oracles that propose_config is called with
  PayeeLists,     \* the payees that propose_payees is called with, by signer
  MaxF,           \* bound: largest f that propose_config is called with
  MAX_ORACLES,
  MaxConfigLen    \* capacity of the off-chain config

ASSUME ProposalsAssumption ==
  /\ \A list \in OracleLists :
       list \in Seq([signer : Signer, transmitter : Transmitter])
  /\ PayeeLists \subseteq [Signer -> Payee]
  /\ MintOf \in [Payee -> Mint]
  /\ MaxF \in Nat /\ MAX_ORACLES \in Nat /\ MaxConfigLen \in Nat
  /\ Default \notin Payee

VARIABLE proposals

NEW_PROPOSAL == 0
FINALIZED == 1

NoOracles == [s \in {} |-> Default]

create_proposal(p, authority) ==
  /\ proposals[p] = None
  /\ proposals' = [proposals EXCEPT ![p] =
       [owner |-> authority, state |-> NEW_PROPOSAL, f |-> 0,
        token_mint |-> Default, oracles |-> NoOracles, offchain_len |-> 0]]

\* The accounts of ProposeConfig: the authority that created the proposal.
Writable(p, authority) ==
  /\ proposals[p] # None
  /\ proposals[p].owner = authority
  /\ proposals[p].state # FINALIZED

write_offchain_config(p, authority, len) ==
  /\ Writable(p, authority)
  /\ len <= MaxConfigLen - proposals[p].offchain_len
  /\ proposals' = [proposals EXCEPT ![p].offchain_len = @ + len]

Distinct(list) ==
  \A i, j \in 1..Len(list) :
    i # j => /\ list[i].signer # list[j].signer
             /\ list[i].transmitter # list[j].transmitter

\* The oracles of a list, keyed by signer, without payees.
Staged(list) ==
  [s \in {list[i].signer : i \in 1..Len(list)} |->
     [transmitter |-> list[CHOOSE i \in 1..Len(list) :
                             list[i].signer = s].transmitter,
      payee |-> Default]]

\* Mutant of propose_config: writes into a finalized proposal.
propose_configAnyState(p, authority, list, f) ==
  /\ proposals[p] # None /\ proposals[p].owner = authority
  /\ f # 0 /\ Len(list) <= MAX_ORACLES /\ 3 * f < Len(list)
  /\ Distinct(list)
  /\ proposals' = [proposals EXCEPT ![p].oracles = Staged(list), ![p].f = f]

propose_config(p, authority, list, f) ==
  /\ f # 0
  /\ Len(list) <= MAX_ORACLES
  /\ 3 * f < Len(list)
  /\ Writable(p, authority)
  /\ Distinct(list)
  /\ proposals' = [proposals EXCEPT ![p].oracles = Staged(list), ![p].f = f]

\* One token account for each staged oracle, all of the given mint.
propose_payees(p, authority, payees, mint) ==
  /\ Writable(p, authority)
  /\ \A s \in DOMAIN proposals[p].oracles : MintOf[payees[s]] = mint
  /\ proposals' = [proposals EXCEPT
       ![p].oracles = [s \in DOMAIN @ |-> [@[s] EXCEPT !.payee = payees[s]]],
       ![p].token_mint = mint]

finalize_proposal(p, authority) ==
  /\ Writable(p, authority)
  /\ proposals[p].offchain_len > 0
  /\ DOMAIN proposals[p].oracles # {}
  /\ \A s \in DOMAIN proposals[p].oracles :
       proposals[p].oracles[s].payee # Default
  /\ proposals' = [proposals EXCEPT ![p].state = FINALIZED]

close_proposal(p, authority) ==
  /\ proposals[p] # None
  /\ proposals[p].owner = authority
  /\ proposals' = [proposals EXCEPT ![p] = None]

ProposalsInit == proposals = [p \in ProposalId |-> None]

ProposalStep(p, authority) ==
  \/ create_proposal(p, authority)
  \/ \E len \in 0..MaxConfigLen : write_offchain_config(p, authority, len)
  \/ \E list \in OracleLists, f \in 0..MaxF :
       propose_config(p, authority, list, f)
  \/ \E payees \in PayeeLists, mint \in Mint :
       propose_payees(p, authority, payees, mint)
  \/ finalize_proposal(p, authority)
  \/ close_proposal(p, authority)

ProposalsNext == \E p \in ProposalId, a \in Authority : ProposalStep(p, a)
=============================================================================

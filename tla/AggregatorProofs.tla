-------------------------- MODULE AggregatorProofs --------------------------
(***************************************************************************)
(* The oracle set in force is well formed, only endorsed medians are       *)
(* accepted, the oracles' accounts balance and a vault that covers them    *)
(* stays so, for any number of oracles, proposals and payees, any prices   *)
(* and any word sizes.                                                     *)
(***************************************************************************)
EXTENDS Aggregator, FiniteSetTheorems, WellFoundedInduction, TLAPS

StagedOracle == [transmitter : Transmitter, payee : Payee \cup {Default}]

StagedOracles == UNION {[S -> StagedOracle] : S \in SUBSET Signer}

Proposal == [owner : Authority, state : {NEW_PROPOSAL, FINALIZED}, f : Nat,
             token_mint : Mint \cup {Default}, oracles : StagedOracles,
             offchain_len : Nat]

ActiveOracle == [transmitter : Transmitter, payee : Payee,
                 proposed_payee : Payee \cup {Default}, from_round_id : Nat,
                 payment_gjuels : Nat]

TypeOK ==
  /\ proposals \in [ProposalId -> Proposal \cup {None}]
  /\ OracleSet \subseteq Signer /\ oracles \in [OracleSet -> ActiveOracle]
  /\ cfg_f \in Nat /\ config_count \in Nat /\ latest_round_id \in Nat
  /\ billing \in [observation : Nat, transmission : Nat]
  /\ earned \in [Signer -> Nat] /\ paid \in [Signer -> Nat]

(* What propose_config has checked of a set of signers. *)
SizeFits(S, f) ==
  /\ IsFiniteSet(S) /\ f > 0 /\ 3 * f < Cardinality(S)

OwnTransmitters(o) ==
  \A s, t \in DOMAIN o : s # t => o[s].transmitter # o[t].transmitter

(***************************************************************************)
(* A proposal holds the oracles of one propose_config, with the payees of  *)
(* the last propose_payees since, or with none; a finalized one has both.  *)
(***************************************************************************)
ProposalFits(P) ==
  /\ DOMAIN P.oracles # {} =>
       SizeFits(DOMAIN P.oracles, P.f) /\ OwnTransmitters(P.oracles)
  /\ \A s \in DOMAIN P.oracles : P.oracles[s].payee # Default =>
       MintOf[P.oracles[s].payee] = P.token_mint
  /\ P.state = FINALIZED =>
       /\ DOMAIN P.oracles # {}
       /\ \A s \in DOMAIN P.oracles : P.oracles[s].payee # Default

ProposalsFit ==
  \A p \in ProposalId : proposals[p] # None => ProposalFits(proposals[p])

(***************************************************************************)
(* The oracle set in force was accepted from such a proposal; without one  *)
(* it is empty, so nobody can transmit.  A payeeship under way is to an    *)
(* account of the right mint, too.                                         *)
(***************************************************************************)
ConfigFits ==
  /\ OracleSet # {} =>
       SizeFits(OracleSet, cfg_f) /\ OwnTransmitters(oracles)
  /\ (config_count > 0 /\ is_open) => OracleSet # {}
  /\ \A s \in OracleSet : MintOf[oracles[s].payee] = token_mint
  /\ \A s \in OracleSet : oracles[s].proposed_payee \in Payee =>
       MintOf[oracles[s].proposed_payee] = token_mint

NoFutureRounds ==
  \A s \in OracleSet : oracles[s].from_round_id <= latest_round_id

ConfigInv == TypeOK /\ ProposalsFit /\ ConfigFits /\ NoFutureRounds

-----------------------------------------------------------------------------
(* Staged oracles are a function on some of the signers. *)
LEMMA StagedFunction ==
  ASSUME NEW o \in StagedOracles
  PROVE  DOMAIN o \subseteq Signer /\ o \in [DOMAIN o -> StagedOracle]
  <1>1. PICK S \in SUBSET Signer : o \in [S -> StagedOracle]
    BY DEF StagedOracles
  <1> QED  BY <1>1

(* Every function from some of the signers to staged oracles is staged. *)
LEMMA FunctionStaged ==
  ASSUME NEW S \in SUBSET Signer, NEW o \in [S -> StagedOracle]
  PROVE  o \in StagedOracles
  BY DEF StagedOracles

(* A list of oracles with distinct signers has one signer per entry. *)
LEMMA DistinctCardinality ==
  ASSUME NEW list \in Seq([signer : Signer, transmitter : Transmitter]),
         Distinct(list)
  PROVE  LET S == {list[i].signer : i \in 1..Len(list)}
         IN  IsFiniteSet(S) /\ Cardinality(S) = Len(list)
  <1> DEFINE n == Len(list)
             S == {list[i].signer : i \in 1..n}
             g == [i \in 1..n |-> list[i].signer]
  <1>1. n \in Nat  OBVIOUS
  <1>2. IsFiniteSet(1..n) /\ Cardinality(1..n) = n
    BY <1>1, FS_Interval
  <1>3. g \in [1..n -> S]  OBVIOUS
  <1>4. g \in Injection(1..n, S) /\ g \in Surjection(1..n, S)
    BY <1>3 DEF Injection, IsInjective, Surjection, Distinct
  <1>5. ExistsBijection(1..n, S)
    BY <1>4 DEF ExistsBijection, Bijection
  <1>6. IsFiniteSet(S) /\ Cardinality(S) = n
    <2> HIDE DEF S, n
    <2> QED  BY <1>2, <1>5, FS_Bijection
  <1> QED  BY <1>6

(* What propose_config stages from a list that it accepts. *)
LEMMA StagedFits ==
  ASSUME NEW list \in OracleLists, NEW f \in 0..MaxF, f # 0,
         3 * f < Len(list), Distinct(list)
  PROVE  /\ Staged(list) \in StagedOracles
         /\ SizeFits(DOMAIN Staged(list), f) /\ OwnTransmitters(Staged(list))
         /\ \A s \in DOMAIN Staged(list) : Staged(list)[s].payee = Default
  <1> DEFINE S == {list[i].signer : i \in 1..Len(list)}
             o == Staged(list)
             at(s) == CHOOSE i \in 1..Len(list) : list[i].signer = s
  <1>1. list \in Seq([signer : Signer, transmitter : Transmitter])
    BY ProposalsAssumption
  <1>2. /\ DOMAIN o = S
        /\ \A s \in S : o[s] = [transmitter |-> list[at(s)].transmitter,
                                payee |-> Default]
    BY DEF Staged
  <1>3. ASSUME NEW s \in S
        PROVE  at(s) \in 1..Len(list) /\ list[at(s)].signer = s
    <2>1. \E i \in 1..Len(list) : list[i].signer = s  OBVIOUS
    <2> QED  BY <2>1
  <1>0. S \subseteq Signer /\ \A i \in 1..Len(list) : list[i].transmitter \in Transmitter
    <2> DEFINE R == [signer : Signer, transmitter : Transmitter]
    <2>1. \A i \in 1..Len(list) : list[i] \in R
      <3>1. list \in Seq(R)  BY <1>1
      <3> HIDE DEF R
      <3> QED  BY <3>1
    <2> QED  BY <2>1
  <1>5. SizeFits(S, f)
    <2>1. IsFiniteSet(S) /\ Cardinality(S) = Len(list)
      BY <1>1, DistinctCardinality
    <2>2. f \in 1..MaxF  BY ProposalsAssumption
    <2> HIDE DEF S
    <2> QED  BY <2>1, <2>2 DEF SizeFits
  <1>7. o = [s \in S |-> o[s]]  BY DEF Staged
  <1> HIDE DEF at, S, o
  <1>4. o \in StagedOracles
    <2>1. \A s \in S : o[s] \in StagedOracle
      BY <1>0, <1>2, <1>3 DEF StagedOracle
    <2>2. o \in [S -> StagedOracle]  BY <1>7, <2>1
    <2> QED  BY <1>0, <2>2, FunctionStaged
  <1>6. OwnTransmitters(o)
    <2> SUFFICES ASSUME NEW s \in S, NEW t \in S, s # t
                 PROVE  o[s].transmitter # o[t].transmitter
      BY <1>2 DEF OwnTransmitters
    <2>1. at(s) # at(t) /\ at(s) \in 1..Len(list) /\ at(t) \in 1..Len(list)
      BY <1>3
    <2> QED  BY <1>2, <2>1 DEF Distinct
  <1>8. \A s \in DOMAIN o : o[s].payee = Default  BY <1>2
  <1> QED  BY <1>2, <1>4, <1>5, <1>6, <1>8 DEF o

ProposalsInv == proposals \in [ProposalId -> Proposal \cup {None}] /\ ProposalsFit

(* Replacing one proposal by one that fits, or by none. *)
LEMMA ProposalReplaced ==
  ASSUME ProposalsInv, NEW p \in ProposalId, NEW P \in Proposal \cup {None},
         P # None => ProposalFits(P),
         proposals' = [proposals EXCEPT ![p] = P]
  PROVE  ProposalsInv'
  BY DEF ProposalsInv, ProposalsFit

(***************************************************************************)
(* Every instruction on a proposal leaves one that fits, whoever edits it  *)
(* in whatever order.                                                      *)
(***************************************************************************)
LEMMA ProposalStepInv ==
  ASSUME ProposalsInv, NEW p \in ProposalId, NEW a \in Authority,
         ProposalStep(p, a)
  PROVE  ProposalsInv'
  <1>1. CASE create_proposal(p, a)
    <2> DEFINE P == [owner |-> a, state |-> NEW_PROPOSAL, f |-> 0,
                     token_mint |-> Default, oracles |-> NoOracles,
                     offchain_len |-> 0]
    <2>1. NoOracles \in StagedOracles /\ DOMAIN NoOracles = {}
      <3>1. NoOracles \in [{} -> StagedOracle]  BY DEF NoOracles
      <3>2. {} \in SUBSET Signer  OBVIOUS
      <3> QED  BY <3>1, <3>2, FunctionStaged
    <2>2. P \in Proposal  BY <2>1 DEF Proposal
    <2>3. ProposalFits(P)
      BY <2>1 DEF ProposalFits, NEW_PROPOSAL, FINALIZED
    <2>4. proposals' = [proposals EXCEPT ![p] = P]
      BY <1>1 DEF create_proposal
    <2> HIDE DEF P
    <2> QED  BY <2>2, <2>3, <2>4, ProposalReplaced
  <1>2. ASSUME Writable(p, a)
        PROVE  /\ proposals[p] \in Proposal /\ ProposalFits(proposals[p])
               /\ proposals[p].state = NEW_PROPOSAL
    BY <1>2 DEF Writable, ProposalsInv, ProposalsFit, Proposal, NEW_PROPOSAL
  <1> DEFINE Q == proposals[p]
  <1>3. ASSUME NEW len \in 0..MaxConfigLen, write_offchain_config(p, a, len)
        PROVE  ProposalsInv'
    <2> DEFINE P == [Q EXCEPT !.offchain_len = @ + len]
    <2>1. Q \in Proposal /\ ProposalFits(Q)
      BY <1>2, <1>3 DEF write_offchain_config
    <2>2. /\ P \in Proposal /\ P.oracles = Q.oracles /\ P.f = Q.f
          /\ P.state = Q.state /\ P.token_mint = Q.token_mint
      BY <2>1, ProposalsAssumption DEF Proposal
    <2>3. proposals' = [proposals EXCEPT ![p] = P]
      BY <1>3 DEF write_offchain_config
    <2> HIDE DEF P, Q
    <2>4. ProposalFits(P)  BY <2>1, <2>2 DEF ProposalFits
    <2> QED  BY <2>2, <2>3, <2>4, ProposalReplaced
  <1>4. ASSUME NEW list \in OracleLists, NEW f \in 0..MaxF,
               propose_config(p, a, list, f)
        PROVE  ProposalsInv'
    <2> DEFINE P == [Q EXCEPT !.oracles = Staged(list), !.f = f]
    <2>1. Q \in Proposal /\ Q.state = NEW_PROPOSAL
      BY <1>2, <1>4 DEF propose_config
    <2>2. /\ Staged(list) \in StagedOracles
          /\ SizeFits(DOMAIN Staged(list), f) /\ OwnTransmitters(Staged(list))
          /\ \A s \in DOMAIN Staged(list) : Staged(list)[s].payee = Default
      BY <1>4, StagedFits DEF propose_config
    <2>0. f \in Nat  BY ProposalsAssumption
    <2>3. /\ P \in Proposal /\ P.oracles = Staged(list) /\ P.f = f
          /\ P.state = NEW_PROPOSAL
      BY <2>0, <2>1, <2>2 DEF Proposal
    <2>4. proposals' = [proposals EXCEPT ![p] = P]
      BY <1>4 DEF propose_config
    <2> HIDE DEF P, Q
    <2>5. ProposalFits(P)
      BY <2>2, <2>3 DEF ProposalFits, NEW_PROPOSAL, FINALIZED
    <2> QED  BY <2>3, <2>4, <2>5, ProposalReplaced
  <1>5. ASSUME NEW payees \in PayeeLists, NEW mint \in Mint,
               propose_payees(p, a, payees, mint)
        PROVE  ProposalsInv'
    <2> DEFINE o == [s \in DOMAIN Q.oracles |->
                       [Q.oracles[s] EXCEPT !.payee = payees[s]]]
               P == [Q EXCEPT !.oracles = o, !.token_mint = mint]
    <2>1. Q \in Proposal /\ ProposalFits(Q) /\ Q.state = NEW_PROPOSAL
      BY <1>2, <1>5 DEF propose_payees
    <2>2. DOMAIN Q.oracles \subseteq Signer
          /\ Q.oracles \in [DOMAIN Q.oracles -> StagedOracle]
      BY <2>1, StagedFunction DEF Proposal
    <2>3. payees \in [Signer -> Payee]  BY ProposalsAssumption
    <2>4. /\ DOMAIN o = DOMAIN Q.oracles
          /\ \A s \in DOMAIN Q.oracles :
               /\ o[s] \in StagedOracle /\ o[s].payee = payees[s]
               /\ o[s].transmitter = Q.oracles[s].transmitter
               /\ MintOf[payees[s]] = mint
      BY <1>5, <2>2, <2>3 DEF propose_payees, StagedOracle
    <2>5. o \in [DOMAIN Q.oracles -> StagedOracle]
      BY <2>4
    <2>6. o \in StagedOracles
      BY <2>2, <2>5, FunctionStaged
    <2>7. proposals' = [proposals EXCEPT ![p] = P]
      BY <1>5 DEF propose_payees
    <2> HIDE DEF o
    <2>8. /\ P \in Proposal /\ P.oracles = o /\ P.f = Q.f
          /\ P.state = NEW_PROPOSAL /\ P.token_mint = mint
      BY <2>1, <2>6 DEF Proposal
    <2> HIDE DEF P, Q
    <2>9. ProposalFits(P)
      BY <2>1, <2>4, <2>8
      DEF ProposalFits, OwnTransmitters, NEW_PROPOSAL, FINALIZED
    <2> QED  BY <2>7, <2>8, <2>9, ProposalReplaced
  <1>6. CASE finalize_proposal(p, a)
    <2> DEFINE P == [Q EXCEPT !.state = FINALIZED]
    <2>1. Q \in Proposal /\ ProposalFits(Q)
      BY <1>2, <1>6 DEF finalize_proposal
    <2>2. /\ P \in Proposal /\ P.oracles = Q.oracles /\ P.f = Q.f
          /\ P.token_mint = Q.token_mint
      BY <2>1 DEF Proposal
    <2>3. /\ proposals' = [proposals EXCEPT ![p] = P]
          /\ DOMAIN Q.oracles # {}
          /\ \A s \in DOMAIN Q.oracles : Q.oracles[s].payee # Default
      BY <1>6 DEF finalize_proposal
    <2> HIDE DEF P, Q
    <2>4. ProposalFits(P)  BY <2>1, <2>2, <2>3 DEF ProposalFits
    <2> QED  BY <2>2, <2>3, <2>4, ProposalReplaced
  <1>7. CASE close_proposal(p, a)
    BY <1>7, ProposalReplaced DEF close_proposal
  <1> QED
    BY <1>1, <1>3, <1>4, <1>5, <1>6, <1>7 DEF ProposalStep

-----------------------------------------------------------------------------
(* A product of naturals is a natural. *)
LEMMA MulNat == ASSUME NEW a \in Nat, NEW b \in Nat PROVE a * b \in Nat
  OBVIOUS

(* One more round adds one more price. *)
LEMMA MulSuccessor ==
  ASSUME NEW a \in Nat, NEW b \in Nat PROVE (a + 1) * b = a * b + b
  OBVIOUS

(* The quotient of naturals is a natural. *)
LEMMA DivNat ==
  ASSUME NEW a \in Nat, NEW b \in Nat \ {0} PROVE a \div b \in Nat
  OBVIOUS

(* saturating_add never exceeds the sum, and is the sum if that fits. *)
LEMMA SaturateNat ==
  ASSUME NEW n \in Nat
  PROVE  /\ Saturate(n) \in Nat /\ Saturate(n) <= n
         /\ n <= U64Max => Saturate(n) = n
  BY AggregatorAssumption DEF Saturate

(* A reimbursement is never negative. *)
LEMMA ReimbursementNat ==
  ASSUME NEW j \in Nat, NEW n \in Nat, NEW price \in Nat \cup {None}
  PROVE  calculate_reimbursement_gjuels(j, n, price) \in Nat
  <1> DEFINE fee == IF price = None THEN 0 ELSE compute_unit_fee(price, n)
             lamports == Saturate(LAMPORTS_PER_SIGNATURE + fee)
  <1>1. fee \in Nat
    <2>1. CASE price # None
      <3>1. EXEC_PER_SIGNATURE * n + EXEC_BASE \in Nat
        BY MulNat, AggregatorAssumption
      <3>2. (EXEC_PER_SIGNATURE * n + EXEC_BASE) * price \in Nat
        BY <2>1, <3>1, MulNat
      <3> DEFINE m == Saturate((EXEC_PER_SIGNATURE * n + EXEC_BASE) * price)
      <3>3. m \in Nat  BY <3>2, SaturateNat
      <3> HIDE DEF m
      <3>4. m + MICRO - 1 \in Nat  BY <3>3, AggregatorAssumption
      <3>5. Saturate(m + MICRO - 1) \in Nat  BY <3>4, SaturateNat
      <3>6. Saturate(m + MICRO - 1) \div MICRO \in Nat
        BY <3>5, DivNat, AggregatorAssumption
      <3> QED  BY <2>1, <3>6 DEF compute_unit_fee, m
    <2> QED  BY <2>1
  <1> HIDE DEF fee
  <1>2. lamports \in Nat  BY <1>1, SaturateNat, AggregatorAssumption
  <1> HIDE DEF lamports
  <1>3. lamports * j \in Nat  BY <1>2, MulNat
  <1>4. (lamports * j) \div GIGA \in Nat  BY <1>3, DivNat, AggregatorAssumption
  <1>5. Saturate((lamports * j) \div GIGA) \in Nat  BY <1>4, SaturateNat
  <1> QED  BY <1>5 DEF calculate_reimbursement_gjuels, lamports, fee

(* What an oracle is owed is its unpaid rounds and its reimbursements. *)
LEMMA OwedNat ==
  ASSUME ConfigInv, NEW s \in OracleSet
  PROVE  /\ latest_round_id - oracles[s].from_round_id \in Nat
         /\ Owed[s] = (latest_round_id - oracles[s].from_round_id)
                        * billing.observation + oracles[s].payment_gjuels
         /\ Owed[s] \in Nat /\ Owed[s] >= oracles[s].payment_gjuels
  <1>1. /\ latest_round_id - oracles[s].from_round_id \in Nat
        /\ billing.observation \in Nat /\ oracles[s].payment_gjuels \in Nat
    BY DEF ConfigInv, TypeOK, NoFutureRounds, ActiveOracle
  <1>2. (latest_round_id - oracles[s].from_round_id) * billing.observation \in Nat
    BY <1>1, MulNat
  <1>3. Owed[s] = (latest_round_id - oracles[s].from_round_id)
                    * billing.observation + oracles[s].payment_gjuels
    BY DEF Owed, calculate_owed_payment_gjuels
  <1> HIDE DEF OracleSet
  <1> QED  BY <1>1, <1>2, <1>3

BooksInv == ConfigInv /\ AccountsBalance

(* An empty aggregator has no oracles and owes nothing. *)
LEMMA InitInv == Init => BooksInv
  <1> SUFFICES ASSUME Init PROVE BooksInv  OBVIOUS
  <1>1. OracleSet = {} /\ oracles = NoOracles  BY DEF Init, OracleSet, NoOracles
  <1>2. oracles \in [OracleSet -> ActiveOracle]  BY <1>1 DEF NoOracles
  <1>3. TypeOK
    BY <1>1, <1>2 DEF Init, ProposalsInit, TypeOK
  <1>4. ProposalsFit  BY DEF Init, ProposalsInit, ProposalsFit
  <1>5. ConfigFits /\ NoFutureRounds
    BY <1>1 DEF Init, ConfigFits, NoFutureRounds
  <1>6. AccountsBalance
    BY <1>1 DEF Init, AccountsBalance, OwedTo
  <1> QED  BY <1>3, <1>4, <1>5, <1>6 DEF BooksInv, ConfigInv

(* Steps that change neither the configuration nor the books. *)
LEMMA ElsewhereInv ==
  ASSUME BooksInv, ProposalsInv',
         UNCHANGED <<is_open, oracles, cfg_f, config_count, latest_round_id,
                     answer, billing, earned, paid>>
  PROVE  BooksInv'
  <1>1. TypeOK' /\ ProposalsFit'
    BY DEF BooksInv, ConfigInv, TypeOK, ProposalsInv, OracleSet
  <1>2. ConfigFits' /\ NoFutureRounds'
    BY DEF BooksInv, ConfigInv, ConfigFits, NoFutureRounds, OracleSet
  <1>3. AccountsBalance'
    BY DEF BooksInv, AccountsBalance, OwedTo, Owed, OracleSet,
           calculate_owed_payment_gjuels
  <1> QED  BY <1>1, <1>2, <1>3 DEF BooksInv, ConfigInv

(***************************************************************************)
(* pay_oracles_impl pays exactly what is owed, and leaves oracles to which *)
(* nothing is owed: the old ones with their debts settled, the new ones of *)
(* an accepted proposal, or none.                                          *)
(***************************************************************************)
LEMMA PayAllBalance ==
  ASSUME BooksInv, PayAll, UNCHANGED <<latest_round_id, earned>>,
         billing' \in [observation : Nat, transmission : Nat],
         \A s \in OracleSet' : /\ oracles'[s].from_round_id = latest_round_id
                               /\ oracles'[s].payment_gjuels = 0
  PROVE  paid' \in [Signer -> Nat] /\ AccountsBalance'
  <1>1. /\ paid \in [Signer -> Nat] /\ earned \in [Signer -> Nat]
        /\ latest_round_id \in Nat
        /\ paid' = [s \in Signer |-> IF s \in OracleSet THEN paid[s] + Owed[s]
                                                        ELSE paid[s]]
    BY DEF BooksInv, ConfigInv, TypeOK, PayAll
  <1>2. \A s \in OracleSet : Owed[s] \in Nat
    BY OwedNat DEF BooksInv
  <1>3. \A s \in Signer : paid'[s] = paid[s] + OwedTo(s) /\ paid'[s] \in Nat
    BY <1>1, <1>2 DEF OwedTo
  <1>4. paid' \in [Signer -> Nat]  BY <1>1, <1>3
  <1>5. ASSUME NEW s \in Signer PROVE OwedTo(s)' = 0
    <2>1. CASE s \in OracleSet'
      <3>1. Owed'[s] = (latest_round_id' - oracles'[s].from_round_id)
                         * billing'.observation + oracles'[s].payment_gjuels
        BY <2>1 DEF Owed, calculate_owed_payment_gjuels
      <3>2. billing'.observation \in Nat  OBVIOUS
      <3>3. Owed'[s] = 0 * billing'.observation + 0
        BY <1>1, <2>1, <3>1
      <3>4. Owed'[s] = 0  BY <3>2, <3>3
      <3> QED  BY <2>1, <3>4 DEF OwedTo
    <2> QED  BY <2>1 DEF OwedTo
  <1>6. AccountsBalance'
    BY <1>1, <1>3, <1>5 DEF AccountsBalance, BooksInv
  <1> QED  BY <1>4, <1>6

(* pay_oracles and set_billing. *)
LEMMA SettleInv ==
  ASSUME BooksInv, pay_oracles \/ \E o, t \in Price : set_billing(o, t)
  PROVE  BooksInv'
  <1>1. /\ PayAll /\ oracles' = Settled
        /\ UNCHANGED <<proposals, is_open, cfg_f, config_count,
                       latest_round_id, answer, earned>>
    BY DEF pay_oracles, set_billing, reportVars
  <1>2. billing' \in [observation : Nat, transmission : Nat]
    BY AggregatorAssumption
    DEF pay_oracles, set_billing, BooksInv, ConfigInv, TypeOK
  <1>3. /\ OracleSet' = OracleSet
        /\ \A s \in OracleSet :
             /\ oracles'[s] \in ActiveOracle
             /\ oracles'[s].from_round_id = latest_round_id
             /\ oracles'[s].payment_gjuels = 0
             /\ oracles'[s].transmitter = oracles[s].transmitter
             /\ oracles'[s].payee = oracles[s].payee
             /\ oracles'[s].proposed_payee = oracles[s].proposed_payee
    BY <1>1 DEF Settled, OracleSet, BooksInv, ConfigInv, TypeOK, ActiveOracle
  <1>4. oracles' = [s \in OracleSet |-> oracles'[s]]
    BY <1>1 DEF Settled
  <1>5. oracles' \in [OracleSet -> ActiveOracle]  BY <1>3, <1>4
  <1>6. paid' \in [Signer -> Nat] /\ AccountsBalance'
    BY <1>1, <1>2, <1>3, PayAllBalance
  <1>7. TypeOK'
    BY <1>1, <1>2, <1>3, <1>5, <1>6 DEF BooksInv, ConfigInv, TypeOK
  <1>8. ProposalsFit'
    BY <1>1 DEF BooksInv, ConfigInv, ProposalsFit
  <1>9. ConfigFits' /\ NoFutureRounds'
    <2>1. OwnTransmitters(oracles) => OwnTransmitters(oracles')
      BY <1>3 DEF OwnTransmitters, OracleSet
    <2>2. latest_round_id \in Nat  BY DEF BooksInv, ConfigInv, TypeOK
    <2> QED
      BY <1>1, <1>3, <2>1, <2>2
      DEF BooksInv, ConfigInv, ConfigFits, NoFutureRounds
  <1> QED  BY <1>6, <1>7, <1>8, <1>9 DEF BooksInv, ConfigInv

(* close pays the oracles and leaves none. *)
LEMMA CloseInv ==
  ASSUME BooksInv, close
  PROVE  BooksInv'
  <1>1. /\ PayAll /\ oracles' = NoOracles /\ is_open' = FALSE
        /\ UNCHANGED <<proposals, cfg_f, config_count, latest_round_id, answer,
                       billing, earned>>
    BY DEF close, reportVars
  <1>2. OracleSet' = {} /\ oracles' \in [{} -> ActiveOracle]
    BY <1>1 DEF OracleSet, NoOracles
  <1>3. billing' \in [observation : Nat, transmission : Nat]
    BY <1>1 DEF BooksInv, ConfigInv, TypeOK
  <1>4. paid' \in [Signer -> Nat] /\ AccountsBalance'
    BY <1>1, <1>2, <1>3, PayAllBalance
  <1>5. TypeOK'  BY <1>1, <1>2, <1>3, <1>4 DEF BooksInv, ConfigInv, TypeOK
  <1>6. ProposalsFit'
    BY <1>1 DEF BooksInv, ConfigInv, ProposalsFit
  <1>7. ConfigFits' /\ NoFutureRounds'
    BY <1>1, <1>2 DEF ConfigFits, NoFutureRounds
  <1> QED  BY <1>4, <1>5, <1>6, <1>7 DEF BooksInv, ConfigInv

(***************************************************************************)
(* accept_proposal takes over what a finalized proposal has checked, and   *)
(* closes it, so no authority can still change it.                         *)
(***************************************************************************)
LEMMA AcceptInv ==
  ASSUME BooksInv, NEW p \in ProposalId, accept_proposal(p)
  PROVE  BooksInv'
  <1> DEFINE P == proposals[p]
  <1>1. /\ PayAll /\ P # None /\ P.state = FINALIZED /\ P.token_mint = token_mint
        /\ oracles' = Accepted(p) /\ cfg_f' = P.f
        /\ config_count' = config_count + 1
        /\ proposals' = [proposals EXCEPT ![p] = None]
        /\ UNCHANGED <<is_open, latest_round_id, answer, billing, earned>>
    BY DEF accept_proposal, reportVars
  <1>2. P \in Proposal /\ ProposalFits(P)
    BY <1>1 DEF BooksInv, ConfigInv, TypeOK, ProposalsFit
  <1>3. /\ DOMAIN P.oracles \subseteq Signer
        /\ P.oracles \in [DOMAIN P.oracles -> StagedOracle] /\ P.f \in Nat
    BY <1>2, StagedFunction DEF Proposal
  <1>4. /\ latest_round_id \in Nat /\ config_count \in Nat
        /\ billing' \in [observation : Nat, transmission : Nat]
    BY <1>1 DEF BooksInv, ConfigInv, TypeOK
  <1>5. /\ OracleSet' = DOMAIN P.oracles
        /\ oracles' = [s \in DOMAIN P.oracles |-> oracles'[s]]
        /\ \A s \in DOMAIN P.oracles :
             /\ oracles'[s] = [transmitter |-> P.oracles[s].transmitter,
                               payee |-> P.oracles[s].payee,
                               proposed_payee |-> Default,
                               from_round_id |-> latest_round_id,
                               payment_gjuels |-> 0]
             /\ oracles'[s].transmitter = P.oracles[s].transmitter
             /\ oracles'[s].payee = P.oracles[s].payee
             /\ oracles'[s].proposed_payee = Default
             /\ oracles'[s].from_round_id = latest_round_id
             /\ oracles'[s].payment_gjuels = 0
    BY <1>1 DEF Accepted, OracleSet
  <1>6. /\ DOMAIN P.oracles # {} /\ SizeFits(DOMAIN P.oracles, P.f)
        /\ OwnTransmitters(P.oracles)
        /\ \A s \in DOMAIN P.oracles :
             P.oracles[s].payee \in Payee /\ MintOf[P.oracles[s].payee] = token_mint
    BY <1>1, <1>2, <1>3 DEF ProposalFits, StagedOracle
  <1> HIDE DEF P
  <1>7. \A s \in OracleSet' : /\ oracles'[s].from_round_id = latest_round_id
                              /\ oracles'[s].payment_gjuels = 0
    BY <1>5
  <1>8. paid' \in [Signer -> Nat] /\ AccountsBalance'
    BY <1>1, <1>4, <1>7, PayAllBalance
  <1>9. ASSUME NEW s \in DOMAIN P.oracles
        PROVE  oracles'[s] \in ActiveOracle
    <2>1. P.oracles[s].transmitter \in Transmitter /\ P.oracles[s].payee \in Payee
      BY <1>3, <1>6 DEF StagedOracle
    <2>2. [transmitter |-> P.oracles[s].transmitter,
           payee |-> P.oracles[s].payee, proposed_payee |-> Default,
           from_round_id |-> latest_round_id, payment_gjuels |-> 0]
            \in ActiveOracle
      BY <1>4, <2>1 DEF ActiveOracle
    <2> QED  BY <1>5, <2>2
  <1>10. oracles' \in [OracleSet' -> ActiveOracle]
    BY <1>5, <1>9
  <1>11. TypeOK'
    BY <1>1, <1>3, <1>4, <1>5, <1>8, <1>10 DEF BooksInv, ConfigInv, TypeOK
  <1>12. ProposalsFit'
    BY <1>1 DEF BooksInv, ConfigInv, TypeOK, ProposalsFit
  <1>13. ConfigFits'
    <2>1. OwnTransmitters(oracles')
      <3>1. DOMAIN oracles' = DOMAIN P.oracles  BY <1>5 DEF OracleSet
      <3>2. \A s \in DOMAIN P.oracles :
              oracles'[s].transmitter = P.oracles[s].transmitter
        BY <1>5
      <3> QED  BY <1>6, <3>1, <3>2 DEF OwnTransmitters
    <2>2. \A s \in OracleSet' : /\ MintOf[oracles'[s].payee] = token_mint
                                /\ oracles'[s].proposed_payee \notin Payee
      BY <1>5, <1>6, ProposalsAssumption
    <2> QED  BY <1>1, <1>5, <1>6, <2>1, <2>2 DEF ConfigFits
  <1>14. NoFutureRounds'  BY <1>1, <1>4, <1>7 DEF NoFutureRounds
  <1> QED  BY <1>8, <1>11, <1>12, <1>13, <1>14 DEF BooksInv, ConfigInv

(* A payee with an oracle has a first one: signers are ordered. *)
LEMMA FirstExists ==
  ASSUME OracleSet \subseteq Signer, NEW payee,
         \E t \in OracleSet : oracles[t].payee = payee
  PROVE  FirstWithPayee(payee) \in OracleSet
  <1> DEFINE T == {t \in OracleSet : oracles[t].payee = payee}
  <1>1. T \subseteq Nat /\ T # {}  BY AggregatorAssumption
  <1>2. \E s \in T : \A t \in T : ~(<<t, s>> \in OpToRel(<, Nat))
    <2> HIDE DEF T
    <2> QED  BY <1>1, WFMin, NatLessThanWellFounded
  <1>3. PICK s \in T : \A t \in T : ~(<<t, s>> \in OpToRel(<, Nat))
    BY <1>2
  <1>4. \A t \in T : s <= t
    <2> SUFFICES ASSUME NEW t \in T PROVE s <= t  OBVIOUS
    <2>1. s \in Nat /\ t \in Nat  BY <1>1
    <2>2. ~(t < s)  BY <1>3, <2>1 DEF OpToRel
    <2> QED  BY <2>1, <2>2
  <1>5. /\ s \in OracleSet /\ oracles[s].payee = payee
        /\ \A t \in OracleSet : oracles[t].payee = payee => s <= t
    BY <1>4
  <1> QED  BY <1>5 DEF FirstWithPayee

(* The step replaces the entry of one oracle. *)
EntryBecomes(s, e) == oracles' = [oracles EXCEPT ![s] = e]

(***************************************************************************)
(* A step that changes the entry of one oracle, keeping its transmitter    *)
(* and a payee of the right mint, keeps the configuration valid.           *)
(***************************************************************************)
LEMMA EntryConfig ==
  ASSUME ConfigInv, NEW s \in OracleSet, NEW e \in ActiveOracle,
         EntryBecomes(s, e),
         e.transmitter = oracles[s].transmitter, MintOf[e.payee] = token_mint,
         e.proposed_payee \in Payee => MintOf[e.proposed_payee] = token_mint,
         e.from_round_id <= latest_round_id', latest_round_id' \in Nat,
         latest_round_id <= latest_round_id',
         UNCHANGED <<is_open, proposals, cfg_f, config_count, billing>>,
         earned' \in [Signer -> Nat], paid' \in [Signer -> Nat]
  PROVE  ConfigInv'
  <1>1. /\ OracleSet' = OracleSet /\ oracles'[s] = e
        /\ \A t \in OracleSet : t # s => oracles'[t] = oracles[t]
        /\ oracles' \in [OracleSet -> ActiveOracle]
    BY DEF EntryBecomes, OracleSet, ConfigInv, TypeOK
  <1>2. TypeOK'  BY <1>1 DEF ConfigInv, TypeOK
  <1>3. ProposalsFit'  BY DEF ConfigInv, ProposalsFit
  <1>4. OwnTransmitters(oracles) => OwnTransmitters(oracles')
    BY <1>1 DEF OwnTransmitters, OracleSet
  <1>5. ConfigFits'
    BY <1>1, <1>4 DEF ConfigInv, ConfigFits
  <1>6. NoFutureRounds'
    <2> SUFFICES ASSUME NEW t \in OracleSet
                 PROVE  oracles'[t].from_round_id <= latest_round_id'
      BY <1>1 DEF NoFutureRounds
    <2>1. CASE t = s  BY <1>1, <2>1
    <2>2. CASE t # s
      <3>1. oracles'[t] = oracles[t] /\ oracles[t].from_round_id \in Nat
        BY <1>1, <2>2 DEF ConfigInv, TypeOK, ActiveOracle
      <3>2. oracles[t].from_round_id <= latest_round_id /\ latest_round_id \in Nat
        BY DEF ConfigInv, TypeOK, NoFutureRounds
      <3> QED  BY <3>1, <3>2
    <2> QED  BY <2>1, <2>2
  <1> QED  BY <1>2, <1>3, <1>5, <1>6 DEF ConfigInv

(* What is owed to an oracle after such a step. *)
LEMMA EntryOwed ==
  ASSUME NEW s \in OracleSet, NEW e, EntryBecomes(s, e)
  PROVE  /\ OracleSet' = OracleSet
         /\ OwedTo(s)' = (latest_round_id' - e.from_round_id)
                            * billing'.observation + e.payment_gjuels
         /\ \A t \in OracleSet : t # s =>
              OwedTo(t)' = (latest_round_id' - oracles[t].from_round_id)
                             * billing'.observation + oracles[t].payment_gjuels
         /\ \A t : t \notin OracleSet => OwedTo(t)' = 0
  <1>1. /\ OracleSet' = OracleSet /\ oracles'[s] = e
        /\ \A t \in OracleSet : t # s => oracles'[t] = oracles[t]
    BY DEF EntryBecomes, OracleSet
  <1>2. \A t \in OracleSet :
          OwedTo(t)' = (latest_round_id' - oracles'[t].from_round_id)
                         * billing'.observation + oracles'[t].payment_gjuels
    BY <1>1 DEF OwedTo, Owed, calculate_owed_payment_gjuels
  <1>3. \A t : t \notin OracleSet => OwedTo(t)' = 0
    BY <1>1 DEF OwedTo
  <1> QED  BY <1>1, <1>2, <1>3

(* The same before a step. *)
LEMMA OwedToIs ==
  ASSUME ConfigInv, NEW t
  PROVE  /\ t \in OracleSet =>
              OwedTo(t) = (latest_round_id - oracles[t].from_round_id)
                            * billing.observation + oracles[t].payment_gjuels
         /\ t \notin OracleSet => OwedTo(t) = 0
         /\ OwedTo(t) \in Nat
  BY OwedNat DEF OwedTo

(***************************************************************************)
(* withdraw_payment pays one oracle what it is owed, the first one with    *)
(* the payee's account.                                                    *)
(***************************************************************************)
LEMMA WithdrawInv ==
  ASSUME BooksInv, NEW payee \in Payee, withdraw_payment(payee)
  PROVE  BooksInv'
  <1>0. ConfigInv /\ OracleSet \subseteq Signer  BY DEF BooksInv, ConfigInv, TypeOK
  <1>1. PICK s \in OracleSet : s = FirstWithPayee(payee)
    BY <1>0, FirstExists DEF withdraw_payment
  <1>e. PICK e : e = [oracles[s] EXCEPT !.payment_gjuels = 0,
                                        !.from_round_id = latest_round_id]
    OBVIOUS
  <1>2. /\ EntryBecomes(s, e)
        /\ paid' = [paid EXCEPT ![s] = @ + Owed[s]]
        /\ UNCHANGED <<proposals, is_open, cfg_f, config_count,
                       latest_round_id, answer, billing, earned>>
    BY <1>1, <1>e DEF withdraw_payment, reportVars, EntryBecomes
  <1>3. /\ oracles[s] \in ActiveOracle /\ latest_round_id \in Nat
        /\ billing.observation \in Nat
        /\ paid \in [Signer -> Nat] /\ earned \in [Signer -> Nat]
    BY <1>0, <1>1 DEF ConfigInv, TypeOK
  <1>4. /\ e \in ActiveOracle /\ e.transmitter = oracles[s].transmitter
        /\ e.payee = oracles[s].payee
        /\ e.proposed_payee = oracles[s].proposed_payee
        /\ e.from_round_id = latest_round_id /\ e.payment_gjuels = 0
    BY <1>3, <1>e DEF ActiveOracle
  <1>5. Owed[s] \in Nat /\ OwedTo(s) = Owed[s]
    BY <1>0, <1>1, OwedNat DEF OwedTo
  <1>6. /\ paid' \in [Signer -> Nat] /\ paid'[s] = paid[s] + OwedTo(s)
        /\ \A t \in Signer : t # s => paid'[t] = paid[t]
    BY <1>0, <1>1, <1>2, <1>3, <1>5
  <1>7. ConfigInv'
    <2>1. /\ MintOf[e.payee] = token_mint
          /\ e.proposed_payee \in Payee => MintOf[e.proposed_payee] = token_mint
      BY <1>0, <1>1, <1>4 DEF ConfigInv, ConfigFits
    <2> QED  BY <1>0, <1>1, <1>2, <1>3, <1>4, <1>6, <2>1, EntryConfig
  <1>8. OwedTo(s)' = 0
    <2>1. OwedTo(s)' = (latest_round_id' - e.from_round_id)
                            * billing'.observation + e.payment_gjuels
      BY <1>1, <1>2, EntryOwed
    <2>2. OwedTo(s)' = 0 * billing.observation + 0
      BY <1>2, <1>3, <1>4, <2>1
    <2> QED  BY <1>3, <2>2
  <1>9. \A t \in Signer : t # s => OwedTo(t)' = OwedTo(t)
    BY <1>0, <1>1, <1>2, EntryOwed, OwedToIs
  <1>10. AccountsBalance'
    BY <1>2, <1>3, <1>5, <1>6, <1>8, <1>9 DEF BooksInv, AccountsBalance
  <1> QED  BY <1>7, <1>10 DEF BooksInv

(***************************************************************************)
(* A handover of a payeeship, proposed or accepted, stays within the       *)
(* accounts of the aggregator's mint and changes no debt.                  *)
(***************************************************************************)
LEMMA PayeeshipInv ==
  ASSUME BooksInv, NEW s \in OracleSet,
         accept_payeeship(s) \/ \E q \in Payee : transfer_payeeship(s, q)
  PROVE  BooksInv'
  <1>0. ConfigInv  BY DEF BooksInv
  <1>1. PICK e \in ActiveOracle :
          /\ EntryBecomes(s, e)
          /\ e.transmitter = oracles[s].transmitter
          /\ e.from_round_id = oracles[s].from_round_id
          /\ e.payment_gjuels = oracles[s].payment_gjuels
          /\ MintOf[e.payee] = token_mint
          /\ e.proposed_payee \in Payee => MintOf[e.proposed_payee] = token_mint
    <2>1. /\ oracles[s] \in ActiveOracle /\ MintOf[oracles[s].payee] = token_mint
          /\ oracles[s].proposed_payee \in Payee =>
               MintOf[oracles[s].proposed_payee] = token_mint
      BY <1>0 DEF ConfigInv, TypeOK, ConfigFits
    <2>2. ASSUME NEW q \in Payee, transfer_payeeship(s, q)
          PROVE  \E e \in ActiveOracle :
                   /\ EntryBecomes(s, e)
                   /\ e.transmitter = oracles[s].transmitter
                   /\ e.from_round_id = oracles[s].from_round_id
                   /\ e.payment_gjuels = oracles[s].payment_gjuels
                   /\ MintOf[e.payee] = token_mint
                   /\ e.proposed_payee \in Payee =>
                        MintOf[e.proposed_payee] = token_mint
      <3> DEFINE e == [oracles[s] EXCEPT !.proposed_payee = q]
      <3>1. /\ EntryBecomes(s, e) /\ MintOf[q] = token_mint
        BY <2>2 DEF transfer_payeeship, EntryBecomes
      <3>2. /\ e \in ActiveOracle /\ e.transmitter = oracles[s].transmitter
            /\ e.from_round_id = oracles[s].from_round_id
            /\ e.payment_gjuels = oracles[s].payment_gjuels
            /\ e.payee = oracles[s].payee /\ e.proposed_payee = q
        BY <2>1 DEF ActiveOracle
      <3> HIDE DEF e
      <3> QED  BY <2>1, <3>1, <3>2
    <2>3. ASSUME accept_payeeship(s)
          PROVE  \E e \in ActiveOracle :
                   /\ EntryBecomes(s, e)
                   /\ e.transmitter = oracles[s].transmitter
                   /\ e.from_round_id = oracles[s].from_round_id
                   /\ e.payment_gjuels = oracles[s].payment_gjuels
                   /\ MintOf[e.payee] = token_mint
                   /\ e.proposed_payee \in Payee =>
                        MintOf[e.proposed_payee] = token_mint
      <3> DEFINE e == [oracles[s] EXCEPT !.payee = oracles[s].proposed_payee,
                                         !.proposed_payee = Default]
      <3>1. /\ EntryBecomes(s, e)
            /\ oracles[s].proposed_payee \in Payee
        BY <2>3 DEF accept_payeeship, EntryBecomes
      <3>2. /\ e \in ActiveOracle /\ e.transmitter = oracles[s].transmitter
            /\ e.from_round_id = oracles[s].from_round_id
            /\ e.payment_gjuels = oracles[s].payment_gjuels
            /\ e.payee = oracles[s].proposed_payee /\ e.proposed_payee = Default
        BY <2>1, <3>1 DEF ActiveOracle
      <3> HIDE DEF e
      <3> QED  BY <2>1, <3>1, <3>2, ProposalsAssumption
    <2> QED  BY <2>2, <2>3
  <1>2. UNCHANGED <<proposals, is_open, cfg_f, config_count, latest_round_id,
                    answer, billing, earned, paid>>
    BY DEF accept_payeeship, transfer_payeeship, reportVars, books
  <1>3. ConfigInv'
    <2>1. /\ latest_round_id \in Nat /\ earned \in [Signer -> Nat]
          /\ paid \in [Signer -> Nat]
          /\ e.from_round_id <= latest_round_id
      BY <1>0, <1>1 DEF ConfigInv, TypeOK, NoFutureRounds
    <2> QED  BY <1>0, <1>1, <1>2, <2>1, EntryConfig
  <1>4. \A t : OwedTo(t)' = OwedTo(t)
    BY <1>0, <1>1, <1>2, EntryOwed, OwedToIs
  <1>5. AccountsBalance'  BY <1>2, <1>4 DEF BooksInv, AccountsBalance
  <1> QED  BY <1>3, <1>5 DEF BooksInv

(***************************************************************************)
(* Signatures of cfg_f + 1 different oracles cannot all be of faulty ones. *)
(***************************************************************************)
LEMMA CorrectSigner ==
  ASSUME ConfigInv, OracleSet # {}, Tolerated,
         NEW sigs \in [1..(cfg_f + 1) -> Signer], SignaturesVerify(sigs)
  PROVE  \E i \in DOMAIN sigs : sigs[i] \notin Faulty
  <1> SUFFICES ASSUME \A i \in DOMAIN sigs : sigs[i] \in Faulty PROVE FALSE
    OBVIOUS
  <1> DEFINE T == {sigs[i] : i \in DOMAIN sigs}
             B == OracleSet \cap Faulty
  <1>1. /\ IsFiniteSet(OracleSet) /\ Cardinality(B) <= cfg_f /\ cfg_f \in Nat
    BY DEF ConfigInv, ConfigFits, TypeOK, SizeFits, Tolerated
  <1>2. T \subseteq B /\ Cardinality(T) = cfg_f + 1
    BY DEF SignaturesVerify
  <1>3. IsFiniteSet(B) /\ B \subseteq OracleSet  BY <1>1, FS_Subset
  <1> HIDE DEF T, B
  <1>4. Cardinality(T) <= Cardinality(B)  BY <1>2, <1>3, FS_Subset
  <1>5. Cardinality(B) \in Nat  BY <1>3, FS_CardinalityType
  <1> QED  BY <1>1, <1>2, <1>4, <1>5

(* So a report accepted from at most cfg_f faulty signers is a correct one's. *)
LEMMA TransmitEndorsed ==
  ASSUME ConfigInv, Tolerated, NEW t \in OracleSet, NEW rep \in Report,
         NEW price \in ComputeUnitPrice, transmit(t, rep, price)
  PROVE  answer' \in HonestAnswer
  <1>1. PICK sigs \in [1..(cfg_f + 1) -> Signer] :
          SignaturesExist(rep, sigs) /\ SignaturesVerify(sigs)
    BY DEF transmit
  <1>2. \E i \in DOMAIN sigs : sigs[i] \notin Faulty
    BY <1>1, CorrectSigner
  <1>3. rep.median \in HonestAnswer  BY <1>1, <1>2 DEF SignaturesExist
  <1> QED  BY <1>3 DEF transmit

(***************************************************************************)
(* A transmission adds a round to every oracle's debt and the              *)
(* reimbursement to the transmitter's, unless that saturates: then         *)
(* the transmitter has earned more than a u64 holds.                       *)
(***************************************************************************)
LEMMA TransmitInv ==
  ASSUME BooksInv, NEW t \in OracleSet, NEW rep \in Report,
         NEW price \in ComputeUnitPrice, transmit(t, rep, price)
  PROVE  BooksInv'
  <1>0. ConfigInv  BY DEF BooksInv
  <1>1. PICK amount : amount =
          Saturate(calculate_reimbursement_gjuels(
                     rep.juels_per_lamport, cfg_f + 1, price)
                   + billing.transmission)
    OBVIOUS
  <1>2. PICK e : e = [oracles[t] EXCEPT !.payment_gjuels = Saturate(@ + amount)]
    OBVIOUS
  <1>3. /\ EntryBecomes(t, e) /\ latest_round_id' = latest_round_id + 1
        /\ answer' = rep.median
        /\ earned' = [s \in Signer |-> earned[s] + RoundEarning(s, t, amount)]
        /\ UNCHANGED <<proposals, is_open, cfg_f, config_count, billing, paid>>
    BY <1>1, <1>2 DEF transmit, EntryBecomes
  <1>5. /\ oracles[t] \in ActiveOracle /\ latest_round_id \in Nat
        /\ billing.observation \in Nat /\ billing.transmission \in Nat
        /\ cfg_f \in Nat /\ OracleSet \subseteq Signer
        /\ paid \in [Signer -> Nat] /\ earned \in [Signer -> Nat]
    BY <1>0 DEF ConfigInv, TypeOK
  <1>6. amount \in Nat
    <2>0. cfg_f + 1 \in Nat /\ price \in Nat \cup {None}
      BY <1>5, AggregatorAssumption
    <2>a. rep.juels_per_lamport \in JuelsPerLamport  BY DEF Report
    <2>1. rep.juels_per_lamport \in Nat  BY <2>a, AggregatorAssumption
    <2>2. calculate_reimbursement_gjuels(
            rep.juels_per_lamport, cfg_f + 1, price) \in Nat
      BY <2>0, <2>1, ReimbursementNat
    <2>3. calculate_reimbursement_gjuels(
            rep.juels_per_lamport, cfg_f + 1, price)
            + billing.transmission \in Nat
      BY <1>5, <2>2
    <2> QED  BY <1>1, <2>3, SaturateNat
  <1> DEFINE pay == oracles[t].payment_gjuels
  <1>7. pay \in Nat /\ pay + amount \in Nat
    BY <1>5, <1>6 DEF ActiveOracle
  <1>8. /\ e \in ActiveOracle /\ e.payment_gjuels = Saturate(pay + amount)
        /\ e.transmitter = oracles[t].transmitter
        /\ e.payee = oracles[t].payee
        /\ e.proposed_payee = oracles[t].proposed_payee
        /\ e.from_round_id = oracles[t].from_round_id
    <2>1. Saturate(pay + amount) \in Nat  BY <1>7, SaturateNat
    <2> QED  BY <1>2, <1>5, <2>1 DEF ActiveOracle
  <1>9. \A s \in Signer : /\ RoundEarning(s, t, amount) \in Nat
                          /\ earned'[s] = earned[s] + RoundEarning(s, t, amount)
    BY <1>3, <1>5, <1>6 DEF RoundEarning
  <1>10. earned' \in [Signer -> Nat] /\ paid' \in [Signer -> Nat]
    BY <1>3, <1>5, <1>9
  <1>11. ConfigInv'
    <2>1. /\ MintOf[e.payee] = token_mint
          /\ e.proposed_payee \in Payee => MintOf[e.proposed_payee] = token_mint
      BY <1>0, <1>8 DEF ConfigInv, ConfigFits
    <2>2. e.from_round_id <= latest_round_id /\ e.from_round_id \in Nat
      BY <1>0, <1>5, <1>8 DEF ConfigInv, NoFutureRounds, ActiveOracle
    <2>3. /\ e.from_round_id <= latest_round_id' /\ latest_round_id' \in Nat
          /\ latest_round_id <= latest_round_id'
      BY <1>3, <1>5, <2>2
    <2> QED  BY <1>0, <1>3, <1>8, <1>10, <2>1, <2>3, EntryConfig
  <1> DEFINE due(s) == (latest_round_id - oracles[s].from_round_id)
                          * billing.observation
  <1>12. ASSUME NEW s \in OracleSet
         PROVE  /\ due(s) \in Nat
                /\ (latest_round_id' - oracles[s].from_round_id)
                      * billing'.observation = due(s) + billing.observation
                /\ OwedTo(s) = due(s) + oracles[s].payment_gjuels
    <2>1. latest_round_id - oracles[s].from_round_id \in Nat
      BY <1>0, OwedNat
    <2>2. oracles[s].from_round_id \in Nat
      BY <1>0 DEF ConfigInv, TypeOK, ActiveOracle
    <2>3. latest_round_id' - oracles[s].from_round_id
            = (latest_round_id - oracles[s].from_round_id) + 1
      <3>1. latest_round_id' = latest_round_id + 1  BY <1>3
      <3>2. latest_round_id \in Nat  BY <1>5
      <3>3. \A a, b \in Nat : (a + 1) - b = (a - b) + 1  OBVIOUS
      <3> QED  BY <2>2, <3>1, <3>2, <3>3
    <2>4. billing'.observation = billing.observation  BY <1>3
    <2>5. ((latest_round_id - oracles[s].from_round_id) + 1)
             * billing.observation = due(s) + billing.observation
      BY <1>5, <2>1, MulSuccessor
    <2>6. due(s) \in Nat  BY <1>5, <2>1, MulNat
    <2>7. OwedTo(s) = due(s) + oracles[s].payment_gjuels
      BY <1>0, OwedToIs
    <2> HIDE DEF due
    <2> QED  BY <2>3, <2>4, <2>5, <2>6, <2>7
  <1> HIDE DEF due
  <1>13. ASSUME NEW s \in Signer
         PROVE  /\ paid'[s] + OwedTo(s)' <= earned'[s]
                /\ earned'[s] <= U64Max =>
                     paid'[s] + OwedTo(s)' = earned'[s]
    <2>1. /\ paid[s] + OwedTo(s) <= earned[s]
          /\ earned[s] <= U64Max => paid[s] + OwedTo(s) = earned[s]
      BY DEF BooksInv, AccountsBalance
    <2>2. /\ paid'[s] = paid[s] /\ paid[s] \in Nat /\ earned[s] \in Nat
          /\ U64Max \in Nat
      BY <1>3, <1>5, AggregatorAssumption
    <2>3. CASE s = t
      <3>1. /\ OwedTo(t)' = due(t) + billing.observation + Saturate(pay + amount)
            /\ OwedTo(t) = due(t) + pay /\ due(t) \in Nat
        <4>1. OwedTo(t)' = (latest_round_id' - e.from_round_id)
                              * billing'.observation + e.payment_gjuels
          BY <1>3, EntryOwed
        <4>2. OwedTo(t)' = (latest_round_id' - oracles[t].from_round_id)
                              * billing'.observation + Saturate(pay + amount)
          BY <1>8, <4>1
        <4> QED  BY <1>12, <4>2
      <3>2. earned'[t] = earned[t] + (billing.observation + amount)
        BY <1>9, <2>3 DEF RoundEarning
      <3>3. /\ Saturate(pay + amount) \in Nat
            /\ Saturate(pay + amount) <= pay + amount
            /\ pay + amount <= U64Max => Saturate(pay + amount) = pay + amount
        BY <1>7, SaturateNat
      <3> DEFINE k == Saturate(pay + amount)
                 m == pay
                 b == billing.observation
      <3>4. /\ k \in Nat /\ m \in Nat /\ b \in Nat /\ k <= m + amount
            /\ m + amount <= U64Max => k = m + amount
            /\ earned'[t] = earned[t] + (b + amount)
            /\ OwedTo(t)' = due(t) + b + k /\ OwedTo(t) = due(t) + m
        BY <1>5, <1>7, <3>1, <3>2, <3>3
      <3> HIDE DEF pay, k, m, b
      <3>5. /\ paid[t] + (due(t) + b + k) <= earned[t] + (b + amount)
            /\ earned[t] + (b + amount) <= U64Max =>
                 paid[t] + (due(t) + b + k) = earned[t] + (b + amount)
        <4>1. /\ paid[t] \in Nat /\ earned[t] \in Nat /\ due(t) \in Nat
              /\ paid[t] + (due(t) + m) <= earned[t]
              /\ earned[t] <= U64Max => paid[t] + (due(t) + m) = earned[t]
          BY <2>1, <2>2, <2>3, <3>1, <3>4
        <4>2. amount \in Nat /\ U64Max \in Nat  BY <1>6, AggregatorAssumption
        <4>3. /\ k \in Nat /\ m \in Nat /\ b \in Nat /\ k <= m + amount
              /\ m + amount <= U64Max => k = m + amount
          BY <3>4
        <4> DEFINE p == paid[t]
                   d == due(t)
                   g == earned[t]
        <4>4. /\ p \in Nat /\ g \in Nat /\ d \in Nat /\ p + (d + m) <= g
              /\ g <= U64Max => p + (d + m) = g
          BY <4>1
        <4> HIDE DEF p, d, g
        <4>5. /\ p + (d + b + k) <= g + (b + amount)
              /\ g + (b + amount) <= U64Max => p + (d + b + k) = g + (b + amount)
          BY <4>2, <4>3, <4>4
        <4> QED  BY <4>5 DEF p, d, g
      <3> QED  BY <2>2, <2>3, <3>4, <3>5
    <2>4. CASE s \in OracleSet /\ s # t
      <3>1. OwedTo(s)' = (latest_round_id' - oracles[s].from_round_id)
                            * billing'.observation + oracles[s].payment_gjuels
        BY <1>3, <2>4, EntryOwed
      <3>2. /\ OwedTo(s)' = due(s) + billing.observation
                              + oracles[s].payment_gjuels
            /\ OwedTo(s) = due(s) + oracles[s].payment_gjuels
            /\ due(s) \in Nat
        BY <1>12, <2>4, <3>1
      <3>3. oracles[s].payment_gjuels \in Nat
        BY <1>0, <2>4 DEF ConfigInv, TypeOK, ActiveOracle
      <3>4. earned'[s] = earned[s] + (billing.observation + 0)
        BY <1>9, <2>4 DEF RoundEarning
      <3> DEFINE b == billing.observation
      <3>5. /\ b \in Nat /\ earned'[s] = earned[s] + b
            /\ OwedTo(s)' = due(s) + b + oracles[s].payment_gjuels
        BY <1>5, <2>2, <3>2, <3>4
      <3> DEFINE p == paid[s]
                 d == due(s)
                 g == earned[s]
                 m == oracles[s].payment_gjuels
      <3>6. /\ p \in Nat /\ g \in Nat /\ d \in Nat /\ m \in Nat
            /\ U64Max \in Nat /\ b \in Nat /\ p + (d + m) <= g
            /\ g <= U64Max => p + (d + m) = g
        BY <2>1, <2>2, <3>2, <3>3, <3>5
      <3>7. paid'[s] = p /\ OwedTo(s)' = d + b + m /\ earned'[s] = g + b
        BY <2>2, <3>5
      <3> HIDE DEF b, p, d, g, m
      <3>8. /\ p + (d + b + m) <= g + b
            /\ g + b <= U64Max => p + (d + b + m) = g + b
        BY <3>6
      <3> QED  BY <3>7, <3>8
    <2>5. CASE s \notin OracleSet
      <3>1. OwedTo(s)' = 0  BY <1>3, <2>5, EntryOwed
      <3>2. OwedTo(s) = 0  BY <1>0, <2>5, OwedToIs
      <3>3. earned'[s] = earned[s]
        BY <1>9, <2>2, <2>5 DEF RoundEarning
      <3> QED  BY <2>1, <2>2, <3>1, <3>2, <3>3
    <2> QED  BY <2>3, <2>4, <2>5
  <1>14. AccountsBalance'  BY <1>13 DEF AccountsBalance
  <1> QED  BY <1>11, <1>14 DEF BooksInv

-----------------------------------------------------------------------------
(* Every instruction keeps the invariant. *)
LEMMA NextInv == BooksInv /\ [Next]_vars => BooksInv'
  <1> SUFFICES ASSUME BooksInv, [Next]_vars PROVE BooksInv'  OBVIOUS
  <1>0. ProposalsInv  BY DEF BooksInv, ConfigInv, TypeOK, ProposalsInv
  <1>1. ASSUME ProposalsNext,
               UNCHANGED <<is_open, configVars, reportVars, billing, vault,
                           funded, books>>
        PROVE  BooksInv'
    <2>1. ProposalsInv'  BY <1>0, <1>1, ProposalStepInv DEF ProposalsNext
    <2> QED  BY <1>1, <2>1, ElsewhereInv DEF configVars, reportVars, books
  <1>2. ASSUME NEW p \in ProposalId, accept_proposal(p) PROVE BooksInv'
    BY <1>2, AcceptInv
  <1>3. CASE pay_oracles \/ \E o, t \in Price : set_billing(o, t)
    BY <1>3, SettleInv
  <1>4. CASE close  BY <1>4, CloseInv
  <1>5. ASSUME NEW amount \in Amount, withdraw_funds(amount) \/ Fund(amount)
        PROVE  BooksInv'
    <2>1. UNCHANGED <<proposals, is_open, oracles, cfg_f, config_count,
                      latest_round_id, answer, billing, earned, paid>>
      BY <1>5 DEF withdraw_funds, Fund, configVars, reportVars, books
    <2>2. ProposalsInv'  BY <1>0, <2>1 DEF ProposalsInv, ProposalsFit
    <2> QED  BY <2>1, <2>2, ElsewhereInv
  <1>6. ASSUME NEW payee \in Payee, withdraw_payment(payee) PROVE BooksInv'
    BY <1>6, WithdrawInv
  <1>7. ASSUME NEW s \in OracleSet,
               accept_payeeship(s) \/ \E q \in Payee : transfer_payeeship(s, q)
        PROVE  BooksInv'
    BY <1>7, PayeeshipInv
  <1>8. ASSUME NEW s \in OracleSet, NEW rep \in Report,
               NEW price \in ComputeUnitPrice, transmit(s, rep, price)
        PROVE  BooksInv'
    BY <1>8, TransmitInv
  <1>9. CASE UNCHANGED vars
    <2>1. UNCHANGED <<proposals, is_open, oracles, cfg_f, config_count,
                      latest_round_id, answer, billing, earned, paid>>
      BY <1>9 DEF vars, configVars, reportVars, books
    <2>2. ProposalsInv'  BY <1>0, <2>1 DEF ProposalsInv, ProposalsFit
    <2> QED  BY <2>1, <2>2, ElsewhereInv
  <1> QED
    BY <1>1, <1>2, <1>3, <1>4, <1>5, <1>6, <1>7, <1>8, <1>9 DEF Next

(* The inductive invariant holds in every reachable state. *)
LEMMA BooksInvariant == Spec => []BooksInv
  BY InitInv, NextInv, PTL DEF Spec

(***************************************************************************)
(* The oracle set in force has 3f < n, f > 0, distinct transmitters and    *)
(* payees of the aggregator's mint (accept_proposal and the instructions   *)
(* that edit proposals and payees).                                        *)
(***************************************************************************)
THEOREM ConfigStaysValid == Spec => []ActiveConfigValid
  <1>1. BooksInv => ActiveConfigValid
    BY DEF BooksInv, ConfigInv, TypeOK, ConfigFits, SizeFits, OwnTransmitters,
           OracleSet, ActiveConfigValid, ActiveOracle
  <1> QED  BY <1>1, BooksInvariant, PTL

(***************************************************************************)
(* What an oracle has been paid and is owed never exceeds what it earned,  *)
(* and equals it while that fits a u64, whatever prices, oracle sets and   *)
(* payouts came and went (pay_oracles_impl, set_billing, transmit).        *)
(***************************************************************************)
THEOREM BooksBalance == Spec => []AccountsBalance
  <1>1. BooksInv => AccountsBalance  BY DEF BooksInv
  <1> QED  BY <1>1, BooksInvariant, PTL

(***************************************************************************)
(* Whatever oracle sets come and go, and with whatever f: while at most    *)
(* cfg_f signers of the set in force are faulty, transmit accepts no       *)
(* median that no correct oracle would sign.                               *)
(***************************************************************************)
THEOREM MedianEndorsed == Spec => AnswerEndorsed
  <1> DEFINE A == (<<epoch, round>>' # <<epoch, round>> /\ Tolerated)
                    => answer' \in HonestAnswer
  <1>1. ASSUME BooksInv, Next PROVE A
    <2> SUFFICES ASSUME <<epoch, round>>' # <<epoch, round>>, Tolerated
                 PROVE  answer' \in HonestAnswer
      OBVIOUS
    <2>1. PICK t \in OracleSet, rep \in Report, price \in ComputeUnitPrice :
            transmit(t, rep, price)
      BY <1>1 DEF Next, reportVars, accept_proposal, pay_oracles, set_billing,
         close, withdraw_funds, Fund, withdraw_payment, transfer_payeeship,
         accept_payeeship
    <2> QED  BY <1>1, <2>1, TransmitEndorsed DEF BooksInv
  <1>2. BooksInv /\ [Next]_vars => [A]_vars  BY <1>1
  <1> QED  BY <1>2, BooksInvariant, PTL DEF Spec, AnswerEndorsed

-----------------------------------------------------------------------------
(* The sum of a function's values over a set, as MapThenSumSet takes it. *)
Sum(f, S) == MapThenSumSet(LAMBDA s : f[s], S)

First(s) == CHOOSE x \in s : TRUE

(* g is a table of the sums over the subsets of S. *)
Sums(f, S, g) ==
  g = [s \in SUBSET S |->
         IF s = {} THEN 0 ELSE f[First(s)] + g[s \ {First(s)}]]

TableOf(f, S) == CHOOSE g : Sums(f, S, g)

(* Sum reads the table that MapThenFoldSet chooses. *)
LEMMA SumIsChosen ==
  ASSUME NEW f, NEW S
  PROVE  Sum(f, S) = TableOf(f, S)[S]
  BY Zenon DEF Sum, MapThenSumSet, MapThenFoldSet, Sums, First, TableOf

(* A set of naturals has a least element. *)
LEMMA Least ==
  ASSUME NEW T \in SUBSET Nat, T # {}
  PROVE  \E n \in T : \A m \in T : n <= m
  <1>1. PICK n \in T : \A m \in T : ~(<<m, n>> \in OpToRel(<, Nat))
    BY WFMin, NatLessThanWellFounded
  <1>2. ASSUME NEW m \in T PROVE n <= m
    <2>1. n \in Nat /\ m \in Nat  OBVIOUS
    <2>2. ~(m < n)  BY <1>1, <2>1 DEF OpToRel
    <2> QED  BY <2>1, <2>2
  <1> QED  BY <1>2

(* Some of a collection of finite sets is none of them plus an element. *)
LEMMA Smallest ==
  ASSUME NEW C, C # {}, \A T \in C : IsFiniteSet(T)
  PROVE  \E T \in C : \A U \in C : ~(\E x \in T : U = T \ {x})
  <1> DEFINE N == {Cardinality(T) : T \in C}
  <1>1. \A T \in C : Cardinality(T) \in Nat  BY FS_CardinalityType
  <1>2. N \in SUBSET Nat /\ N # {}  BY <1>1
  <1>3. PICK n \in N : \A m \in N : n <= m
    <2> HIDE DEF N
    <2> QED  BY <1>2, Least
  <1>4. PICK T \in C : Cardinality(T) = n  OBVIOUS
  <1>5. ASSUME NEW U \in C, NEW x \in T, U = T \ {x} PROVE FALSE
    <2>1. Cardinality(U) = Cardinality(T) - 1  BY <1>5, FS_RemoveElement
    <2>2. Cardinality(T) <= Cardinality(U)  BY <1>3, <1>4
    <2> QED  BY <1>1, <2>1, <2>2
  <1> QED  BY <1>5

(* The element a sum takes first is one of the set. *)
LEMMA FirstIn == ASSUME NEW s, s # {} PROVE First(s) \in s
  BY DEF First

(* What a table holds for one subset. *)
LEMMA TableAt ==
  ASSUME NEW f, NEW S, NEW g, Sums(f, S, g), NEW s \in SUBSET S
  PROVE  g[s] = IF s = {} THEN 0 ELSE f[First(s)] + g[s \ {First(s)}]
  <1> DEFINE e(t, h) == IF t = {} THEN 0 ELSE f[First(t)] + h[t \ {First(t)}]
             G == [t \in SUBSET S |-> e(t, g)]
  <1>1. g = G  BY DEF Sums
  <1>2. G[s] = e(s, g)  BY Zenon
  <1> QED  BY <1>1, <1>2

(* Tables of two sets hold the same for their common subsets. *)
LEMMA TablesAgree ==
  ASSUME NEW f, NEW S, NEW T, NEW g, NEW h, Sums(f, S, g), Sums(f, T, h),
         IsFiniteSet(S)
  PROVE  \A s \in SUBSET (S \cap T) : g[s] = h[s]
  <1> DEFINE C == {s \in SUBSET (S \cap T) : g[s] # h[s]}
  <1> SUFFICES ASSUME C # {} PROVE FALSE  OBVIOUS
  <1>1. \A s \in C : IsFiniteSet(s)  BY FS_Subset
  <1>2. PICK s \in C : \A u \in C : ~(\E x \in s : u = s \ {x})
    <2> HIDE DEF C
    <2> QED  BY <1>1, Smallest
  <1>3. /\ g[s] = IF s = {} THEN 0 ELSE f[First(s)] + g[s \ {First(s)}]
        /\ h[s] = IF s = {} THEN 0 ELSE f[First(s)] + h[s \ {First(s)}]
    <2>1. s \in SUBSET S /\ s \in SUBSET T  OBVIOUS
    <2> HIDE DEF C
    <2>2. g[s] = IF s = {} THEN 0 ELSE f[First(s)] + g[s \ {First(s)}]
      BY <2>1, TableAt
    <2>3. h[s] = IF s = {} THEN 0 ELSE f[First(s)] + h[s \ {First(s)}]
      BY <2>1, TableAt
    <2> QED  BY <2>2, <2>3
  <1>4. CASE s = {}  BY <1>3, <1>4
  <1>5. CASE s # {}
    <2>1. First(s) \in s  BY <1>5, FirstIn
    <2>2. g[s \ {First(s)}] = h[s \ {First(s)}]  BY <1>2, <2>1
    <2> QED  BY <1>3, <1>5, <2>2
  <1> QED  BY <1>4, <1>5

(* Every finite set has a table: the recursion is well founded. *)
LEMMA TableExists ==
  ASSUME NEW f, NEW S, IsFiniteSet(S)
  PROVE  \E g : Sums(f, S, g)
  <1> DEFINE C == {T \in SUBSET S : ~\E g : Sums(f, T, g)}
  <1> SUFFICES ASSUME C # {} PROVE FALSE  OBVIOUS
  <1>1. \A T \in C : IsFiniteSet(T)  BY FS_Subset
  <1>2. PICK T \in C : \A U \in C : ~(\E x \in T : U = T \ {x})
    <2> HIDE DEF C
    <2> QED  BY <1>1, Smallest
  <1>3. ASSUME NEW x \in T
        PROVE  Sums(f, T \ {x}, TableOf(f, T \ {x}))
    <2>1. \E g : Sums(f, T \ {x}, g)  BY <1>2
    <2> QED  BY <2>1 DEF TableOf
  <1> DEFINE v(s) == IF s = {} THEN 0
                     ELSE f[First(s)]
                            + TableOf(f, T \ {First(s)})[s \ {First(s)}]
             G == [s \in SUBSET T |-> v(s)]
  <1>4. ASSUME NEW s \in SUBSET T
        PROVE  v(s) = IF s = {} THEN 0 ELSE f[First(s)] + G[s \ {First(s)}]
    <2>1. CASE s = {}  BY <2>1
    <2>2. CASE s # {}
      <3> DEFINE x == First(s)
                 t == s \ {x}
                 y == First(t)
                 g == TableOf(f, T \ {x})
      <3>1. x \in s /\ x \in T /\ t \in SUBSET T /\ t \in SUBSET (T \ {x})  BY <2>2, FirstIn
      <3>2. Sums(f, T \ {x}, g)  BY <1>3, <3>1
      <3>3. G[t] = v(t)  BY <3>1
      <3>4. g[t] = v(t)
        <4>1. g[t] = IF t = {} THEN 0 ELSE f[First(t)] + g[t \ {First(t)}]
          <5> HIDE DEF x, t, g
          <5> QED  BY <3>1, <3>2, TableAt
        <4>2. CASE t = {}
          <5> HIDE DEF t, g
          <5> QED  BY <4>1, <4>2
        <4>3. CASE t # {}
          <5>1. y \in t /\ y \in T  BY <3>1, <4>3, FirstIn
          <5>2. Sums(f, T \ {y}, TableOf(f, T \ {y}))  BY <1>3, <5>1
          <5>3. t \ {y} \in SUBSET ((T \ {x}) \cap (T \ {y}))  BY <3>1
          <5>4. IsFiniteSet(T \ {x})  BY <1>1, FS_RemoveElement
          <5>5. g[t \ {y}] = TableOf(f, T \ {y})[t \ {y}]
            <6> HIDE DEF x, t, y, g
            <6> QED  BY <3>2, <5>2, <5>3, <5>4, TablesAgree
          <5>6. v(t) = f[y] + TableOf(f, T \ {y})[t \ {y}]
            <6> HIDE DEF t, x
            <6> QED  BY <4>3
          <5>7. g[t] = f[y] + g[t \ {y}]
            <6> HIDE DEF t, g
            <6> QED  BY <4>1, <4>3
          <5> HIDE DEF t, g, y, v
          <5> QED  BY <5>5, <5>6, <5>7
        <4> QED  BY <4>2, <4>3
      <3>5. v(s) = f[x] + g[t]  BY <2>2
      <3> HIDE DEF v, G, g, t, x
      <3>6. v(s) = f[x] + G[t]  BY <3>3, <3>4, <3>5
      <3> QED  BY <2>2, <3>6 DEF x, t
    <2> QED  BY <2>1, <2>2
  <1>5. G = [s \in SUBSET T |->
               IF s = {} THEN 0 ELSE f[First(s)] + G[s \ {First(s)}]]
    <2>0. G = [s \in SUBSET T |-> v(s)]  OBVIOUS
    <2> HIDE DEF v, G
    <2> QED  BY <1>4, <2>0
  <1>6. Sums(f, T, G)
    <2> HIDE DEF G
    <2> QED  BY <1>5 DEF Sums
  <1> HIDE DEF G
  <1> QED  BY <1>2, <1>6

(* A sum is that of the first element and of the others. *)
LEMMA SumStep ==
  ASSUME NEW f, NEW S, IsFiniteSet(S)
  PROVE  /\ S = {} => Sum(f, S) = 0
         /\ S # {} => Sum(f, S) = f[First(S)] + Sum(f, S \ {First(S)})
  <1> DEFINE R == S \ {First(S)}
             g == TableOf(f, S)
             h == TableOf(f, R)
  <1>1. IsFiniteSet(R)  BY FS_RemoveElement
  <1>2. Sums(f, S, g) /\ Sums(f, R, h)
    BY <1>1, TableExists DEF TableOf
  <1>3. R \in SUBSET (S \cap R) /\ S \in SUBSET S  OBVIOUS
  <1> HIDE DEF g, h, R
  <1>4. g[R] = h[R]  BY <1>2, <1>3, TablesAgree
  <1>5. g[S] = IF S = {} THEN 0 ELSE f[First(S)] + g[S \ {First(S)}]
    <2>1. PICK T : T = S  OBVIOUS
    <2>2. T \in SUBSET S /\ Sums(f, S, g)  BY <1>2, <2>1
    <2>3. g[T] = IF T = {} THEN 0 ELSE f[First(T)] + g[T \ {First(T)}]
      BY <2>2, TableAt
    <2> QED  BY <2>1, <2>3
  <1>6. Sum(f, S) = g[S] /\ Sum(f, R) = h[R]  BY SumIsChosen DEF g, h
  <1> QED  BY <1>4, <1>5, <1>6 DEF R

(* A sum of naturals is a natural. *)
LEMMA SumNat ==
  ASSUME NEW f, NEW S, IsFiniteSet(S), \A s \in S : f[s] \in Nat
  PROVE  Sum(f, S) \in Nat
  <1> DEFINE C == {T \in SUBSET S : Sum(f, T) \notin Nat}
  <1> SUFFICES ASSUME C # {} PROVE FALSE  OBVIOUS
  <1>1. \A T \in C : IsFiniteSet(T)  BY FS_Subset
  <1>2. PICK T \in C : \A U \in C : ~(\E x \in T : U = T \ {x})
    <2> HIDE DEF C
    <2> QED  BY <1>1, Smallest
  <1>3. CASE T = {}
    <2>1. Sum(f, T) = 0  BY <1>1, <1>3, SumStep
    <2> QED  BY <2>1
  <1>4. CASE T # {}
    <2>1. First(T) \in T  BY <1>4, FirstIn
    <2>2. Sum(f, T \ {First(T)}) \in Nat /\ f[First(T)] \in Nat  BY <1>2, <2>1
    <2>3. Sum(f, T) = f[First(T)] + Sum(f, T \ {First(T)})
      BY <1>1, <1>4, SumStep
    <2> QED  BY <2>2, <2>3
  <1> QED  BY <1>3, <1>4

(* Any element may be taken out of a sum. *)
LEMMA SumRemove ==
  ASSUME NEW f, NEW S, IsFiniteSet(S), \A s \in S : f[s] \in Nat, NEW z \in S
  PROVE  Sum(f, S) = f[z] + Sum(f, S \ {z})
  <1> DEFINE Ok(T) == \A x \in T : Sum(f, T) = f[x] + Sum(f, T \ {x})
             C == {T \in SUBSET S : ~Ok(T)}
  <1> SUFFICES ASSUME C # {} PROVE FALSE  OBVIOUS
  <1>1. \A T \in SUBSET S : IsFiniteSet(T) /\ Sum(f, T) \in Nat
    BY FS_Subset, SumNat
  <1>2. PICK T \in C : \A U \in C : ~(\E x \in T : U = T \ {x})
    <2>1. \A T \in C : IsFiniteSet(T)  BY <1>1
    <2> HIDE DEF C
    <2> QED  BY <2>1, Smallest
  <1>3. PICK x \in T : Sum(f, T) # f[x] + Sum(f, T \ {x})  OBVIOUS
  <1> DEFINE c == First(T)
             R == T \ {c, x}
  <1>4. c \in T /\ Sum(f, T) = f[c] + Sum(f, T \ {c})
    BY <1>1, FirstIn, SumStep
  <1>5. c # x  BY <1>3, <1>4
  <1>6. Ok(T \ {c}) /\ Ok(T \ {x})  BY <1>2, <1>4
  <1>7. (T \ {c}) \ {x} = R /\ (T \ {x}) \ {c} = R  OBVIOUS
  <1>8. /\ Sum(f, T \ {c}) = f[x] + Sum(f, R)
        /\ Sum(f, T \ {x}) = f[c] + Sum(f, R)
    BY <1>4, <1>5, <1>6, <1>7
  <1>9. /\ f[c] \in Nat /\ f[x] \in Nat /\ Sum(f, R) \in Nat
    BY <1>1, <1>4
  <1> HIDE DEF c, R, C
  <1>10. Sum(f, T) = f[x] + (f[c] + Sum(f, R))  BY <1>4, <1>8, <1>9
  <1> QED  BY <1>3, <1>8, <1>10

(* Sums of equal terms are equal. *)
LEMMA SumSame ==
  ASSUME NEW f, NEW h, NEW S, IsFiniteSet(S), \A s \in S : f[s] = h[s]
  PROVE  Sum(f, S) = Sum(h, S)
  <1> DEFINE C == {T \in SUBSET S : Sum(f, T) # Sum(h, T)}
  <1> SUFFICES ASSUME C # {} PROVE FALSE  OBVIOUS
  <1>1. \A T \in C : IsFiniteSet(T)  BY FS_Subset
  <1>2. PICK T \in C : \A U \in C : ~(\E x \in T : U = T \ {x})
    <2> HIDE DEF C
    <2> QED  BY <1>1, Smallest
  <1>3. CASE T = {}  BY <1>1, <1>3, SumStep
  <1>4. CASE T # {}
    <2>1. First(T) \in T  BY <1>4, FirstIn
    <2>2. Sum(f, T \ {First(T)}) = Sum(h, T \ {First(T)})
          /\ f[First(T)] = h[First(T)]
      BY <1>2, <2>1
    <2>3. /\ Sum(f, T) = f[First(T)] + Sum(f, T \ {First(T)})
          /\ Sum(h, T) = h[First(T)] + Sum(h, T \ {First(T)})
      BY <1>1, <1>4, SumStep
    <2> QED  BY <2>2, <2>3
  <1> QED  BY <1>3, <1>4

(* A sum of zeros is zero. *)
LEMMA SumZero ==
  ASSUME NEW f, NEW S, IsFiniteSet(S), \A s \in S : f[s] = 0
  PROVE  Sum(f, S) = 0
  <1> DEFINE C == {T \in SUBSET S : Sum(f, T) # 0}
  <1> SUFFICES ASSUME C # {} PROVE FALSE  OBVIOUS
  <1>1. \A T \in C : IsFiniteSet(T)  BY FS_Subset
  <1>2. PICK T \in C : \A U \in C : ~(\E x \in T : U = T \ {x})
    <2> HIDE DEF C
    <2> QED  BY <1>1, Smallest
  <1>3. CASE T = {}  BY <1>1, <1>3, SumStep
  <1>4. CASE T # {}
    <2>1. First(T) \in T  BY <1>4, FirstIn
    <2>2. Sum(f, T \ {First(T)}) = 0 /\ f[First(T)] = 0  BY <1>2, <2>1
    <2>3. Sum(f, T) = f[First(T)] + Sum(f, T \ {First(T)})
      BY <1>1, <1>4, SumStep
    <2> QED  BY <2>2, <2>3
  <1> QED  BY <1>3, <1>4

(* One step of SumLinear. *)
LEMMA LinearStep ==
  ASSUME NEW r \in Nat, NEW q \in Nat, NEW b \in Nat, NEW R \in Nat, NEW Q \in Nat
  PROVE  (r * b + q) + (b * R + Q) = b * (r + R) + (q + Q)
  OBVIOUS

(* A price for every round and a payment, summed apart. *)
LEMMA SumLinear ==
  ASSUME NEW f, NEW r, NEW q, NEW b \in Nat, NEW S, IsFiniteSet(S),
         \A s \in S : /\ r[s] \in Nat /\ q[s] \in Nat
                      /\ f[s] = r[s] * b + q[s]
  PROVE  Sum(f, S) = b * Sum(r, S) + Sum(q, S)
  <1> DEFINE C == {T \in SUBSET S : Sum(f, T) # b * Sum(r, T) + Sum(q, T)}
  <1> SUFFICES ASSUME C # {} PROVE FALSE  OBVIOUS
  <1>1. \A T \in SUBSET S : /\ IsFiniteSet(T)
                            /\ Sum(r, T) \in Nat /\ Sum(q, T) \in Nat
    BY FS_Subset, SumNat
  <1>2. PICK T \in C : \A U \in C : ~(\E x \in T : U = T \ {x})
    <2>1. \A T \in C : IsFiniteSet(T)  BY <1>1
    <2> HIDE DEF C
    <2> QED  BY <2>1, Smallest
  <1>3. CASE T = {}
    <2>1. Sum(f, T) = 0 /\ Sum(r, T) = 0 /\ Sum(q, T) = 0
      BY <1>1, <1>3, SumStep
    <2> QED  BY <2>1
  <1>4. CASE T # {}
    <2> DEFINE c == First(T)
               U == T \ {c}
    <2>1. c \in T  BY <1>4, FirstIn
    <2>2. Sum(f, U) = b * Sum(r, U) + Sum(q, U)  BY <1>2, <2>1
    <2>3. /\ Sum(f, T) = f[c] + Sum(f, U) /\ Sum(r, T) = r[c] + Sum(r, U)
          /\ Sum(q, T) = q[c] + Sum(q, U)
      BY <1>1, <1>4, SumStep
    <2>4. /\ r[c] \in Nat /\ q[c] \in Nat /\ f[c] = r[c] * b + q[c]
          /\ Sum(r, U) \in Nat /\ Sum(q, U) \in Nat
      BY <1>1, <2>1
    <2>5. (r[c] * b + q[c]) + (b * Sum(r, U) + Sum(q, U))
            = b * (r[c] + Sum(r, U)) + (q[c] + Sum(q, U))
      BY <2>4, LinearStep
    <2>6. Sum(f, T) # b * Sum(r, T) + Sum(q, T)  OBVIOUS
    <2> HIDE DEF c, U, C
    <2> QED  BY <2>2, <2>3, <2>4, <2>5, <2>6
  <1> QED  BY <1>3, <1>4

-----------------------------------------------------------------------------
(* The rounds that withdraw_funds holds back, as the sum of a function. *)
LEMMA RoundsSum ==
  ASSUME NEW S, NEW r, S = OracleSet,
         \A s \in S : r[s] = latest_round_id - oracles[s].from_round_id
  PROVE  RoundsDue = Sum(r, S)
  <1> DEFINE v(g, s) == IF s = {} THEN 0
                        ELSE (latest_round_id - oracles[First(s)].from_round_id)
                               + g[s \ {First(s)}]
             w(g, s) == IF s = {} THEN 0
                        ELSE r[First(s)] + g[s \ {First(s)}]
             P(g) == g = [s \in SUBSET S |-> v(g, s)]
  <1>1. ASSUME NEW g PROVE P(g) <=> Sums(r, S, g)
    <2>1. \A s \in SUBSET S : v(g, s) = w(g, s)  BY FirstIn
    <2>2. [s \in SUBSET S |-> v(g, s)] = [s \in SUBSET S |-> w(g, s)]
      <3> HIDE DEF v, w
      <3> QED  BY <2>1
    <2> QED  BY <2>2 DEF Sums
  <1>2. (CHOOSE g : P(g)) = CHOOSE g : Sums(r, S, g)
    <2> HIDE DEF P
    <2> QED  BY <1>1, Zenon
  <1>3. RoundsDue = (CHOOSE g : P(g))[S]
    BY Zenon DEF RoundsDue, MapThenSumSet, MapThenFoldSet, First
  <1> HIDE DEF P
  <1> QED  BY <1>2, <1>3, SumIsChosen DEF TableOf

(* The same for the payments. *)
LEMMA PaymentsSum ==
  ASSUME NEW S, NEW q, S = OracleSet,
         \A s \in S : q[s] = oracles[s].payment_gjuels
  PROVE  PaymentsDue = Sum(q, S)
  <1> DEFINE v(g, s) == IF s = {} THEN 0
                        ELSE oracles[First(s)].payment_gjuels
                               + g[s \ {First(s)}]
             w(g, s) == IF s = {} THEN 0
                        ELSE q[First(s)] + g[s \ {First(s)}]
             P(g) == g = [s \in SUBSET S |-> v(g, s)]
  <1>1. ASSUME NEW g PROVE P(g) <=> Sums(q, S, g)
    <2>1. \A s \in SUBSET S : v(g, s) = w(g, s)  BY FirstIn
    <2>2. [s \in SUBSET S |-> v(g, s)] = [s \in SUBSET S |-> w(g, s)]
      <3> HIDE DEF v, w
      <3> QED  BY <2>1
    <2> QED  BY <2>2 DEF Sums
  <1>2. (CHOOSE g : P(g)) = CHOOSE g : Sums(q, S, g)
    <2> HIDE DEF P
    <2> QED  BY <1>1, Zenon
  <1>3. PaymentsDue = (CHOOSE g : P(g))[S]
    BY Zenon DEF PaymentsDue, MapThenSumSet, MapThenFoldSet, First
  <1> HIDE DEF P
  <1> QED  BY <1>2, <1>3, SumIsChosen DEF TableOf

(* The oracles are finitely many, and what they are owed is a natural. *)
LEMMA TotalNat ==
  ASSUME ConfigInv
  PROVE  /\ IsFiniteSet(OracleSet) /\ TotalOwed = Sum(Owed, OracleSet)
         /\ TotalOwed \in Nat
  <1>1. IsFiniteSet(OracleSet)
    <2>1. CASE OracleSet = {}  BY <2>1, FS_EmptySet
    <2>2. CASE OracleSet # {}  BY <2>2 DEF ConfigInv, ConfigFits, SizeFits
    <2> QED  BY <2>1, <2>2
  <1>2. TotalOwed = Sum(Owed, OracleSet)  BY Zenon DEF TotalOwed, Sum
  <1>3. PICK f, S : f = Owed /\ S = OracleSet  OBVIOUS
  <1>4. \A s \in S : f[s] \in Nat  BY <1>3, OwedNat
  <1>5. Sum(f, S) \in Nat  BY <1>1, <1>3, <1>4, SumNat
  <1> QED  BY <1>1, <1>2, <1>3, <1>5

(***************************************************************************)
(* What withdraw_funds keeps back, one product for all the rounds, is the  *)
(* sum of what pay_oracles would pay.                                      *)
(***************************************************************************)
LEMMA LinkDueIsOwed ==
  ASSUME ConfigInv PROVE calculate_total_link_due_gjuels = TotalOwed
  <1>1. PICK S, f, a, o, b :
          S = OracleSet /\ f = Owed /\ a = latest_round_id /\ o = oracles
          /\ b = billing.observation
    OBVIOUS
  <1> DEFINE r == [s \in S |-> a - o[s].from_round_id]
             q == [s \in S |-> o[s].payment_gjuels]
  <1>2. IsFiniteSet(S) /\ b \in Nat /\ TotalOwed = Sum(f, S)
    BY <1>1, TotalNat DEF ConfigInv, TypeOK
  <1>3. \A s \in S : /\ r[s] \in Nat /\ q[s] \in Nat /\ f[s] = r[s] * b + q[s]
    <2> SUFFICES ASSUME NEW s \in S
                 PROVE  r[s] \in Nat /\ q[s] \in Nat /\ f[s] = r[s] * b + q[s]
      OBVIOUS
    <2>1. r[s] = a - o[s].from_round_id /\ q[s] = o[s].payment_gjuels  OBVIOUS
    <2>2. /\ a - o[s].from_round_id \in Nat
          /\ f[s] = (a - o[s].from_round_id) * b + o[s].payment_gjuels
      BY <1>1, OwedNat
    <2>3. o[s].payment_gjuels \in Nat
      BY <1>1 DEF ConfigInv, TypeOK, ActiveOracle
    <2> HIDE DEF r, q
    <2> QED  BY <2>1, <2>2, <2>3
  <1>4. RoundsDue = Sum(r, S)
    <2>1. \A s \in S : r[s] = latest_round_id - oracles[s].from_round_id
      BY <1>1
    <2> HIDE DEF r
    <2> QED  BY <1>1, <2>1, RoundsSum
  <1>5. PaymentsDue = Sum(q, S)
    <2>1. \A s \in S : q[s] = oracles[s].payment_gjuels  BY <1>1
    <2> HIDE DEF q
    <2> QED  BY <1>1, <2>1, PaymentsSum
  <1> HIDE DEF r, q
  <1>6. Sum(f, S) = b * Sum(r, S) + Sum(q, S)  BY <1>2, <1>3, SumLinear
  <1> QED
    BY <1>1, <1>2, <1>4, <1>5, <1>6 DEF calculate_total_link_due_gjuels

(* The total after a step. *)
LEMMA TotalAfter ==
  /\ TotalOwed' = Sum(Owed', OracleSet')
  /\ \A s \in OracleSet' : OwedTo(s)' = Owed'[s]
  <1>1. TotalOwed' = Sum(Owed', OracleSet')
    BY Zenon DEF TotalOwed, Sum, MapThenSumSet, MapThenFoldSet
  <1>2. \A s \in OracleSet' : OwedTo(s)' = Owed'[s]  BY DEF OwedTo
  <1> QED  BY <1>1, <1>2

(* Oracles whose debts are settled are owed nothing. *)
LEMMA NothingOwed ==
  ASSUME ConfigInv, ConfigInv', UNCHANGED latest_round_id,
         \A s \in OracleSet' : /\ oracles'[s].from_round_id = latest_round_id
                               /\ oracles'[s].payment_gjuels = 0
  PROVE  TotalOwed' = 0
  <1>1. latest_round_id \in Nat /\ billing'.observation \in Nat
    BY DEF ConfigInv, TypeOK
  <1>2. ASSUME NEW s \in OracleSet' PROVE Owed'[s] = 0
    <2>1. Owed'[s] = (latest_round_id' - oracles'[s].from_round_id)
                       * billing'.observation + oracles'[s].payment_gjuels
      BY DEF Owed, calculate_owed_payment_gjuels
    <2>2. Owed'[s] = (latest_round_id - latest_round_id)
                       * billing'.observation + 0
      BY <2>1
    <2>3. \A a, b \in Nat : (a - a) * b + 0 = 0  OBVIOUS
    <2> QED  BY <1>1, <2>2, <2>3
  <1>3. PICK f, S : f = Owed' /\ S = OracleSet'  OBVIOUS
  <1>4. IsFiniteSet(S)
    <2>1. CASE S = {}  BY <2>1, FS_EmptySet
    <2>2. CASE S # {}  BY <1>3, <2>2 DEF ConfigInv, ConfigFits, SizeFits
    <2> QED  BY <2>1, <2>2
  <1>5. Sum(f, S) = 0  BY <1>2, <1>3, <1>4, SumZero
  <1> QED  BY <1>3, <1>5, TotalAfter

(* A step that changes no debt leaves the total. *)
LEMMA SameOwed ==
  ASSUME ConfigInv, OracleSet' = OracleSet,
         \A s \in OracleSet : OwedTo(s)' = OwedTo(s)
  PROVE  TotalOwed' = TotalOwed
  <1>1. PICK f, h, S : f = Owed /\ h = Owed' /\ S = OracleSet  OBVIOUS
  <1>2. \A s \in S : f[s] = h[s]  BY <1>1, TotalAfter DEF OwedTo
  <1>3. IsFiniteSet(S) /\ TotalOwed = Sum(f, S)  BY <1>1, TotalNat
  <1>4. Sum(f, S) = Sum(h, S)  BY <1>2, <1>3, SumSame
  <1> QED  BY <1>1, <1>3, <1>4, TotalAfter

(* A step that settles the debt to one oracle takes it off the total. *)
LEMMA OneSettled ==
  ASSUME ConfigInv, OracleSet' = OracleSet, NEW s \in OracleSet,
         OwedTo(s)' = 0,
         \A t \in OracleSet : t # s => OwedTo(t)' = OwedTo(t)
  PROVE  Owed[s] \in Nat /\ TotalOwed' = TotalOwed - Owed[s]
  <1>1. PICK f, h, S : f = Owed /\ h = Owed' /\ S = OracleSet  OBVIOUS
  <1>2. /\ h[s] = 0 /\ \A t \in S : t # s => f[t] = h[t]
    BY <1>1, TotalAfter DEF OwedTo
  <1>3. /\ IsFiniteSet(S) /\ TotalOwed = Sum(f, S)
        /\ \A t \in S : f[t] \in Nat
    BY <1>1, TotalNat, OwedNat
  <1>4. \A t \in S : h[t] \in Nat  BY <1>2, <1>3
  <1>5. IsFiniteSet(S \ {s}) /\ s \in S  BY <1>1, <1>3, FS_RemoveElement
  <1>6. Sum(f, S \ {s}) = Sum(h, S \ {s}) /\ Sum(f, S \ {s}) \in Nat
    BY <1>2, <1>3, <1>5, SumSame, SumNat
  <1>7. /\ Sum(f, S) = f[s] + Sum(f, S \ {s})
        /\ Sum(h, S) = h[s] + Sum(h, S \ {s})
    BY <1>3, <1>4, <1>5, SumRemove
  <1>8. f[s] \in Nat  BY <1>3, <1>5
  <1>9. Sum(h, S) = Sum(f, S) - f[s]  BY <1>2, <1>6, <1>7, <1>8
  <1> QED  BY <1>1, <1>3, <1>8, <1>9, TotalAfter

(***************************************************************************)
(* Every instruction leaves a balance, and one that covers the debts if    *)
(* the balance before did and no round was added.                          *)
(***************************************************************************)
LEMMA SolventStep ==
  ASSUME BooksInv, BooksInv', vault \in Nat, [Next]_vars
  PROVE  /\ vault' \in Nat
         /\ (TotalOwed <= vault /\ latest_round_id' = latest_round_id)
              => TotalOwed' <= vault'
  <1>0. ConfigInv /\ ConfigInv' /\ TotalOwed \in Nat /\ OracleSet \subseteq Signer
    BY TotalNat DEF BooksInv, ConfigInv, TypeOK
  <1> DEFINE Goal == /\ vault' \in Nat
                     /\ (TotalOwed <= vault /\ latest_round_id' = latest_round_id)
                          => TotalOwed' <= vault'
  <1>1. ASSUME UNCHANGED <<oracles, latest_round_id, billing>>
        PROVE  TotalOwed' = TotalOwed
    <2>1. OracleSet' = OracleSet /\ \A s \in OracleSet : OwedTo(s)' = OwedTo(s)
      BY <1>1 DEF OracleSet, OwedTo, Owed, calculate_owed_payment_gjuels
    <2> QED  BY <1>0, <2>1, SameOwed
  <1>2. ASSUME UNCHANGED <<oracles, latest_round_id, billing, vault>> PROVE Goal
    BY <1>0, <1>1, <1>2
  <1>3. ASSUME UNCHANGED <<is_open, configVars, reportVars, billing, vault,
                           funded, books>>
        PROVE  Goal
    BY <1>2, <1>3 DEF configVars, reportVars
  <1>4. ASSUME PayAll, UNCHANGED latest_round_id, vault' \in {vault - TotalOwed, 0},
               \A s \in OracleSet' :
                 /\ oracles'[s].from_round_id = latest_round_id
                 /\ oracles'[s].payment_gjuels = 0
        PROVE  Goal
    <2>1. TotalOwed' = 0  BY <1>0, <1>4, NothingOwed
    <2>2. TotalOwed <= vault  BY <1>4 DEF PayAll
    <2>3. vault' \in Nat  BY <1>0, <1>4, <2>2
    <2> QED  BY <2>1, <2>3
  <1>5. ASSUME NEW p \in ProposalId, accept_proposal(p) PROVE Goal
    BY <1>4, <1>5 DEF accept_proposal, reportVars, Accepted, OracleSet
  <1>6. CASE pay_oracles \/ \E o, t \in Price : set_billing(o, t)
    <2>1. /\ PayAll /\ oracles' = Settled /\ UNCHANGED latest_round_id
          /\ vault' = vault - TotalOwed
      BY <1>6 DEF pay_oracles, set_billing, reportVars
    <2>2. \A s \in OracleSet' :
             /\ oracles'[s].from_round_id = latest_round_id
             /\ oracles'[s].payment_gjuels = 0
      BY <1>0, <2>1 DEF Settled, OracleSet, ConfigInv, TypeOK, ActiveOracle
    <2>3. vault' \in {vault - TotalOwed, 0}  BY <2>1
    <2> QED  BY <1>4, <2>1, <2>2, <2>3
  <1>7. CASE close
    BY <1>4, <1>7 DEF close, reportVars, NoOracles, OracleSet
  <1>8. ASSUME NEW amount \in Amount, withdraw_funds(amount) PROVE Goal
    <2> DEFINE due == calculate_total_link_due_gjuels
               available == IF vault > due THEN vault - due ELSE 0
               take == IF amount < available THEN amount ELSE available
    <2>1. /\ vault' = vault - take
          /\ UNCHANGED <<oracles, latest_round_id, billing>>
      BY <1>8 DEF withdraw_funds, configVars, reportVars
    <2>2. due = TotalOwed /\ TotalOwed' = TotalOwed
      BY <1>0, <1>1, <2>1, LinkDueIsOwed
    <2>3. amount \in Nat  BY AggregatorAssumption
    <2> HIDE DEF due
    <2> QED  BY <1>0, <2>1, <2>2, <2>3
  <1>9. ASSUME NEW amount \in Amount, Fund(amount) PROVE Goal
    <2>1. /\ vault' = vault + amount /\ amount \in Nat
          /\ UNCHANGED <<oracles, latest_round_id, billing>>
      BY <1>9, AggregatorAssumption DEF Fund, configVars, reportVars
    <2>2. TotalOwed' = TotalOwed  BY <1>1, <2>1
    <2> QED  BY <1>0, <2>1, <2>2
  <1>10. ASSUME NEW payee \in Payee, withdraw_payment(payee) PROVE Goal
    <2>1. PICK s \in OracleSet : s = FirstWithPayee(payee)
      BY <1>0, <1>10, FirstExists DEF withdraw_payment
    <2>e. PICK e : e = [oracles[s] EXCEPT !.payment_gjuels = 0,
                                          !.from_round_id = latest_round_id]
      OBVIOUS
    <2>2. /\ EntryBecomes(s, e) /\ Owed[s] <= vault /\ vault' = vault - Owed[s]
          /\ UNCHANGED <<latest_round_id, billing>>
      BY <1>10, <2>1, <2>e DEF withdraw_payment, reportVars, EntryBecomes
    <2>3. e.from_round_id = latest_round_id /\ e.payment_gjuels = 0
      BY <1>0, <2>e DEF ConfigInv, TypeOK, ActiveOracle
    <2>4. OracleSet' = OracleSet /\ OwedTo(s)' = 0
      <3>1. /\ OracleSet' = OracleSet
            /\ OwedTo(s)' = (latest_round_id' - e.from_round_id)
                              * billing'.observation + e.payment_gjuels
        BY <2>2, EntryOwed
      <3>2. latest_round_id \in Nat /\ billing.observation \in Nat
        BY <1>0 DEF ConfigInv, TypeOK
      <3>3. OwedTo(s)' = (latest_round_id - latest_round_id)
                           * billing.observation + 0
        BY <2>2, <2>3, <3>1
      <3>4. \A a, b \in Nat : (a - a) * b + 0 = 0  OBVIOUS
      <3> QED  BY <3>1, <3>2, <3>3, <3>4
    <2>5. \A t \in OracleSet : t # s => OwedTo(t)' = OwedTo(t)
      BY <1>0, <2>2, EntryOwed, OwedToIs
    <2>6. Owed[s] \in Nat /\ TotalOwed' = TotalOwed - Owed[s]
      BY <1>0, <2>4, <2>5, OneSettled
    <2> QED  BY <1>0, <2>2, <2>6
  <1>11. ASSUME NEW s \in OracleSet,
                accept_payeeship(s) \/ \E q \in Payee : transfer_payeeship(s, q)
         PROVE  Goal
    <2>1. PICK e : /\ EntryBecomes(s, e)
                   /\ e.from_round_id = oracles[s].from_round_id
                   /\ e.payment_gjuels = oracles[s].payment_gjuels
      <3>1. oracles[s] \in ActiveOracle  BY <1>0 DEF ConfigInv, TypeOK
      <3>2. ASSUME NEW q \in Payee, transfer_payeeship(s, q)
            PROVE  \E e : /\ EntryBecomes(s, e)
                          /\ e.from_round_id = oracles[s].from_round_id
                          /\ e.payment_gjuels = oracles[s].payment_gjuels
        <4> DEFINE e == [oracles[s] EXCEPT !.proposed_payee = q]
        <4>1. EntryBecomes(s, e)  BY <3>2 DEF transfer_payeeship, EntryBecomes
        <4>2. /\ e.from_round_id = oracles[s].from_round_id
              /\ e.payment_gjuels = oracles[s].payment_gjuels
          BY <3>1 DEF ActiveOracle
        <4> HIDE DEF e
        <4> QED  BY <4>1, <4>2
      <3>3. ASSUME accept_payeeship(s)
            PROVE  \E e : /\ EntryBecomes(s, e)
                          /\ e.from_round_id = oracles[s].from_round_id
                          /\ e.payment_gjuels = oracles[s].payment_gjuels
        <4> DEFINE e == [oracles[s] EXCEPT !.payee = oracles[s].proposed_payee,
                                           !.proposed_payee = Default]
        <4>1. EntryBecomes(s, e)  BY <3>3 DEF accept_payeeship, EntryBecomes
        <4>2. /\ e.from_round_id = oracles[s].from_round_id
              /\ e.payment_gjuels = oracles[s].payment_gjuels
          BY <3>1 DEF ActiveOracle
        <4> HIDE DEF e
        <4> QED  BY <4>1, <4>2
      <3> QED  BY <1>11, <3>2, <3>3
    <2>2. UNCHANGED <<latest_round_id, billing, vault>>
      BY <1>11 DEF accept_payeeship, transfer_payeeship, reportVars
    <2>3. OracleSet' = OracleSet /\ \A t \in OracleSet : OwedTo(t)' = OwedTo(t)
      BY <1>0, <2>1, <2>2, EntryOwed, OwedToIs
    <2>4. TotalOwed' = TotalOwed  BY <1>0, <2>3, SameOwed
    <2> QED  BY <2>2, <2>4
  <1>12. ASSUME NEW s \in OracleSet, NEW rep \in Report,
                NEW price \in ComputeUnitPrice, transmit(s, rep, price)
         PROVE  Goal
    <2>1. vault' = vault /\ latest_round_id' = latest_round_id + 1
      BY <1>12 DEF transmit
    <2>2. latest_round_id' # latest_round_id
      BY <1>0, <2>1 DEF ConfigInv, TypeOK
    <2> QED  BY <2>1, <2>2
  <1>13. CASE UNCHANGED vars
    BY <1>2, <1>13 DEF vars, configVars, reportVars
  <1> QED
    BY <1>3, <1>5, <1>6, <1>7, <1>8, <1>9, <1>10, <1>11, <1>12, <1>13 DEF Next

(***************************************************************************)
(* A vault that covers what is owed goes on covering it until the next     *)
(* transmission, for any number of oracles: what withdraw_funds holds back *)
(* is what pay_oracles pays, and no instruction takes more than it settles.*)
(***************************************************************************)
THEOREM VaultStaysSolvent == Spec => StaysSolvent
  <1>1. Init => vault \in Nat  BY DEF Init
  <1>2. BooksInv /\ BooksInv' /\ vault \in Nat /\ [Next]_vars => (vault \in Nat)'
    BY SolventStep
  <1>3. Spec => [](vault \in Nat)
    BY <1>1, <1>2, BooksInvariant, PTL DEF Spec
  <1>4. BooksInv /\ BooksInv' /\ vault \in Nat /\ [Next]_vars =>
          [(is_open /\ TotalOwed <= vault /\ latest_round_id' = latest_round_id)
             => TotalOwed' <= vault']_vars
    BY SolventStep
  <1> QED  BY <1>3, <1>4, BooksInvariant, PTL DEF Spec, StaysSolvent
=============================================================================

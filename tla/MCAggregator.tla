---------------------------- MODULE MCAggregator ----------------------------
(***************************************************************************)
(* Model-checking instance of Aggregator.  n > 3f needs four oracles.  A   *)
(* behaviour is about money, with one authority and payees that stay, or   *)
(* about configurations, with no price, no funds and an oracle that hands  *)
(* over its payeeship and transmits, whoever signs.                        *)
(***************************************************************************)
EXTENDS Aggregator

CONSTANTS t1, t2, t3, t4, t5, t6, t7, p1, p2, q1, link, other, a1, a2

VARIABLE part

Entry(s, t) == [signer |-> s, transmitter |-> t]

First == <<Entry(1, t1), Entry(2, t2), Entry(3, t3), Entry(4, t4)>>
Second == <<Entry(5, t1), Entry(3, t3), Entry(2, t5), Entry(4, t4)>>
Seven == First \o <<Entry(5, t5), Entry(6, t6), Entry(7, t7)>>
TooShort == SubSeq(First, 1, 3)
SameSigner == <<Entry(1, t1), Entry(2, t2), Entry(1, t3), Entry(4, t4)>>
SameTransmitter == <<Entry(1, t1), Entry(2, t2), Entry(3, t2), Entry(4, t4)>>

AllLists == {First, Second, Seven, TooShort, SameSigner, SameTransmitter}
SomePayees == {[s \in Signer |-> p1], [s \in Signer |-> q1],
               [s \in Signer |-> IF s = 3 THEN q1 ELSE p1]}
MCMintOf == [p \in Payee |-> IF p = q1 THEN other ELSE link]

\* Bounds of the two parts, on the state after a step.
Money ==
  /\ \A p \in ProposalId : proposals[p] # None =>
       /\ proposals[p].owner = a1 /\ proposals[p].token_mint # other
       /\ Cardinality(DOMAIN proposals[p].oracles) <= 4
  /\ \A s \in OracleSet : oracles[s].proposed_payee = Default

Configurations ==
  /\ funded = 0 /\ billing.observation = 0
  /\ \A s \in OracleSet : s # 3 => /\ oracles[s].proposed_payee = Default
                                  /\ oracles[s].payment_gjuels = 0

MCInit == Init /\ part \in {"money", "configurations"}

MCNext ==
  /\ UNCHANGED part
  /\ Next
  /\ IF part = "money" THEN Money' ELSE Configurations'

MCSpec == MCInit /\ [][MCNext]_<<part, vars>>
=============================================================================

------------------------------- MODULE Digests ------------------------------
(***************************************************************************)
(* The digests that Go and the OCR2 program compute of the same data, in   *)
(* the course of Configure of integration-tests/solclient/ocr2.go: the     *)
(* owner stages a proposal in several transactions, computes its digest    *)
(* from the account and accepts it; then the oracles compute the config    *)
(* digest from the state that they read and compare it with the program's. *)
(* A digest is the sequence of the bytes hashed. A key is one number.      *)
(***************************************************************************)
EXTENDS Integers, Sequences, SequencesExt, FiniteSets

CONSTANTS
    Given,          \* the configurations that Configure is called with
    Answers,        \* the values of min_answer and max_answer
    ChunkSize,      \* bytes of the off-chain config per transaction
    Capacity,       \* bytes of the off-chain config that an account holds
    MaxConfigs      \* bound: config_count

VARIABLES
    pc,         \* the step of Configure
    given,      \* the configuration it was called with
    chunks,     \* chunks of the off-chain config still to write
    proposal,   \* the proposal account
    state,      \* the aggregator's state account
    digest,     \* what makeDigest returned
    ignored     \* history: a transaction of this call failed on chain

\* A call of Configure, from the fields of OffChainAggregatorV2Config.
DigestsAssumption ==
    /\ Given \subseteq [oracles : Seq([signer : Nat, transmitter : Nat]),
                       f : Nat, version : Nat, bytes : Seq(Nat)]
    /\ Answers \subseteq Int
    /\ ChunkSize \in Nat \ {0}

ASSUME DigestsAssumption

digestVars == <<pc, given, chunks, proposal, state, digest, ignored>>

\* Addresses, as numbers above those of bytes.
PROGRAM_ID == 1001
STATE_ID == 1002
MINT == 1003
PAYEE == 1004

\* MAX_ORACLES of ocr_2/src/state.rs.
MaxOracles == 19

absent == <<>>

NewState(min, max) ==
    [min_answer |-> min, max_answer |-> max, f |-> 0, config_count |-> 0,
     oracles |-> <<>>, version |-> 0, offchain |-> <<>>,
     latest_config_digest |-> absent]

DigestsInit ==
    /\ pc = "undeployed" /\ given = absent /\ chunks = <<>>
    /\ proposal = absent /\ digest = absent
    /\ state = NewState(0, 0) /\ ignored = FALSE

-----------------------------------------------------------------------------
(* Bytes *)

\* Two's complement, most significant byte first, of a number of two bytes.
BigEndian(width, x) ==
    [i \in 1..(width - 2) |-> IF x < 0 THEN 255 ELSE 0]
        \o <<(x \div 256) % 256, x % 256>>

ChunkSlice(items, chunkSize) ==
    LET n == (Len(items) + chunkSize - 1) \div chunkSize
        end(i) == IF i * chunkSize < Len(items) THEN i * chunkSize ELSE Len(items)
    IN IF n = 0 THEN <<items>>
       ELSE [i \in 1..n |-> SubSeq(items, (i - 1) * chunkSize + 1, end(i))]

-----------------------------------------------------------------------------
(* The digest of a proposal: makeDigest in Go, Proposal::digest in Rust *)

makeDigest(p) ==
    <<Len(p.oracles)>>
        \o FlattenSeq([i \in DOMAIN p.oracles |->
               <<p.oracles[i].signer, p.oracles[i].transmitter, p.oracles[i].payee>>])
        \o <<p.f>> \o <<p.token_mint>>
        \o BigEndian(8, p.version) \o BigEndian(4, Len(p.offchain))
        \o p.offchain

\* hashv takes the list of slices that were pushed.
ProposalDigest(p) ==
    LET oracle(o) == <<<<o.signer>>, <<o.transmitter>>, <<o.payee>>>>
        data == <<<<Len(p.oracles)>>>>
                  \o FlattenSeq([i \in DOMAIN p.oracles |-> oracle(p.oracles[i])])
                  \o <<<<p.f>>, <<p.token_mint>>, BigEndian(8, p.version),
                       BigEndian(4, Len(p.offchain)), p.offchain>>
    IN FlattenSeq(data)

-----------------------------------------------------------------------------
(* The config digest: ConfigFromState and ConfigDigest in Go,              *)
(* config_digest_from_data in Rust                                         *)

\* libocr's StandardOnchainConfigCodec: a version byte and two i192.
OnchainConfigEncode(min, max) == <<1>> \o BigEndian(24, min) \o BigEndian(24, max)

ConfigFromState(s) ==
    [ConfigCount |-> s.config_count,
     Signers |-> [i \in DOMAIN s.oracles |-> s.oracles[i].signer],
     Transmitters |-> [i \in DOMAIN s.oracles |-> s.oracles[i].transmitter],
     F |-> s.f,
     OnchainConfig |-> OnchainConfigEncode(s.min_answer, s.max_answer),
     OffchainConfigVersion |-> s.version,
     OffchainConfig |-> s.offchain]

\* The first two bytes of the hash are overwritten with the prefix.
ConfigDigest(cfg) ==
    [prefix |-> 3,
     of |-> <<PROGRAM_ID, STATE_ID>> \o BigEndian(4, cfg.ConfigCount)
            \o <<Len(cfg.Signers)>> \o cfg.Signers \o cfg.Transmitters
            \o <<cfg.F>>
            \o BigEndian(4, Len(cfg.OnchainConfig)) \o cfg.OnchainConfig
            \o BigEndian(8, cfg.OffchainConfigVersion)
            \o BigEndian(4, Len(cfg.OffchainConfig)) \o cfg.OffchainConfig]

\* Mutant of SignExtend: zeroes before a negative number.
SignExtendZero(x) == [i \in 1..8 |-> 0] \o BigEndian(16, x)

SignExtend(x) ==
    [i \in 1..8 |-> IF x < 0 THEN 255 ELSE 0] \o BigEndian(16, x)

config_digest_from_data(s) ==
    LET onchain_config == <<1>> \o SignExtend(s.min_answer) \o SignExtend(s.max_answer)
        signer(i) == <<s.oracles[i].signer>>
        transmitter(i) == <<s.oracles[i].transmitter>>
        data == <<<<PROGRAM_ID>>, <<STATE_ID>>, BigEndian(4, s.config_count),
                  <<Len(s.oracles)>>>>
                  \o [i \in DOMAIN s.oracles |-> signer(i)]
                  \o [i \in DOMAIN s.oracles |-> transmitter(i)]
                  \o <<<<s.f>>, BigEndian(4, Len(onchain_config)), onchain_config,
                       BigEndian(8, s.version), BigEndian(4, Len(s.offchain)),
                       s.offchain>>
    IN [prefix |-> 3, of |-> FlattenSeq(data)]

-----------------------------------------------------------------------------
(***************************************************************************)
(* Configure. TXSync returns an error when the transaction was not sent,   *)
(* for one because the program refuses it in the preflight, or when it was *)
(* sent and its confirmation was lost; Configure ends there. It does not   *)
(* look at the error that a confirmed transaction itself carries: one that *)
(* passed the preflight and failed on chain counts as done.                *)
(***************************************************************************)
Outcomes(step, next, takes, effect) ==
    /\ pc = step
    /\ \/ takes /\ effect /\ pc' \in {next, "failed"} /\ UNCHANGED ignored
       \/ takes /\ pc' = next /\ ignored' = TRUE /\ UNCHANGED <<proposal, state>>
       \/ pc' = "failed" /\ UNCHANGED <<proposal, state, ignored>>

Configure(g) ==
    /\ pc = "idle"
    /\ pc' = "create"
    /\ given' = g
    /\ chunks' = ChunkSlice(g.bytes, ChunkSize)
    /\ ignored' = FALSE
    /\ UNCHANGED <<proposal, state, digest>>

createProposal ==
    /\ Outcomes("create", "config",
           proposal = absent /\ given.version # 0,
           /\ proposal' = [oracles |-> <<>>, f |-> 0, token_mint |-> 0,
                           version |-> given.version, offchain |-> <<>>,
                           finalized |-> FALSE]
           /\ UNCHANGED state)
    /\ UNCHANGED <<given, chunks, digest>>

\* The accounts of ProposeConfig, and what all that write a proposal check.
Writable == proposal # absent /\ ~proposal.finalized

\* sort_unstable_by_key leaves one order of the oracles when no signer is there
\* twice, and no order here otherwise: the program refuses it.
SortedBySigner(oracles) ==
    {sorted \in [DOMAIN oracles -> ToSet(oracles)] :
        /\ ToSet(sorted) = ToSet(oracles)
        /\ \A i, j \in DOMAIN oracles : i < j => sorted[i].signer < sorted[j].signer}

DuplicateTransmitter(oracles) ==
    \E i, j \in DOMAIN oracles :
        i # j /\ oracles[i].transmitter = oracles[j].transmitter

proposeConfig ==
    /\ Outcomes("config", "payees",
           /\ Writable
           /\ given.f # 0 /\ 3 * given.f < Len(given.oracles)
           /\ Len(given.oracles) <= MaxOracles
           /\ SortedBySigner(given.oracles) # {}
           /\ ~DuplicateTransmitter(given.oracles),
           /\ \E sorted \in SortedBySigner(given.oracles) :
                proposal' = [proposal EXCEPT
                  !.f = given.f,
                  !.oracles = [i \in DOMAIN sorted |->
                      [signer |-> sorted[i].signer,
                       transmitter |-> sorted[i].transmitter,
                       payee |-> 0]]]
           /\ UNCHANGED state)
    /\ UNCHANGED <<given, chunks, digest>>

\* One new token account for all the oracles, as often as oracles were given.
proposePayees ==
    /\ Outcomes("payees", "write",
           /\ Writable
           /\ Len(proposal.oracles) = Len(given.oracles),
           /\ proposal' = [proposal EXCEPT
                !.oracles = [i \in DOMAIN @ |-> [@[i] EXCEPT !.payee = PAYEE]],
                !.token_mint = MINT]
           /\ UNCHANGED state)
    /\ UNCHANGED <<given, chunks, digest>>

writeOffchainConfig ==
    /\ chunks # <<>>
    /\ Outcomes("write", "write",
           /\ Writable
           /\ Len(proposal.offchain) + Len(Head(chunks)) <= Capacity,
           /\ proposal' = [proposal EXCEPT !.offchain = @ \o Head(chunks)]
           /\ UNCHANGED state)
    /\ chunks' = Tail(chunks)
    /\ UNCHANGED <<given, digest>>

finalizeOffChainConfig ==
    /\ chunks = <<>>
    /\ Outcomes("write", "digest",
           /\ Writable
           /\ proposal.offchain # <<>> /\ proposal.oracles # <<>>
           /\ \A i \in DOMAIN proposal.oracles : proposal.oracles[i].payee # 0,
           /\ proposal' = [proposal EXCEPT !.finalized = TRUE]
           /\ UNCHANGED state)
    /\ UNCHANGED <<given, chunks, digest>>

\* The request may fail, and the account may be missing.
FetchAndDigest ==
    /\ pc = "digest"
    /\ \/ proposal # absent /\ pc' = "accept" /\ digest' = makeDigest(proposal)
       \/ pc' = "failed" /\ UNCHANGED digest
    /\ UNCHANGED <<given, chunks, proposal, state, ignored>>

\* accept_proposal pays the old oracles to the remaining accounts, which the
\* client does not pass: it fails when there are any.
acceptProposal ==
    /\ Outcomes("accept", "done",
           /\ state.oracles = <<>>
           /\ proposal # absent /\ proposal.finalized
           /\ ProposalDigest(proposal) = digest
           /\ proposal.token_mint = MINT,
           /\ LET s == [state EXCEPT
                          !.f = proposal.f, !.oracles = proposal.oracles,
                          !.version = proposal.version,
                          !.offchain = proposal.offchain,
                          !.config_count = @ + 1]
              IN state' = [s EXCEPT !.latest_config_digest =
                               config_digest_from_data(s)]
           /\ proposal' = absent)
    /\ UNCHANGED <<given, chunks, digest>>

\* A new pair of accounts, initialised with the range of the answers.
Deploy(min, max) ==
    /\ pc \in {"undeployed", "done", "failed"}
    /\ pc' = "idle" /\ given' = absent /\ chunks' = <<>>
    /\ proposal' = absent /\ digest' = absent /\ ignored' = FALSE
    /\ state' = NewState(min, max)

\* Configure again, on the same accounts.
Again ==
    /\ pc \in {"done", "failed"}
    /\ state.config_count < MaxConfigs
    /\ pc' = "idle" /\ chunks' = <<>> /\ digest' = absent
    /\ UNCHANGED <<given, proposal, state, ignored>>

DigestsNext ==
    \/ \E g \in Given : Configure(g)
    \/ createProposal \/ proposeConfig \/ proposePayees
    \/ writeOffchainConfig \/ finalizeOffChainConfig
    \/ FetchAndDigest \/ acceptProposal
    \/ \E min, max \in Answers : Deploy(min, max)
    \/ Again

DigestsSpec == DigestsInit /\ [][DigestsNext]_digestVars

-----------------------------------------------------------------------------
(***************************************************************************)
(* Go and Rust compute the same digests: makeDigest is what                *)
(* accept_proposal compares with, and what OffchainConfigDigester computes *)
(* of the configuration read back is the digest that the program stored,   *)
(* without which no oracle starts. When Configure returns without an error *)
(* and none of its transactions failed on chain, what it was given is in   *)
(* force: cutting the off-chain config into transactions loses and         *)
(* reorders nothing, whatever failed before. When one did, which TXSync    *)
(* hides, nothing may be in force or chunks of the off-chain config may be *)
(* missing, but oracles in force are the ones given, with their f.         *)
(***************************************************************************)
OraclesAsGiven ==
    /\ state.version = given.version /\ state.f = given.f
    /\ {<<o.signer, o.transmitter>> : o \in ToSet(state.oracles)}
         = {<<o.signer, o.transmitter>> : o \in ToSet(given.oracles)}

ConfiguredAsGiven ==
    /\ pc = "accept" => digest = ProposalDigest(proposal)
    /\ state.config_count > 0 =>
           ConfigDigest(ConfigFromState(state)) = state.latest_config_digest
    /\ (pc = "done" /\ state.oracles # <<>>) => OraclesAsGiven
    /\ (pc = "done" /\ ~ignored) =>
           state.offchain = given.bytes /\ OraclesAsGiven
=============================================================================

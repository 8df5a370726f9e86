------------------------------- MODULE Layout -------------------------------
(***************************************************************************)
(* The bytes of the programs' accounts and events, as the Rust compiler    *)
(* lays them out and as the Go decoders read them. A zero-copy account is  *)
(* a repr(C) struct, each field at the next multiple of its alignment; an  *)
(* account or an event without zero_copy is Borsh, and so are the Go       *)
(* decoders: field after field. Fields have the names of the Rust structs. *)
(*                                                                         *)
(* A type is its size, its alignment and its leaves, the primitive fields  *)
(* in order with their offsets.                                            *)
(***************************************************************************)
EXTENDS Naturals, Sequences, SequencesExt

CONSTANTS
    I128Align,   \* alignment of i128 on the target of the programs
    Pairs        \* the decoders to run, names of Decoders

-----------------------------------------------------------------------------
Leaf(name, offset, size) == [name |-> name, offset |-> offset, size |-> size]

Prim(size, align) ==
    [size |-> size, align |-> align, leaves |-> <<Leaf("", 0, size)>>]

u8 == Prim(1, 1)
u16 == Prim(2, 2)
u32 == Prim(4, 4)
u64 == Prim(8, 8)
i128 == Prim(16, I128Align)
Pubkey == Prim(32, 1)

Shifted(leaves, by, name) ==
    [i \in DOMAIN leaves |->
        Leaf(IF leaves[i].name = "" THEN name ELSE leaves[i].name,
             leaves[i].offset + by, leaves[i].size)]

\* An array of bytes is one leaf.
Array(n, t) ==
    [size |-> n * t.size, align |-> t.align,
     leaves |-> IF t.size = 1 THEN <<Leaf("", 0, n)>>
                ELSE FlattenSeq([i \in 1..n |->
                         Shifted(t.leaves, (i - 1) * t.size, "")])]

RoundUp(x, a) == ((x + a - 1) \div a) * a

\* A struct whose k-th field, <<name, type>>, is aligned to align[k].
Struct(fields, align, total) ==
    LET start(x, k) == RoundUp(x, align[k])
        end[k \in 0..Len(fields)] ==
            IF k = 0 THEN 0 ELSE start(end[k-1], k) + fields[k][2].size
    IN [size |-> RoundUp(end[Len(fields)], total), align |-> total,
        leaves |-> FlattenSeq([k \in DOMAIN fields |->
            Shifted(fields[k][2].leaves, start(end[k-1], k), fields[k][1])])]

ReprC(fields) ==
    LET aligns == {fields[k][2].align : k \in DOMAIN fields}
    IN Struct(fields, [k \in DOMAIN fields |-> fields[k][2].align],
              CHOOSE a \in aligns : \A b \in aligns : a >= b)

Packed(fields) == Struct(fields, [k \in DOMAIN fields |-> 1], 1)

-----------------------------------------------------------------------------
(* The programs: ocr_2/src/state.rs, store/src/state.rs, access-controller *)

MAX_ORACLES == 19
MAX_ADDRS == 64

rs_Billing == ReprC(<<<<"observation_payment_gjuels", u32>>,
                      <<"transmission_payment_gjuels", u32>>>>)

rs_SigningKey == ReprC(<<<<"key", Array(20, u8)>>>>)

rs_Oracle ==
    ReprC(<<<<"transmitter", Pubkey>>, <<"signer", rs_SigningKey>>,
            <<"payee", Pubkey>>, <<"proposed_payee", Pubkey>>,
            <<"from_round_id", u32>>, <<"payment_gjuels", u64>>>>)

rs_Oracles == ReprC(<<<<"xs", Array(MAX_ORACLES, rs_Oracle)>>, <<"len", u64>>>>)

rs_ProposedOracle ==
    ReprC(<<<<"transmitter", Pubkey>>, <<"signer", rs_SigningKey>>,
            <<"_padding", u32>>, <<"payee", Pubkey>>>>)

rs_ProposedOracles ==
    ReprC(<<<<"xs", Array(MAX_ORACLES, rs_ProposedOracle)>>, <<"len", u64>>>>)

rs_OffchainConfig ==
    ReprC(<<<<"version", u64>>, <<"xs", Array(4096, u8)>>, <<"len", u64>>>>)

rs_Config ==
    ReprC(<<<<"owner", Pubkey>>, <<"proposed_owner", Pubkey>>,
            <<"token_mint", Pubkey>>, <<"token_vault", Pubkey>>,
            <<"requester_access_controller", Pubkey>>,
            <<"billing_access_controller", Pubkey>>,
            <<"min_answer", i128>>, <<"max_answer", i128>>,
            <<"f", u8>>, <<"round", u8>>, <<"_padding0", u16>>,
            <<"epoch", u32>>, <<"latest_aggregator_round_id", u32>>,
            <<"latest_transmitter", Pubkey>>, <<"config_count", u32>>,
            <<"latest_config_digest", Array(32, u8)>>,
            <<"latest_config_block_number", u64>>, <<"billing", rs_Billing>>>>)

rs_Proposal ==
    ReprC(<<<<"version", u8>>, <<"owner", Pubkey>>, <<"state", u8>>,
            <<"f", u8>>, <<"_padding0", u8>>, <<"_padding1", u32>>,
            <<"token_mint", Pubkey>>, <<"oracles", rs_ProposedOracles>>,
            <<"offchain_config", rs_OffchainConfig>>>>)

rs_State ==
    ReprC(<<<<"version", u8>>, <<"vault_nonce", u8>>, <<"_padding0", u16>>,
            <<"_padding1", u32>>, <<"feed", Pubkey>>, <<"config", rs_Config>>,
            <<"offchain_config", rs_OffchainConfig>>, <<"oracles", rs_Oracles>>>>)

rs_Store == ReprC(<<<<"owner", Pubkey>>, <<"proposed_owner", Pubkey>>,
                    <<"lowering_access_controller", Pubkey>>>>)

rs_Transmission ==
    ReprC(<<<<"slot", u64>>, <<"timestamp", u32>>, <<"_padding0", u32>>,
            <<"answer", i128>>, <<"_padding1", u64>>, <<"_padding2", u64>>>>)

rs_Transmissions ==
    Packed(<<<<"version", u8>>, <<"state", u8>>, <<"owner", Pubkey>>,
             <<"proposed_owner", Pubkey>>, <<"writer", Pubkey>>,
             <<"description", Array(32, u8)>>, <<"decimals", u8>>,
             <<"flagging_threshold", u32>>, <<"latest_round_id", u32>>,
             <<"granularity", u8>>, <<"live_length", u32>>,
             <<"live_cursor", u32>>, <<"historical_cursor", u32>>>>)

rs_NewTransmission == Packed(<<<<"timestamp", u64>>, <<"answer", i128>>>>)

rs_Round == Packed(<<<<"round_id", u32>>, <<"slot", u64>>, <<"timestamp", u32>>,
                     <<"answer", i128>>>>)

rs_AccessController ==
    ReprC(<<<<"owner", Pubkey>>, <<"proposed_owner", Pubkey>>,
            <<"access_list", ReprC(<<<<"xs", Array(MAX_ADDRS, Pubkey)>>,
                                     <<"len", u64>>>>)>>>>)

rs_NewOracle == Packed(<<<<"signer", Array(20, u8)>>, <<"transmitter", Pubkey>>>>)

rs_LatestConfig ==
    Packed(<<<<"config_count", u32>>, <<"config_digest", Array(32, u8)>>,
             <<"block_number", u64>>>>)

rs_event_SetBilling ==
    Packed(<<<<"observation_payment_gjuels", u32>>,
             <<"transmission_payment_gjuels", u32>>>>)

rs_event_RoundRequested ==
    Packed(<<<<"config_digest", Array(32, u8)>>, <<"requester", Pubkey>>,
             <<"epoch", u32>>, <<"round", u8>>>>)

rs_event_NewTransmission ==
    Packed(<<<<"round_id", u32>>, <<"config_digest", Array(32, u8)>>,
             <<"answer", i128>>, <<"transmitter", u8>>,
             <<"observations_timestamp", u32>>, <<"observer_count", u8>>,
             <<"observers", Array(19, u8)>>, <<"juels_per_lamport", u64>>,
             <<"reimbursement_gjuels", u64>>>>)

-----------------------------------------------------------------------------
(* The generated packages: types.go and accounts.go *)

go_Billing == Packed(<<<<"observation_payment_gjuels", u32>>,
                       <<"transmission_payment_gjuels", u32>>>>)

go_SigningKey == Packed(<<<<"key", Array(20, u8)>>>>)

go_Oracle ==
    Packed(<<<<"transmitter", Pubkey>>, <<"signer", go_SigningKey>>,
             <<"payee", Pubkey>>, <<"proposed_payee", Pubkey>>,
             <<"from_round_id", u32>>, <<"payment_gjuels", u64>>>>)

go_Oracles == Packed(<<<<"xs", Array(19, go_Oracle)>>, <<"len", u64>>>>)

\* Mutant of go_ProposedOracle: without the padding.
go_ProposedOracleUnpadded ==
    Packed(<<<<"transmitter", Pubkey>>, <<"signer", go_SigningKey>>,
             <<"payee", Pubkey>>>>)

go_ProposedOracle ==
    Packed(<<<<"transmitter", Pubkey>>, <<"signer", go_SigningKey>>,
             <<"_padding", u32>>, <<"payee", Pubkey>>>>)

go_ProposedOracles ==
    Packed(<<<<"xs", Array(19, go_ProposedOracle)>>, <<"len", u64>>>>)

go_OffchainConfig ==
    Packed(<<<<"version", u64>>, <<"xs", Array(4096, u8)>>, <<"len", u64>>>>)

go_Config ==
    Packed(<<<<"owner", Pubkey>>, <<"proposed_owner", Pubkey>>,
             <<"token_mint", Pubkey>>, <<"token_vault", Pubkey>>,
             <<"requester_access_controller", Pubkey>>,
             <<"billing_access_controller", Pubkey>>,
             <<"min_answer", i128>>, <<"max_answer", i128>>,
             <<"f", u8>>, <<"round", u8>>, <<"_padding0", u16>>,
             <<"epoch", u32>>, <<"latest_aggregator_round_id", u32>>,
             <<"latest_transmitter", Pubkey>>, <<"config_count", u32>>,
             <<"latest_config_digest", Array(32, u8)>>,
             <<"latest_config_block_number", u64>>, <<"billing", go_Billing>>>>)

go_NewOracle == Packed(<<<<"signer", Array(20, u8)>>, <<"transmitter", Pubkey>>>>)

go_Proposal ==
    Packed(<<<<"version", u8>>, <<"owner", Pubkey>>, <<"state", u8>>,
             <<"f", u8>>, <<"_padding0", u8>>, <<"_padding1", u32>>,
             <<"token_mint", Pubkey>>, <<"oracles", go_ProposedOracles>>,
             <<"offchain_config", go_OffchainConfig>>>>)

go_State ==
    Packed(<<<<"version", u8>>, <<"vault_nonce", u8>>, <<"_padding0", u16>>,
             <<"_padding1", u32>>, <<"feed", Pubkey>>, <<"config", go_Config>>,
             <<"offchain_config", go_OffchainConfig>>, <<"oracles", go_Oracles>>>>)

go_LatestConfig ==
    Packed(<<<<"config_count", u32>>, <<"config_digest", Array(32, u8)>>,
             <<"block_number", u64>>>>)

go_Store == Packed(<<<<"owner", Pubkey>>, <<"proposed_owner", Pubkey>>,
                     <<"lowering_access_controller", Pubkey>>>>)

go_Transmissions ==
    Packed(<<<<"version", u8>>, <<"state", u8>>, <<"owner", Pubkey>>,
             <<"proposed_owner", Pubkey>>, <<"writer", Pubkey>>,
             <<"description", Array(32, u8)>>, <<"decimals", u8>>,
             <<"flagging_threshold", u32>>, <<"latest_round_id", u32>>,
             <<"granularity", u8>>, <<"live_length", u32>>,
             <<"live_cursor", u32>>, <<"historical_cursor", u32>>>>)

go_NewTransmission == Packed(<<<<"timestamp", u64>>, <<"answer", i128>>>>)

go_Round == Packed(<<<<"round_id", u32>>, <<"slot", u64>>, <<"timestamp", u32>>,
                     <<"answer", i128>>>>)

go_AccessList == Packed(<<<<"xs", Array(64, Pubkey)>>, <<"len", u64>>>>)

go_AccessController ==
    Packed(<<<<"owner", Pubkey>>, <<"proposed_owner", Pubkey>>,
             <<"access_list", go_AccessList>>>>)

-----------------------------------------------------------------------------
(* pkg/solana/types.go, read with the reflecting decoder *)

sol_OffchainConfig ==
    Packed(<<<<"version", u64>>, <<"xs", Array(4096, u8)>>, <<"len", u64>>>>)

sol_Config ==
    Packed(<<<<"owner", Pubkey>>, <<"proposed_owner", Pubkey>>,
             <<"token_mint", Pubkey>>, <<"token_vault", Pubkey>>,
             <<"requester_access_controller", Pubkey>>,
             <<"billing_access_controller", Pubkey>>,
             <<"min_answer", i128>>, <<"max_answer", i128>>,
             <<"f", u8>>, <<"round", u8>>, <<"_padding0", u16>>,
             <<"epoch", u32>>, <<"latest_aggregator_round_id", u32>>,
             <<"latest_transmitter", Pubkey>>, <<"config_count", u32>>,
             <<"latest_config_digest", Array(32, u8)>>,
             <<"latest_config_block_number", u64>>,
             <<"observation_payment_gjuels", u32>>,
             <<"transmission_payment_gjuels", u32>>>>)

sol_Oracle ==
    Packed(<<<<"transmitter", Pubkey>>, <<"key", Array(20, u8)>>,
             <<"payee", Pubkey>>, <<"proposed_payee", Pubkey>>,
             <<"from_round_id", u32>>, <<"payment_gjuels", u64>>>>)

\* The discriminator is a field of State; the offsets are those after it.
sol_State ==
    Packed(<<<<"version", u8>>, <<"vault_nonce", u8>>, <<"_padding0", u16>>,
             <<"_padding1", u32>>, <<"feed", Pubkey>>, <<"config", sol_Config>>,
             <<"offchain_config", sol_OffchainConfig>>,
             <<"xs", Array(19, sol_Oracle)>>, <<"len", u64>>>>)

sol_AccessController ==
    Packed(<<<<"owner", Pubkey>>, <<"proposed_owner", Pubkey>>,
             <<"xs", Array(32, Pubkey)>>, <<"len", u64>>>>)

sol_TransmissionsHeader ==
    Packed(<<<<"version", u8>>, <<"state", u8>>, <<"owner", Pubkey>>,
             <<"proposed_owner", Pubkey>>, <<"writer", Pubkey>>,
             <<"description", Array(32, u8)>>, <<"decimals", u8>>,
             <<"flagging_threshold", u32>>, <<"latest_round_id", u32>>,
             <<"granularity", u8>>, <<"live_length", u32>>,
             <<"live_cursor", u32>>, <<"historical_cursor", u32>>>>)

sol_Transmission ==
    Packed(<<<<"slot", u64>>, <<"timestamp", u32>>, <<"_padding0", u32>>,
             <<"answer", i128>>, <<"_padding1", u64>>, <<"_padding2", u64>>>>)

-----------------------------------------------------------------------------
(* pkg/monitoring/event/types.go *)

event_SetBilling == Packed(<<<<"observation_payment_gjuels", u32>>,
                             <<"transmission_payment_gjuels", u32>>>>)

event_RoundRequested ==
    Packed(<<<<"config_digest", Array(32, u8)>>, <<"requester", Pubkey>>,
             <<"epoch", u32>>, <<"round", u8>>>>)

event_NewTransmission ==
    Packed(<<<<"round_id", u32>>, <<"config_digest", Array(32, u8)>>,
             <<"answer", i128>>, <<"transmitter", u8>>,
             <<"observations_timestamp", u32>>, <<"observer_count", u8>>,
             <<"observers", Array(19, u8)>>, <<"juels_per_lamport", u64>>,
             <<"reimbursement_gjuels", u64>>>>)

-----------------------------------------------------------------------------
(***************************************************************************)
(* integration-tests/solclient/deployer.go allocates the accounts itself:  *)
(* the sizes in bytes, the discriminator included.                         *)
(***************************************************************************)
Discriminator == 8
AccessControllerStateAccountSize == Discriminator + 32 + 32 + 8 + 32 * 64
StoreAccountSize == Discriminator + 32 * 3
ProposedOraclesSize == (32 + 20 + 4 + 32) * 19 + 8
OCROraclesSize == (32 + 20 + 32 + 32 + 4 + 8) * 19 + 8
OCROffChainConfigSize == 8 + 4096 + 8
OCRProposalAccountSize ==
    Discriminator + 1 + 32 + 1 + 1 + (1 + 4) + 32 + ProposedOraclesSize
        + OCROffChainConfigSize
OCRConfigSize == 32 + 32 + 32 + 32 + 32 + 32 + 16 + 16 + (1 + 1 + 2 + 4 + 4 + 32)
                    + (4 + 32 + 8) + (4 + 4)
OCRAccountSize == Discriminator + 1 + 1 + 2 + 4 + 32 + OCRConfigSize
                    + OCROffChainConfigSize + OCROraclesSize

\* pkg/solana/types.go: the sizes of the slices that GetLatestTransmission asks for.
TransmissionsHeaderLen == 1 + 1 + 32 + 32 + 32 + 32 + 1 + 4 + 4 + 1 + 4 + 4 + 4
TransmissionLen == 8 + 4 + 4 + 16 + 8 + 8

-----------------------------------------------------------------------------
\* A decoder, the struct it reads, and the bytes it is given.
Decoder(go, rs, len) == [go |-> go, rs |-> rs, len |-> len]
Exact(go, rs) == Decoder(go, rs, rs.size)

Decoders ==
    [Proposal |-> Decoder(go_Proposal, rs_Proposal,
                          OCRProposalAccountSize - Discriminator),
     State |-> Decoder(go_State, rs_State, OCRAccountSize - Discriminator),
     Store |-> Decoder(go_Store, rs_Store, StoreAccountSize - Discriminator),
     AccessController |-> Decoder(go_AccessController, rs_AccessController,
                              AccessControllerStateAccountSize - Discriminator),
     Transmissions |-> Exact(go_Transmissions, rs_Transmissions),
     NewTransmission |-> Exact(go_NewTransmission, rs_NewTransmission),
     Round |-> Exact(go_Round, rs_Round),
     NewOracle |-> Exact(go_NewOracle, rs_NewOracle),
     LatestConfig |-> Exact(go_LatestConfig, rs_LatestConfig),
     solState |-> Exact(sol_State, rs_State),
     solAccessController |-> Exact(sol_AccessController, rs_AccessController),
     TransmissionsHeader |-> Decoder(sol_TransmissionsHeader, rs_Transmissions,
                                     TransmissionsHeaderLen),
     Transmission |-> Decoder(sol_Transmission, rs_Transmission, TransmissionLen),
     eventSetBilling |-> Exact(event_SetBilling, rs_event_SetBilling),
     eventRoundRequested |-> Exact(event_RoundRequested, rs_event_RoundRequested),
     eventNewTransmission |-> Exact(event_NewTransmission,
                                    rs_event_NewTransmission)]

VARIABLES
    decoding,   \* the decoder at work, "" between two
    field,      \* the field it reads next, counting from 1
    cursor      \* the bytes it has read

layoutVars == <<decoding, field, cursor>>

LayoutInit == decoding = "" /\ field = 1 /\ cursor = 0

\* UnmarshalWithDecoder on the data after the discriminator.
StartDecoding(d) ==
    /\ decoding = ""
    /\ decoding' = d /\ field' = 1 /\ cursor' = 0

\* Decode of one field: as many bytes as the field has.
DecodeField ==
    /\ decoding # ""
    /\ field <= Len(Decoders[decoding].go.leaves)
    /\ cursor' = cursor + Decoders[decoding].go.leaves[field].size
    /\ field' = field + 1
    /\ UNCHANGED decoding

Decoded ==
    /\ decoding # ""
    /\ field > Len(Decoders[decoding].go.leaves)
    /\ decoding' = "" /\ field' = 1 /\ cursor' = 0

LayoutNext == (\E d \in Pairs : StartDecoding(d)) \/ DecodeField \/ Decoded

-----------------------------------------------------------------------------
(***************************************************************************)
(* The decoder is always at the field that the program wrote there: no     *)
(* padding that the compiler inserts, no field forgotten, reordered or of  *)
(* another width, and at the end all of the struct and all of the bytes    *)
(* that the client allocates or asks for are read. state.rs asks for types *)
(* without padding, and deployer.go for the sizes of the Rust structures.  *)
(* One decoder is known not to: AccessController of pkg/solana/types.go    *)
(* has 32 addresses where the program has 64. It reads the owners and its  *)
(* 32 addresses where they are, and its length out of an address.          *)
(***************************************************************************)
AtItsField(d) ==
    /\ field <= Len(d.rs.leaves)
    /\ d.rs.leaves[field].offset = cursor
    /\ d.rs.leaves[field].size = d.go.leaves[field].size
    /\ d.rs.leaves[field].name = d.go.leaves[field].name

AllRead(d) ==
    /\ Len(d.rs.leaves) = Len(d.go.leaves)
    /\ cursor = d.rs.size
    /\ cursor = d.len

LayoutsAgree ==
    decoding # "" =>
        LET d == Decoders[decoding]
            last == Len(d.go.leaves)
        IN IF decoding = "solAccessController" /\ field >= last
           THEN ~AtItsField(d) /\ ~AllRead(d)
           ELSE IF field <= last THEN AtItsField(d) ELSE AllRead(d)
=============================================================================

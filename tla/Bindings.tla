------------------------------ MODULE Bindings ------------------------------
(***************************************************************************)
(* The Go packages ocr_2, store and access_controller under                *)
(* contracts/generated: one definition per instruction file, with the      *)
(* parameters in the order in which MarshalWithEncoder writes them and     *)
(* UnmarshalWithDecoder reads them, and the account metas in the order of  *)
(* the slots that the setters fill, with the flags the setters give them.  *)
(* The names are those of the arguments, in snake case.                    *)
(***************************************************************************)
EXTENDS Naturals, Sequences

Meta(n)   == [name |-> n, writable |-> FALSE, signer |-> FALSE]
WRITE(n)  == [Meta(n) EXCEPT !.writable = TRUE]
SIGNER(n) == [Meta(n) EXCEPT !.signer = TRUE]

Inst(type, params, accounts) ==
    [type |-> type, params |-> params, accounts |-> accounts]

\* The first eight bytes of SHA-256("global:" + name): distinct names have
\* distinct discriminators. The byte arrays of the packages are these values.
Sighash(name) == <<"global", name>>

Variant(name, inst) == [name |-> name, inst |-> inst]

-----------------------------------------------------------------------------
(* Package ocr_2 *)

ocr2_Initialize ==
    Inst("Initialize", <<<<"min_answer", "i128">>, <<"max_answer", "i128">>>>,
         <<WRITE("state"), Meta("feed"), SIGNER("owner"),
           Meta("token_mint"), Meta("token_vault"), Meta("vault_authority"),
           Meta("requester_access_controller"),
           Meta("billing_access_controller")>>)

ocr2_Close ==
    Inst("Close", <<>>,
         <<WRITE("state"), WRITE("receiver"), WRITE("token_receiver"),
           SIGNER("authority"), WRITE("token_vault"),
           Meta("vault_authority"), Meta("token_program")>>)

ocr2_TransferOwnership ==
    Inst("TransferOwnership", <<<<"proposed_owner", "Pubkey">>>>,
         <<WRITE("state"), SIGNER("authority")>>)

ocr2_AcceptOwnership ==
    Inst("AcceptOwnership", <<>>,
         <<WRITE("state"), SIGNER("authority")>>)

ocr2_CreateProposal ==
    Inst("CreateProposal", <<<<"offchain_config_version", "u64">>>>,
         <<WRITE("proposal"), SIGNER("authority")>>)

ocr2_WriteOffchainConfig ==
    Inst("WriteOffchainConfig", <<<<"offchain_config", "Vec<u8>">>>>,
         <<WRITE("proposal"), SIGNER("authority")>>)

ocr2_FinalizeProposal ==
    Inst("FinalizeProposal", <<>>,
         <<WRITE("proposal"), SIGNER("authority")>>)

ocr2_CloseProposal ==
    Inst("CloseProposal", <<>>,
         <<WRITE("proposal"), WRITE("receiver"), SIGNER("authority")>>)

ocr2_AcceptProposal ==
    Inst("AcceptProposal", <<<<"digest", "Vec<u8>">>>>,
         <<WRITE("state"), WRITE("proposal"), WRITE("receiver"),
           WRITE("token_receiver"), SIGNER("authority"),
           WRITE("token_vault"), Meta("vault_authority"),
           Meta("token_program")>>)

ocr2_ProposeConfig ==
    Inst("ProposeConfig", <<<<"new_oracles", "Vec<NewOracle>">>, <<"f", "u8">>>>,
         <<WRITE("proposal"), SIGNER("authority")>>)

ocr2_ProposePayees ==
    Inst("ProposePayees", <<<<"token_mint", "Pubkey">>>>,
         <<WRITE("proposal"), SIGNER("authority")>>)

ocr2_SetRequesterAccessController ==
    Inst("SetRequesterAccessController", <<>>,
         <<WRITE("state"), SIGNER("authority"), Meta("access_controller")>>)

ocr2_RequestNewRound ==
    Inst("RequestNewRound", <<>>,
         <<WRITE("state"), SIGNER("authority"), Meta("access_controller")>>)

ocr2_SetBillingAccessController ==
    Inst("SetBillingAccessController", <<>>,
         <<WRITE("state"), SIGNER("authority"), Meta("access_controller")>>)

ocr2_SetBilling ==
    Inst("SetBilling", <<<<"observation_payment_gjuels", "u32">>, <<"transmission_payment_gjuels", "u32">>>>,
         <<WRITE("state"), SIGNER("authority"), Meta("access_controller"),
           WRITE("token_receiver"), WRITE("token_vault"),
           Meta("vault_authority"), Meta("token_program")>>)

ocr2_WithdrawFunds ==
    Inst("WithdrawFunds", <<<<"amount_gjuels", "u64">>>>,
         <<WRITE("state"), SIGNER("authority"), Meta("access_controller"),
           WRITE("token_vault"), Meta("vault_authority"),
           WRITE("recipient"), Meta("token_program")>>)

ocr2_WithdrawPayment ==
    Inst("WithdrawPayment", <<>>,
         <<WRITE("state"), SIGNER("authority"), WRITE("token_vault"),
           Meta("vault_authority"), WRITE("payee"), Meta("token_program")>>)

ocr2_PayOracles ==
    Inst("PayOracles", <<>>,
         <<WRITE("state"), SIGNER("authority"), Meta("access_controller"),
           WRITE("token_receiver"), WRITE("token_vault"),
           Meta("vault_authority"), Meta("token_program")>>)

\* Mutant of ocr2_TransferPayeeship: two slots of one type swapped.
ocr2_TransferPayeeshipSwapped ==
    Inst("TransferPayeeship", <<>>,
         <<WRITE("state"), SIGNER("authority"), Meta("transmitter"),
           Meta("proposed_payee"), Meta("payee")>>)

ocr2_TransferPayeeship ==
    Inst("TransferPayeeship", <<>>,
         <<WRITE("state"), SIGNER("authority"), Meta("transmitter"),
           Meta("payee"), Meta("proposed_payee")>>)

ocr2_AcceptPayeeship ==
    Inst("AcceptPayeeship", <<>>,
         <<WRITE("state"), SIGNER("authority"), Meta("transmitter"),
           Meta("proposed_payee")>>)

-----------------------------------------------------------------------------
(* Package store *)

store_CreateFeed ==
    Inst("CreateFeed", <<<<"description", "String">>, <<"decimals", "u8">>, <<"granularity", "u8">>, <<"live_length", "u32">>>>,
         <<WRITE("feed"), SIGNER("authority")>>)

store_CloseFeed ==
    Inst("CloseFeed", <<>>,
         <<WRITE("feed"), Meta("owner"), WRITE("receiver"),
           SIGNER("authority")>>)

store_TransferFeedOwnership ==
    Inst("TransferFeedOwnership", <<<<"proposed_owner", "Pubkey">>>>,
         <<WRITE("feed"), Meta("owner"), SIGNER("authority")>>)

store_AcceptFeedOwnership ==
    Inst("AcceptFeedOwnership", <<>>,
         <<WRITE("feed"), Meta("proposed_owner"), SIGNER("authority")>>)

store_SetValidatorConfig ==
    Inst("SetValidatorConfig", <<<<"flagging_threshold", "u32">>>>,
         <<WRITE("feed"), Meta("owner"), SIGNER("authority")>>)

store_SetWriter ==
    Inst("SetWriter", <<<<"writer", "Pubkey">>>>,
         <<WRITE("feed"), Meta("owner"), SIGNER("authority")>>)

store_LowerFlag ==
    Inst("LowerFlag", <<>>,
         <<WRITE("feed"), Meta("owner"), SIGNER("authority"),
           Meta("access_controller")>>)

store_Submit ==
    Inst("Submit", <<<<"round", "NewTransmission">>>>,
         <<WRITE("feed"), SIGNER("authority")>>)

store_Initialize ==
    Inst("Initialize", <<>>,
         <<WRITE("store"), SIGNER("owner"),
           Meta("lowering_access_controller")>>)

store_TransferStoreOwnership ==
    Inst("TransferStoreOwnership", <<<<"proposed_owner", "Pubkey">>>>,
         <<WRITE("store"), SIGNER("authority")>>)

store_AcceptStoreOwnership ==
    Inst("AcceptStoreOwnership", <<>>,
         <<WRITE("store"), SIGNER("authority")>>)

store_SetLoweringAccessController ==
    Inst("SetLoweringAccessController", <<>>,
         <<WRITE("store"), SIGNER("authority"), Meta("access_controller")>>)

store_Query ==
    Inst("Query", <<<<"scope", "Scope">>>>,
         <<Meta("feed")>>)

-----------------------------------------------------------------------------
(* Package access_controller *)

ac_Initialize ==
    Inst("Initialize", <<>>,
         <<WRITE("state"), SIGNER("owner")>>)

ac_TransferOwnership ==
    Inst("TransferOwnership", <<<<"proposed_owner", "Pubkey">>>>,
         <<WRITE("state"), SIGNER("authority")>>)

ac_AcceptOwnership ==
    Inst("AcceptOwnership", <<>>,
         <<WRITE("state"), SIGNER("authority")>>)

ac_AddAccess ==
    Inst("AddAccess", <<>>,
         <<WRITE("state"), SIGNER("owner"), Meta("address")>>)

ac_RemoveAccess ==
    Inst("RemoveAccess", <<>>,
         <<WRITE("state"), SIGNER("owner"), Meta("address")>>)

-----------------------------------------------------------------------------
\* The constants Instruction_X of package ocr_2.
ocr2_TypeID ==
    [Initialize |-> Sighash("initialize"), Close |-> Sighash("close"),
     TransferOwnership |-> Sighash("transfer_ownership"),
     AcceptOwnership |-> Sighash("accept_ownership"),
     CreateProposal |-> Sighash("create_proposal"),
     WriteOffchainConfig |-> Sighash("write_offchain_config"),
     FinalizeProposal |-> Sighash("finalize_proposal"),
     CloseProposal |-> Sighash("close_proposal"),
     AcceptProposal |-> Sighash("accept_proposal"),
     ProposeConfig |-> Sighash("propose_config"),
     ProposePayees |-> Sighash("propose_payees"),
     SetRequesterAccessController |-> Sighash("set_requester_access_controller"),
     RequestNewRound |-> Sighash("request_new_round"),
     SetBillingAccessController |-> Sighash("set_billing_access_controller"),
     SetBilling |-> Sighash("set_billing"),
     WithdrawFunds |-> Sighash("withdraw_funds"),
     WithdrawPayment |-> Sighash("withdraw_payment"),
     PayOracles |-> Sighash("pay_oracles"),
     TransferPayeeship |-> Sighash("transfer_payeeship"),
     AcceptPayeeship |-> Sighash("accept_payeeship")]

ocr2_InstructionImplDef ==
    <<Variant("initialize", ocr2_Initialize), Variant("close", ocr2_Close),
      Variant("transfer_ownership", ocr2_TransferOwnership),
      Variant("accept_ownership", ocr2_AcceptOwnership),
      Variant("create_proposal", ocr2_CreateProposal),
      Variant("write_offchain_config", ocr2_WriteOffchainConfig),
      Variant("finalize_proposal", ocr2_FinalizeProposal),
      Variant("close_proposal", ocr2_CloseProposal),
      Variant("accept_proposal", ocr2_AcceptProposal),
      Variant("propose_config", ocr2_ProposeConfig),
      Variant("propose_payees", ocr2_ProposePayees),
      Variant("set_requester_access_controller", ocr2_SetRequesterAccessController),
      Variant("request_new_round", ocr2_RequestNewRound),
      Variant("set_billing_access_controller", ocr2_SetBillingAccessController),
      Variant("set_billing", ocr2_SetBilling),
      Variant("withdraw_funds", ocr2_WithdrawFunds),
      Variant("withdraw_payment", ocr2_WithdrawPayment),
      Variant("pay_oracles", ocr2_PayOracles),
      Variant("transfer_payeeship", ocr2_TransferPayeeship),
      Variant("accept_payeeship", ocr2_AcceptPayeeship)>>

\* The constants Instruction_X of package store.
store_TypeID ==
    [CreateFeed |-> Sighash("create_feed"),
     CloseFeed |-> Sighash("close_feed"),
     TransferFeedOwnership |-> Sighash("transfer_feed_ownership"),
     AcceptFeedOwnership |-> Sighash("accept_feed_ownership"),
     SetValidatorConfig |-> Sighash("set_validator_config"),
     SetWriter |-> Sighash("set_writer"), LowerFlag |-> Sighash("lower_flag"),
     Submit |-> Sighash("submit"), Initialize |-> Sighash("initialize"),
     TransferStoreOwnership |-> Sighash("transfer_store_ownership"),
     AcceptStoreOwnership |-> Sighash("accept_store_ownership"),
     SetLoweringAccessController |-> Sighash("set_lowering_access_controller"),
     Query |-> Sighash("query")]

store_InstructionImplDef ==
    <<Variant("create_feed", store_CreateFeed),
      Variant("close_feed", store_CloseFeed),
      Variant("transfer_feed_ownership", store_TransferFeedOwnership),
      Variant("accept_feed_ownership", store_AcceptFeedOwnership),
      Variant("set_validator_config", store_SetValidatorConfig),
      Variant("set_writer", store_SetWriter),
      Variant("lower_flag", store_LowerFlag), Variant("submit", store_Submit),
      Variant("initialize", store_Initialize),
      Variant("transfer_store_ownership", store_TransferStoreOwnership),
      Variant("accept_store_ownership", store_AcceptStoreOwnership),
      Variant("set_lowering_access_controller", store_SetLoweringAccessController),
      Variant("query", store_Query)>>

\* The constants Instruction_X of package access_controller.
ac_TypeID ==
    [Initialize |-> Sighash("initialize"),
     TransferOwnership |-> Sighash("transfer_ownership"),
     AcceptOwnership |-> Sighash("accept_ownership"),
     AddAccess |-> Sighash("add_access"),
     RemoveAccess |-> Sighash("remove_access")]

ac_InstructionImplDef ==
    <<Variant("initialize", ac_Initialize),
      Variant("transfer_ownership", ac_TransferOwnership),
      Variant("accept_ownership", ac_AcceptOwnership),
      Variant("add_access", ac_AddAccess),
      Variant("remove_access", ac_RemoveAccess)>>

-----------------------------------------------------------------------------
Program == {"ocr_2", "store", "access_controller"}

TypeID == [ocr_2 |-> ocr2_TypeID, store |-> store_TypeID,
           access_controller |-> ac_TypeID]

InstructionImplDef ==
    [ocr_2 |-> ocr2_InstructionImplDef, store |-> store_InstructionImplDef,
     access_controller |-> ac_InstructionImplDef]

Insts(p) == {InstructionImplDef[p][i].inst : i \in DOMAIN InstructionImplDef[p]}

(***************************************************************************)
(* A builder: the parameters and the slots of the slice of account metas,  *)
(* each a pointer, <<>> as long as it is nil. A parameter is abstracted to *)
(* its name, which does not travel, and its type; a meta is a key with the *)
(* flags of its setter.                                                    *)
(***************************************************************************)
nil == <<>>

NewInstructionBuilder(inst) ==
    [inst |-> inst,
     params |-> [i \in DOMAIN inst.params |-> nil],
     metas |-> [i \in DOMAIN inst.accounts |-> nil]]

SetParam(b, i) == [b EXCEPT !.params[i] = <<b.inst.params[i]>>]

\* The setters of the package, which know the flags; k is the public key.
SetAccount(b, i, k) ==
    [b EXCEPT !.metas[i] = <<[key |-> k,
                              writable |-> b.inst.accounts[i].writable,
                              signer |-> b.inst.accounts[i].signer]>>]

Validate(b) ==
    /\ \A i \in DOMAIN b.params : b.params[i] # nil
    /\ \A i \in DOMAIN b.metas : b.metas[i] # nil

\* Build and then Accounts and Data: the metas, the type id, the parameters.
Accounts(b) == [i \in DOMAIN b.metas |-> b.metas[i][1]]
Data(p, b) == [id |-> TypeID[p][b.inst.type],
               args |-> [i \in DOMAIN b.params |-> b.params[i][1]]]

\* The variant that the decoder finds for a type id, or none.
Variants(p, id) ==
    {i \in DOMAIN InstructionImplDef[p] :
        Sighash(InstructionImplDef[p][i].name) = id}

InstructionIDToName(p, id) ==
    LET named == {n \in DOMAIN TypeID[p] : TypeID[p][n] = id}
    IN IF named = {} THEN "" ELSE CHOOSE n \in named : TRUE

\* The decoder reads as many parameters as the variant has, of its types.
DecodeInstruction(p, metas, data) ==
    LET v == CHOOSE i \in Variants(p, data.id) : TRUE
        inst == InstructionImplDef[p][v].inst
    IN IF \/ Variants(p, data.id) = {}
          \/ \E i \in DOMAIN inst.params :
                 i \notin DOMAIN data.args \/ data.args[i][2] # inst.params[i][2]
       THEN nil
       ELSE <<[inst |-> inst, metas |-> [i \in DOMAIN metas |-> <<metas[i]>>],
               params |-> [i \in DOMAIN inst.params |-> <<data.args[i]>>]]>>
=============================================================================

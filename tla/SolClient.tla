----------------------------- MODULE SolClient ------------------------------
(***************************************************************************)
(* The clients that send instructions to the programs: one definition per  *)
(* method of integration-tests/solclient that builds one with the          *)
(* generated constructors, and the transmitter of pkg/solana, which writes *)
(* its account metas by hand. A call names the accounts in the order in    *)
(* which the method passes them, the keys its signer function knows and    *)
(* the accounts that the same transaction creates.                         *)
(*                                                                         *)
(* A key stands for an account: its address, its type, the names under     *)
(* which the deployer means it to be used, whether it is new, and the      *)
(* addresses that the account holds once the deployer has set it up, the   *)
(* ones that seeds derive from its own among them.                         *)
(***************************************************************************)
EXTENDS Naturals, Sequences

Key(id, type, as, holds) ==
    [id |-> id, type |-> type, as |-> as, new |-> FALSE, holds |-> holds]
Nothing == <<>>
\* An account that CreateAccInstr of the same transaction allocates.
New(key) == [key EXCEPT !.new = TRUE]

\* The deployer's wallets and the addresses it derives.
Payer == Key("payer", "System", {}, Nothing)
Owner == Key("owner", "System", {"owner", "authority", "receiver"}, Nothing)
OCR == Key("ocr", "State", {"state"},
           [owner |-> "owner", feed |-> "feed", token_mint |-> "mint",
            token_vault |-> "vault", vault_authority |-> "vault authority"])
StoreAcc == Key("store", "Store", {"store"}, [owner |-> "owner"])
Feed == Key("feed", "Transmissions", {"feed"}, [owner |-> "owner"])
Proposal == Key("proposal", "Proposal", {"proposal"}, [owner |-> "owner"])
Mint == Key("mint", "Mint", {"token_mint"}, Nothing)
\* SetupAssociatedAccount: the token account of the vault authority.
OCRVaultAssociated ==
    Key("vault", "TokenAccount", {"token_vault", "token_receiver"},
        [mint |-> "mint", authority |-> "vault authority"])
VaultAuthority == Key("vault authority", "Pda", {"vault_authority"}, Nothing)
\* The state of its own program; a controller for the others.
BillingAC ==
    Key("billing controller", "AccessController",
        {"state", "access_controller", "billing_access_controller",
         "lowering_access_controller"}, [owner |-> "owner"])
RequesterAC ==
    Key("requester controller", "AccessController",
        {"requester_access_controller"}, [owner |-> "owner"])
Payee == Key("payee", "TokenAccount", {}, [mint |-> "mint"])
TokenProgramID == Key("token program", "Token", {"token_program"}, Nothing)

\* type and p: the constructor that the method calls, and its package.
Call(p, type, keys, signers) ==
    [p |-> p, type |-> type, keys |-> keys,
     signers |-> {k.id : k \in signers}, rest |-> <<>>]

-----------------------------------------------------------------------------
(* deployer.go *)

DeployOCRv2Store ==
    Call("store", "Initialize", <<New(StoreAcc), Owner, BillingAC>>,
         {Owner, StoreAcc, Payer})

CreateFeed ==
    Call("store", "CreateFeed", <<New(Feed), Owner>>, {Owner, Feed, Payer})

InitOCR2 ==
    Call("ocr_2", "Initialize",
         <<New(OCR), Feed, Owner, Mint, OCRVaultAssociated, VaultAuthority,
           RequesterAC, BillingAC>>, {Payer, OCR, Owner})

DeployOCRv2AccessController ==
    Call("access_controller", "Initialize", <<New(BillingAC), Owner>>,
         {Owner, BillingAC, Payer})

-----------------------------------------------------------------------------
(* access_controller.go and store.go *)

AddAccess ==
    Call("access_controller", "AddAccess",
         <<BillingAC, Owner, Key("validator", "System", {"address"}, Nothing)>>,
         {Owner, Payer})

SetValidatorConfig ==
    Call("store", "SetValidatorConfig", <<Feed, Owner, Owner>>, {Owner, Payer})

SetWriter ==
    Call("store", "SetWriter", <<Feed, Owner, Owner>>, {Owner, Feed, Payer})

-----------------------------------------------------------------------------
(* ocr2.go *)

createProposal ==
    Call("ocr_2", "CreateProposal", <<New(Proposal), Owner>>,
         {Owner, Proposal, Payer})

proposeConfig ==
    Call("ocr_2", "ProposeConfig", <<Proposal, Owner>>, {Owner, Proposal, Payer})

\* The second transaction of proposeConfig: one payee for all the oracles,
\* appended to the metas of the instruction.
proposePayees ==
    [Call("ocr_2", "ProposePayees", <<Proposal, Owner>>, {Payee, Owner, Payer})
        EXCEPT !.rest = <<Payee, Payee>>]

writeOffChainConfig ==
    Call("ocr_2", "WriteOffchainConfig", <<Proposal, Owner>>,
         {Owner, Payer, Proposal})

finalizeOffChainConfig ==
    Call("ocr_2", "FinalizeProposal", <<Proposal, Owner>>,
         {Owner, Payer, Proposal})

acceptProposal ==
    Call("ocr_2", "AcceptProposal",
         <<OCR, Proposal, Owner, OCRVaultAssociated, Owner, OCRVaultAssociated,
           VaultAuthority, TokenProgramID>>, {Owner, Payer, Proposal})

SetBilling ==
    Call("ocr_2", "SetBilling",
         <<OCR, Owner, Owner, BillingAC, OCRVaultAssociated, VaultAuthority,
           TokenProgramID>>, {Owner, Payer})

ClientCall ==
    [DeployOCRv2Store |-> DeployOCRv2Store, CreateFeed |-> CreateFeed,
     InitOCR2 |-> InitOCR2,
     DeployOCRv2AccessController |-> DeployOCRv2AccessController,
     AddAccess |-> AddAccess, SetValidatorConfig |-> SetValidatorConfig,
     SetWriter |-> SetWriter, createProposal |-> createProposal,
     proposeConfig |-> proposeConfig, proposePayees |-> proposePayees,
     writeOffChainConfig |-> writeOffChainConfig,
     finalizeOffChainConfig |-> finalizeOffChainConfig,
     acceptProposal |-> acceptProposal, SetBilling |-> SetBilling]

-----------------------------------------------------------------------------
(* pkg/solana/transmitter.go: the metas of Transmit *)

TransmitMeta(k, w, s) == [key |-> k, writable |-> w, signer |-> s]

Transmit ==
    <<TransmitMeta(OCR, TRUE, FALSE),
      TransmitMeta(Key("transmission signer", "System", {"transmitter"}, Nothing),
                   FALSE, TRUE),
      TransmitMeta(Feed, TRUE, FALSE),
      TransmitMeta(Key("store program", "StoreProgram", {"store_program"}, Nothing),
                   FALSE, FALSE),
      TransmitMeta(Key("store authority", "Pda", {"store_authority"}, Nothing),
                   FALSE, FALSE),
      TransmitMeta(Key("instructions sysvar", "Sysvar", {}, Nothing),
                   FALSE, FALSE)>>
=============================================================================

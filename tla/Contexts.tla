------------------------------ MODULE Contexts ------------------------------
(***************************************************************************)
(* What the three programs ask of the accounts of an instruction: one      *)
(* definition per #[derive(Accounts)] struct, in the order of its fields,  *)
(* and the dispatch from a method's name to its context and arguments.     *)
(* A constraint is the type of the account that the field's wrapper        *)
(* deserializes, whether the account has to be writable or to sign, and    *)
(* what other accounts record of its address or of its mint. The checks    *)
(* that the methods themselves make, of access lists and of payees, are in *)
(* Aggregator, Proposals and StoreAccess.                                  *)
(***************************************************************************)
EXTENDS Naturals, Sequences

\* AccountLoader<T>, Account<T>, Program<T> and SystemAccount name a type;
\* AccountInfo and UncheckedAccount take any account.
Any == "Any"
Field(n, t) == [name |-> n, type |-> t, mut |-> FALSE, signer |-> FALSE,
                zero |-> FALSE, where |-> {}]
Mut(n, t)   == [Field(n, t) EXCEPT !.mut = TRUE]
\* zero: an account of the program that no one has initialised; implies mut.
Zero(n, t)  == [Mut(n, t) EXCEPT !.zero = TRUE]
Signer(n)   == [Field(n, Any) EXCEPT !.signer = TRUE]
\* address = of.what, has_one, or the address that seeds derive from of's.
At(field, of, what) == [field EXCEPT !.where = @ \cup {<<"key", of, what>>}]
\* token::mint = of.what
OfMint(field, of, what) ==
    [field EXCEPT !.where = @ \cup {<<"mint", of, what>>}]

\* Fields that several contexts share: a signer that owns the first account,
\* the vault of an aggregator and the authority over it, and the account that
\* receives its tokens.
OwnerOf(of) == At(Signer("authority"), of, "owner")
ProposedOwnerOf(of) == At(Signer("authority"), of, "proposed_owner")
Vault == At(Mut("token_vault", "TokenAccount"), "state", "token_vault")
VaultAuthority == At(Field("vault_authority", Any), "state", "vault_authority")
TokenReceiver ==
    OfMint(Mut("token_receiver", "TokenAccount"), "state", "token_mint")
FeedOwner == At(Field("owner", Any), "feed", "owner")

-----------------------------------------------------------------------------
(* ocr_2/src/context.rs *)

ocr2_Initialize ==
    <<Zero("state", "State"), Field("feed", "Transmissions"), Signer("owner"),
      Field("token_mint", "Mint"),
      [Field("token_vault", "TokenAccount") EXCEPT
          !.where = {<<"mint", "token_mint", "key">>,
                     <<"authority", "vault_authority", "key">>}],
      VaultAuthority,
      Field("requester_access_controller", "AccessController"),
      Field("billing_access_controller", "AccessController")>>

ocr2_Close ==
    <<Mut("state", "State"), Mut("receiver", "System"),
      TokenReceiver, OwnerOf("state"),
      Vault, VaultAuthority,
      Field("token_program", "Token")>>

ocr2_TransferOwnership == <<Mut("state", "State"), OwnerOf("state")>>

ocr2_AcceptOwnership == <<Mut("state", "State"), ProposedOwnerOf("state")>>

ocr2_CreateProposal == <<Zero("proposal", "Proposal"), Signer("authority")>>

ocr2_CloseProposal ==
    <<Mut("proposal", "Proposal"), Mut("receiver", "System"),
      OwnerOf("proposal")>>

ocr2_ProposeConfig == <<Mut("proposal", "Proposal"), OwnerOf("proposal")>>

ocr2_AcceptProposal ==
    <<Mut("state", "State"), Mut("proposal", "Proposal"),
      Mut("receiver", "System"), TokenReceiver,
      OwnerOf("state"), Vault,
      VaultAuthority, Field("token_program", "Token")>>

ocr2_Transmit ==
    <<Mut("state", "State"), Signer("transmitter"),
      At(Mut("feed", "Transmissions"), "state", "feed"),
      Field("store_program", "StoreProgram"),
      Field("store_authority", Any)>>

ocr2_SetAccessController ==
    <<Mut("state", "State"), OwnerOf("state"),
      Field("access_controller", "AccessController")>>

ocr2_RequestNewRound ==
    <<Mut("state", "State"), Signer("authority"),
      Field("access_controller", "AccessController")>>

ocr2_SetBilling ==
    <<Mut("state", "State"), Signer("authority"),
      Field("access_controller", "AccessController"),
      TokenReceiver, Vault,
      VaultAuthority, Field("token_program", "Token")>>

ocr2_WithdrawFunds ==
    <<Mut("state", "State"), Signer("authority"),
      Field("access_controller", "AccessController"),
      Vault, VaultAuthority, Mut("recipient", "TokenAccount"),
      Field("token_program", "Token")>>

ocr2_WithdrawPayment ==
    <<Mut("state", "State"), Signer("authority"),
      Vault, VaultAuthority, Mut("payee", "TokenAccount"),
      Field("token_program", "Token")>>

ocr2_TransferPayeeship ==
    <<Mut("state", "State"), Signer("authority"), Field("transmitter", "System"),
      Field("payee", "TokenAccount"), Field("proposed_payee", "TokenAccount")>>

ocr2_AcceptPayeeship ==
    <<Mut("state", "State"), Signer("authority"), Field("transmitter", "System"),
      Field("proposed_payee", "TokenAccount")>>

-----------------------------------------------------------------------------
(* store/src/lib.rs *)

store_CreateFeed == <<Zero("feed", "Transmissions"), Signer("authority")>>

store_CloseFeed ==
    <<Mut("feed", "Transmissions"), FeedOwner,
      Mut("receiver", "System"), Signer("authority")>>

store_SetFeedConfig ==
    <<Mut("feed", "Transmissions"), FeedOwner, Signer("authority")>>

store_LowerFlag ==
    <<Mut("feed", "Transmissions"), FeedOwner, Signer("authority"),
      Field("access_controller", Any)>>

store_TransferFeedOwnership ==
    <<Mut("feed", "Transmissions"), FeedOwner, Signer("authority")>>

store_AcceptFeedOwnership ==
    <<Mut("feed", "Transmissions"),
      At(Field("proposed_owner", Any), "feed", "proposed_owner"),
      Signer("authority")>>

store_Submit ==
    <<Mut("feed", "Transmissions"), At(Signer("authority"), "feed", "writer")>>

store_Initialize ==
    <<Zero("store", "Store"), Signer("owner"),
      Field("lowering_access_controller", "AccessController")>>

store_TransferStoreOwnership == <<Mut("store", "Store"), OwnerOf("store")>>

store_AcceptStoreOwnership ==
    <<Mut("store", "Store"), ProposedOwnerOf("store")>>

store_SetAccessController ==
    <<Mut("store", "Store"), OwnerOf("store"),
      Field("access_controller", "AccessController")>>

store_Query == <<Field("feed", "Transmissions")>>

-----------------------------------------------------------------------------
(* access-controller/src/lib.rs *)

ac_Initialize == <<Zero("state", "AccessController"), Signer("owner")>>

ac_TransferOwnership == <<Mut("state", "AccessController"), OwnerOf("state")>>

ac_AcceptOwnership ==
    <<Mut("state", "AccessController"), ProposedOwnerOf("state")>>

ac_AddAccess ==
    <<Mut("state", "AccessController"), At(Signer("owner"), "state", "owner"),
      Field("address", Any)>>

ac_RemoveAccess ==
    <<Mut("state", "AccessController"), At(Signer("owner"), "state", "owner"),
      Field("address", Any)>>

-----------------------------------------------------------------------------
(***************************************************************************)
(* The methods of the #[program] modules: the context and the names and    *)
(* types of the arguments after it.                                        *)
(***************************************************************************)
Method(context, args) == [context |-> context, args |-> args]

ocr2_methods ==
    [initialize |-> Method(ocr2_Initialize,
         <<<<"min_answer", "i128">>,
           <<"max_answer", "i128">>>>),
     close |-> Method(ocr2_Close, <<>>),
     transfer_ownership |-> Method(ocr2_TransferOwnership,
         <<<<"proposed_owner", "Pubkey">>>>),
     accept_ownership |-> Method(ocr2_AcceptOwnership, <<>>),
     create_proposal |-> Method(ocr2_CreateProposal,
         <<<<"offchain_config_version", "u64">>>>),
     write_offchain_config |-> Method(ocr2_ProposeConfig,
         <<<<"offchain_config", "Vec<u8>">>>>),
     finalize_proposal |-> Method(ocr2_ProposeConfig, <<>>),
     close_proposal |-> Method(ocr2_CloseProposal, <<>>),
     accept_proposal |-> Method(ocr2_AcceptProposal,
         <<<<"digest", "Vec<u8>">>>>),
     propose_config |-> Method(ocr2_ProposeConfig,
         <<<<"new_oracles", "Vec<NewOracle>">>,
           <<"f", "u8">>>>),
     propose_payees |-> Method(ocr2_ProposeConfig,
         <<<<"token_mint", "Pubkey">>>>),
     set_requester_access_controller |-> Method(ocr2_SetAccessController, <<>>),
     request_new_round |-> Method(ocr2_RequestNewRound, <<>>),
     set_billing_access_controller |-> Method(ocr2_SetAccessController, <<>>),
     set_billing |-> Method(ocr2_SetBilling,
         <<<<"observation_payment_gjuels", "u32">>,
           <<"transmission_payment_gjuels", "u32">>>>),
     withdraw_funds |-> Method(ocr2_WithdrawFunds,
         <<<<"amount_gjuels", "u64">>>>),
     withdraw_payment |-> Method(ocr2_WithdrawPayment, <<>>),
     pay_oracles |-> Method(ocr2_SetBilling, <<>>),
     transfer_payeeship |-> Method(ocr2_TransferPayeeship, <<>>),
     accept_payeeship |-> Method(ocr2_AcceptPayeeship, <<>>)]

store_methods ==
    [create_feed |-> Method(store_CreateFeed,
         <<<<"description", "String">>,
           <<"decimals", "u8">>,
           <<"granularity", "u8">>,
           <<"live_length", "u32">>>>),
     close_feed |-> Method(store_CloseFeed, <<>>),
     transfer_feed_ownership |-> Method(store_TransferFeedOwnership,
         <<<<"proposed_owner", "Pubkey">>>>),
     accept_feed_ownership |-> Method(store_AcceptFeedOwnership, <<>>),
     set_validator_config |-> Method(store_SetFeedConfig,
         <<<<"flagging_threshold", "u32">>>>),
     set_writer |-> Method(store_SetFeedConfig, <<<<"writer", "Pubkey">>>>),
     lower_flag |-> Method(store_LowerFlag, <<>>),
     submit |-> Method(store_Submit, <<<<"round", "NewTransmission">>>>),
     initialize |-> Method(store_Initialize, <<>>),
     transfer_store_ownership |-> Method(store_TransferStoreOwnership,
         <<<<"proposed_owner", "Pubkey">>>>),
     accept_store_ownership |-> Method(store_AcceptStoreOwnership, <<>>),
     set_lowering_access_controller |-> Method(store_SetAccessController, <<>>),
     query |-> Method(store_Query, <<<<"scope", "Scope">>>>)]

ac_methods ==
    [initialize |-> Method(ac_Initialize, <<>>),
     transfer_ownership |-> Method(ac_TransferOwnership,
         <<<<"proposed_owner", "Pubkey">>>>),
     accept_ownership |-> Method(ac_AcceptOwnership, <<>>),
     add_access |-> Method(ac_AddAccess, <<>>),
     remove_access |-> Method(ac_RemoveAccess, <<>>)]

Methods == [ocr_2 |-> ocr2_methods, store |-> store_methods,
            access_controller |-> ac_methods]

-----------------------------------------------------------------------------
(***************************************************************************)
(* try_accounts: the wrappers and constraints of a context, checked against*)
(* the metas of a transaction. A key names an account: its id, its type,   *)
(* whether it is new and of no type yet, and the addresses it holds.       *)
(***************************************************************************)
Recorded(key, what) == IF what = "key" THEN key.id ELSE key.holds[what]
Records(key, what) == what = "key" \/ what \in DOMAIN key.holds

\* The account at slot i is the one that an account of the context records.
Where(context, metas, i) ==
    \A c \in context[i].where : \E j \in DOMAIN context :
        /\ context[j].name = c[2]
        /\ Records(metas[i].key, c[1]) /\ Records(metas[j].key, c[3])
        /\ Recorded(metas[i].key, c[1]) = Recorded(metas[j].key, c[3])

AccountOK(field, meta) ==
    /\ field.signer => meta.signer
    /\ field.mut => meta.writable
    /\ field.type # Any => meta.key.type = field.type
    /\ field.zero <=> meta.key.new

try_accounts(context, metas) ==
    /\ Len(metas) >= Len(context)
    /\ \A i \in DOMAIN context :
          AccountOK(context[i], metas[i]) /\ Where(context, metas, i)
=============================================================================

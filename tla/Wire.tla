-------------------------------- MODULE Wire --------------------------------
(***************************************************************************)
(* An instruction on its way from Go to a program: a caller fills the      *)
(* builder of a generated package, the package validates and encodes it,   *)
(* the transaction is signed, and the program finds the method by its      *)
(* discriminator, checks the accounts against the method's context and     *)
(* decodes the arguments. Bindings is written from the Go packages and     *)
(* Contexts from the Rust programs; this module puts one against the       *)
(* other.                                                                  *)
(***************************************************************************)
EXTENDS SolClient

CONSTANTS
    ClientMethods   \* the methods of SolClient called, names of ClientCall

B == INSTANCE Bindings
C == INSTANCE Contexts

\* No call, no builder, no transaction.
none == [p |-> "none"]

VARIABLES
    call,      \* the call under way: a caller's keys, or none
    builder,   \* the builder of the instruction, or none
    tx,        \* the transaction: program, account metas and data, or none
    outcome    \* what became of the last call

wireVars == <<call, builder, tx, outcome>>

WireInit ==
    /\ call = none /\ builder = none /\ tx = none
    /\ outcome = "pending"

-----------------------------------------------------------------------------
(***************************************************************************)
(* A caller that follows the names of the constructor's arguments passes,  *)
(* for each of them, an account of the type the name stands for.           *)
(***************************************************************************)
TypeNamed(p, n) ==
    CASE n = "state" /\ p = "ocr_2" -> "State"
      [] n = "state" /\ p = "access_controller" -> "AccessController"
      [] n = "proposal" -> "Proposal"
      [] n = "feed" -> "Transmissions"
      [] n = "store" -> "Store"
      [] n = "token_mint" -> "Mint"
      [] n \in {"token_vault", "token_receiver", "recipient", "payee",
                "proposed_payee"} -> "TokenAccount"
      [] n \in {"access_controller", "requester_access_controller",
                "billing_access_controller", "lowering_access_controller"}
            -> "AccessController"
      [] n = "token_program" -> "Token"
      [] n = "vault_authority" -> "Pda"
      [] OTHER -> "System"

\* The account that an instruction initialises is a new one.
Initialised == {<<"ocr_2", "Initialize", "state">>,
                <<"ocr_2", "CreateProposal", "proposal">>,
                <<"store", "CreateFeed", "feed">>,
                <<"store", "Initialize", "store">>,
                <<"access_controller", "Initialize", "state">>}

\* What the accounts of such a caller hold: whoever signs owns the first one.
HeldBy(inst, n) ==
    LET signer == {a.name : a \in {b \in {inst.accounts[i] :
                                          i \in DOMAIN inst.accounts} : b.signer}}
        owner == IF signer = {} THEN "" ELSE CHOOSE s \in signer : TRUE
    IN IF n = "feed"
       THEN [owner |-> "owner", proposed_owner |-> "proposed_owner",
             writer |-> owner]
       ELSE [owner |-> owner, proposed_owner |-> owner,
             token_mint |-> "token_mint", token_vault |-> "token_vault",
             vault_authority |-> "vault_authority",
             mint |-> "token_mint", authority |-> "vault_authority"]

NamedCall(p, inst) ==
    LET key(a) == [id |-> a.name, type |-> TypeNamed(p, a.name), as |-> {a.name},
                   new |-> <<p, inst.type, a.name>> \in Initialised,
                   holds |-> HeldBy(inst, a.name)]
    IN [p |-> p, type |-> inst.type,
        keys |-> [i \in DOMAIN inst.accounts |-> key(inst.accounts[i])],
        signers |-> {a.name : a \in {inst.accounts[i] : i \in DOMAIN inst.accounts}}
                    \cup {Payer.id},
        rest |-> <<>>]

BuilderOf(p, type) ==
    B!NewInstructionBuilder(CHOOSE i \in B!Insts(p) : i.type = type)

\* The caller takes a builder and will call the setters it chooses.
StartBuilder(p, inst) ==
    /\ call = none
    /\ call' = NamedCall(p, inst)
    /\ builder' = BuilderOf(p, inst.type)
    /\ outcome' = "pending"
    /\ UNCHANGED tx

\* NewXInstruction sets every parameter and account before it returns; the
\* methods of solclient call it, or the same setters, and then Build.
Filled(c) ==
    LET b == BuilderOf(c.p, c.type)
    IN [b EXCEPT
         !.params = [i \in DOMAIN b.params |-> B!SetParam(b, i).params[i]],
         !.metas = [i \in DOMAIN b.metas |-> B!SetAccount(b, i, c.keys[i]).metas[i]]]

\* Append adds read-only metas after those of the instruction.
Appended(c) == [i \in DOMAIN c.rest |->
                    [key |-> c.rest[i], writable |-> FALSE, signer |-> FALSE]]

Transaction(c, b) ==
    [p |-> c.p, metas |-> B!Accounts(b) \o Appended(c), data |-> B!Data(c.p, b)]

ClientCalls(method) ==
    LET c == ClientCall[method]
    IN /\ call = none
       /\ call' = c
       /\ builder' = Filled(c)
       /\ tx' = Transaction(c, Filled(c))
       /\ outcome' = "pending"

\* Transmit's data starts with the store nonce: no method's discriminator.
TransmitCalls ==
    /\ call = none
    /\ call' = [p |-> "ocr_2", type |-> "Transmit", keys |-> <<>>, rest |-> <<>>,
                signers |-> {"transmission signer", Payer.id}]
    /\ builder' = none
    /\ tx' = [p |-> "ocr_2", metas |-> Transmit,
              data |-> [id |-> <<"store nonce", "config digest">>, args |-> <<>>]]
    /\ outcome' = "pending"

SetParam(i) ==
    /\ call # none /\ tx = none /\ outcome = "pending"
    /\ builder.params[i] = B!nil
    /\ builder' = B!SetParam(builder, i)
    /\ UNCHANGED <<call, tx, outcome>>

SetAccount(i) ==
    /\ call # none /\ tx = none /\ outcome = "pending"
    /\ builder.metas[i] = B!nil
    /\ builder' = B!SetAccount(builder, i, call.keys[i])
    /\ UNCHANGED <<call, tx, outcome>>

ValidateAndBuild ==
    /\ call # none /\ tx = none /\ outcome = "pending"
    /\ IF B!Validate(builder)
       THEN tx' = Transaction(call, builder) /\ UNCHANGED outcome
       ELSE outcome' = "invalid" /\ UNCHANGED tx
    /\ UNCHANGED <<call, builder>>

-----------------------------------------------------------------------------
\* tx.Sign asks the signer function for the key of every signer: the payer,
\* the metas marked as such and the accounts that the transaction creates.
Signers(t) ==
    {Payer.id} \cup {t.metas[i].key.id : i \in
        {j \in DOMAIN t.metas : t.metas[j].signer \/ t.metas[j].key.new}}

Signed(c, t) == Signers(t) \subseteq c.signers

\* The entrypoint: a method by its discriminator, or the raw instruction.
Dispatch(p, id) ==
    LET named == {n \in DOMAIN C!Methods[p] : B!Sighash(n) = id}
    IN IF named # {} THEN C!Methods[p][CHOOSE n \in named : TRUE]
       ELSE IF p = "ocr_2" THEN C!Method(C!ocr2_Transmit, <<>>)
       ELSE C!Method(<<>>, <<<<"", "InstructionFallbackNotFound">>>>)

\* The arguments travel without their names.
Types(args) == [i \in DOMAIN args |-> args[i][2]]

Execute ==
    /\ tx # none
    /\ LET m == Dispatch(tx.p, tx.data.id)
       IN outcome' = IF ~Signed(call, tx) THEN "unsigned"
                     ELSE IF C!try_accounts(m.context, tx.metas)
                             /\ Types(tx.data.args) = Types(m.args)
                          THEN "accepted" ELSE "rejected"
    /\ tx' = none
    /\ UNCHANGED <<call, builder>>

Return ==
    /\ outcome # "pending"
    /\ call' = none /\ builder' = none
    /\ UNCHANGED <<tx, outcome>>

WireNext ==
    \/ \E p \in B!Program : \E inst \in B!Insts(p) : StartBuilder(p, inst)
    \/ \E method \in ClientMethods : ClientCalls(method)
    \/ TransmitCalls
    \/ builder # none /\ \E i \in DOMAIN builder.params : SetParam(i)
    \/ builder # none /\ \E i \in DOMAIN builder.metas : SetAccount(i)
    \/ ValidateAndBuild
    \/ Execute
    \/ Return

-----------------------------------------------------------------------------
(***************************************************************************)
(* An instruction that the package lets through, or that a client method   *)
(* or the transmitter sends, is one that the program takes: the method it  *)
(* names is the one meant, and the accounts have the types, the addresses, *)
(* the flags and the signatures that its context asks for. Bindings and    *)
(* programs are written in two languages and nothing but the chain         *)
(* compares them. One call is known to break it: OCRv2.SetBilling passes   *)
(* the owner where the controller belongs and the controller where the     *)
(* receiver of tokens does, and the program refuses it.                    *)
(***************************************************************************)
ProgramTakesIt ==
    call # none =>
    IF call = ClientCall.SetBilling
    THEN outcome \in {"pending", "rejected"}
    ELSE outcome \notin {"rejected", "unsigned"}

(***************************************************************************)
(* The accounts and arguments that the program would not tell apart, being *)
(* of one type, are in the right slots as well: the slot of the context    *)
(* has a name under which the caller means the account, and the argument   *)
(* the method's name for it.                                               *)
(***************************************************************************)
SlotsAsMeant ==
    tx # none /\ call # ClientCall.SetBilling =>
        LET m == Dispatch(tx.p, tx.data.id)
        IN /\ \A i \in DOMAIN m.context :
                 i \in DOMAIN tx.metas /\ m.context[i].name \in tx.metas[i].key.as
           /\ tx.data.args = m.args

(***************************************************************************)
(* DecodeInstruction returns the instruction that was encoded, with its    *)
(* parameters and accounts, and InstructionIDToName its name: the tables   *)
(* of the type ids and of the variants agree.                              *)
(***************************************************************************)
DecodesBack ==
    (tx # none /\ builder # none) =>
        LET d == B!DecodeInstruction(tx.p, tx.metas, tx.data)
        IN /\ d # B!nil
           /\ d[1].inst = builder.inst
           /\ d[1].params = builder.params
           /\ B!InstructionIDToName(tx.p, tx.data.id) = builder.inst.type

\* Bindings, clients and programs agree on the instructions.
InstructionsAgree == ProgramTakesIt /\ SlotsAsMeant /\ DecodesBack
=============================================================================

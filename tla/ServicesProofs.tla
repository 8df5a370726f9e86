-------------------------- MODULE ServicesProofs ----------------------------
(***************************************************************************)
(* A chain hands out one client for each endpoint and makes no wrapped     *)
(* call through an endpoint that has not named the expected chain, for     *)
(* any number of endpoints, callers and calls. What the caches of the      *)
(* state and the transmissions return without an error is recent, for      *)
(* every time to live, every timeout and any number of changes on chain.   *)
(* Every copy of a transaction that is sent makes its calls with the fee   *)
(* and the limit that are configured, for any width of a price, limits and *)
(* number of bumps.                                                        *)
(***************************************************************************)
EXTENDS Chain, Caches, Fees, FiniteSetTheorems, SequenceTheorems, WellFoundedInduction, TLAPS

Pc == {"new", "idle", "getClient", "recheck", "call", "verify", "asking",
       "perform", "panicked", "closed"}

(* What callers call. *)
Call == Wrapped \cup {"GetLatestBlock"}

AnyClient == (Node \X (Caller \cup {Pool})) \cup {None, NilPointer}

CallerState ==
  [pc : Pc, client : AnyClient, todo : Seq(Call),
   got : BOOLEAN]

TypeOK ==
  /\ caller \in [Caller -> CallerState]
  /\ clientCache \in [Node -> Client \cup {None}]
  /\ chainID \in [Client -> ChainID \cup {""}]

(***************************************************************************)
(* A caller has a client while it makes calls; unless the client has just  *)
(* been created, it is the one in the cache, and a wrapped call under way  *)
(* goes through a verified one.  MultiNode's clients are none of these.    *)
(***************************************************************************)
CallerFits(r) ==
  /\ r.pc \in {"verify", "asking", "perform"} => r.todo # <<>>
  /\ mode = "clients" => r.client \in Client \cup {None}
  /\ mode # "clients" => r.client \notin Client /\ r.pc # "recheck"
  /\ (mode = "clients" /\ r.pc \in {"recheck", "call", "verify", "asking",
                                    "perform"})
       => r.client \in Client
  /\ (r.client \in Client /\ r.pc # "recheck")
       => clientCache[endpoint(r.client)] = r.client
  /\ (mode = "clients" /\ r.pc = "perform" /\ Head(r.todo) \in Wrapped)
       => r.client \in confirmed

CacheByEndpoint ==
  \A n \in Node : clientCache[n] # None => endpoint(clientCache[n]) = n

VerifiedWereConfirmed ==
  \A cl \in Client : chainIDVerified(cl) => cl \in confirmed

ChainInv ==
  /\ TypeOK /\ CacheByEndpoint /\ VerifiedWereConfirmed
  /\ \A c \in Caller : CallerFits(caller[c])

Same == UNCHANGED <<mode, clientCache, chainID, confirmed>>

(* The step replaces the state of one caller. *)
CallerBecomes(c, e) == caller' = [caller EXCEPT ![c] = e]

-----------------------------------------------------------------------------
(* A caller's step to a state that fits, with the clients as they are. *)
LEMMA CallerMoves ==
  ASSUME ChainInv, Same, NEW c \in Caller, NEW e \in CallerState,
         CallerBecomes(c, e), CallerFits(e)
  PROVE  ChainInv'
  <1>1. /\ caller' \in [Caller -> CallerState] /\ caller'[c] = e
        /\ \A d \in Caller : d # c => caller'[d] = caller[d]
    BY DEF ChainInv, TypeOK, CallerBecomes
  <1>2. TypeOK' /\ CacheByEndpoint' /\ VerifiedWereConfirmed'
    BY <1>1 DEF ChainInv, Same, TypeOK, CacheByEndpoint, VerifiedWereConfirmed,
                chainIDVerified
  <1>3. \A r : CallerFits(r)' = CallerFits(r)  BY DEF Same, CallerFits
  <1>4. \A d \in Caller : CallerFits(caller[d])  BY DEF ChainInv
  <1>5. ASSUME NEW d \in Caller PROVE CallerFits(caller[d])'
    <2> DEFINE r == caller'[d]
    <2>1. PICK q : q = caller'[d]  OBVIOUS
    <2>2. CallerFits(q)  BY <1>1, <1>4, <2>1
    <2>3. CallerFits(q)'  BY <1>3, <2>2
    <2> QED  BY <2>1, <2>3 DEF CallerFits
  <1> QED  BY <1>2, <1>5 DEF ChainInv

(* A step that only moves a caller on. *)
LEMMA GotoBecomes ==
  ASSUME TypeOK, NEW c \in Caller, NEW pc \in Pc, Goto(c, pc)
  PROVE  \E e \in CallerState :
           /\ CallerBecomes(c, e) /\ e.pc = pc
           /\ e.client = caller[c].client /\ e.todo = caller[c].todo
  <1>1. caller[c] \in CallerState  BY DEF TypeOK
  <1> DEFINE e == [caller[c] EXCEPT !.pc = pc]
  <1>2. CallerBecomes(c, e)  BY DEF Goto, CallerBecomes
  <1>3. /\ e \in CallerState /\ e.pc = pc
        /\ e.client = caller[c].client /\ e.todo = caller[c].todo
    BY <1>1 DEF CallerState
  <1> QED  BY <1>2, <1>3

(* A step that gives a caller a client, or takes it. *)
LEMMA GotBecomes ==
  ASSUME TypeOK, NEW c \in Caller, NEW pc \in Pc, NEW cl \in AnyClient,
         Got(c, cl, pc)
  PROVE  \E e \in CallerState :
           /\ CallerBecomes(c, e) /\ e.pc = pc
           /\ e.client = cl /\ e.todo = caller[c].todo
  <1>1. caller[c] \in CallerState  BY DEF TypeOK
  <1> DEFINE e == [caller[c] EXCEPT !.client = cl, !.pc = pc]
  <1>2. CallerBecomes(c, e)  BY DEF Got, CallerBecomes
  <1>3. /\ e \in CallerState /\ e.pc = pc
        /\ e.client = cl /\ e.todo = caller[c].todo
    BY <1>1 DEF CallerState
  <1> QED  BY <1>2, <1>3

(* The clients of MultiNode are not those of the cache. *)
LEMMA PoolApart ==
  /\ \A n \in Node : <<n, Pool>> \in AnyClient /\ <<n, Pool>> \notin Client
  /\ Client \subseteq AnyClient
  /\ None \in AnyClient /\ NilPointer \in AnyClient
  /\ \A cl \in Client : endpoint(cl) \in Node
  BY ChainAssumption DEF AnyClient, Client, Caller, Pool, Monitor, endpoint

(* A caller may have nothing left to do. *)
LEMMA NoCalls == <<>> \in Seq(Call)
  OBVIOUS

-----------------------------------------------------------------------------
(* Nobody has a client at the start. *)
LEMMA InitInv == ChainInit => ChainInv
  <1> SUFFICES ASSUME ChainInit PROVE ChainInv  OBVIOUS
  <1>1. ASSUME NEW c \in Caller
        PROVE  /\ caller[c] \in CallerState /\ caller[c].client = None
               /\ caller[c].pc \in {"new", "idle"}
    <2>1. PICK p \in {"new", "idle"} :
            caller[c] = [pc |-> p, client |-> None, todo |-> <<>>, got |-> FALSE]
      BY DEF ChainInit
    <2>2. p \in Pc  BY DEF Pc
    <2>3. [pc |-> p, client |-> None, todo |-> <<>>, got |-> FALSE]
            \in CallerState
      BY <2>2, PoolApart, NoCalls DEF CallerState
    <2> QED  BY <2>1, <2>3
  <1>6. caller \in [Caller -> CallerState]
    BY <1>1 DEF ChainInit
  <1>2. TypeOK  BY <1>6 DEF ChainInit, TypeOK
  <1>3. CacheByEndpoint  BY DEF ChainInit, CacheByEndpoint
  <1>4. VerifiedWereConfirmed
    BY ChainAssumption
    DEF ChainInit, VerifiedWereConfirmed, chainIDVerified, matches
  <1>5. \A c \in Caller : CallerFits(caller[c])
    BY <1>1, ChainAssumption DEF CallerFits
  <1> QED  BY <1>2, <1>3, <1>4, <1>5 DEF ChainInv

(* The endpoints and the stop channel are not the callers'. *)
LEMMA ElsewhereInv ==
  ASSUME ChainInv, Same, UNCHANGED caller
  PROVE  ChainInv'
  BY DEF ChainInv, Same, TypeOK, CacheByEndpoint, VerifiedWereConfirmed,
         chainIDVerified, CallerFits

(***************************************************************************)
(* getClient: a cached client, a new one, or a node of MultiNode.          *)
(***************************************************************************)
LEMMA GetClientInv ==
  ASSUME ChainInv, NEW c \in Caller, NEW n \in Node,
         Cached(c, n) \/ NewClient(c, n) \/ SelectRPC(c, n)
  PROVE  ChainInv'
  <1>0. TypeOK /\ CallerFits(caller[c])  BY DEF ChainInv
  <1>1. Same  BY DEF Cached, NewClient, SelectRPC, Same
  <1>2. CASE Cached(c, n)
    <2>1. /\ clientCache[n] \in Client /\ endpoint(clientCache[n]) = n
          /\ mode = "clients" /\ Got(c, clientCache[n], "call")
      BY <1>2 DEF Cached, ChainInv, TypeOK, CacheByEndpoint
    <2>2. PICK e \in CallerState :
            CallerBecomes(c, e) /\ e.pc = "call" /\ e.client = clientCache[n]
      BY <1>0, <2>1, PoolApart, GotBecomes DEF Pc
    <2>3. CallerFits(e)  BY <2>1, <2>2 DEF CallerFits
    <2> QED  BY <1>1, <2>2, <2>3, CallerMoves
  <1>3. CASE NewClient(c, n)
    <2>1. mode = "clients" /\ Got(c, <<n, c>>, "recheck") /\ <<n, c>> \in Client
      BY <1>3 DEF NewClient, Client
    <2>2. PICK e \in CallerState :
            CallerBecomes(c, e) /\ e.pc = "recheck" /\ e.client = <<n, c>>
      BY <1>0, <2>1, PoolApart, GotBecomes DEF Pc
    <2>3. CallerFits(e)  BY <2>1, <2>2 DEF CallerFits
    <2> QED  BY <1>1, <2>2, <2>3, CallerMoves
  <1>4. CASE SelectRPC(c, n)
    <2>1. /\ mode # "clients" /\ Got(c, <<n, Pool>>, "call")
          /\ <<n, Pool>> \in AnyClient /\ <<n, Pool>> \notin Client
      BY <1>4, PoolApart DEF SelectRPC
    <2>2. PICK e \in CallerState :
            CallerBecomes(c, e) /\ e.pc = "call" /\ e.client = <<n, Pool>>
      BY <1>0, <2>1, GotBecomes DEF Pc
    <2>3. CallerFits(e)  BY <2>1, <2>2 DEF CallerFits
    <2> QED  BY <1>1, <2>2, <2>3, CallerMoves
  <1> QED  BY <1>2, <1>3, <1>4

(* No node is alive: the caller goes on without a client. *)
LEMMA SelectFailsInv ==
  ASSUME ChainInv, NEW c \in Caller, SelectRPCFails(c)
  PROVE  ChainInv'
  <1>0. TypeOK /\ Same /\ mode # "clients"
    BY DEF ChainInv, SelectRPCFails, Same
  <1> DEFINE cl == IF c = Monitor THEN NilPointer ELSE None
             e == [caller[c] EXCEPT !.client = cl, !.pc = "idle",
                                    !.todo = <<>>]
  <1>1. CallerBecomes(c, e)  BY DEF SelectRPCFails, CallerBecomes
  <1>2. cl \in AnyClient /\ cl \notin Client
    BY PoolApart, ChainAssumption
  <1>3. caller[c] \in CallerState /\ "idle" \in Pc
    BY <1>0 DEF TypeOK, Pc
  <1> HIDE DEF cl
  <1>4. e \in CallerState /\ e.pc = "idle" /\ e.client = cl
    BY <1>2, <1>3, NoCalls DEF CallerState
  <1> HIDE DEF e
  <1>5. CallerFits(e)  BY <1>0, <1>2, <1>4 DEF CallerFits
  <1> QED  BY <1>0, <1>1, <1>4, <1>5, CallerMoves

(***************************************************************************)
(* The second look at the cache: a client that another caller has cached   *)
(* meanwhile is taken, so no cached client is ever replaced.               *)
(***************************************************************************)
LEMMA RecheckInv ==
  ASSUME ChainInv, NEW c \in Caller, Recheck(c)
  PROVE  ChainInv'
  <1> DEFINE cl == caller[c].client
             n == endpoint(cl)
  <1>0. /\ TypeOK /\ CacheByEndpoint /\ CallerFits(caller[c])
        /\ mode = "clients" /\ cl \in Client /\ n \in Node
    BY PoolApart DEF ChainInv, CallerFits, Recheck, At
  <1>1. CASE clientCache[n] # None
    <2>1. /\ Same /\ Got(c, clientCache[n], "call")
          /\ clientCache[n] \in Client /\ endpoint(clientCache[n]) = n
      BY <1>0, <1>1 DEF Recheck, Same, TypeOK, CacheByEndpoint
    <2>2. PICK e \in CallerState :
            CallerBecomes(c, e) /\ e.pc = "call" /\ e.client = clientCache[n]
      BY <1>0, <2>1, PoolApart, GotBecomes DEF Pc
    <2>3. CallerFits(e)  BY <1>0, <2>1, <2>2 DEF CallerFits
    <2> QED  BY <2>1, <2>2, <2>3, CallerMoves
  <1>2. CASE clientCache[n] = None
    <2>1. /\ clientCache' = [clientCache EXCEPT ![n] = cl]
          /\ Goto(c, "call") /\ UNCHANGED <<mode, chainID, confirmed>>
      BY <1>2 DEF Recheck
    <2>2. PICK e \in CallerState :
            CallerBecomes(c, e) /\ e.pc = "call" /\ e.client = cl
      BY <1>0, <2>1, GotoBecomes DEF Pc
    <2> HIDE DEF cl, n
    <2>3. /\ caller' \in [Caller -> CallerState] /\ caller'[c] = e
          /\ \A d \in Caller : d # c => caller'[d] = caller[d]
      BY <1>0, <2>2 DEF TypeOK, CallerBecomes
    <2>4. /\ clientCache' \in [Node -> Client \cup {None}]
          /\ clientCache'[n] = cl
          /\ \A m \in Node : m # n => clientCache'[m] = clientCache[m]
      BY <1>0, <2>1 DEF TypeOK
    <2>5. TypeOK'  BY <1>0, <2>1, <2>3, <2>4 DEF TypeOK
    <2>6. CacheByEndpoint'
      BY <1>0, <2>4 DEF CacheByEndpoint, n
    <2>7. VerifiedWereConfirmed'
      BY <2>1 DEF ChainInv, VerifiedWereConfirmed, chainIDVerified
    <2>8. CallerFits(e)'
      BY <1>0, <2>1, <2>2, <2>4 DEF CallerFits, n
    <2>9. ASSUME NEW d \in Caller, d # c PROVE CallerFits(caller[d])'
      <3>1. PICK q : q = caller[d] /\ q = caller'[d]  BY <2>3, <2>9
      <3>2. CallerFits(q)  BY <3>1 DEF ChainInv
      <3>3. (q.client \in Client /\ q.pc # "recheck")
              => clientCache'[endpoint(q.client)] = q.client
        <4> SUFFICES ASSUME q.client \in Client, q.pc # "recheck"
                     PROVE  clientCache'[endpoint(q.client)] = q.client
          OBVIOUS
        <4>1. clientCache[endpoint(q.client)] = q.client /\ q.client # None
          BY <3>2, ChainAssumption DEF CallerFits
        <4>2. endpoint(q.client) # n /\ endpoint(q.client) \in Node
          BY <1>2, <4>1, PoolApart DEF n, cl
        <4> QED  BY <2>4, <4>1, <4>2
      <3>4. CallerFits(q)'  BY <2>1, <3>2, <3>3 DEF CallerFits
      <3> QED  BY <3>1, <3>4 DEF CallerFits
    <2>10. CallerFits(caller[c])'  BY <2>3, <2>8 DEF CallerFits
    <2> QED  BY <2>5, <2>6, <2>7, <2>9, <2>10 DEF ChainInv
  <1> QED  BY <1>1, <1>2

(* A script is a sequence of calls. *)
LEMMA ScriptType ==
  ASSUME NEW c \in Caller, NEW calls \in Scripts(c)
  PROVE  calls \in Seq(Call)
  <1>1. PICK op \in {"Monitor", "Transact", "TransactChecked", "LatestHead"} :
          calls = Script(op)
    BY ChainAssumption DEF Scripts
  <1>2. updateBalances \in Seq(Call)
    <2>1. \A S : \A n \in Nat, x \in S : [k \in 1..n |-> x] \in Seq(S)
      OBVIOUS
    <2>2. "Balance" \in Call  BY DEF Call, Wrapped
    <2> QED  BY <2>1, <2>2, ChainAssumption DEF updateBalances
  <1>3. \A S : \A x, y, z \in S : /\ <<x>> \in Seq(S)
                                   /\ <<x, y, z>> \in Seq(S)
    OBVIOUS
  <1>4. /\ <<"LatestBlockhash", "Balance", "GetFeeForMessage">> \in Seq(Call)
        /\ <<"LatestBlockhash">> \in Seq(Call)
        /\ <<"GetLatestBlock">> \in Seq(Call)
    <2>1. /\ "LatestBlockhash" \in Call /\ "Balance" \in Call
          /\ "GetFeeForMessage" \in Call /\ "GetLatestBlock" \in Call
      BY DEF Call, Wrapped
    <2> QED  BY <1>3, <2>1
  <1>5. /\ sendTx(TRUE) \in Seq(Call) /\ sendTx(FALSE) \in Seq(Call)
        /\ LatestHead \in Seq(Call)
    BY <1>4, Zenon DEF sendTx, LatestHead
  <1> QED  BY <1>1, <1>2, <1>5, Zenon DEF Script

(* A tick of the monitor, or a call of a method of the chain. *)
LEMMA BeginInv ==
  ASSUME ChainInv, NEW c \in Caller, Begin(c)
  PROVE  ChainInv'
  <1>0. TypeOK /\ CallerFits(caller[c]) /\ caller[c] \in CallerState
    BY DEF ChainInv, TypeOK
  <1>1. PICK calls \in Scripts(c) :
          caller' = [caller EXCEPT
                       ![c].todo = calls, ![c].got = FALSE,
                       ![c].pc = IF caller[c].client = None THEN "getClient"
                                                            ELSE "call"]
    BY DEF Begin
  <1>2. Same /\ caller[c].pc = "idle"  BY DEF Begin, Same, At
  <1>3. PICK p \in {"getClient", "call"} :
          p = IF caller[c].client = None THEN "getClient" ELSE "call"
    OBVIOUS
  <1> DEFINE e == [caller[c] EXCEPT !.todo = calls, !.got = FALSE, !.pc = p]
  <1>4. CallerBecomes(c, e)  BY <1>1, <1>3 DEF CallerBecomes
  <1>5. p \in Pc /\ calls \in Seq(Call)  BY ScriptType DEF Pc
  <1>6. /\ e \in CallerState /\ e.pc = p /\ e.client = caller[c].client
    BY <1>0, <1>5 DEF CallerState
  <1> HIDE DEF e
  <1>7. CallerFits(e)  BY <1>0, <1>2, <1>3, <1>6 DEF CallerFits
  <1> QED  BY <1>2, <1>4, <1>6, <1>7, CallerMoves

(***************************************************************************)
(* The steps before a call: only one whose client the fast path finds      *)
(* verified, or that is not wrapped, gets through.                         *)
(***************************************************************************)
LEMMA BeforeCallInv ==
  ASSUME ChainInv, NEW c \in Caller,
         \/ CallStops(c) \/ CallUnverified(c) \/ VerifyFast(c) \/ VerifyLock(c)
  PROVE  ChainInv'
  <1>0. TypeOK /\ CallerFits(caller[c]) /\ VerifiedWereConfirmed
    BY DEF ChainInv
  <1>1. Same  BY DEF CallStops, CallUnverified, VerifyFast, VerifyLock, Same
  <1>2. CASE CallStops(c)
    <2>1. Goto(c, "idle") /\ caller[c].pc = "call"  BY <1>2 DEF CallStops, At
    <2>2. PICK e \in CallerState : /\ CallerBecomes(c, e) /\ e.pc = "idle"
                                   /\ e.client = caller[c].client
      BY <1>0, <2>1, GotoBecomes DEF Pc
    <2>3. CallerFits(e)  BY <1>0, <2>1, <2>2 DEF CallerFits
    <2> QED  BY <1>1, <2>2, <2>3, CallerMoves
  <1>3. CASE CallUnverified(c)
    <2>1. PICK p \in {"panicked", "perform"} : Goto(c, p)
      BY <1>3 DEF CallUnverified
    <2>2. /\ caller[c].pc = "call" /\ caller[c].todo # <<>>
          /\ mode = "clients" => Head(caller[c].todo) \notin Wrapped
      BY <1>3 DEF CallUnverified, Ready, Verifies, At
    <2>3. PICK e \in CallerState : /\ CallerBecomes(c, e) /\ e.pc = p
                                   /\ e.client = caller[c].client
                                   /\ e.todo = caller[c].todo
      BY <1>0, <2>1, GotoBecomes DEF Pc
    <2>4. CallerFits(e)  BY <1>0, <2>2, <2>3 DEF CallerFits
    <2> QED  BY <1>1, <2>3, <2>4, CallerMoves
  <1>4. CASE VerifyFast(c)
    <2>1. PICK p \in {"perform", "verify"} :
            /\ Goto(c, p)
            /\ p = "perform" => chainIDVerified(caller[c].client)
      BY <1>4 DEF VerifyFast
    <2>2. caller[c].pc = "call" /\ caller[c].todo # <<>> /\ mode = "clients"
      BY <1>4 DEF VerifyFast, Ready, Verifies, At
    <2>3. caller[c].client \in Client  BY <1>0, <2>2 DEF CallerFits
    <2>4. p = "perform" => caller[c].client \in confirmed
      BY <1>0, <2>1, <2>3 DEF VerifiedWereConfirmed
    <2>5. PICK e \in CallerState : /\ CallerBecomes(c, e) /\ e.pc = p
                                   /\ e.client = caller[c].client
                                   /\ e.todo = caller[c].todo
      BY <1>0, <2>1, GotoBecomes DEF Pc
    <2>6. CallerFits(e)  BY <1>0, <2>2, <2>3, <2>4, <2>5 DEF CallerFits
    <2> QED  BY <1>1, <2>5, <2>6, CallerMoves
  <1>5. CASE VerifyLock(c)
    <2>1. Goto(c, "asking") /\ caller[c].pc = "verify"
      BY <1>5 DEF VerifyLock, At
    <2>2. PICK e \in CallerState : /\ CallerBecomes(c, e) /\ e.pc = "asking"
                                   /\ e.client = caller[c].client
                                   /\ e.todo = caller[c].todo
      BY <1>0, <2>1, GotoBecomes DEF Pc
    <2>3. CallerFits(e)  BY <1>0, <2>1, <2>2 DEF CallerFits
    <2> QED  BY <1>1, <2>2, <2>3, CallerMoves
  <1> QED  BY <1>2, <1>3, <1>4, <1>5

(* A call that fails ends the sequence, or goes on with the next account. *)
LEMMA FailedBecomes ==
  ASSUME TypeOK, NEW c \in Caller, Failed(c), caller[c].todo # <<>>
  PROVE  \E e \in CallerState :
           CallerBecomes(c, e) /\ e.pc = "call" /\ e.client = caller[c].client
  <1>1. caller[c] \in CallerState  BY DEF TypeOK
  <1>2. caller[c].todo \in Seq(Call)  BY <1>1 DEF CallerState
  <1>3. PICK rest \in Seq(Call) :
          rest = IF c = Monitor THEN Tail(caller[c].todo) ELSE <<>>
    BY <1>2, HeadTailProperties, NoCalls
  <1> DEFINE e == [caller[c] EXCEPT !.pc = "call", !.todo = rest]
  <1>4. CallerBecomes(c, e)  BY <1>3 DEF Failed, CallerBecomes
  <1>5. /\ e \in CallerState /\ e.pc = "call" /\ e.client = caller[c].client
    BY <1>1 DEF CallerState, Pc
  <1> QED  BY <1>4, <1>5

(* A call is made, or fails, and then the next may begin. *)
LEMMA AfterCallInv ==
  ASSUME ChainInv, NEW c \in Caller, Perform(c) \/ PerformFails(c)
  PROVE  ChainInv'
  <1>0. /\ TypeOK /\ CallerFits(caller[c]) /\ caller[c] \in CallerState
        /\ caller[c].pc = "perform" /\ caller[c].todo # <<>> /\ Same
    BY DEF ChainInv, TypeOK, Perform, PerformFails, At, CallerFits, Same
  <1>1. PICK e \in CallerState :
          CallerBecomes(c, e) /\ e.pc = "call" /\ e.client = caller[c].client
    <2>1. CASE PerformFails(c)
      BY <1>0, <2>1, FailedBecomes DEF PerformFails
    <2>2. CASE Perform(c)
      <3> DEFINE e == [caller[c] EXCEPT !.pc = "call", !.todo = Tail(@),
                                        !.got = @ \/ c = Monitor]
      <3>1. CallerBecomes(c, e)  BY <2>2 DEF Perform, CallerBecomes
      <3>2. Tail(caller[c].todo) \in Seq(Call)
        BY <1>0, HeadTailProperties DEF CallerState
      <3>3. /\ e \in CallerState /\ e.pc = "call"
            /\ e.client = caller[c].client
        BY <1>0, <3>2 DEF CallerState, Pc
      <3> QED  BY <3>1, <3>3
    <2> QED  BY <2>1, <2>2
  <1>2. CallerFits(e)  BY <1>0, <1>1 DEF CallerFits
  <1> QED  BY <1>0, <1>1, <1>2, CallerMoves

(* The caller ends; the monitor drops a client that has shown no balance. *)
LEMMA FinishInv ==
  ASSUME ChainInv, NEW c \in Caller, Finish(c)
  PROVE  ChainInv'
  <1>0. /\ TypeOK /\ CallerFits(caller[c]) /\ caller[c] \in CallerState
        /\ caller[c].pc = "call" /\ Same
    BY DEF ChainInv, TypeOK, Finish, At, Same
  <1>1. PICK cl \in {caller[c].client, None} : Got(c, cl, "idle")
    BY DEF Finish
  <1>2. cl \in AnyClient  BY <1>0, PoolApart DEF CallerState
  <1>3. PICK e \in CallerState :
          CallerBecomes(c, e) /\ e.pc = "idle" /\ e.client = cl
    BY <1>0, <1>1, <1>2, GotBecomes DEF Pc
  <1>4. CallerFits(e)
    BY <1>0, <1>1, <1>3, ChainAssumption DEF CallerFits
  <1> QED  BY <1>0, <1>3, <1>4, CallerMoves

(***************************************************************************)
(* The endpoint answers: only the expected chain's name marks its client   *)
(* as verified, and lets the call through.                                 *)
(***************************************************************************)
LEMMA VerifyAnswerInv ==
  ASSUME ChainInv, NEW c \in Caller, NEW answer \in ChainID \cup {""},
         VerifyAnswer(c, answer)
  PROVE  ChainInv'
  <1> DEFINE cl == caller[c].client
  <1>0. /\ TypeOK /\ CacheByEndpoint /\ CallerFits(caller[c])
        /\ caller[c] \in CallerState
        /\ caller[c].pc = "asking" /\ caller[c].todo # <<>>
    BY DEF ChainInv, TypeOK, VerifyAnswer, At, CallerFits
  <1>1. /\ chainID' = [chainID EXCEPT ![cl] = answer]
        /\ confirmed' = IF answer = Expected THEN confirmed \cup {cl}
                                             ELSE confirmed
        /\ UNCHANGED <<mode, clientCache>>
    BY DEF VerifyAnswer
  <1>2. PICK e \in CallerState :
          /\ CallerBecomes(c, e) /\ e.client = cl
          /\ \/ e.pc = "perform" /\ answer = Expected /\ e.todo = caller[c].todo
             \/ e.pc = "call"
    <2>1. CASE matches(answer)
      <3>1. Goto(c, "perform")  BY <2>1 DEF VerifyAnswer
      <3>2. \E e \in CallerState :
              /\ CallerBecomes(c, e) /\ e.pc = "perform" /\ e.client = cl
              /\ e.todo = caller[c].todo
        <4>1. "perform" \in Pc  BY DEF Pc
        <4> QED  BY <1>0, <3>1, <4>1, GotoBecomes
      <3> QED  BY <2>1, <3>2 DEF matches
    <2>2. CASE ~matches(answer)
      BY <1>0, <2>2, FailedBecomes DEF VerifyAnswer
    <2> QED  BY <2>1, <2>2
  <1> HIDE DEF cl
  <1>3. /\ caller' \in [Caller -> CallerState] /\ caller'[c] = e
        /\ \A d \in Caller : d # c => caller'[d] = caller[d]
    BY <1>0, <1>2 DEF TypeOK, CallerBecomes
  <1>4. chainID' \in [Client -> ChainID \cup {""}]
    BY <1>0, <1>1 DEF TypeOK
  <1>5. TypeOK' /\ CacheByEndpoint'
    BY <1>0, <1>1, <1>3, <1>4 DEF TypeOK, CacheByEndpoint
  <1>6. VerifiedWereConfirmed'
    BY <1>0, <1>1 DEF ChainInv, TypeOK, VerifiedWereConfirmed,
                      chainIDVerified, matches
  <1>7. confirmed \subseteq confirmed' /\ (answer = Expected => cl \in confirmed')
    BY <1>1
  <1>8. CallerFits(e)'
    BY <1>0, <1>1, <1>2, <1>7 DEF CallerFits, cl
  <1>9. ASSUME NEW d \in Caller, d # c PROVE CallerFits(caller[d])'
    <2>1. PICK q : q = caller[d] /\ q = caller'[d]  BY <1>3, <1>9
    <2>2. CallerFits(q)  BY <2>1 DEF ChainInv
    <2>3. CallerFits(q)'  BY <1>1, <1>7, <2>2 DEF CallerFits
    <2> QED  BY <2>1, <2>3 DEF CallerFits
  <1>10. CallerFits(caller[c])'  BY <1>3, <1>8 DEF CallerFits
  <1> QED  BY <1>5, <1>6, <1>9, <1>10 DEF ChainInv

-----------------------------------------------------------------------------
(* Every step of the endpoints, the chain and its callers. *)
LEMMA NextInv == ChainInv /\ [ChainNext]_chainVars => ChainInv'
  <1> SUFFICES ASSUME ChainInv, [ChainNext]_chainVars PROVE ChainInv'
    OBVIOUS
  <1>1. CASE Serve \/ StopChain \/ UNCHANGED chainVars
    BY <1>1, ElsewhereInv DEF Serve, StopChain, chainVars, Same
  <1>2. CASE StartChain \/ MonitorEnds
    <2>0. Monitor \in Caller /\ TypeOK /\ Same /\ CallerFits(caller[Monitor])
      BY <1>2 DEF Caller, ChainInv, StartChain, MonitorEnds, Same
    <2>1. PICK p \in {"idle", "closed"} :
            Goto(Monitor, p) /\ caller[Monitor].pc \in {"new", "idle"}
      BY <1>2 DEF StartChain, MonitorEnds, At
    <2>2. PICK e \in CallerState :
            /\ CallerBecomes(Monitor, e) /\ e.pc = p
            /\ e.client = caller[Monitor].client
      BY <2>0, <2>1, GotoBecomes DEF Pc
    <2>3. CallerFits(e)  BY <2>0, <2>1, <2>2 DEF CallerFits
    <2> QED  BY <2>0, <2>2, <2>3, CallerMoves
  <1>3. ASSUME NEW c \in Caller, CallerStep(c) PROVE ChainInv'
    <2>1. CASE \E n \in Node : Cached(c, n) \/ NewClient(c, n) \/ SelectRPC(c, n)
      BY <2>1, GetClientInv
    <2>2. CASE \E id \in ChainID \cup {""} : VerifyAnswer(c, id)
      BY <2>2, VerifyAnswerInv
    <2>3. CASE \/ CallStops(c) \/ CallUnverified(c) \/ VerifyFast(c)
               \/ VerifyLock(c)
      BY <2>3, BeforeCallInv
    <2>4. CASE Perform(c) \/ PerformFails(c)  BY <2>4, AfterCallInv
    <2> QED
      BY <1>3, <2>1, <2>2, <2>3, <2>4, BeginInv, RecheckInv, SelectFailsInv,
         FinishInv
      DEF CallerStep
  <1> QED  BY <1>1, <1>2, <1>3 DEF ChainNext

(* The inductive invariant holds in every reachable state. *)
LEMMA ChainInvariant == ChainSpec => []ChainInv
  BY InitInv, NextInv, PTL DEF ChainSpec

(***************************************************************************)
(* Callers create clients without a lock, and yet they all share one for   *)
(* each endpoint (verifiedClient looks twice before it caches).            *)
(***************************************************************************)
THEOREM OneClient == ChainSpec => []OneClientPerURL
  <1>1. ChainInv => OneClientPerURL
    BY DEF ChainInv, CallerFits, OneClientPerURL, Holds, At
  <1> QED  BY <1>1, ChainInvariant, PTL

(***************************************************************************)
(* A wrapped call is made only after its endpoint has named the expected   *)
(* chain (verifyChainID), in whatever order concurrent verifications end.  *)
(***************************************************************************)
THEOREM Verified == ChainSpec => []VerifiedBeforeUse
  <1>1. ChainInv => VerifiedBeforeUse
    BY DEF ChainInv, CallerFits, VerifiedBeforeUse, Verifies, At
  <1> QED  BY <1>1, ChainInvariant, PTL

-----------------------------------------------------------------------------
RequestType == [of : 0..2, since : 0..HeaderAge, answer : Nat \cup {-1},
                cursor : Nat \cup {-1}]

TypeCaches ==
  /\ written \in 0..MaxWrites
  /\ outdated \in [0..MaxWrites -> Nat]
  /\ svc \in [Cache -> {"new", "starting", "polling", "closing", "closed"}]
  /\ request \in [Cache -> RequestType]
  /\ res \in [Cache -> Nat] /\ resAge \in [Cache -> Nat]

(* Numbers age from the moment they are not the latest, older ones first. *)
AgesOrdered(w, o) ==
  /\ \A n \in 0..MaxWrites : n >= w => o[n] = 0
  /\ \A m, n \in 0..MaxWrites : m <= n => o[n] <= o[m]

(* n was the latest number, or x the live cursor, at most age ticks ago. *)
LatestWithin(n, age, w, o) == n <= w /\ o[n] <= age

CursorWithin(x, age, w, o) ==
  \E n \in 0..w : x = n % LiveLength /\ o[n] <= age

(***************************************************************************)
(* What a request of cache c has brought so far is no older than the time  *)
(* its getter has spent: the state and the header are of the time since    *)
(* the request, the slot of the time since the header was asked for.       *)
(***************************************************************************)
Fits(c, r, w, o) ==
  /\ r.of <= Requests(c)
  /\ r.of = 0 => r = NoRequest
  /\ (r.of = Requests(c) \/ r.answer = -1) => r.since <= Timeout
  /\ (c = "state" /\ r.answer >= 0) => LatestWithin(r.answer, r.since, w, o)
  /\ (c = "transmissions" /\ r.of = 1 /\ r.answer >= 0) =>
       CursorWithin(r.answer, r.since, w, o)
  /\ (c = "transmissions" /\ r.of = 2) =>
       CursorWithin(r.cursor, HeaderAge + r.since, w, o)
  /\ (c = "transmissions" /\ r.of = 2 /\ r.answer >= 0) =>
       LatestWithin(r.answer, HeaderAge + r.since, w, o)

ResFits(c, v, age, w, o) ==
  age <= TTL => LatestWithin(v, age + Getting(c), w, o)

CachesInv ==
  /\ TypeCaches /\ AgesOrdered(written, outdated)
  /\ \A c \in Cache : Fits(c, request[c], written, outdated)
  /\ \A c \in Cache : svc[c] = "new" => request[c].of = 0
  /\ \A c \in Cache : ResFits(c, res[c], resAge[c], written, outdated)

-----------------------------------------------------------------------------
(* The quotient and the remainder of a natural. *)
LEMMA ModRange ==
  ASSUME NEW a \in Nat, NEW g \in Nat, g > 0
  PROVE  /\ a % g \in 0..(g - 1)
         /\ a \div g \in Nat
         /\ a = (a \div g) * g + (a % g)
  OBVIOUS

(* A quotient and a remainder in range determine \div and %. *)
LEMMA ModUnique ==
  ASSUME NEW g \in Nat, g > 0, NEW p \in Nat, NEW q \in Nat,
         NEW x \in 0..(g - 1), NEW y \in 0..(g - 1),
         p * g + x = q * g + y
  PROVE  p = q /\ x = y
  <1>1. CASE p < q
    <2>1. PICK d \in Nat : q = p + 1 + d  BY <1>1, q = p + 1 + (q - p - 1)
    <2>2. q * g = p * g + g + d * g  BY <2>1
    <2>3. d * g >= 0  OBVIOUS
    <2> QED  BY <2>2, <2>3
  <1>2. CASE q < p
    <2>1. PICK d \in Nat : p = q + 1 + d  BY <1>2, p = q + 1 + (p - q - 1)
    <2>2. p * g = q * g + g + d * g  BY <2>1
    <2>3. d * g >= 0  OBVIOUS
    <2> QED  BY <2>2, <2>3
  <1>3. CASE p = q  BY <1>3
  <1> QED  BY <1>1, <1>2, <1>3

(* How the live cursor moves when a transmission is added. *)
LEMMA ModStep ==
  ASSUME NEW a \in Nat, NEW g \in Nat, g > 0
  PROVE  (a + 1) % g = IF a % g = g - 1 THEN 0 ELSE (a % g) + 1
  <1> DEFINE p == a \div g
             q == (a + 1) \div g
             x == a % g
             y == (a + 1) % g
  <1>1. /\ x \in 0..(g - 1) /\ p \in Nat /\ a = p * g + x
        /\ y \in 0..(g - 1) /\ q \in Nat /\ a + 1 = q * g + y
    BY ModRange, a + 1 \in Nat
  <1> HIDE DEF p, q, x, y
  <1>2. CASE x = g - 1
    <2>1. (p + 1) * g = p * g + g  BY <1>1
    <2>2. (p + 1) * g + 0 = q * g + y  BY <1>1, <1>2, <2>1
    <2>3. 0 = y
      BY <2>2, <1>1, ModUnique, p + 1 \in Nat, 0 \in 0..(g - 1)
    <2> QED  BY <2>3, <1>2 DEF x, y
  <1>3. CASE x # g - 1
    <2>1. p * g + (x + 1) = q * g + y  BY <1>1
    <2>2. x + 1 = y
      BY <2>1, <1>1, <1>3, ModUnique, x + 1 \in 0..(g - 1)
    <2> QED  BY <2>2, <1>3 DEF x, y
  <1> QED  BY <1>2, <1>3


(* A set of naturals has a least element. *)
LEMMA LeastOf ==
  ASSUME NEW T \in SUBSET Nat, T # {}
  PROVE  \E n \in T : \A m \in T : n <= m
  <1>1. PICK n \in T : \A m \in T : ~(<<m, n>> \in OpToRel(<, Nat))
    BY WFMin, NatLessThanWellFounded
  <1>2. ASSUME NEW m \in T PROVE n <= m
    <2>1. n \in Nat /\ m \in Nat  OBVIOUS
    <2>2. ~(m < n)  BY <1>1, <2>1 DEF OpToRel
    <2> QED  BY <2>1, <2>2
  <1> QED  BY <1>2

(* A set of naturals up to w has a greatest element, which Max chooses. *)
LEMMA MaxOf ==
  ASSUME NEW w \in Nat, NEW S \in SUBSET (0..w), S # {}
  PROVE  Max(S) \in S /\ \A n \in S : n <= Max(S)
  <1> DEFINE T == {w - n : n \in S}
  <1>1. T \in SUBSET Nat /\ T # {}
    <2>1. \A n \in S : w - n \in Nat  OBVIOUS
    <2> QED  BY <2>1
  <1>2. PICK t \in T : \A m \in T : t <= m
    <2> HIDE DEF T
    <2> QED  BY <1>1, LeastOf
  <1>3. PICK x \in S : t = w - x  OBVIOUS
  <1>4. ASSUME NEW n \in S PROVE x >= n
    <2>1. w - x <= w - n  BY <1>2, <1>3
    <2>2. x \in 0..w /\ n \in 0..w  OBVIOUS
    <2> QED  BY <2>1, <2>2
  <1>5. \E y \in S : \A n \in S : y >= n  BY <1>4
  <1>6. Max(S) \in S /\ \A n \in S : Max(S) >= n  BY <1>5 DEF Max
  <1>7. \A n \in S : n \in Nat  OBVIOUS
  <1> QED  BY <1>6, <1>7

(***************************************************************************)
(* The slot before a cursor holds the transmission that the cursor stood   *)
(* behind, or a later one if the ring has wrapped since.                   *)
(***************************************************************************)
LEMMA SlotIsLater ==
  ASSUME written \in Nat, NEW n \in 0..written
  PROVE  Slot(LatestSlot(n % LiveLength)) \in n..written
  <1> DEFINE i == LatestSlot(n % LiveLength)
             S == {0} \cup {m \in 1..written : (m - 1) % LiveLength = i}
  <1>1. S \in SUBSET (0..written) /\ S # {} /\ 0 \in S  OBVIOUS
  <1>2. CASE n = 0
    <2>1. Max(S) \in S
      <3> HIDE DEF S
      <3> QED  BY <1>1, MaxOf
    <2>2. Max(S) \in 0..written  BY <1>1, <2>1
    <2> HIDE DEF S
    <2> QED  BY <1>2, <2>2 DEF Slot, S
  <1>3. CASE n # 0
    <2>1. n - 1 \in Nat /\ LiveLength \in Nat /\ LiveLength > 0
      BY <1>3, CachesAssumption
    <2>2. /\ (n - 1) % LiveLength \in 0..(LiveLength - 1)
          /\ ((n - 1) + 1) % LiveLength =
               IF (n - 1) % LiveLength = LiveLength - 1 THEN 0
               ELSE ((n - 1) % LiveLength) + 1
      <3>1. PICK a \in Nat : a = n - 1  BY <2>1
      <3>2. PICK g \in Nat : g = LiveLength  BY <2>1
      <3> QED  BY <2>1, <3>1, <3>2, ModStep, ModRange
    <2>3. (n - 1) + 1 = n  OBVIOUS
    <2>4. (n - 1) % LiveLength = i
      <3> DEFINE x == (n - 1) % LiveLength
                 y == n % LiveLength
      <3>1. x \in 0..(LiveLength - 1)
            /\ y = IF x = LiveLength - 1 THEN 0 ELSE x + 1
        BY <2>2, <2>3
      <3> HIDE DEF x, y
      <3>2. x = (IF y = 0 THEN LiveLength ELSE y) - 1  BY <2>1, <3>1
      <3> QED  BY <3>2 DEF x, y, LatestSlot
    <2>5. n \in S  BY <1>3, <2>4
    <2>6. Max(S) \in S /\ n <= Max(S)
      <3> HIDE DEF S
      <3> QED  BY <1>1, <2>5, MaxOf
    <2>7. Max(S) \in 0..written  BY <1>1, <2>6
    <2>8. Max(S) \in n..written
      <3> HIDE DEF S
      <3> QED  BY <2>6, <2>7
    <2>9. Slot(i) = Max(S)  BY DEF Slot
    <2> HIDE DEF S, i
    <2> QED  BY <2>8, <2>9 DEF i
  <1> QED  BY <1>2, <1>3

-----------------------------------------------------------------------------
(* What was within an age is within that of d ticks later. *)
LEMMA Later ==
  ASSUME NEW w \in 0..MaxWrites, NEW w2 \in 0..MaxWrites, w <= w2,
         NEW o \in [0..MaxWrites -> Nat], NEW o2 \in [0..MaxWrites -> Nat],
         NEW d \in Nat, \A n \in 0..MaxWrites : o2[n] <= o[n] + d,
         NEW a \in Nat, NEW b \in Nat, a + d <= b
  PROVE  /\ \A n \in Nat : LatestWithin(n, a, w, o) => LatestWithin(n, b, w2, o2)
         /\ \A x : CursorWithin(x, a, w, o) => CursorWithin(x, b, w2, o2)
  <1>0. MaxWrites \in Nat  BY CachesAssumption
  <1>1. ASSUME NEW n \in 0..w, o[n] <= a PROVE o2[n] <= b /\ n \in 0..w2
    <2>1. /\ n \in 0..MaxWrites /\ o[n] \in Nat /\ o2[n] \in Nat
          /\ o2[n] <= o[n] + d
      BY <1>0
    <2> QED  BY <1>1, <2>1
  <1>2. ASSUME NEW n \in Nat, LatestWithin(n, a, w, o)
        PROVE  LatestWithin(n, b, w2, o2)
    <2>1. n \in 0..w /\ o[n] <= a  BY <1>2 DEF LatestWithin
    <2> QED  BY <1>1, <2>1 DEF LatestWithin
  <1>3. ASSUME NEW x, CursorWithin(x, a, w, o) PROVE CursorWithin(x, b, w2, o2)
    <2>1. PICK n \in 0..w : x = n % LiveLength /\ o[n] <= a
      BY <1>3 DEF CursorWithin
    <2> QED  BY <1>1, <2>1 DEF CursorWithin
  <1> QED  BY <1>2, <1>3

(* A request goes on fitting while transmissions are added and time passes. *)
LEMMA FitsLater ==
  ASSUME NEW c \in Cache, NEW r \in RequestType, NEW r2 \in RequestType,
         NEW w \in 0..MaxWrites, NEW w2 \in 0..MaxWrites, w <= w2,
         NEW o \in [0..MaxWrites -> Nat], NEW o2 \in [0..MaxWrites -> Nat],
         NEW d \in Nat, \A n \in 0..MaxWrites : o2[n] <= o[n] + d,
         Fits(c, r, w, o), r.of = 0 => r2 = r,
         r2.of = r.of /\ r2.answer = r.answer /\ r2.cursor = r.cursor,
         r.of > 0 => r2.since = r.since + d,
         (r2.of = Requests(c) \/ r2.answer = -1) => r2.since <= Timeout
  PROVE  Fits(c, r2, w2, o2)
  <1>0. HeaderAge \in Nat  BY CachesAssumption DEF HeaderAge
  <1>1. CASE r.of = 0
    <2>1. r = NoRequest /\ r2 = NoRequest  BY <1>1 DEF Fits
    <2>2. r2.of = 0 /\ r2.answer = -1  BY <2>1 DEF NoRequest
    <2>3. r2.of <= Requests(c)  BY <2>2 DEF Requests
    <2> QED  BY <2>1, <2>2, <2>3 DEF Fits
  <1>2. CASE r.of # 0
    <2> DEFINE a == r.since
               b == r2.since
    <2>1. /\ a \in Nat /\ b \in Nat /\ a + d <= b
          /\ HeaderAge + a \in Nat /\ HeaderAge + b \in Nat
          /\ (HeaderAge + a) + d <= HeaderAge + b
      BY <1>0, <1>2 DEF RequestType
    <2> HIDE DEF a, b
    <2>2. /\ \A n \in Nat : LatestWithin(n, a, w, o) => LatestWithin(n, b, w2, o2)
          /\ \A x : CursorWithin(x, a, w, o) => CursorWithin(x, b, w2, o2)
      BY <2>1, Later
    <2> DEFINE ta == HeaderAge + a
               tb == HeaderAge + b
    <2>3. /\ \A n \in Nat : LatestWithin(n, ta, w, o) => LatestWithin(n, tb, w2, o2)
          /\ \A x : CursorWithin(x, ta, w, o) => CursorWithin(x, tb, w2, o2)
      <3>1. ta \in Nat /\ tb \in Nat /\ ta + d <= tb  BY <2>1
      <3> HIDE DEF ta, tb
      <3> QED  BY <3>1, Later
    <2>4. r.answer >= 0 => r.answer \in Nat  BY DEF RequestType
    <2> QED  BY <1>2, <2>2, <2>3, <2>4 DEF Fits, a, b
  <1> QED  BY <1>1, <1>2

(* The same for a cached result. *)
LEMMA ResFitsLater ==
  ASSUME NEW c \in Cache, NEW v \in Nat, NEW g \in Nat, NEW g2 \in Nat,
         NEW w \in 0..MaxWrites, NEW w2 \in 0..MaxWrites, w <= w2,
         NEW o \in [0..MaxWrites -> Nat], NEW o2 \in [0..MaxWrites -> Nat],
         NEW d \in Nat, \A n \in 0..MaxWrites : o2[n] <= o[n] + d,
         g2 <= TTL => g2 = g + d,
         ResFits(c, v, g, w, o)
  PROVE  ResFits(c, v, g2, w2, o2)
  <1> SUFFICES ASSUME g2 <= TTL
               PROVE  LatestWithin(v, g2 + Getting(c), w2, o2)
    BY DEF ResFits
  <1> DEFINE a == g + Getting(c)
             b == g2 + Getting(c)
  <1>1. a \in Nat /\ b \in Nat /\ a + d <= b /\ g <= TTL
    BY CachesAssumption DEF Getting, HeaderAge
  <1>2. LatestWithin(v, a, w, o)  BY <1>1 DEF ResFits
  <1> HIDE DEF a, b
  <1>3. LatestWithin(v, b, w2, o2)  BY <1>1, <1>2, Later
  <1> QED  BY <1>3 DEF b

(* At the start nothing is cached and nothing was asked for. *)
LEMMA CachesInitInv == CachesInit => CachesInv
  <1> SUFFICES ASSUME CachesInit PROVE CachesInv  OBVIOUS
  <1>0. NoRequest \in RequestType
    BY CachesAssumption DEF NoRequest, RequestType, HeaderAge
  <1>1. TypeCaches
    BY <1>0, CachesAssumption DEF CachesInit, TypeCaches
  <1>2. AgesOrdered(written, outdated)
    BY CachesAssumption DEF CachesInit, AgesOrdered
  <1>3. \A c \in Cache : Fits(c, request[c], written, outdated)
    BY CachesAssumption DEF CachesInit, Fits, NoRequest, Requests
  <1>4. \A c \in Cache : svc[c] = "new" => request[c].of = 0
    BY DEF CachesInit, NoRequest
  <1>5. \A c \in Cache : ResFits(c, res[c], resAge[c], written, outdated)
    BY CachesAssumption DEF CachesInit, ResFits
  <1> QED  BY <1>1, <1>2, <1>3, <1>4, <1>5 DEF CachesInv

(* A transmission makes nothing older that was read. *)
LEMMA WriteInv ==
  ASSUME CachesInv, Write
  PROVE  CachesInv'
  <1>1. /\ written < MaxWrites /\ written' = written + 1
        /\ UNCHANGED <<outdated, svc, request, tick, res, resAge>>
    BY DEF Write
  <1>2. /\ written \in 0..MaxWrites /\ written' \in 0..MaxWrites
        /\ written <= written' /\ TypeCaches'
    BY <1>1, CachesAssumption DEF CachesInv, TypeCaches
  <1>3. /\ outdated \in [0..MaxWrites -> Nat]
        /\ \A n \in 0..MaxWrites : outdated'[n] <= outdated[n] + 0
    BY <1>1 DEF CachesInv, TypeCaches
  <1>4. AgesOrdered(written', outdated')
    BY <1>1, <1>2 DEF CachesInv, AgesOrdered
  <1>5. ASSUME NEW c \in Cache
        PROVE  /\ Fits(c, request'[c], written', outdated')
               /\ ResFits(c, res'[c], resAge'[c], written', outdated')
    <2>1. PICK r, w, w2, o, v, g :
            r = request[c] /\ w = written /\ w2 = written' /\ o = outdated
            /\ v = res[c] /\ g = resAge[c]
      OBVIOUS
    <2>2. /\ r \in RequestType /\ v \in Nat /\ g \in Nat
          /\ Fits(c, r, w, o) /\ ResFits(c, v, g, w, o)
      BY <2>1 DEF CachesInv, TypeCaches
    <2>3. /\ w \in 0..MaxWrites /\ w2 \in 0..MaxWrites /\ w <= w2
          /\ o \in [0..MaxWrites -> Nat]
          /\ \A n \in 0..MaxWrites : o[n] <= o[n] + 0
      BY <1>1, <1>2, <1>3, <2>1
    <2>4. r.since \in Nat
      BY <2>2, CachesAssumption DEF RequestType, HeaderAge
    <2>0. PICK d \in Nat : d = 0  OBVIOUS
    <2>5. Fits(c, r, w2, o)
      <3>1. /\ r.since = r.since + d /\ \A n \in 0..MaxWrites : o[n] <= o[n] + d
            /\ (r.of = Requests(c) \/ r.answer = -1) => r.since <= Timeout
        BY <2>0, <2>2, <2>3, <2>4 DEF Fits
      <3> QED  BY <2>2, <2>3, <3>1, FitsLater
    <2>6. ResFits(c, v, g, w2, o)
      <3>1. g = g + d /\ \A n \in 0..MaxWrites : o[n] <= o[n] + d
        BY <2>0, <2>2, <2>3
      <3> QED  BY <2>2, <2>3, <3>1, ResFitsLater
    <2> QED  BY <1>1, <2>1, <2>5, <2>6
  <1>6. \A c \in Cache : svc'[c] = "new" => request'[c].of = 0
    BY <1>1 DEF CachesInv
  <1> QED  BY <1>2, <1>4, <1>5, <1>6 DEF CachesInv

(* A tick ages everything by one, and the latest number not at all. *)
LEMMA ClockInv ==
  ASSUME CachesInv, Clock
  PROVE  CachesInv'
  <1>1. /\ \A c \in Cache : request[c].of > 0 =>
             request[c].since < IF Between(c) THEN HeaderAge ELSE Timeout
        /\ outdated' = [n \in 0..MaxWrites |->
                           IF n >= written THEN 0
                           ELSE Older(outdated[n], TTL + HeaderAge + Timeout)]
        /\ request' = [c \in Cache |->
                          IF request[c].of > 0
                          THEN [request[c] EXCEPT !.since = @ + 1]
                          ELSE request[c]]
        /\ resAge' = [c \in Cache |-> Older(resAge[c], TTL)]
        /\ UNCHANGED <<written, svc, res>>
    BY DEF Clock
  <1>2. /\ written \in 0..MaxWrites /\ outdated \in [0..MaxWrites -> Nat]
        /\ TTL + HeaderAge + Timeout \in Nat /\ TTL \in Nat /\ Timeout \in Nat
        /\ HeaderAge \in Nat /\ Timeout <= HeaderAge
        /\ MaxWrites \in Nat /\ request \in [Cache -> RequestType]
        /\ resAge \in [Cache -> Nat] /\ res \in [Cache -> Nat]
    BY CachesAssumption DEF CachesInv, TypeCaches, HeaderAge
  <1>3. ASSUME NEW n \in 0..MaxWrites
        PROVE  /\ outdated'[n] \in Nat /\ outdated'[n] <= outdated[n] + 1
               /\ n >= written => outdated'[n] = 0
               /\ n < written =>
                    outdated'[n] = Older(outdated[n], TTL + HeaderAge + Timeout)
    BY <1>1, <1>2 DEF Older
  <1>4. outdated' \in [0..MaxWrites -> Nat]  BY <1>1, <1>3
  <1>5. ASSUME NEW c \in Cache
        PROVE  /\ request'[c] \in RequestType
               /\ request[c].of = 0 => request'[c] = request[c]
               /\ request'[c].of = request[c].of
               /\ request'[c].answer = request[c].answer
               /\ request'[c].cursor = request[c].cursor
               /\ request[c].of > 0 => request'[c].since = request[c].since + 1
               /\ resAge'[c] \in Nat
               /\ resAge'[c] <= TTL => resAge'[c] = resAge[c] + 1
    <2>1. request[c] \in RequestType /\ resAge[c] \in Nat  BY <1>2
    <2>2. CASE request[c].of > 0
      <3>1. request'[c] = [request[c] EXCEPT !.since = @ + 1]
            /\ request[c].since + 1 \in 0..HeaderAge
        <4>1. request'[c] = [request[c] EXCEPT !.since = @ + 1]
          BY <1>1, <2>2
        <4>2. request[c].since \in 0..HeaderAge  BY <2>1 DEF RequestType
        <4>3. request[c].since < HeaderAge
          <5>1. request[c].since < IF Between(c) THEN HeaderAge ELSE Timeout
            BY <1>1, <2>2
          <5> QED  BY <1>2, <4>2, <5>1
        <4> QED  BY <1>2, <4>1, <4>2, <4>3
      <3>2. /\ request'[c] \in RequestType
            /\ request'[c].of = request[c].of
            /\ request'[c].answer = request[c].answer
            /\ request'[c].cursor = request[c].cursor
            /\ request'[c].since = request[c].since + 1
        BY <2>1, <3>1 DEF RequestType
      <3>3. resAge'[c] = Older(resAge[c], TTL)  BY <1>1
      <3>4. /\ resAge'[c] \in Nat
            /\ resAge'[c] <= TTL => resAge'[c] = resAge[c] + 1
        BY <1>2, <2>1, <3>3 DEF Older
      <3> QED  BY <2>2, <3>2, <3>4
    <2>3. CASE ~(request[c].of > 0)
      <3>1. request'[c] = request[c]  BY <1>1, <2>3
      <3>3. resAge'[c] = Older(resAge[c], TTL)  BY <1>1
      <3>4. /\ resAge'[c] \in Nat
            /\ resAge'[c] <= TTL => resAge'[c] = resAge[c] + 1
        BY <1>2, <2>1, <3>3 DEF Older
      <3> QED  BY <2>1, <2>3, <3>1, <3>4
    <2> QED  BY <2>2, <2>3
  <1>6. TypeCaches'
    <2>1. request' \in [Cache -> RequestType]  BY <1>1, <1>5
    <2>2. resAge' \in [Cache -> Nat]  BY <1>1, <1>5
    <2> QED  BY <1>1, <1>4, <2>1, <2>2 DEF CachesInv, TypeCaches
  <1>7. AgesOrdered(written', outdated')
    <2>1. ASSUME NEW m \in 0..MaxWrites, NEW n \in 0..MaxWrites, m <= n
          PROVE  outdated'[n] <= outdated'[m]
      <3>1. CASE n >= written  BY <1>3, <3>1
      <3>2. CASE n < written
        <4>1. outdated[n] <= outdated[m]
          BY <2>1 DEF CachesInv, AgesOrdered
        <4>2. /\ outdated'[n] = Older(outdated[n], TTL + HeaderAge + Timeout)
              /\ outdated'[m] = Older(outdated[m], TTL + HeaderAge + Timeout)
          BY <1>2, <1>3, <2>1, <3>2
        <4>3. outdated[n] \in Nat /\ outdated[m] \in Nat  BY <1>2
        <4>4. \A x, y, z \in Nat : x <= y => Older(x, z) <= Older(y, z)
          BY DEF Older
        <4> QED  BY <1>2, <4>1, <4>2, <4>3, <4>4
      <3> QED  BY <1>2, <3>1, <3>2
    <2> QED  BY <1>1, <1>3, <2>1 DEF AgesOrdered
  <1>8. ASSUME NEW c \in Cache
        PROVE  /\ Fits(c, request'[c], written', outdated')
               /\ ResFits(c, res'[c], resAge'[c], written', outdated')
    <2>1. PICK r, r2, w, o, o2 :
            r = request[c] /\ r2 = request'[c] /\ w = written /\ o = outdated
            /\ o2 = outdated'
      OBVIOUS
    <2>2. PICK v, g, g2 : v = res[c] /\ g = resAge[c] /\ g2 = resAge'[c]
      OBVIOUS
    <2>3. /\ w \in 0..MaxWrites /\ w <= w /\ o \in [0..MaxWrites -> Nat]
          /\ o2 \in [0..MaxWrites -> Nat]
          /\ \A n \in 0..MaxWrites : o2[n] <= o[n] + 1
      BY <1>2, <1>3, <1>4, <2>1
    <2>4. /\ r \in RequestType /\ r2 \in RequestType /\ Fits(c, r, w, o)
          /\ r.of = 0 => r2 = r
          /\ r2.of = r.of /\ r2.answer = r.answer /\ r2.cursor = r.cursor
          /\ r.of > 0 => r2.since = r.since + 1
          /\ (r2.of = Requests(c) \/ r2.answer = -1) => r2.since <= Timeout
      <3>1. /\ r \in RequestType /\ r2 \in RequestType /\ Fits(c, r, w, o)
            /\ r.of = 0 => r2 = r
            /\ r2.of = r.of /\ r2.answer = r.answer /\ r2.cursor = r.cursor
            /\ r.of > 0 => r2.since = r.since + 1
        BY <1>2, <1>5, <2>1 DEF CachesInv
      <3>2. r.of \in 0..2 /\ r.since \in Nat /\ Requests(c) \in Nat
        BY <1>2, <3>1 DEF RequestType, Requests
      <3>3. ASSUME r2.of = Requests(c) \/ r2.answer = -1
            PROVE  r2.since <= Timeout
        <4>1. CASE r.of = 0  BY <3>1, <3>3, <4>1 DEF Fits
        <4>2. CASE r.of > 0
          <5>1. ~Between(c)  BY <2>1, <3>1, <3>2, <3>3 DEF Between
          <5>2. r.since < Timeout  BY <1>1, <2>1, <4>2, <5>1
          <5> QED  BY <1>2, <3>1, <3>2, <4>2, <5>2
        <4> QED  BY <3>2, <4>1, <4>2
      <3> QED  BY <3>1, <3>3
    <2>5. Fits(c, r2, w, o2)  BY <2>3, <2>4, FitsLater
    <2>6. /\ v \in Nat /\ g \in Nat /\ g2 \in Nat /\ ResFits(c, v, g, w, o)
          /\ g2 <= TTL => g2 = g + 1
      BY <1>2, <1>5, <2>1, <2>2 DEF CachesInv
    <2>7. ResFits(c, v, g2, w, o2)  BY <2>3, <2>6, ResFitsLater
    <2> QED  BY <1>1, <2>1, <2>2, <2>5, <2>7
  <1>9. \A c \in Cache : svc'[c] = "new" => request'[c].of = 0
    BY <1>1, <1>5 DEF CachesInv
  <1> QED  BY <1>6, <1>7, <1>8, <1>9 DEF CachesInv

-----------------------------------------------------------------------------
(* The step changes the request of one cache. *)
RequestBecomes(c, r) == request' = [request EXCEPT ![c] = r]

SvcBecomes(c, s) == svc' = [svc EXCEPT ![c] = s]

(* A step of one cache that leaves a request that fits. *)
LEMMA RequestInv ==
  ASSUME CachesInv, NEW c \in Cache, NEW r \in RequestType, NEW s,
         RequestBecomes(c, r), SvcBecomes(c, s),
         s \in {"starting", "polling", "closing", "closed"} \/ s = svc[c],
         svc[c] = "new" => s # "new" \/ r.of = 0,
         Fits(c, r, written, outdated),
         UNCHANGED <<written, outdated>>,
         res' \in [Cache -> Nat], resAge' \in [Cache -> Nat],
         \A d \in Cache : ResFits(d, res'[d], resAge'[d], written, outdated)
  PROVE  CachesInv'
  <1>1. /\ request' \in [Cache -> RequestType] /\ request'[c] = r
        /\ \A d \in Cache : d # c => request'[d] = request[d]
    BY DEF RequestBecomes, CachesInv, TypeCaches
  <1>2. /\ svc' \in [Cache -> {"new", "starting", "polling", "closing", "closed"}]
        /\ svc'[c] = s /\ \A d \in Cache : d # c => svc'[d] = svc[d]
    BY DEF SvcBecomes, CachesInv, TypeCaches
  <1>3. TypeCaches'  BY <1>1, <1>2 DEF CachesInv, TypeCaches
  <1>4. \A d \in Cache : Fits(d, request'[d], written', outdated')
    BY <1>1 DEF CachesInv
  <1>5. \A d \in Cache : svc'[d] = "new" => request'[d].of = 0
    BY <1>1, <1>2 DEF CachesInv
  <1> QED  BY <1>3, <1>4, <1>5 DEF CachesInv

(* Whoever asks for nothing has nothing to fit. *)
LEMMA NoRequestFits ==
  ASSUME NEW c \in Cache, NEW w, NEW o
  PROVE  NoRequest \in RequestType /\ Fits(c, NoRequest, w, o)
  BY CachesAssumption DEF NoRequest, RequestType, HeaderAge, Fits, Requests

(* A first request, asked for but not answered. *)
LEMMA FirstRequestFits ==
  ASSUME NEW c \in Cache, NEW w, NEW o, NEW r,
         r = [NoRequest EXCEPT !.of = 1]
  PROVE  r \in RequestType /\ r.of = 1 /\ Fits(c, r, w, o)
  <1>1. r = [of |-> 1, since |-> 0, answer |-> -1, cursor |-> -1]
    BY DEF NoRequest
  <1>2. r.of = 1 /\ r.since = 0 /\ r.answer = -1 /\ r.cursor = -1  BY <1>1
  <1>3. r \in RequestType
    <2>1. \A q \in RequestType : [q EXCEPT !.of = 1] \in RequestType
      BY DEF RequestType
    <2> QED  BY <2>1, NoRequestFits
  <1> QED  BY <1>2, <1>3, CachesAssumption DEF Fits, Requests

(* Start and Poll ask for the first part. *)
LEMMA AskInv ==
  ASSUME CachesInv, NEW c \in Cache, Start(c) \/ Poll(c)
  PROVE  CachesInv'
  <1>1. request[c].of = 0  BY DEF Start, Poll, CachesInv
  <1>2. request[c] = NoRequest  BY <1>1 DEF CachesInv, Fits
  <1>3. PICK r : r = [NoRequest EXCEPT !.of = 1]  OBVIOUS
  <1>4. RequestBecomes(c, r) /\ UNCHANGED <<written, outdated, res, resAge>>
    BY <1>2, <1>3 DEF Start, Poll, RequestBecomes
  <1>5. PICK s : /\ SvcBecomes(c, s) /\ s # "new"
                 /\ s \in {"starting", "polling", "closing", "closed"} \/ s = svc[c]
    <2>1. CASE Start(c)  BY <2>1 DEF Start, SvcBecomes
    <2>2. CASE Poll(c)
      <3>1. svc' = [svc EXCEPT ![c] = svc[c]] /\ svc[c] # "new"
        BY <2>2 DEF Poll, CachesInv, TypeCaches
      <3> QED  BY <3>1 DEF SvcBecomes
    <2> QED  BY <2>1, <2>2
  <1>6. r \in RequestType /\ Fits(c, r, written, outdated)
    <2>1. PICK w, o : w = written /\ o = outdated  OBVIOUS
    <2> QED  BY <1>3, <2>1, FirstRequestFits
  <1>7. /\ res' \in [Cache -> Nat] /\ resAge' \in [Cache -> Nat]
        /\ \A d \in Cache : ResFits(d, res'[d], resAge'[d], written, outdated)
    BY <1>4 DEF CachesInv, TypeCaches
  <1> QED  BY <1>4, <1>5, <1>6, <1>7, RequestInv

(***************************************************************************)
(* The endpoint answers with what is the latest then; the slot before an   *)
(* older cursor holds what was the latest then, or something later.        *)
(***************************************************************************)
LEMMA EndpointInv ==
  ASSUME CachesInv, NEW c \in Cache, Endpoint(c)
  PROVE  CachesInv'
  <1>1. PICK q, w, o : q = request[c] /\ w = written /\ o = outdated  OBVIOUS
  <1>2. PICK v : v = CASE c = "state" -> written
                       [] c = "transmissions" /\ q.of = 1 -> LiveCursor
                       [] OTHER -> Slot(LatestSlot(q.cursor))
    OBVIOUS
  <1>3. PICK r : r = [q EXCEPT !.answer = v]  OBVIOUS
  <1>4. /\ RequestBecomes(c, r) /\ q.of > 0
        /\ UNCHANGED <<written, outdated, svc, res, resAge>>
    BY <1>1, <1>2, <1>3 DEF Endpoint, RequestBecomes
  <1>5. /\ q \in RequestType /\ Fits(c, q, w, o) /\ w \in 0..MaxWrites
        /\ o \in [0..MaxWrites -> Nat] /\ AgesOrdered(w, o) /\ MaxWrites \in Nat
        /\ HeaderAge \in Nat /\ w \in Nat
    BY <1>1, CachesAssumption DEF CachesInv, TypeCaches, HeaderAge
  <1>6. o[w] = 0  BY <1>5 DEF AgesOrdered
  <1>7. c = "state" \/ c = "transmissions"  BY CachesAssumption
  <1>8. q.since \in Nat /\ q.of \in 0..2 /\ q.cursor \in Nat \cup {-1}
    BY <1>5 DEF RequestType
  <1>9. ASSUME v \in Nat
        PROVE  /\ r \in RequestType /\ r.of = q.of /\ r.since = q.since
               /\ r.answer = v /\ r.cursor = q.cursor
    BY <1>3, <1>5, <1>9 DEF RequestType
  <1>15. q.since <= Timeout
    <2>1. q.answer = -1  BY <1>1 DEF Endpoint
    <2> QED  BY <1>5, <2>1 DEF Fits
  <1>10. /\ v \in Nat /\ Fits(c, r, w, o)
    <2>1. CASE c = "state"
      <3>1. v = w /\ v \in Nat  BY <1>1, <1>2, <1>5, <2>1
      <3>2. LatestWithin(v, q.since, w, o)
        BY <1>5, <1>6, <1>8, <3>1 DEF LatestWithin
      <3>3. /\ r.of = q.of /\ r.since = q.since /\ r.answer = v
        BY <1>9, <3>1
      <3> QED  BY <1>4, <1>5, <1>15, <2>1, <3>1, <3>2, <3>3 DEF Fits
    <2>2. CASE c = "transmissions" /\ q.of = 1
      <3>1. v = w % LiveLength /\ v \in Nat
        <4>1. v = LiveCursor  BY <1>2, <2>2
        <4>2. v = w % LiveLength  BY <1>1, <4>1 DEF LiveCursor
        <4>3. \A a \in Nat, g \in Nat \ {0} : a % g \in Nat  OBVIOUS
        <4> QED  BY <1>5, <4>2, <4>3, CachesAssumption
      <3>2. CursorWithin(v, q.since, w, o)
        BY <1>5, <1>6, <1>8, <3>1 DEF CursorWithin
      <3>3. /\ r.of = q.of /\ r.since = q.since /\ r.answer = v
        BY <1>9, <3>1
      <3>4. q.of <= Requests(c)  BY <1>5 DEF Fits
      <3> QED  BY <1>4, <1>15, <2>2, <3>1, <3>2, <3>3, <3>4 DEF Fits
    <2>3. CASE c = "transmissions" /\ q.of = 2
      <3>1. CursorWithin(q.cursor, HeaderAge + q.since, w, o)
        BY <1>5, <2>3 DEF Fits
      <3>2. PICK n \in 0..w : q.cursor = n % LiveLength
                               /\ o[n] <= HeaderAge + q.since
        BY <3>1 DEF CursorWithin
      <3>3. v = Slot(LatestSlot(n % LiveLength))  BY <1>2, <2>3, <3>2
      <3>4. v \in n..w  BY <1>1, <1>5, <3>3, SlotIsLater
      <3>5. /\ v \in Nat /\ v \in 0..MaxWrites /\ n \in 0..MaxWrites
            /\ n <= v /\ v <= w
        BY <1>5, <3>2, <3>4
      <3>6. o[v] <= o[n] /\ o[v] \in Nat /\ o[n] \in Nat
        BY <1>5, <3>5 DEF AgesOrdered
      <3>7. LatestWithin(v, HeaderAge + q.since, w, o)
        BY <1>5, <1>8, <3>2, <3>5, <3>6 DEF LatestWithin
      <3>8. /\ r.of = q.of /\ r.since = q.since /\ r.answer = v
            /\ r.cursor = q.cursor
        BY <1>9, <3>5
      <3>9. q.of <= Requests(c)  BY <1>5 DEF Fits
      <3> QED  BY <1>4, <1>15, <2>3, <3>1, <3>5, <3>7, <3>8, <3>9 DEF Fits
    <2> QED  BY <1>4, <1>7, <1>8, <2>1, <2>2, <2>3
  <1>11. PICK s : s = svc[c]  OBVIOUS
  <1>12. SvcBecomes(c, s)
    BY <1>4, <1>11 DEF SvcBecomes, CachesInv, TypeCaches
  <1>13. /\ res' \in [Cache -> Nat] /\ resAge' \in [Cache -> Nat]
         /\ \A d \in Cache : ResFits(d, res'[d], resAge'[d], written, outdated)
    BY <1>4 DEF CachesInv, TypeCaches
  <1>14. svc[c] = "new" => s # "new" \/ r.of = 0
    <2>1. q.of # 0  BY <1>4
    <2> QED  BY <1>1, <2>1 DEF CachesInv
  <1> QED
    BY <1>1, <1>4, <1>9, <1>10, <1>11, <1>12, <1>13, <1>14, RequestInv

(* The cursor of the header is asked for; it was right when that was read. *)
LEMMA NextRequestInv ==
  ASSUME CachesInv, NEW c \in Cache, NextRequest(c)
  PROVE  CachesInv'
  <1>1. PICK q, w, o : q = request[c] /\ w = written /\ o = outdated  OBVIOUS
  <1>2. PICK r : r = [of |-> q.of + 1, since |-> 0, answer |-> -1,
                      cursor |-> q.answer]
    OBVIOUS
  <1>3. /\ RequestBecomes(c, r) /\ q.of < Requests(c) /\ q.answer >= 0
        /\ UNCHANGED <<written, outdated, svc, res, resAge>>
    BY <1>1, <1>2 DEF NextRequest, Between, RequestBecomes
  <1>4. /\ q \in RequestType /\ Fits(c, q, w, o) /\ w \in 0..MaxWrites
        /\ o \in [0..MaxWrites -> Nat] /\ HeaderAge \in Nat /\ Timeout \in Nat
    BY <1>1, CachesAssumption DEF CachesInv, TypeCaches, HeaderAge
  <1>5. /\ q.of \in 0..2 /\ q.since \in 0..HeaderAge
        /\ q.answer \in Nat \cup {-1}
    BY <1>4 DEF RequestType
  <1>6. q.of # 0
    <2>1. q = NoRequest => q.answer = -1  BY DEF NoRequest
    <2> QED  BY <1>3, <1>4, <2>1 DEF Fits
  <1>7. c = "transmissions" /\ q.of = 1 /\ q.answer \in Nat
    <2>1. c = "state" \/ c = "transmissions"  BY CachesAssumption
    <2>2. c = "state" => Requests(c) = 1  BY DEF Requests
    <2>3. c = "transmissions" => Requests(c) = 2  BY DEF Requests
    <2> QED  BY <1>3, <1>5, <1>6, <2>1, <2>2, <2>3
  <1>8. /\ r.of = 2 /\ r.since = 0 /\ r.answer = -1 /\ r.cursor = q.answer
        /\ r \in RequestType
    BY <1>2, <1>4, <1>7 DEF RequestType
  <1>9. CursorWithin(r.cursor, HeaderAge + r.since, w, o)
    <2>1. CursorWithin(q.answer, q.since, w, o)  BY <1>3, <1>4, <1>7 DEF Fits
    <2>2. PICK n \in 0..w : q.answer = n % LiveLength /\ o[n] <= q.since
      BY <2>1 DEF CursorWithin
    <2>3. o[n] \in Nat  BY <1>4, CachesAssumption
    <2>4. o[n] <= HeaderAge + 0  BY <1>4, <1>5, <2>2, <2>3
    <2> QED  BY <1>8, <2>2, <2>4 DEF CursorWithin
  <1>10. Fits(c, r, w, o)
    <2>1. r.of <= Requests(c)  BY <1>7, <1>8 DEF Requests
    <2> QED  BY <1>4, <1>7, <1>8, <1>9, <2>1 DEF Fits
  <1>11. PICK s : s = svc[c]  OBVIOUS
  <1>12. SvcBecomes(c, s)
    BY <1>3, <1>11 DEF SvcBecomes, CachesInv, TypeCaches
  <1>13. /\ res' \in [Cache -> Nat] /\ resAge' \in [Cache -> Nat]
         /\ \A d \in Cache : ResFits(d, res'[d], resAge'[d], written, outdated)
    BY <1>3 DEF CachesInv, TypeCaches
  <1>14. svc[c] = "new" => s # "new" \/ r.of = 0
    BY <1>1, <1>6 DEF CachesInv
  <1> QED
    BY <1>1, <1>3, <1>8, <1>10, <1>11, <1>12, <1>13, <1>14, RequestInv

(* What arrives is dated then, and was the latest within its time limits. *)
LEMMA FetchedInv ==
  ASSUME CachesInv, NEW c \in Cache, Fetched(c) \/ FetchFails(c)
  PROVE  CachesInv'
  <1>1. PICK q, w, o : q = request[c] /\ w = written /\ o = outdated  OBVIOUS
  <1>2. /\ RequestBecomes(c, NoRequest) /\ UNCHANGED <<written, outdated>>
        /\ q.of > 0
    BY <1>1 DEF Fetched, FetchFails, Lost, AfterFetch, RequestBecomes, Requests
  <1>3. PICK s : s = IF svc[c] = "starting" THEN "polling" ELSE svc[c]  OBVIOUS
  <1>4. SvcBecomes(c, s)
    BY <1>3 DEF Fetched, FetchFails, AfterFetch, SvcBecomes
  <1>5. /\ q \in RequestType /\ Fits(c, q, w, o) /\ Timeout \in Nat
        /\ HeaderAge \in Nat /\ w \in 0..MaxWrites /\ o \in [0..MaxWrites -> Nat]
        /\ c = "state" \/ c = "transmissions"
    BY <1>1, CachesAssumption DEF CachesInv, TypeCaches, HeaderAge
  <1>6. ASSUME Fetched(c)
        PROVE  /\ q.answer \in Nat
               /\ LatestWithin(q.answer, Getting(c), w, o)
    <2>1. /\ q.of = Requests(c) /\ q.answer >= 0  BY <1>1, <1>6 DEF Fetched
    <2>2. q.answer \in Nat /\ q.since \in 0..Timeout
      <3>1. q.since \in 0..HeaderAge /\ q.answer \in Nat \cup {-1}
        BY <1>5 DEF RequestType
      <3>2. q.since <= Timeout  BY <1>5, <2>1 DEF Fits
      <3> QED  BY <1>5, <2>1, <3>1, <3>2
    <2>3. CASE c = "state"
      <3>1. LatestWithin(q.answer, q.since, w, o)
        BY <1>5, <2>1, <2>3 DEF Fits
      <3>2. q.answer <= w /\ o[q.answer] <= q.since  BY <3>1 DEF LatestWithin
      <3>3. o[q.answer] \in Nat
        BY <1>5, <2>2, <3>2, CachesAssumption
      <3>4. Getting(c) = Timeout  BY <2>3 DEF Getting
      <3> QED  BY <1>5, <2>2, <3>2, <3>3, <3>4 DEF LatestWithin
    <2>4. CASE c = "transmissions"
      <3>1. LatestWithin(q.answer, HeaderAge + q.since, w, o)
        BY <1>5, <2>1, <2>4 DEF Fits, Requests
      <3>2. q.answer <= w /\ o[q.answer] <= HeaderAge + q.since
        BY <3>1 DEF LatestWithin
      <3>3. o[q.answer] \in Nat
        BY <1>5, <2>2, <3>2, CachesAssumption
      <3>4. Getting(c) = HeaderAge + Timeout  BY <2>4 DEF Getting
      <3> QED  BY <1>5, <2>2, <3>2, <3>3, <3>4 DEF LatestWithin
    <2> QED  BY <1>5, <2>3, <2>4
  <1>7. /\ res' \in [Cache -> Nat] /\ resAge' \in [Cache -> Nat]
        /\ \A d \in Cache : ResFits(d, res'[d], resAge'[d], written, outdated)
    <2>0. /\ res \in [Cache -> Nat] /\ resAge \in [Cache -> Nat]
          /\ \A d \in Cache : ResFits(d, res[d], resAge[d], written, outdated)
      BY DEF CachesInv, TypeCaches
    <2>1. CASE FetchFails(c)
      BY <2>0, <2>1 DEF FetchFails
    <2>2. CASE Fetched(c)
      <3>1. /\ res' = [res EXCEPT ![c] = q.answer]
            /\ resAge' = [resAge EXCEPT ![c] = 0]
        BY <1>1, <2>2 DEF Fetched
      <3>2. /\ res' \in [Cache -> Nat] /\ resAge' \in [Cache -> Nat]
            /\ res'[c] = q.answer /\ resAge'[c] = 0
            /\ \A d \in Cache : d # c => res'[d] = res[d] /\ resAge'[d] = resAge[d]
        BY <1>6, <2>0, <2>2, <3>1
      <3>3. ResFits(c, q.answer, 0, w, o)
        <4>1. 0 + Getting(c) = Getting(c)  BY <1>5 DEF Getting
        <4> QED  BY <1>6, <2>2, <4>1 DEF ResFits
      <3> QED  BY <1>1, <2>0, <3>2, <3>3
    <2> QED  BY <2>1, <2>2
  <1>8. NoRequest \in RequestType /\ Fits(c, NoRequest, written, outdated)
    BY <1>1, NoRequestFits
  <1>9. PICK r : r = NoRequest  OBVIOUS
  <1>10. r.of = 0  BY <1>9 DEF NoRequest
  <1>11. s \in {"starting", "polling", "closing", "closed"} \/ s = svc[c]
    BY <1>3
  <1> QED  BY <1>2, <1>4, <1>7, <1>8, <1>9, <1>10, <1>11, RequestInv

(* Every step of the chain, the clock and the caches keeps the invariant. *)
LEMMA CachesNextInv == CachesInv /\ [CachesNext]_cacheVars => CachesInv'
  <1> SUFFICES ASSUME CachesInv, [CachesNext]_cacheVars PROVE CachesInv'
    OBVIOUS
  <1>1. ASSUME NEW c \in Cache, Close(c) \/ PollEnds(c) PROVE CachesInv'
    <2>1. PICK r, s : r = request[c] /\ s \in {"closing", "closed"}
                      /\ svc' = [svc EXCEPT ![c] = s]
      BY <1>1 DEF Close, PollEnds
    <2>2. /\ UNCHANGED <<written, outdated, request, res, resAge>>
      BY <1>1 DEF Close, PollEnds
    <2>3. RequestBecomes(c, r) /\ SvcBecomes(c, s)
      BY <2>1, <2>2 DEF RequestBecomes, SvcBecomes, CachesInv, TypeCaches
    <2>4. /\ r \in RequestType /\ Fits(c, r, written, outdated)
          /\ res' \in [Cache -> Nat] /\ resAge' \in [Cache -> Nat]
          /\ \A d \in Cache : ResFits(d, res'[d], resAge'[d], written, outdated)
      BY <2>1, <2>2 DEF CachesInv, TypeCaches
    <2>5. s # "new" /\ s \in {"starting", "polling", "closing", "closed"}
      BY <2>1
    <2> QED  BY <2>2, <2>3, <2>4, <2>5, RequestInv
  <1>2. CASE UNCHANGED cacheVars
    BY <1>2 DEF cacheVars, CachesInv, TypeCaches
  <1> QED
    BY <1>1, <1>2, WriteInv, ClockInv, AskInv, EndpointInv, NextRequestInv,
       FetchedInv
    DEF CachesNext, CacheStep, Getter

(***************************************************************************)
(* What a provider reads without an error was the latest on chain no       *)
(* longer ago than the time to live, the time limits of the getter's       *)
(* requests and the delay between them, for any ring length, poll period,  *)
(* time to live, time limit and delay (Cache.Read, GetLatestTransmission). *)
(***************************************************************************)
THEOREM ReadsAreFresh ==
  ASSUME Cache = {"state", "transmissions"}
  PROVE  CachesSpec => []FreshReads
  <1>1. CachesInv => FreshReads
    <2> SUFFICES ASSUME CachesInv PROVE FreshReads  OBVIOUS
    <2>1. ASSUME NEW c \in Cache, resAge[c] <= TTL
          PROVE  Recent(res[c], Allowed(c))
      <3>1. LatestWithin(res[c], resAge[c] + Getting(c),
                         written, outdated)
        BY <2>1 DEF CachesInv, ResFits
      <3> DEFINE n == res[c]
                 k == Getting(c)
      <3>2. n <= written /\ outdated[n] <= resAge[c] + k
        BY <3>1 DEF LatestWithin
      <3>3. k \in Nat  BY CachesAssumption DEF Getting, HeaderAge
      <3>4. n \in Nat /\ resAge[c] \in Nat /\ written \in 0..MaxWrites
            /\ TTL \in Nat /\ MaxWrites \in Nat
        BY CachesAssumption DEF CachesInv, TypeCaches
      <3> HIDE DEF n, k
      <3>5. outdated[n] \in Nat
        BY <3>2, <3>4 DEF CachesInv, TypeCaches
      <3>6. outdated[n] <= TTL + k  BY <2>1, <3>2, <3>3, <3>4, <3>5
      <3> QED  BY <3>2, <3>6 DEF Recent, Allowed, n, k
    <2>2. "state" \in Cache /\ "transmissions" \in Cache  OBVIOUS
    <2>3. \A c \in Cache : ~(resAge[c] > TTL) => resAge[c] <= TTL
      BY CachesAssumption DEF CachesInv, TypeCaches
    <2> QED
      BY <2>1, <2>2, <2>3
      DEF FreshReads, LatestConfigDetails, LatestTransmissionDetails, Read
  <1> QED
    BY <1>1, CachesInitInv, CachesNextInv, PTL DEF CachesSpec

-----------------------------------------------------------------------------
(***************************************************************************)
(* The fees.  First recursive functions: they exist, and are what their    *)
(* equations say; the powers of the base of a byte are one.                *)
(***************************************************************************)
(* What holds of 0, and of n + 1 if it holds of n, holds of every natural. *)
LEMMA EveryNatural ==
  ASSUME NEW K \in SUBSET Nat, 0 \in K, \A n \in K : n + 1 \in K
  PROVE  \A n \in Nat : n \in K
  <1> DEFINE C == Nat \ K
  <1> SUFFICES ASSUME C # {} PROVE FALSE  OBVIOUS
  <1>1. PICK m \in C : \A k \in C : m <= k
    <2>1. C \in SUBSET Nat  OBVIOUS
    <2> HIDE DEF C
    <2> QED  BY <2>1, LeastOf
  <1>2. m \in Nat /\ m \notin K /\ m # 0  OBVIOUS
  <1>3. m - 1 \in Nat /\ ~(m <= m - 1) /\ (m - 1) + 1 = m  BY <1>2
  <1>4. m - 1 \in K  BY <1>1, <1>3
  <1> QED  BY <1>2, <1>3, <1>4

(***************************************************************************)
(* Recursive functions.  h starts with v and goes on, up to n, with the    *)
(* function that N gives for each step; g goes on for ever.                *)
(***************************************************************************)
Steps(V, N) == N \in [Nat -> [V -> V]]

Recursive(V, v, N, g) ==
  g \in [Nat -> V] /\ g[0] = v /\ \A i \in Nat : g[i + 1] = N[i][g[i]]

SameUpTo(n, m, h, k) == \A i \in Nat : i <= n /\ i <= m => h[i] = k[i]

UpTo(V, v, N, n, h) ==
  h \in [0..n -> V] /\ h[0] = v /\ \A i \in 0..(n - 1) : h[i + 1] = N[i][h[i]]

(* There is such a function for every n. *)
LEMMA UpToExists ==
  ASSUME NEW V, NEW v \in V, NEW N, Steps(V, N)
  PROVE  \A n \in Nat : \E h : UpTo(V, v, N, n, h)
  <1> DEFINE K == {n \in Nat : \E h : UpTo(V, v, N, n, h)}
  <1>1. 0 \in K
    <2>1. UpTo(V, v, N, 0, [i \in 0..0 |-> v])  BY DEF UpTo
    <2> QED  BY <2>1
  <1>2. ASSUME NEW n \in K PROVE n + 1 \in K
    <2>1. PICK h : UpTo(V, v, N, n, h)  OBVIOUS
    <2>2. n \in Nat /\ n + 1 \in Nat  OBVIOUS
    <2> HIDE DEF K
    <2> DEFINE k == [i \in 0..(n + 1) |-> IF i = n + 1 THEN N[n][h[n]] ELSE h[i]]
    <2>3. h \in [0..n -> V] /\ h[0] = v /\ \A i \in 0..(n - 1) : h[i + 1] = N[i][h[i]]
      BY <2>1 DEF UpTo
    <2>4. k \in [0..(n + 1) -> V]
      <3>1. N[n] \in [V -> V] /\ h[n] \in V  BY <2>2, <2>3 DEF Steps
      <3>2. N[n][h[n]] \in V  BY <3>1
      <3> QED  BY <2>2, <2>3, <3>2
    <2>5. k[0] = v  BY <2>2, <2>3
    <2>6. ASSUME NEW i \in 0..((n + 1) - 1) PROVE k[i + 1] = N[i][k[i]]
      <3>1. CASE i = n  BY <2>2, <3>1
      <3>2. CASE i # n
        <4>1. i \in 0..(n - 1) /\ i + 1 \in 0..n  BY <2>2, <3>2
        <4>2. k[i + 1] = h[i + 1] /\ k[i] = h[i]  BY <2>2, <4>1
        <4> QED  BY <2>3, <4>1, <4>2
      <3> QED  BY <3>1, <3>2
    <2> HIDE DEF k
    <2>7. UpTo(V, v, N, n + 1, k)  BY <2>4, <2>5, <2>6 DEF UpTo
    <2> QED  BY <2>2, <2>7 DEF K
  <1>3. \A n \in Nat : n \in K
    <2>1. K \in SUBSET Nat  OBVIOUS
    <2> HIDE DEF K
    <2> QED  BY <1>1, <1>2, <2>1, EveryNatural
  <1> QED  BY <1>3

(* Two such functions agree as far as both go. *)
LEMMA UpToAgree ==
  ASSUME NEW V, NEW v \in V, NEW N, Steps(V, N),
         NEW n \in Nat, NEW m \in Nat, NEW h, NEW k,
         UpTo(V, v, N, n, h), UpTo(V, v, N, m, k)
  PROVE  SameUpTo(n, m, h, k)
  <1> DEFINE K == {i \in Nat : i <= n /\ i <= m => h[i] = k[i]}
  <1>1. 0 \in K  BY DEF UpTo
  <1>2. ASSUME NEW i \in K PROVE i + 1 \in K
    <2>1. i \in Nat /\ (i <= n /\ i <= m => h[i] = k[i])  OBVIOUS
    <2> SUFFICES ASSUME i + 1 <= n, i + 1 <= m PROVE h[i + 1] = k[i + 1]
      BY <2>1
    <2>2. i \in 0..(n - 1) /\ i \in 0..(m - 1) /\ h[i] = k[i]  BY <2>1
    <2>3. h[i + 1] = N[i][h[i]] /\ k[i + 1] = N[i][k[i]]  BY <2>2 DEF UpTo
    <2> QED  BY <2>2, <2>3
  <1>3. \A i \in Nat : i \in K
    <2>1. K \in SUBSET Nat  OBVIOUS
    <2> HIDE DEF K
    <2> QED  BY <1>1, <1>2, <2>1, EveryNatural
  <1> QED  BY <1>3 DEF SameUpTo

(* So there is one for all naturals. *)
LEMMA Recursion ==
  ASSUME NEW V, NEW v \in V, NEW N, Steps(V, N)
  PROVE  \E g : Recursive(V, v, N, g)
  <1> DEFINE H(n) == CHOOSE h : UpTo(V, v, N, n, h)
             g == [n \in Nat |-> H(n)[n]]
  <1>1. \A n \in Nat : UpTo(V, v, N, n, H(n))
    BY UpToExists
  <1> HIDE DEF H
  <1>2. g \in [Nat -> V]
    <2>1. ASSUME NEW n \in Nat PROVE H(n)[n] \in V
      <3>1. H(n) \in [0..n -> V]  BY <1>1 DEF UpTo
      <3> QED  BY <3>1
    <2> QED  BY <2>1
  <1>3. g[0] = v
    <2>1. H(0)[0] = v  BY <1>1 DEF UpTo
    <2> QED  BY <2>1
  <1>4. ASSUME NEW i \in Nat PROVE g[i + 1] = N[i][g[i]]
    <2>1. i + 1 \in Nat /\ i \in 0..((i + 1) - 1) /\ i <= i + 1  OBVIOUS
    <2>2. UpTo(V, v, N, i + 1, H(i + 1)) /\ UpTo(V, v, N, i, H(i))
      BY <1>1, <2>1
    <2>3. H(i + 1)[i + 1] = N[i][H(i + 1)[i]]  BY <2>1, <2>2 DEF UpTo
    <2>4. H(i + 1)[i] = H(i)[i]
      <3>1. \A n \in Nat : n <= i + 1 /\ n <= i => H(i + 1)[n] = H(i)[n]
        <4>1. PICK m \in Nat, h \in {H(i + 1)}, k \in {H(i)} :
                m = i + 1 /\ h = H(i + 1) /\ k = H(i)
          BY <2>1
        <4>2. UpTo(V, v, N, m, h) /\ UpTo(V, v, N, i, k)  BY <2>2, <4>1, Zenon
        <4>3. SameUpTo(m, i, h, k)  BY <4>2, UpToAgree, Zenon
        <4> QED  BY <4>1, <4>3, Zenon DEF SameUpTo
      <3> QED  BY <2>1, <3>1
    <2> QED  BY <2>1, <2>3, <2>4
  <1> HIDE DEF g
  <1>5. Recursive(V, v, N, g)  BY <1>2, <1>3, <1>4 DEF Recursive
  <1> QED  BY <1>5

(* The powers of Byte. *)
LEMMA PowerIs ==
  /\ Power \in [Nat -> Nat \ {0}] /\ Power[0] = 1
  /\ \A n \in Nat : Power[n + 1] = Byte * Power[n]
  <1> DEFINE V == Nat \ {0}
             N == [i \in Nat |-> [x \in V |-> Byte * x]]
             Is(f) == f = [n \in Nat |-> IF n = 0 THEN 1 ELSE Byte * f[n - 1]]
  <1>1. Byte \in Nat /\ Byte > 0  BY FeesAssumption DEF FeesAssumption
  <1>2. N \in [Nat -> [V -> V]]
    <2>1. \A x \in V : Byte * x \in V  BY <1>1
    <2> QED  BY <2>1
  <1>3. PICK g \in [Nat -> V] : g[0] = 1 /\ \A i \in Nat : g[i + 1] = N[i][g[i]]
    <2>1. PICK one \in V : one = 1  OBVIOUS
    <2> HIDE DEF V, N
    <2>2. Steps(V, N)  BY <1>2, Zenon DEF Steps
    <2>3. PICK g : Recursive(V, one, N, g)  BY <2>2, Recursion, Zenon
    <2> QED  BY <2>1, <2>3, Zenon DEF Recursive
  <1>4. \A i \in Nat : g[i + 1] = Byte * g[i]  BY <1>3
  <1>5. Is(g)
    <2>1. ASSUME NEW n \in Nat PROVE g[n] = IF n = 0 THEN 1 ELSE Byte * g[n - 1]
      <3>1. CASE n = 0  BY <1>3, <3>1
      <3>2. CASE n # 0
        <4>1. n - 1 \in Nat /\ (n - 1) + 1 = n  BY <3>2
        <4> QED  BY <1>4, <3>2, <4>1
      <3> QED  BY <3>1, <3>2
    <2>2. DOMAIN g = Nat  OBVIOUS
    <2> QED  BY <1>3, <2>1, <2>2
  <1>6. Is(Power)
    <2>1. Power = CHOOSE f : Is(f)  BY Zenon DEF Power
    <2> HIDE DEF Is
    <2> QED  BY <1>5, <2>1, Zenon
  <1>7. Power[0] = 1 /\ \A n \in Nat : Power[n + 1] = Byte * Power[n]
    BY <1>6
  <1>8. \A n \in Nat : Power[n] \in V
    <2> DEFINE K == {n \in Nat : Power[n] \in V}
    <2>1. 0 \in K  BY <1>7
    <2>2. ASSUME NEW n \in K PROVE n + 1 \in K
      <3>1. Power[n] \in Nat \ {0} /\ n \in Nat  OBVIOUS
      <3>2. Byte * Power[n] \in Nat \ {0}  BY <1>1, <3>1
      <3> QED  BY <1>7, <3>1, <3>2
    <2>3. K \in SUBSET Nat  OBVIOUS
    <2> HIDE DEF K
    <2>4. \A n \in Nat : n \in K  BY <2>1, <2>2, <2>3, EveryNatural
    <2> QED  BY <2>4 DEF K
  <1>9. DOMAIN Power = Nat /\ Power = [n \in Nat |-> Power[n]]  BY <1>6
  <1> QED  BY <1>7, <1>8, <1>9

-----------------------------------------------------------------------------
\* f is recursive up to w.
Bounded(V, v, N, w, f) ==
  /\ f \in [0..w -> V]
  /\ f = [i \in 0..w |-> IF i = 0 THEN v ELSE N[i - 1][f[i - 1]]]

(* A recursive function, up to w. *)
LEMMA BoundedRecursion ==
  ASSUME NEW V, NEW v \in V, NEW N, Steps(V, N), NEW w \in Nat
  PROVE  \E f : Bounded(V, v, N, w, f)
  <1>1. PICK g : Recursive(V, v, N, g)  BY Recursion, Zenon
  <1> DEFINE f == [i \in 0..w |-> g[i]]
  <1>2. /\ g \in [Nat -> V] /\ g[0] = v
        /\ \A i \in Nat : g[i + 1] = N[i][g[i]]
    BY <1>1 DEF Recursive
  <1>3. f \in [0..w -> V]  BY <1>2
  <1>4. ASSUME NEW i \in 0..w
        PROVE  f[i] = IF i = 0 THEN v ELSE N[i - 1][f[i - 1]]
    <2>1. CASE i = 0  BY <1>2, <2>1
    <2>2. CASE i # 0
      <3>1. i - 1 \in Nat /\ (i - 1) + 1 = i /\ i - 1 \in 0..w /\ i \in Nat
        BY <2>2
      <3>2. g[(i - 1) + 1] = N[i - 1][g[i - 1]]  BY <1>2, <3>1
      <3> QED  BY <2>2, <3>1, <3>2
    <2> QED  BY <2>1, <2>2
  <1>5. f = [i \in 0..w |-> IF i = 0 THEN v ELSE N[i - 1][f[i - 1]]]
    <2>1. DOMAIN f = 0..w  OBVIOUS
    <2> HIDE DEF f
    <2> QED  BY <1>3, <1>4, <2>1
  <1> HIDE DEF f
  <1>6. Bounded(V, v, N, w, f)  BY <1>3, <1>5, Zenon DEF Bounded
  <1> QED  BY <1>6

-----------------------------------------------------------------------------
\* q and y are a quotient and a remainder of n by g.
Divided(g, q, y, n) == y \in 0..(g - 1) /\ n = q * g + y

(* There is one remainder. *)
LEMMA OneRemainder ==
  ASSUME NEW g \in Nat, g > 0, NEW p \in Nat, NEW q \in Nat, NEW n,
         NEW x, NEW y, Divided(g, p, x, n), Divided(g, q, y, n)
  PROVE  x = y
  <1>1. p * g + x = q * g + y /\ x \in 0..(g - 1) /\ y \in 0..(g - 1)
    BY Zenon DEF Divided
  <1> QED  BY <1>1, ModUnique

(* The digits of a number: one digit more. *)
LEMMA OneMoreDigit ==
  ASSUME NEW x \in Nat, NEW P \in Nat, P > 0, NEW B \in Nat, B > 0
  PROVE  x % (B * P) = (x % P) + ((x \div P) % B) * P
  <1>1. PICK q \in Nat, r \in 0..(P - 1) :
          q = x \div P /\ r = x % P /\ x = q * P + r
    BY ModRange
  <1>2. PICK s \in Nat, t \in 0..(B - 1) :
          s = q \div B /\ t = q % B /\ q = s * B + t
    BY ModRange
  <1>3. PICK M \in Nat : M = B * P /\ M > 0
    <2>1. B * P \in Nat /\ B * P > 0  OBVIOUS
    <2> QED  BY <2>1
  <1>4. PICK u \in Nat, y \in 0..(M - 1) : y = x % M /\ x = u * M + y
    <2>1. /\ x % M \in 0..(M - 1) /\ x \div M \in Nat
          /\ x = (x \div M) * M + (x % M)
      BY <1>3, ModRange, Zenon
    <2> QED  BY <2>1, Zenon
  <1>5. PICK z \in Nat : z = t * P + r  OBVIOUS
  <1>6. z \in 0..(M - 1)
    <2>1. t * P <= (B - 1) * P
      <3>1. PICK e \in Nat : B - 1 = t + e  BY B - 1 = t + (B - 1 - t)
      <3>2. (B - 1) * P = t * P + e * P /\ e * P >= 0  BY <3>1
      <3> QED  BY <3>2
    <2>2. (B - 1) * P = B * P - P  OBVIOUS
    <2> QED  BY <1>3, <1>5, <2>1, <2>2
  <1>7. x = s * M + z
    <2>1. (s * B + t) * P = s * (B * P) + t * P  OBVIOUS
    <2> QED  BY <1>1, <1>2, <1>3, <1>5, <2>1
  <1>8. z = y
    <2>1. Divided(M, s, z, x) /\ Divided(M, u, y, x)
      BY <1>4, <1>6, <1>7 DEF Divided
    <2>2. s \in Nat /\ u \in Nat /\ M \in Nat /\ M > 0  BY <1>3
    <2> QED  BY <2>1, <2>2, OneRemainder, Zenon
  <1> QED  BY <1>1, <1>2, <1>3, <1>4, <1>5, <1>8

(* The remainder of a number below the modulus, and of one below twice that. *)
LEMMA SmallMod ==
  ASSUME NEW g \in Nat, g > 0, NEW x \in Nat
  PROVE  /\ x < g => x % g = x
         /\ g <= x /\ x < 2 * g => x % g = x - g
  <1>1. PICK q \in Nat, r \in 0..(g - 1) : r = x % g /\ x = q * g + r
    BY ModRange
  <1>2. ASSUME x < g PROVE x % g = x
    <2>1. PICK p \in Nat, y \in 0..(g - 1) : p = 0 /\ y = x  BY <1>2
    <2>2. p * g + y = q * g + r  BY <1>1, <2>1
    <2>3. y = r  BY <2>2, ModUnique
    <2> QED  BY <1>1, <2>1, <2>3
  <1>3. ASSUME g <= x, x < 2 * g PROVE x % g = x - g
    <2>1. PICK p \in Nat, y \in 0..(g - 1) : p = 1 /\ y = x - g  BY <1>3
    <2>2. p * g + y = q * g + r  BY <1>1, <2>1
    <2>3. y = r  BY <2>2, ModUnique
    <2> QED  BY <1>1, <2>1, <2>3
  <1> QED  BY <1>2, <1>3

\* f reads the digits of data, from the least one on.
Reads(w, data, f) ==
  /\ f \in [0..w -> Nat] /\ f[0] = 0
  /\ \A i \in 0..(w - 1) : f[i + 1] = f[i] + data[i + 2] * Power[i]

(* What parse makes of data of the right length with its selector. *)
LEMMA ParseIs ==
  ASSUME NEW w \in Nat, NEW data \in Seq(Nat), Len(data) = 1 + w
  PROVE  \E f : Reads(w, data, f) /\ parse(data[1], w, data) = f[w]
  <1> DEFINE N == [i \in Nat |-> [x \in Nat |->
                     IF i < w THEN x + data[i + 2] * Power[i] ELSE x]]
             Is(f) == f = [i \in 0..w |->
                             IF i = 0 THEN 0 ELSE f[i - 1] + data[i + 1] * Power[i - 1]]
             number == CHOOSE f : Is(f)
  <1>1. Power \in [Nat -> Nat]  BY PowerIs
  <1>2. \A i \in 0..(w - 1) : data[i + 2] * Power[i] \in Nat
    <2> SUFFICES ASSUME NEW i \in 0..(w - 1) PROVE data[i + 2] * Power[i] \in Nat
      OBVIOUS
    <2>1. i + 2 \in 1..Len(data) /\ i \in Nat  OBVIOUS
    <2>2. Power[i] \in Nat  BY <1>1, <2>1
    <2>3. data[i + 2] \in Nat  BY <2>1
    <2> QED  BY <2>2, <2>3
  <1>3. N \in [Nat -> [Nat -> Nat]]
    <2>1. ASSUME NEW i \in Nat, NEW x \in Nat
          PROVE  (IF i < w THEN x + data[i + 2] * Power[i] ELSE x) \in Nat
      <3>1. CASE i < w
        <4>1. i \in 0..(w - 1)  BY <3>1
        <4>2. PICK d \in Nat : d = data[i + 2] * Power[i]  BY <1>2, <4>1
        <4> QED  BY <3>1, <4>2
      <3>2. CASE ~(i < w)  BY <3>2
      <3> QED  BY <3>1, <3>2
    <2> QED  BY <2>1
  <1>4. PICK z, V : z \in V /\ z = 0 /\ V = Nat  OBVIOUS
  <1>5. PICK f : Bounded(V, z, N, w, f)
    <2>1. Steps(V, N)  BY <1>3, <1>4, Zenon DEF Steps
    <2> HIDE DEF N
    <2> QED  BY <1>4, <2>1, BoundedRecursion, Zenon
  <1>6. f \in [0..w -> Nat]
        /\ f = [i \in 0..w |-> IF i = 0 THEN 0 ELSE N[i - 1][f[i - 1]]]
    BY <1>4, <1>5, Zenon DEF Bounded
  <1>7. Is(f)
    <2>1. ASSUME NEW i \in 0..w
          PROVE  f[i] = IF i = 0 THEN 0 ELSE f[i - 1] + data[i + 1] * Power[i - 1]
      <3>1. CASE i = 0  BY <1>6, <3>1
      <3>2. CASE i # 0
        <4>1. i - 1 \in Nat /\ i - 1 < w /\ (i - 1) + 2 = i + 1 /\ i - 1 \in 0..w
          BY <3>2
        <4>2. f[i - 1] \in Nat  BY <1>6, <4>1
        <4>3. f[i] = N[i - 1][f[i - 1]]  BY <1>6, <3>2
        <4>4. N[i - 1][f[i - 1]] = f[i - 1] + data[(i - 1) + 2] * Power[i - 1]
          BY <4>1, <4>2
        <4> QED  BY <3>2, <4>1, <4>3, <4>4
      <3> QED  BY <3>1, <3>2
    <2> QED  BY <1>6, <2>1
  <1>8. Is(number)
    <2> HIDE DEF Is
    <2> QED  BY <1>7, Zenon
  <1>9. parse(data[1], w, data) = number[w]
    <2>1. parse(data[1], w, data) =
            IF Len(data) # 1 + w \/ data[1] # data[1] THEN Invalid ELSE number[w]
      BY Zenon DEF parse
    <2> HIDE DEF number
    <2> QED  BY <2>1
  <1> HIDE DEF number
  <1>10. number[0] = 0 /\ DOMAIN number = 0..w
         /\ \A i \in 0..(w - 1) : number[i + 1] = number[i] + data[i + 2] * Power[i]
    <2>1. DOMAIN number = 0..w
          /\ \A i \in 0..w : number[i] =
               IF i = 0 THEN 0 ELSE number[i - 1] + data[i + 1] * Power[i - 1]
      BY <1>8
    <2>2. ASSUME NEW i \in 0..(w - 1)
          PROVE  number[i + 1] = number[i] + data[i + 2] * Power[i]
      <3>1. i + 1 \in 0..w /\ i + 1 # 0 /\ (i + 1) - 1 = i /\ (i + 1) + 1 = i + 2
        OBVIOUS
      <3> QED  BY <2>1, <3>1
    <2> QED  BY <2>1, <2>2
  <1>11. \A i \in 0..w : number[i] \in Nat
    <2> DEFINE K == {i \in Nat : i <= w => number[i] \in Nat}
    <2>1. 0 \in K  BY <1>10
    <2>2. ASSUME NEW i \in K PROVE i + 1 \in K
      <3>1. i \in Nat /\ (i <= w => number[i] \in Nat)  OBVIOUS
      <3> SUFFICES ASSUME i + 1 <= w PROVE number[i + 1] \in Nat  BY <3>1
      <3>2. i \in 0..(w - 1) /\ number[i] \in Nat  BY <3>1
      <3>3. PICK d \in Nat : d = data[i + 2] * Power[i]  BY <1>2, <3>2
      <3>4. number[i + 1] = number[i] + d  BY <1>10, <3>2, <3>3
      <3> QED  BY <3>2, <3>3, <3>4
    <2>3. K \in SUBSET Nat  OBVIOUS
    <2> HIDE DEF K
    <2>4. \A i \in Nat : i \in K  BY <2>1, <2>2, <2>3, EveryNatural
    <2> QED  BY <2>4 DEF K
  <1>12. number \in [0..w -> Nat]
    <2>1. number = [i \in 0..w |-> number[i]]  BY <1>8
    <2> QED  BY <1>11, <2>1
  <1>13. Reads(w, data, number)  BY <1>10, <1>12 DEF Reads
  <1> QED  BY <1>9, <1>13

-----------------------------------------------------------------------------
(* Powers are positive. *)
LEMMA PowerPositive == \A i \in Nat : Power[i] \in Nat /\ Power[i] > 0
  <1>1. Power \in [Nat -> Nat \ {0}]  BY PowerIs
  <1> QED  BY <1>1

\* d is a selector and the w digits of x.
Encodes(sel, w, x, d) ==
  /\ d \in Seq(Nat) /\ Len(d) = 1 + w /\ d[1] = sel
  /\ \A i \in 0..(w - 1) : d[i + 2] = (x \div Power[i]) % Byte

(* The bytes of an instruction. *)
LEMMA EncodeIs ==
  ASSUME NEW sel \in Nat, NEW w \in Nat, NEW x \in Nat
  PROVE  Encodes(sel, w, x, encode(sel, w, x))
  <1> DEFINE s == [i \in 1..w |-> (x \div Power[i - 1]) % Byte]
  <1>1. Byte \in Nat /\ Byte > 0  BY FeesAssumption DEF FeesAssumption
  <1>2. \A i \in Nat : Power[i] \in Nat /\ Power[i] > 0
    BY PowerPositive
  <1>3. \A i \in Nat : (x \div Power[i]) % Byte \in Nat
    <2> SUFFICES ASSUME NEW i \in Nat PROVE (x \div Power[i]) % Byte \in Nat
      OBVIOUS
    <2>1. PICK P \in Nat : P = Power[i] /\ P > 0  BY <1>2
    <2>2. x \div P \in Nat  BY <2>1, ModRange
    <2>3. PICK q \in Nat : q = x \div P  BY <2>2
    <2>4. q % Byte \in Nat  BY <1>1
    <2> QED  BY <2>1, <2>3, <2>4, Zenon
  <1>4. s \in Seq(Nat) /\ Len(s) = w
    <2>1. \A i \in 1..w : s[i] \in Nat
      <3> SUFFICES ASSUME NEW i \in 1..w PROVE s[i] \in Nat  OBVIOUS
      <3>1. i - 1 \in Nat  OBVIOUS
      <3>2. (x \div Power[i - 1]) % Byte \in Nat  BY <1>3, <3>1
      <3> QED  BY <3>2
    <2> QED  BY <2>1
  <1>5. \A i \in 0..(w - 1) : s[i + 1] = (x \div Power[i]) % Byte
    <2> SUFFICES ASSUME NEW i \in 0..(w - 1)
                 PROVE  s[i + 1] = (x \div Power[i]) % Byte
      OBVIOUS
    <2>1. i + 1 \in 1..w /\ (i + 1) - 1 = i  OBVIOUS
    <2> QED  BY <2>1
  <1>6. encode(sel, w, x) = <<sel>> \o s  BY Zenon DEF encode
  <1> HIDE DEF s
  <1>7. PICK d : d = <<sel>> \o s  OBVIOUS
  <1>8. /\ d \in Seq(Nat) /\ Len(d) = 1 + w /\ d[1] = sel
        /\ \A i \in 0..(w - 1) : d[i + 2] = s[i + 1]
    <2>1. d \in Seq(Nat) /\ Len(d) = 1 + w  BY <1>4, <1>7
    <2>2. d[1] = sel  BY <1>4, <1>7
    <2>3. ASSUME NEW i \in 0..(w - 1) PROVE d[i + 2] = s[i + 1]
      BY <1>4, <1>7
    <2> QED  BY <2>1, <2>2, <2>3
  <1> QED  BY <1>5, <1>6, <1>7, <1>8 DEF Encodes

(* What was encoded is parsed, if it fits. *)
LEMMA RoundTrip ==
  ASSUME NEW sel \in Nat, NEW w \in Nat, NEW x \in Nat, x < Power[w]
  PROVE  parse(sel, w, encode(sel, w, x)) = x
  <1>1. PICK d \in Seq(Nat) :
          /\ d = encode(sel, w, x) /\ Len(d) = 1 + w /\ d[1] = sel
          /\ \A i \in 0..(w - 1) : d[i + 2] = (x \div Power[i]) % Byte
    <2>1. Encodes(sel, w, x, encode(sel, w, x))  BY EncodeIs, Zenon
    <2> QED  BY <2>1, Zenon DEF Encodes
  <1>2. PICK f : Reads(w, d, f) /\ parse(sel, w, d) = f[w]
    BY <1>1, ParseIs
  <1>3. Byte \in Nat /\ Byte > 0  BY FeesAssumption DEF FeesAssumption
  <1>4. /\ \A i \in Nat : Power[i] \in Nat /\ Power[i] > 0
        /\ Power[0] = 1 /\ \A i \in Nat : Power[i + 1] = Byte * Power[i]
    <2>1. \A i \in Nat : Power[i] \in Nat /\ Power[i] > 0
      BY PowerPositive, Zenon
    <2>2. Power[0] = 1 /\ \A i \in Nat : Power[i + 1] = Byte * Power[i]
      BY PowerIs, Zenon
    <2> QED  BY <2>1, <2>2, Zenon
  <1> DEFINE K == {i \in Nat : i <= w => f[i] = x % Power[i]}
  <1>5. 0 \in K
    <2>1. f[0] = 0  BY <1>2 DEF Reads
    <2>2. x % 1 = 0  OBVIOUS
    <2> QED  BY <1>4, <2>1, <2>2
  <1>6. ASSUME NEW i \in K PROVE i + 1 \in K
    <2>1. i \in Nat /\ (i <= w => f[i] = x % Power[i])  OBVIOUS
    <2> SUFFICES ASSUME i + 1 <= w PROVE f[i + 1] = x % Power[i + 1]  BY <2>1
    <2>2. i \in 0..(w - 1) /\ f[i] = x % Power[i]  BY <2>1
    <2>3. f[i + 1] = f[i] + d[i + 2] * Power[i]  BY <1>2, <2>2 DEF Reads
    <2>4. PICK P \in Nat : P = Power[i] /\ P > 0 /\ Power[i + 1] = Byte * P
      BY <1>4, <2>1
    <2>5. x % (Byte * P) = (x % P) + ((x \div P) % Byte) * P
      BY <1>3, <2>4, OneMoreDigit, Zenon
    <2>6. d[i + 2] = (x \div P) % Byte  BY <1>1, <2>2, <2>4, Zenon
    <2> QED  BY <2>2, <2>3, <2>4, <2>5, <2>6, Zenon
  <1>7. \A i \in Nat : i \in K
    <2>1. K \in SUBSET Nat  OBVIOUS
    <2> HIDE DEF K
    <2> QED  BY <1>5, <1>6, <2>1, EveryNatural
  <1>8. f[w] = x % Power[w]  BY <1>7
  <1>9. x % Power[w] = x
    <2>1. PICK P \in Nat : P = Power[w] /\ P > 0  BY <1>4
    <2>2. x % P = x  BY <2>1, SmallMod, Zenon
    <2> QED  BY <2>1, <2>2, Zenon
  <1> QED  BY <1>1, <1>2, <1>8, <1>9

-----------------------------------------------------------------------------
(* The largest price. *)
LEMMA MaxUintIs == MaxUint \in Nat /\ MaxUint >= 1 /\ Power[PriceLen] = MaxUint + 1
  <1>1. Byte \in Nat /\ Byte >= 2 /\ PriceLen \in Nat /\ PriceLen - 1 \in Nat
        /\ (PriceLen - 1) + 1 = PriceLen
    BY FeesAssumption DEF FeesAssumption
  <1>2. Power \in [Nat -> Nat \ {0}] /\ \A n \in Nat : Power[n + 1] = Byte * Power[n]
    BY PowerIs
  <1>3. PICK P \in Nat : P = Power[PriceLen - 1] /\ P > 0  BY <1>1, <1>2
  <1>4. Power[PriceLen] = Byte * P  BY <1>1, <1>2, <1>3
  <1>5. Byte * P \in Nat /\ Byte * P >= 2
    <2>1. PICK e \in Nat : Byte = 2 + e  BY <1>1, Byte = 2 + (Byte - 2)
    <2>2. Byte * P = 2 * P + e * P /\ e * P >= 0  BY <2>1
    <2> QED  BY <1>3, <2>2
  <1> QED  BY <1>4, <1>5 DEF MaxUint

\* g doubles base, from 1 at least, up to n times.
Doubles(base, n, g) ==
  /\ g \in [0..n -> Nat] /\ g[0] = base
  /\ \A i \in 0..(n - 1) : g[i + 1] = IF g[i] = 0 THEN 1 ELSE 2 * g[i]

(* What Doubled is. *)
LEMMA DoubledIs ==
  ASSUME NEW base \in Nat, NEW n \in Nat
  PROVE  \E g : Doubles(base, n, g) /\ Doubled(base, n) = g[n]
  <1> DEFINE N == [i \in Nat |-> [x \in Nat |-> IF x = 0 THEN 1 ELSE 2 * x]]
             Is(f) == f = [i \in 0..n |->
                             IF i = 0 THEN base
                             ELSE IF f[i - 1] = 0 THEN 1 ELSE 2 * f[i - 1]]
             amount == CHOOSE f : Is(f)
  <1>1. N \in [Nat -> [Nat -> Nat]]  OBVIOUS
  <1>2. PICK V : V = Nat  OBVIOUS
  <1>3. PICK f : Bounded(V, base, N, n, f)
    <2>1. Steps(V, N)  BY <1>1, <1>2, Zenon DEF Steps
    <2> HIDE DEF N
    <2> QED  BY <1>2, <2>1, BoundedRecursion, Zenon
  <1>4. f \in [0..n -> Nat]
        /\ f = [i \in 0..n |-> IF i = 0 THEN base ELSE N[i - 1][f[i - 1]]]
    BY <1>2, <1>3, Zenon DEF Bounded
  <1>5. Is(f)
    <2>1. ASSUME NEW i \in 0..n
          PROVE  f[i] = IF i = 0 THEN base
                        ELSE IF f[i - 1] = 0 THEN 1 ELSE 2 * f[i - 1]
      <3>1. CASE i = 0  BY <1>4, <3>1
      <3>2. CASE i # 0
        <4>1. i - 1 \in Nat /\ i - 1 \in 0..n  BY <3>2
        <4>2. f[i - 1] \in Nat  BY <1>4, <4>1
        <4>3. f[i] = N[i - 1][f[i - 1]]  BY <1>4, <3>2
        <4> QED  BY <3>2, <4>1, <4>2, <4>3
      <3> QED  BY <3>1, <3>2
    <2> QED  BY <1>4, <2>1
  <1>6. Is(amount)
    <2> HIDE DEF Is
    <2> QED  BY <1>5, Zenon
  <1>7. Doubled(base, n) = amount[n]  BY Zenon DEF Doubled
  <1> HIDE DEF amount
  <1>8. amount[0] = base
        /\ \A i \in 0..(n - 1) :
             amount[i + 1] = IF amount[i] = 0 THEN 1 ELSE 2 * amount[i]
    <2>1. \A i \in 0..n : amount[i] =
            IF i = 0 THEN base ELSE IF amount[i - 1] = 0 THEN 1 ELSE 2 * amount[i - 1]
      BY <1>6
    <2>2. ASSUME NEW i \in 0..(n - 1)
          PROVE  amount[i + 1] = IF amount[i] = 0 THEN 1 ELSE 2 * amount[i]
      <3>1. i + 1 \in 0..n /\ i + 1 # 0 /\ (i + 1) - 1 = i  OBVIOUS
      <3> QED  BY <2>1, <3>1
    <2>3. 0 \in 0..n  OBVIOUS
    <2> QED  BY <2>1, <2>2, <2>3
  <1>9. \A i \in 0..n : amount[i] \in Nat
    <2> DEFINE K == {i \in Nat : i <= n => amount[i] \in Nat}
    <2>1. 0 \in K  BY <1>8
    <2>2. ASSUME NEW i \in K PROVE i + 1 \in K
      <3>1. i \in Nat /\ (i <= n => amount[i] \in Nat)  OBVIOUS
      <3> SUFFICES ASSUME i + 1 <= n PROVE amount[i + 1] \in Nat  BY <3>1
      <3>2. i \in 0..(n - 1) /\ amount[i] \in Nat  BY <3>1
      <3> QED  BY <1>8, <3>2
    <2>3. K \in SUBSET Nat  OBVIOUS
    <2> HIDE DEF K
    <2>4. \A i \in Nat : i \in K  BY <2>1, <2>2, <2>3, EveryNatural
    <2> QED  BY <2>4 DEF K
  <1>10. amount \in [0..n -> Nat]
    <2>1. amount = [i \in 0..n |-> amount[i]]  BY <1>6
    <2> QED  BY <1>9, <2>1
  <1>11. Doubles(base, n, amount)  BY <1>8, <1>10 DEF Doubles
  <1> QED  BY <1>7, <1>11

-----------------------------------------------------------------------------
\* A fee inside the limits.
Limited(fee) ==
  IF fee > MaxPrice THEN MaxPrice ELSE IF fee < MinPrice THEN MinPrice ELSE fee

\* The next amount of CalculateFee, Overflow being -1.
NextFee(base, i, x) ==
  IF base = 0 /\ i = 1 THEN 1
  ELSE IF x = -1 THEN -1
  ELSE LET next == (2 * x) % (MaxUint + 1) IN IF next <= x THEN -1 ELSE next

\* a are the amounts of CalculateFee.
Amounts(base, n, a) ==
  a[0] = base /\ \A i \in 0..(n - 1) : a[i + 1] = NextFee(base, i + 1, a[i])

(* CalculateFee is about such amounts. *)
LEMMA FeeAmounts ==
  ASSUME NEW base \in Nat, NEW max, NEW min, NEW n \in Nat
  PROVE  \E a : /\ Amounts(base, n, a)
                /\ CalculateFee(base, max, min, n) =
                     LET final == IF a[n] = -1 THEN max ELSE a[n]
                     IN  IF final < min THEN min ELSE IF final > max THEN max ELSE final
  <1> DEFINE V == Nat \cup {-1}
             N == [i \in Nat |-> [x \in V |-> NextFee(base, i + 1, x)]]
             Is(f) == f = [i \in 0..n |->
                        IF i = 0 THEN base
                        ELSE IF base = 0 /\ i = 1 THEN 1
                        ELSE IF f[i - 1] = -1 THEN -1
                        ELSE LET next == (2 * f[i - 1]) % (MaxUint + 1)
                             IN  IF next <= f[i - 1] THEN -1 ELSE next]
             amount == CHOOSE f : Is(f)
  <1>1. N \in [Nat -> [V -> V]]
    <2> SUFFICES ASSUME NEW i \in Nat, NEW x \in V PROVE NextFee(base, i + 1, x) \in V
      OBVIOUS
    <2>1. CASE x = -1  BY <2>1 DEF NextFee
    <2>2. CASE x # -1
      <3>1. PICK g \in Nat : g = MaxUint + 1 /\ g > 0  BY MaxUintIs
      <3>2. PICK y \in Nat : y = 2 * x  BY <2>2
      <3>3. y % g \in Nat  BY <3>1, ModRange
      <3>4. PICK z \in Nat : z = (2 * x) % (MaxUint + 1)  BY <3>1, <3>2, <3>3
      <3> QED  BY <2>2, <3>4 DEF NextFee
    <2> QED  BY <2>1, <2>2
  <1>2. PICK W : W = V  OBVIOUS
  <1>3. PICK f : Bounded(W, base, N, n, f)
    <2>1. Steps(W, N) /\ base \in W  BY <1>1, <1>2 DEF Steps
    <2> HIDE DEF N, V
    <2> QED  BY <2>1, BoundedRecursion, Zenon
  <1>4. /\ f \in [0..n -> V]
        /\ f = [i \in 0..n |-> IF i = 0 THEN base ELSE N[i - 1][f[i - 1]]]
    BY <1>2, <1>3, Zenon DEF Bounded
  <1>5. Is(f)
    <2>1. ASSUME NEW i \in 0..n
          PROVE  f[i] = IF i = 0 THEN base ELSE NextFee(base, i, f[i - 1])
      <3>1. CASE i = 0  BY <1>4, <3>1
      <3>2. CASE i # 0
        <4>1. i - 1 \in Nat /\ i - 1 \in 0..n /\ (i - 1) + 1 = i  BY <3>2
        <4>2. f[i - 1] \in V  BY <1>4, <4>1
        <4>3. f[i] = N[i - 1][f[i - 1]]  BY <1>4, <3>2
        <4>4. N[i - 1][f[i - 1]] = NextFee(base, (i - 1) + 1, f[i - 1])
          BY <4>1, <4>2
        <4> QED  BY <3>2, <4>1, <4>3, <4>4
      <3> QED  BY <3>1, <3>2
    <2>2. f = [i \in 0..n |-> f[i]]  BY <1>4
    <2> QED  BY <2>1, <2>2 DEF NextFee
  <1>6. Is(amount)
    <2> HIDE DEF Is
    <2> QED  BY <1>5, Zenon
  <1>7. CalculateFee(base, max, min, n) =
          LET final == IF amount[n] = -1 THEN max ELSE amount[n]
          IN  IF final < min THEN min ELSE IF final > max THEN max ELSE final
    BY Zenon DEF CalculateFee
  <1> HIDE DEF amount
  <1>8. \A i \in 0..n :
          amount[i] = IF i = 0 THEN base ELSE NextFee(base, i, amount[i - 1])
    BY <1>6 DEF NextFee
  <1>9. Amounts(base, n, amount)
    <2>1. ASSUME NEW i \in 0..(n - 1)
          PROVE  amount[i + 1] = NextFee(base, i + 1, amount[i])
      <3>1. i + 1 \in 0..n /\ i + 1 # 0 /\ (i + 1) - 1 = i  OBVIOUS
      <3> QED  BY <1>8, <3>1
    <2>2. 0 \in 0..n  OBVIOUS
    <2> QED  BY <1>8, <2>1, <2>2 DEF Amounts
  <1> HIDE DEF Is
  <1> QED  BY <1>7, <1>9

(* The next amount is the double, until that is more than a price holds. *)
LEMMA NextFeeIs ==
  ASSUME NEW base \in Nat, NEW i \in Nat, NEW x \in 0..MaxUint, x = 0 <=> base = 0 /\ i = 0
  PROVE  LET d == IF x = 0 THEN 1 ELSE 2 * x
         IN  NextFee(base, i + 1, x) = IF d <= MaxUint THEN d ELSE -1
  <1>1. MaxUint \in Nat /\ MaxUint >= 1  BY MaxUintIs
  <1>2. CASE x = 0  BY <1>1, <1>2 DEF NextFee
  <1>3. CASE x # 0
    <2>1. PICK g \in Nat : g = MaxUint + 1 /\ g > 0  BY <1>1
    <2>2. PICK y \in Nat : y = 2 * x  BY <1>1
    <2>3. /\ y < g => y % g = y
          /\ g <= y /\ y < 2 * g => y % g = y - g
      BY <2>1, SmallMod
    <2>4. NextFee(base, i + 1, x) = IF y % g <= x THEN -1 ELSE y % g
      BY <1>1, <1>3, <2>1, <2>2 DEF NextFee
    <2> QED  BY <1>1, <1>3, <2>1, <2>2, <2>3, <2>4
  <1> QED  BY <1>2, <1>3

(* A fee is a price; it is the base doubled, inside the limits if these *)
(* are in order. *)
LEMMA FeeIs ==
  ASSUME NEW base \in 0..MaxUint, NEW n \in Nat
  PROVE  /\ CalculateFee(base, MaxPrice, MinPrice, n) \in 0..MaxUint
         /\ MinPrice <= MaxPrice =>
              CalculateFee(base, MaxPrice, MinPrice, n) = Limited(Doubled(base, n))
  <1>1. /\ MinPrice \in Nat /\ MaxPrice \in Nat /\ MinPrice <= MaxUint
        /\ MaxPrice <= MaxUint /\ MaxUint \in Nat /\ MaxUint >= 1
    BY FeesAssumption, MaxUintIs DEF FeesAssumption
  <1>2. base \in Nat /\ base <= MaxUint  BY <1>1
  <1>3. PICK a : /\ Amounts(base, n, a)
                 /\ CalculateFee(base, MaxPrice, MinPrice, n) =
                      LET final == IF a[n] = -1 THEN MaxPrice ELSE a[n]
                      IN  IF final < MinPrice THEN MinPrice
                          ELSE IF final > MaxPrice THEN MaxPrice ELSE final
    BY <1>2, FeeAmounts
  <1>4. PICK g : Doubles(base, n, g) /\ Doubled(base, n) = g[n]
    BY <1>2, DoubledIs
  <1>5. /\ g \in [0..n -> Nat] /\ g[0] = base
        /\ \A i \in 0..(n - 1) : g[i + 1] = IF g[i] = 0 THEN 1 ELSE 2 * g[i]
    BY <1>4 DEF Doubles
  <1>6. a[0] = base /\ \A i \in 0..(n - 1) : a[i + 1] = NextFee(base, i + 1, a[i])
    BY <1>3 DEF Amounts
  <1> DEFINE K == {i \in Nat : i <= n =>
                     /\ a[i] = IF g[i] <= MaxUint THEN g[i] ELSE -1
                     /\ g[i] = 0 <=> base = 0 /\ i = 0}
  <1>7. 0 \in K  BY <1>2, <1>5, <1>6
  <1>8. ASSUME NEW i \in K PROVE i + 1 \in K
    <2>1. i \in Nat
          /\ (i <= n => /\ a[i] = IF g[i] <= MaxUint THEN g[i] ELSE -1
                        /\ g[i] = 0 <=> base = 0 /\ i = 0)
      OBVIOUS
    <2> SUFFICES ASSUME i + 1 <= n
                 PROVE  /\ a[i + 1] = IF g[i + 1] <= MaxUint THEN g[i + 1] ELSE -1
                        /\ g[i + 1] # 0
      BY <2>1
    <2>2. i \in 0..(n - 1) /\ i \in 0..n /\ i <= n  BY <2>1
    <2>3. g[i] \in Nat /\ g[i + 1] = IF g[i] = 0 THEN 1 ELSE 2 * g[i]
      BY <1>5, <2>2
    <2>4. a[i + 1] = NextFee(base, i + 1, a[i])  BY <1>6, <2>2
    <2>5. a[i] = IF g[i] <= MaxUint THEN g[i] ELSE -1
      BY <2>1, <2>2
    <2>6. g[i] = 0 <=> base = 0 /\ i = 0  BY <2>1, <2>2
    <2>7. CASE g[i] <= MaxUint
      <3>1. PICK x \in 0..MaxUint : x = g[i]  BY <1>1, <2>3, <2>7
      <3>2. a[i] = x  BY <2>5, <2>7, <3>1
      <3>3. LET d == IF x = 0 THEN 1 ELSE 2 * x
            IN  NextFee(base, i + 1, x) = IF d <= MaxUint THEN d ELSE -1
        BY <1>2, <2>1, <2>6, <3>1, NextFeeIs
      <3> QED  BY <2>3, <2>4, <3>1, <3>2, <3>3
    <2>8. CASE ~(g[i] <= MaxUint)
      <3>1. a[i] = -1 /\ g[i] > MaxUint  BY <1>1, <2>3, <2>5, <2>8
      <3>2. ~(base = 0 /\ i + 1 = 1)  BY <1>1, <2>1, <2>3, <2>6, <3>1
      <3>3. a[i + 1] = -1  BY <2>4, <3>1, <3>2 DEF NextFee
      <3> QED  BY <1>1, <2>3, <3>1, <3>3
    <2> QED  BY <2>7, <2>8
  <1>9. K \in SUBSET Nat  OBVIOUS
  <1> HIDE DEF K
  <1>10. \A i \in Nat : i \in K  BY <1>7, <1>8, <1>9, EveryNatural
  <1>11. a[n] = IF g[n] <= MaxUint THEN g[n] ELSE -1
    BY <1>10 DEF K
  <1>12. g[n] \in Nat  BY <1>5
  <1>13. CASE g[n] <= MaxUint
    BY <1>1, <1>3, <1>4, <1>11, <1>12, <1>13 DEF Limited
  <1>14. CASE ~(g[n] <= MaxUint)
    BY <1>1, <1>3, <1>4, <1>11, <1>12, <1>14 DEF Limited
  <1> QED  BY <1>13, <1>14

-----------------------------------------------------------------------------
(* An element of a sequence. *)
LEMMA MemberOf ==
  ASSUME NEW S, NEW s \in Seq(S), NEW i \in DOMAIN s
  PROVE  s[i] \in S
  OBVIOUS

(* A price that is read is a natural. *)
LEMMA ParseType ==
  ASSUME NEW sel \in Nat, NEW w \in Nat, NEW data \in Seq(Nat)
  PROVE  parse(sel, w, data) # Invalid => parse(sel, w, data) \in Nat
  <1> SUFFICES ASSUME parse(sel, w, data) # Invalid PROVE parse(sel, w, data) \in Nat
    OBVIOUS
  <1>1. Len(data) = 1 + w /\ data[1] = sel  BY DEF parse
  <1>2. PICK f : Reads(w, data, f) /\ parse(data[1], w, data) = f[w]
    BY <1>1, ParseIs
  <1>3. f[w] \in Nat  BY <1>2 DEF Reads
  <1> QED  BY <1>1, <1>2, <1>3

(* The price of a transaction in a block. *)
LEMMA PriceOfType ==
  ASSUME NEW ins \in Seq([program : PublicKeys, data : Seq(Nat)])
  PROVE  PriceOf(ins) \in Nat
  <1> DEFINE P == {i \in DOMAIN ins :
                     /\ ins[i].program = ComputeBudgetProgram
                     /\ ParseComputeUnitPrice(ins[i].data) # Invalid}
             m == CHOOSE i \in P : \A j \in P : i <= j
  <1>1. CASE P = {}  BY <1>1 DEF PriceOf
  <1>2. CASE P # {}
    <2>1. m \in P
      <3>1. P \in SUBSET Nat  OBVIOUS
      <3> HIDE DEF P
      <3>2. \E i \in P : \A j \in P : i <= j  BY <1>2, <3>1, LeastOf
      <3> QED  BY <3>2, Zenon
    <2>2. ins[m].data \in Seq(Nat) /\ ParseComputeUnitPrice(ins[m].data) # Invalid
      <3>1. m \in DOMAIN ins /\ ParseComputeUnitPrice(ins[m].data) # Invalid  BY <2>1
      <3> HIDE DEF m
      <3>2. ins[m] \in [program : PublicKeys, data : Seq(Nat)]  BY <3>1, MemberOf, Zenon
      <3> QED  BY <3>1, <3>2
    <2>3. PriceLen \in Nat /\ SetPrice \in Nat
      BY FeesAssumption DEF FeesAssumption, SetPrice
    <2>4. ParseComputeUnitPrice(ins[m].data) \in Nat
      BY <2>2, <2>3, ParseType DEF ParseComputeUnitPrice
    <2>5. PriceOf(ins) = ParseComputeUnitPrice(ins[m].data)
      BY <1>2, Zenon DEF PriceOf
    <2> QED  BY <2>4, <2>5
  <1> QED  BY <1>1, <1>2

(* The prices of a block: some of its transactions' *)
LEMMA BlockPrices ==
  ASSUME NEW block \in Blocks
  PROVE  /\ ParseBlock(block) \in [DOMAIN ParseBlock(block) -> Nat]
         /\ IsFiniteSet(DOMAIN ParseBlock(block))
  <1> DEFINE C == {i \in DOMAIN block :
                    /\ block[i].meta
                    /\ ~ (/\ Len(block[i].instructions) = 1
                          /\ block[i].instructions[1].program = "Vote")}
  <1>1. block \in Seq([meta : BOOLEAN, instructions : Seq([program : PublicKeys, data : Seq(Nat)])])
    BY FeesAssumption DEF FeesAssumption
  <1>2. ASSUME NEW i \in C PROVE PriceOf(block[i].instructions) \in Nat
    <2>1. i \in DOMAIN block  OBVIOUS
    <2>2. block[i].instructions \in Seq([program : PublicKeys, data : Seq(Nat)])
      <3>1. block[i] \in [meta : BOOLEAN, instructions : Seq([program : PublicKeys, data : Seq(Nat)])]
        BY <1>1, <2>1, MemberOf, Zenon
      <3> QED  BY <3>1
    <2> QED  BY <2>2, PriceOfType
  <1>3. ParseBlock(block) = [i \in C |-> PriceOf(block[i].instructions)]
    BY Zenon DEF ParseBlock
  <1>4. IsFiniteSet(C)
    <2>1. C \subseteq 1..Len(block)  BY <1>1
    <2>2. IsFiniteSet(1..Len(block))  BY <1>1, FS_Interval
    <2> HIDE DEF C
    <2> QED  BY <2>1, <2>2, FS_Subset
  <1> HIDE DEF C
  <1> QED  BY <1>2, <1>3, <1>4

(* A median of naturals is one. *)
LEMMA MedianType ==
  ASSUME NEW D, IsFiniteSet(D), D # {}, NEW prices \in [D -> Nat],
         NEW order \in [1..Cardinality(D) -> D]
  PROVE  MedianPrice(prices, order) \in Nat
  <1>1. PICK n \in Nat : n = Cardinality(D) /\ n > 0
    <2>1. Cardinality(D) \in Nat /\ Cardinality(D) # 0
      BY FS_CardinalityType, FS_EmptySet
    <2> QED  BY <2>1
  <1>2. DOMAIN prices = D  OBVIOUS
  <1>3. \A i \in 1..n : prices[order[i]] \in Nat  BY <1>1
  <1>4. CASE n % 2 = 1
    <2>1. (n + 1) \div 2 \in 1..n  BY <1>1, <1>4
    <2> QED  BY <1>1, <1>2, <1>3, <1>4, <2>1 DEF MedianPrice
  <1>5. CASE n % 2 # 1
    <2>1. n \div 2 \in 1..n /\ n \div 2 + 1 \in 1..n  BY <1>1, <1>5
    <2>2. PICK a \in Nat, b \in Nat :
            a = prices[order[n \div 2]] /\ b = prices[order[n \div 2 + 1]]
      BY <1>3, <2>1
    <2>3. MedianPrice(prices, order) = (a + b) \div 2
      BY <1>1, <1>2, <1>5, <2>2 DEF MedianPrice
    <2>4. (a + b) \div 2 \in Nat  BY <2>2
    <2> QED  BY <2>3, <2>4
  <1> QED  BY <1>4, <1>5

(* The price of the estimator stays a natural. *)
LEMMA PriceType ==
  ASSUME price \in Nat, calculatePrice
  PROVE  price' \in Nat
  <1>1. PICK block \in Blocks :
          LET prices == ParseBlock(block)
          IN  /\ DOMAIN prices # {}
              /\ \E order \in ByPrice(prices) : price' = MedianPrice(prices, order)
    BY Zenon DEF calculatePrice
  <1>2. PICK order \in ByPrice(ParseBlock(block)) :
          price' = MedianPrice(ParseBlock(block), order)
    BY <1>1
  <1>3. PICK D, p : D = DOMAIN ParseBlock(block) /\ p = ParseBlock(block)
    OBVIOUS
  <1>4. p \in [D -> Nat] /\ IsFiniteSet(D) /\ D # {} /\ DOMAIN p = D
    BY <1>1, <1>3, BlockPrices
  <1>5. order \in [1..Cardinality(D) -> D]
    BY <1>2, <1>3, <1>4, Zenon DEF ByPrice
  <1> QED  BY <1>2, <1>3, <1>4, <1>5, MedianType

(* The price of a job fits. *)
LEMMA BaseType == price \in Nat => BaseComputeUnitPrice \in 0..MaxUint
  <1>1. /\ MinPrice \in Nat /\ MaxPrice \in Nat /\ MinPrice <= MaxUint
        /\ MaxPrice <= MaxUint /\ MaxUint \in Nat
    BY FeesAssumption, MaxUintIs DEF FeesAssumption
  <1>2. CASE price < MinPrice  BY <1>1, <1>2 DEF BaseComputeUnitPrice
  <1>3. CASE price > MaxPrice  BY <1>1, <1>3 DEF BaseComputeUnitPrice
  <1>4. ASSUME price \in Nat, ~(price < MinPrice), ~(price > MaxPrice)
        PROVE  BaseComputeUnitPrice \in 0..MaxUint
    <2>1. BaseComputeUnitPrice = price  BY <1>4 DEF BaseComputeUnitPrice
    <2> QED  BY <1>1, <1>4, <2>1
  <1> QED  BY <1>1, <1>2, <1>3, <1>4

-----------------------------------------------------------------------------
(***************************************************************************)
(* Slices of arrays.                                                       *)
(***************************************************************************)
Heap(V, h) == h \in Seq(Seq(V))

\* The slice s holds xs.
InSlice(h, s, xs) ==
  /\ s \in [array : Nat, len : Nat] /\ s.array \in 1..Len(h)
  /\ s.len = Len(xs) /\ s.len <= Len(h[s.array])
  /\ \A i \in 1..Len(xs) : h[s.array][i] = xs[i]

(* What a slice holds is its contents. *)
LEMMA ContentsAre ==
  ASSUME NEW V, NEW h, Heap(V, h), NEW xs \in Seq(V), NEW s, InSlice(h, s, xs)
  PROVE  Contents(h, s) = xs
  <1>1. /\ h \in Seq(Seq(V)) /\ s.array \in 1..Len(h) /\ s.len = Len(xs)
        /\ s.len <= Len(h[s.array])
        /\ \A i \in 1..Len(xs) : h[s.array][i] = xs[i]
    BY DEF Heap, InSlice
  <1>2. PICK a \in Seq(V) : a = h[s.array]  BY <1>1
  <1>3. Contents(h, s) = SubSeq(a, 1, Len(xs))  BY <1>1, <1>2 DEF Contents
  <1>4. SubSeq(a, 1, Len(xs)) = xs
    <2>1. Len(xs) \in Nat /\ Len(xs) <= Len(a)  BY <1>1, <1>2
    <2>2. Len(SubSeq(a, 1, Len(xs))) = Len(xs)  BY <2>1
    <2>3. \A i \in 1..Len(xs) : SubSeq(a, 1, Len(xs))[i] = xs[i]
      BY <1>1, <1>2, <2>1
    <2>4. SubSeq(a, 1, Len(xs)) \in Seq(V)  BY <2>1
    <2> QED  BY <2>2, <2>3, <2>4, SeqEqual
  <1> QED  BY <1>3, <1>4

\* h2 is a heap with what h had in t.
Keeps(V, h, h2, t, ys) ==
  Heap(V, h2) /\ Len(h2) >= Len(h) /\ InSlice(h2, t, ys)

\* R has a heap and a slice of it that holds xs, in the array of s or a new one.
Yields(V, h, s, xs, R) ==
  /\ Heap(V, R.heap) /\ Len(R.heap) >= Len(h)
  /\ InSlice(R.heap, R.slice, xs)
  /\ R.slice.array = s.array \/ R.slice.array = Len(h) + 1

(* A new array. *)
LEMMA AllocYields ==
  ASSUME NEW V, Spare \in V, NEW h, Heap(V, h), NEW xs \in Seq(V), NEW s
  PROVE  /\ Yields(V, h, s, xs, Alloc(h, xs))
         /\ Alloc(h, xs).slice.array = Len(h) + 1
  <1>1. h \in Seq(Seq(V))  BY DEF Heap
  <1>2. PICK a \in Seq(V) : a = xs \o <<Spare>>
    <2>1. PICK z \in Seq(V) : z = <<Spare>>
      <3>1. <<Spare>> \in Seq(V)  OBVIOUS
      <3> QED  BY <3>1
    <2>2. xs \o z \in Seq(V)  BY <2>1
    <2> QED  BY <2>1, <2>2
  <1>3. Len(a) = Len(xs) + 1 /\ \A i \in 1..Len(xs) : a[i] = xs[i]
    BY <1>2
  <1>4. PICK T : T = Seq(V)  OBVIOUS
  <1>5. PICK h2 \in Seq(T) : h2 = Append(h, a)
    <2>1. h \in Seq(T) /\ a \in T  BY <1>1, <1>2, <1>4
    <2>2. Append(h, a) \in Seq(T)  BY <2>1
    <2> QED  BY <2>2
  <1>6. Len(h2) = Len(h) + 1 /\ h2[Len(h) + 1] = a /\ Len(h) \in Nat
    BY <1>1, <1>2, <1>4, <1>5
  <1>7. Alloc(h, xs) = [heap |-> h2, slice |-> [array |-> Len(h) + 1, len |-> Len(xs)]]
    BY <1>2, <1>5 DEF Alloc
  <1>8. PICK R : R = Alloc(h, xs)  OBVIOUS
  <1>9. R.heap = h2 /\ R.slice = [array |-> Len(h) + 1, len |-> Len(xs)]
    BY <1>7, <1>8
  <1>10. InSlice(h2, R.slice, xs)
    BY <1>3, <1>6, <1>9 DEF InSlice
  <1>11. Heap(V, h2)  BY <1>4, <1>5 DEF Heap
  <1> QED  BY <1>6, <1>8, <1>9, <1>10, <1>11 DEF Yields

(* It leaves the others alone. *)
LEMMA AllocKeeps ==
  ASSUME NEW V, Spare \in V, NEW h, Heap(V, h), NEW xs \in Seq(V), NEW t, NEW ys \in Seq(V),
         InSlice(h, t, ys)
  PROVE  Keeps(V, h, Alloc(h, xs).heap, t, ys)
  <1>1. h \in Seq(Seq(V))  BY DEF Heap
  <1>2. PICK a \in Seq(V) : a = xs \o <<Spare>>
    <2>1. PICK z \in Seq(V) : z = <<Spare>>
      <3>1. <<Spare>> \in Seq(V)  OBVIOUS
      <3> QED  BY <3>1
    <2>2. xs \o z \in Seq(V)  BY <2>1
    <2> QED  BY <2>1, <2>2
  <1>4. PICK T : T = Seq(V)  OBVIOUS
  <1>5. PICK h2 \in Seq(T) : h2 = Append(h, a)
    <2>1. h \in Seq(T) /\ a \in T  BY <1>1, <1>2, <1>4
    <2>2. Append(h, a) \in Seq(T)  BY <2>1
    <2> QED  BY <2>2
  <1>6. Len(h2) = Len(h) + 1 /\ Len(h) \in Nat /\ \A i \in 1..Len(h) : h2[i] = h[i]
    BY <1>1, <1>2, <1>4, <1>5
  <1>7. Alloc(h, xs).heap = h2
    BY <1>2, <1>5 DEF Alloc
  <1>8. InSlice(h2, t, ys)
    BY <1>6 DEF InSlice
  <1>9. Heap(V, h2)  BY <1>4, <1>5 DEF Heap
  <1> QED  BY <1>6, <1>7, <1>8, <1>9 DEF Keeps

Written(h, a, n, x) == [h EXCEPT ![a][n] = x]

\* Writing x at place n of array a does not change what t holds.
Harmless(a, n, x, t, ys) ==
  t.array # a \/ n > Len(ys) \/ (n \in Nat /\ n <= Len(ys) /\ ys[n] = x)

\* Only place n of array a is another afterwards.
WritesOnly(V, h, a, n, x) ==
  /\ Heap(V, Written(h, a, n, x)) /\ Len(Written(h, a, n, x)) = Len(h)
  /\ \A i \in 1..Len(h) : Written(h, a, n, x)[i] =
       IF i = a THEN [h[a] EXCEPT ![n] = x] ELSE h[i]

(* Writing to an array. *)
LEMMA WriteIs ==
  ASSUME NEW V, NEW h, Heap(V, h), NEW a \in 1..Len(h), NEW n \in 1..Len(h[a]), NEW x \in V
  PROVE  WritesOnly(V, h, a, n, x)
  <1>1. h \in Seq(Seq(V))  BY DEF Heap
  <1>2. PICK T : T = Seq(V)  OBVIOUS
  <1>3. h \in Seq(T)  BY <1>1, <1>2
  <1>4. h[a] \in Seq(V)  BY <1>2, <1>3
  <1>5. PICK b \in T : b = [h[a] EXCEPT ![n] = x]
    <2>1. [h[a] EXCEPT ![n] = x] \in Seq(V)  BY <1>4
    <2> QED  BY <1>2, <2>1
  <1>6. Written(h, a, n, x) = [h EXCEPT ![a] = b]  BY <1>5 DEF Written
  <1>7. [h EXCEPT ![a] = b] \in Seq(T)  BY <1>3
  <1>8. Len([h EXCEPT ![a] = b]) = Len(h)  BY <1>3
  <1>9. \A i \in 1..Len(h) : [h EXCEPT ![a] = b][i] = IF i = a THEN b ELSE h[i]
    BY <1>3
  <1> QED  BY <1>2, <1>5, <1>6, <1>7, <1>8, <1>9 DEF Heap, WritesOnly

LEMMA WriteKeeps ==
  ASSUME NEW V, NEW h, Heap(V, h), NEW a \in 1..Len(h), NEW n \in 1..Len(h[a]), NEW x \in V,
         NEW t, NEW ys \in Seq(V), InSlice(h, t, ys), Harmless(a, n, x, t, ys)
  PROVE  Keeps(V, h, Written(h, a, n, x), t, ys)
  <1>1. PICK h2 : h2 = Written(h, a, n, x)  OBVIOUS
  <1>2. /\ Heap(V, h2) /\ Len(h2) = Len(h)
        /\ \A i \in 1..Len(h) : h2[i] = IF i = a THEN [h[a] EXCEPT ![n] = x] ELSE h[i]
    <2>1. WritesOnly(V, h, a, n, x)  BY WriteIs
    <2> QED  BY <1>1, <2>1 DEF WritesOnly
  <1>3. h \in Seq(Seq(V))  BY DEF Heap
  <1>4. Len(h) \in Nat  BY <1>3
  <1>5. PICK b \in Seq(V) : b = h[a]  BY <1>3
  <1>6. Len([b EXCEPT ![n] = x]) = Len(b) /\ Len(b) \in Nat
        /\ \A i \in 1..Len(b) : [b EXCEPT ![n] = x][i] = IF i = n THEN x ELSE b[i]
    BY <1>5
  <1>7. InSlice(h2, t, ys)
    <2>1. /\ t \in [array : Nat, len : Nat] /\ t.array \in 1..Len(h)
          /\ t.len = Len(ys) /\ t.len <= Len(h[t.array])
          /\ \A i \in 1..Len(ys) : h[t.array][i] = ys[i]
      BY DEF InSlice
    <2>2. CASE t.array # a  BY <1>2, <2>1, <2>2 DEF InSlice
    <2>3. CASE t.array = a
      <3>1. h2[t.array] = [b EXCEPT ![n] = x]  BY <1>2, <1>5, <2>1, <2>3
      <3>2. \A i \in 1..Len(ys) : i \in 1..Len(b) /\ b[i] = ys[i]
        BY <1>5, <1>6, <2>1, <2>3
      <3>3. \A i \in 1..Len(ys) : i = n => ys[i] = x
        BY <2>3 DEF Harmless
      <3>4. \A i \in 1..Len(ys) : h2[t.array][i] = ys[i]
        BY <1>6, <3>1, <3>2, <3>3
      <3> QED  BY <1>2, <1>5, <1>6, <2>1, <2>3, <3>1, <3>4 DEF InSlice
    <2> QED  BY <2>2, <2>3
  <1>8. Len(h2) >= Len(h)  BY <1>2, <1>4
  <1> QED  BY <1>1, <1>2, <1>7, <1>8 DEF Keeps

-----------------------------------------------------------------------------
(* append: the slice that it returns holds one element more. *)
LEMMA AppendedYields ==
  ASSUME NEW V, Spare \in V, NEW h, Heap(V, h), NEW xs \in Seq(V), NEW s,
         InSlice(h, s, xs), NEW x \in V
  PROVE  Yields(V, h, s, Append(xs, x), Appended(h, s, x))
  <1>1. h \in Seq(Seq(V))  BY DEF Heap
  <1>2. /\ s \in [array : Nat, len : Nat] /\ s.array \in 1..Len(h)
        /\ s.len = Len(xs) /\ s.len <= Len(h[s.array])
        /\ \A i \in 1..Len(xs) : h[s.array][i] = xs[i]
    BY DEF InSlice
  <1>3. PICK a \in 1..Len(h), n \in Nat : a = s.array /\ n = s.len + 1
    BY <1>2
  <1>4. PICK b \in Seq(V) : b = h[a]  BY <1>1
  <1>5. PICK zs \in Seq(V) : zs = Append(xs, x)
    <2>1. Append(xs, x) \in Seq(V)  OBVIOUS
    <2> QED  BY <2>1
  <1>6. Len(zs) = Len(xs) + 1 /\ zs[Len(xs) + 1] = x
        /\ \A i \in 1..Len(xs) : zs[i] = xs[i]
    BY <1>5
  <1>7. CASE s.len < Len(h[s.array])
    <2>1. n \in 1..Len(h[a])  BY <1>2, <1>3, <1>4, <1>7
    <2>2. PICK h2 : h2 = Written(h, a, n, x)  OBVIOUS
    <2>3. /\ Heap(V, h2) /\ Len(h2) = Len(h)
          /\ \A i \in 1..Len(h) : h2[i] = IF i = a THEN [h[a] EXCEPT ![n] = x] ELSE h[i]
      <3>1. WritesOnly(V, h, a, n, x)  BY <2>1, WriteIs
      <3> QED  BY <2>2, <3>1 DEF WritesOnly
    <2>4. PICK R : R = Appended(h, s, x)  OBVIOUS
    <2>5. R = [heap |-> h2, slice |-> [s EXCEPT !.len = @ + 1]]
      BY <1>3, <1>7, <2>2, <2>4 DEF Appended, Written
    <2>6. R.heap = h2 /\ R.slice = [array |-> a, len |-> n]
      BY <1>2, <1>3, <2>5
    <2>7. h2[a] = [b EXCEPT ![n] = x]  BY <1>4, <2>3
    <2>8. Len([b EXCEPT ![n] = x]) = Len(b)
          /\ \A i \in 1..Len(b) : [b EXCEPT ![n] = x][i] = IF i = n THEN x ELSE b[i]
      BY <1>4
    <2>9. \A i \in 1..Len(zs) : h2[a][i] = zs[i]
      BY <1>2, <1>3, <1>4, <1>6, <2>1, <2>7, <2>8
    <2>10. InSlice(h2, R.slice, zs)
      BY <1>2, <1>3, <1>4, <1>6, <2>1, <2>3, <2>6, <2>7, <2>8, <2>9 DEF InSlice
    <2>11. Len(h2) >= Len(h)  BY <1>1, <2>3
    <2> QED  BY <1>3, <1>5, <2>3, <2>4, <2>6, <2>10, <2>11 DEF Yields
  <1>8. CASE ~(s.len < Len(h[s.array]))
    <2>1. Contents(h, s) = xs  BY ContentsAre
    <2>2. Appended(h, s, x) = Alloc(h, zs)
      BY <1>5, <1>8, <2>1 DEF Appended
    <2>3. Yields(V, h, s, zs, Alloc(h, zs))  BY AllocYields
    <2> QED  BY <1>5, <2>2, <2>3
  <1> QED  BY <1>7, <1>8

(* append: what the others hold stays, unless it is written over. *)
LEMMA AppendedKeeps ==
  ASSUME NEW V, Spare \in V, NEW h, Heap(V, h), NEW xs \in Seq(V), NEW s,
         InSlice(h, s, xs), NEW x \in V, NEW t, NEW ys \in Seq(V), InSlice(h, t, ys),
         NEW n, n = Len(xs) + 1, Harmless(s.array, n, x, t, ys)
  PROVE  Keeps(V, h, Appended(h, s, x).heap, t, ys)
  <1>1. h \in Seq(Seq(V))  BY DEF Heap
  <1>2. s.array \in 1..Len(h) /\ s.len = Len(xs)
    BY DEF InSlice
  <1>3. CASE s.len < Len(h[s.array])
    <2>1. PICK a \in 1..Len(h) : a = s.array  BY <1>2
    <2>2. n \in 1..Len(h[a])  BY <1>1, <1>2, <1>3, <2>1
    <2>3. Appended(h, s, x).heap = Written(h, a, n, x)
      BY <1>2, <1>3, <2>1 DEF Appended, Written
    <2>4. Keeps(V, h, Written(h, a, n, x), t, ys)  BY <2>1, <2>2, WriteKeeps
    <2> QED  BY <2>3, <2>4
  <1>4. CASE ~(s.len < Len(h[s.array]))
    <2>1. Contents(h, s) = xs  BY ContentsAre
    <2>2. PICK zs \in Seq(V) : zs = Append(xs, x)
      <3>1. Append(xs, x) \in Seq(V)  OBVIOUS
      <3> QED  BY <3>1
    <2>3. Appended(h, s, x) = Alloc(h, zs)
      BY <1>4, <2>1, <2>2 DEF Appended
    <2>4. Keeps(V, h, Alloc(h, zs).heap, t, ys)  BY AllocKeeps
    <2> QED  BY <2>3, <2>4
  <1> QED  BY <1>3, <1>4

(* Finding nothing, and finding the only one. *)
LEMMA FirstOf ==
  ASSUME NEW I \in SUBSET Nat, NEW m \in I, \A i \in I : i = m
  PROVE  Min(I) = m
  <1>1. \E i \in I : \A j \in I : i <= j  OBVIOUS
  <1>2. Min(I) \in I
    <2>1. Min(I) = CHOOSE i \in I : \A j \in I : i <= j  BY DEF Min
    <2> QED  BY <1>1, <2>1, Zenon
  <1> QED  BY <1>2

\* The program is at place n of ks alone.
OnlyAt(ks, n) ==
  /\ Len(ks) \in Nat /\ n \in 1..Len(ks)
  /\ \A i \in 1..Len(ks) : ks[i] = ComputeBudgetProgram <=> i = n

\* No instruction of ins has this program and selector.
NoneOf(ins, index, selector) ==
  \A i \in 1..Len(ins) : ~(/\ ins[i].program = index
                           /\ ins[i].data # <<>>
                           /\ ins[i].data[1] = selector)

(* Finding the program. *)
LEMMA ProgramAt ==
  ASSUME NEW ks, NEW n, OnlyAt(ks, n)
  PROVE  ProgramPlace(ks) = n
  <1> DEFINE I == {i \in 1..Len(ks) : ks[i] = ComputeBudgetProgram}
  <1>1. ProgramPlace(ks) = IF I # {} THEN Min(I) ELSE 0
    BY DEF ProgramPlace, SelectInSeq
  <1>2. n \in I /\ I \in SUBSET Nat /\ \A i \in I : i = n  BY DEF OnlyAt
  <1> HIDE DEF I
  <1>3. Min(I) = n  BY <1>2, FirstOf
  <1> QED  BY <1>1, <1>2, <1>3

(* Finding no instruction. *)
LEMMA NoneFound ==
  ASSUME NEW ins, NEW index, NEW selector, NoneOf(ins, index, selector)
  PROVE  FoundAt(ins, index, selector) = 0
  <1> DEFINE I == {i \in 1..Len(ins) : /\ ins[i].program = index
                                       /\ ins[i].data # <<>>
                                       /\ ins[i].data[1] = selector}
  <1>1. FoundAt(ins, index, selector) = IF I # {} THEN Min(I) ELSE 0
    BY DEF FoundAt, SelectInSeq
  <1>2. I = {}  BY DEF NoneOf
  <1> QED  BY <1>1, <1>2

-----------------------------------------------------------------------------
\* What arrays are made of.
Value == PublicKeys \cup Instruction

\* Account keys without the compute budget program.
Named(names) ==
  names \in Seq(PublicKeys) /\ \A i \in 1..Len(names) : names[i] # ComputeBudgetProgram

WithBudget(names) == Append(names, ComputeBudgetProgram)

\* The compute budget program has no instruction selector among ins.
Lacks(names, selector, ins) ==
  ins \in Seq(Instruction) /\ NoneOf(ins, Len(names) + 1, selector)

\* A transaction's keys and instructions are in arrays of their own.
TxHolds(h, tx, keys, ins) ==
  /\ InSlice(h, tx.keys, keys) /\ InSlice(h, tx.ins, ins)
  /\ tx.keys.array # tx.ins.array

KeysOf(names, known) == IF known THEN WithBudget(names) ELSE names

\* The two steps of set: the keys, then the instruction.
KeyStep(h, tx, known) ==
  IF known THEN [heap |-> h, slice |-> tx.keys]
  ELSE Appended(h, tx.keys, ComputeBudgetProgram)

InsStep(h, tx, ins, new, front) ==
  IF front THEN Alloc(h, <<new>> \o ins) ELSE Appended(h, tx.ins, new)

Compute(names, data) == [program |-> Len(names) + 1, data |-> data]

(* Values. *)
LEMMA Values ==
  /\ Spare \in Value /\ ComputeBudgetProgram \in Value /\ ComputeBudgetProgram \in PublicKeys
  /\ \A xs \in Seq(PublicKeys) : xs \in Seq(Value)
  /\ \A xs \in Seq(Instruction) : xs \in Seq(Value)
  <1>1. Spare \in Instruction
    <2>1. <<>> \in Seq(Nat)  OBVIOUS
    <2> QED  BY <2>1 DEF Spare, Instruction
  <1>2. ComputeBudgetProgram \in PublicKeys
    BY FeesAssumption DEF FeesAssumption
  <1>3. PublicKeys \subseteq Value /\ Instruction \subseteq Value  BY DEF Value
  <1>4. PICK S, T, V : S = PublicKeys /\ T = Instruction /\ V = Value  OBVIOUS
  <1>5. ASSUME NEW xs \in Seq(S) PROVE xs \in Seq(V)
    <2>1. S \subseteq V  BY <1>3, <1>4, Zenon
    <2> QED  BY <2>1
  <1>6. ASSUME NEW xs \in Seq(T) PROVE xs \in Seq(V)
    <2>1. T \subseteq V  BY <1>3, <1>4, Zenon
    <2> QED  BY <2>1
  <1> QED  BY <1>1, <1>2, <1>3, <1>4, <1>5, <1>6

(* The keys of a transaction with names, with or without the program. *)
LEMMA KeysAre ==
  ASSUME NEW names, Named(names), NEW known \in BOOLEAN
  PROVE  /\ KeysOf(names, known) \in Seq(Value)
         /\ Contains(KeysOf(names, known), ComputeBudgetProgram) <=> known
         /\ known => ProgramPlace(KeysOf(names, known)) = Len(names) + 1
  <1>1. names \in Seq(PublicKeys)
        /\ \A i \in 1..Len(names) : names[i] # ComputeBudgetProgram
    BY DEF Named
  <1>2. PICK ks \in Seq(PublicKeys) : ks = WithBudget(names)
    <2>1. PICK S, x : S = PublicKeys /\ x = ComputeBudgetProgram  OBVIOUS
    <2>2. names \in Seq(S) /\ x \in S  BY <1>1, <2>1, Values
    <2>3. Append(names, x) \in Seq(S)  BY <2>2
    <2> QED  BY <2>1, <2>3 DEF WithBudget
  <1>3. Len(ks) = Len(names) + 1 /\ Len(names) \in Nat
        /\ \A i \in 1..Len(ks) : ks[i] = IF i = Len(names) + 1 THEN ComputeBudgetProgram
                                         ELSE names[i]
    BY <1>1, <1>2 DEF WithBudget
  <1>4. PICK n \in 1..Len(ks) : n = Len(names) + 1  BY <1>3
  <1>5. \A i \in 1..Len(ks) : ks[i] = ComputeBudgetProgram <=> i = n
    BY <1>1, <1>3, <1>4
  <1>6. CASE known
    <2>1. KeysOf(names, known) = ks  BY <1>2, <1>6 DEF KeysOf
    <2>2. Contains(ks, ComputeBudgetProgram)  BY <1>4, <1>5 DEF Contains
    <2>3. ProgramPlace(ks) = n
      <3>1. OnlyAt(ks, n)  BY <1>3, <1>4, <1>5 DEF OnlyAt
      <3> QED  BY <3>1, ProgramAt, Zenon
    <2>4. ks \in Seq(Value)  BY <1>2, Values
    <2> QED  BY <1>4, <1>6, <2>1, <2>2, <2>3, <2>4
  <1>7. CASE ~known
    <2>1. KeysOf(names, known) = names  BY <1>7 DEF KeysOf
    <2>2. ~Contains(names, ComputeBudgetProgram)  BY <1>1 DEF Contains
    <2>3. names \in Seq(Value)  BY <1>1, Values
    <2> QED  BY <1>7, <2>1, <2>2, <2>3
  <1> QED  BY <1>6, <1>7

\* R is h and tx with the instruction set.
SetsTo(h, tx, names, known, ins, data, front, R) ==
  LET k == KeyStep(h, tx, known)
      i == InsStep(k.heap, tx, ins, Compute(names, data), front)
  IN  R = [heap |-> i.heap,
           tx |-> [keys |-> k.slice, ins |-> i.slice,
                   ro |-> IF known THEN tx.ro ELSE tx.ro + 1]]

\* The keys after the first step, and what it leaves alone.
KeysStepped(h, tx, names, k) ==
  /\ Yields(Value, h, tx.keys, WithBudget(names), k)
  /\ \A t : \A ys \in Seq(Value) :
       /\ InSlice(h, t, ys)
       /\ Harmless(tx.keys.array, Len(names) + 1, ComputeBudgetProgram, t, ys)
       => Keeps(Value, h, k.heap, t, ys)

(* The first step of set. *)
LEMMA KeyStepIs ==
  ASSUME NEW h, Heap(Value, h), NEW tx, NEW names, Named(names), NEW known \in BOOLEAN,
         InSlice(h, tx.keys, KeysOf(names, known))
  PROVE  KeysStepped(h, tx, names, KeyStep(h, tx, known))
  <1>1. names \in Seq(PublicKeys) /\ names \in Seq(Value)  BY Values DEF Named
  <1>2. PICK s, k : s = tx.keys /\ k = KeyStep(h, tx, known)  OBVIOUS
  <1>3. Len(h) \in Nat  BY DEF Heap
  <1>4. CASE known
    <2>1. k.heap = h /\ k.slice = s  BY <1>2, <1>4 DEF KeyStep
    <2>2. InSlice(h, s, WithBudget(names))  BY <1>2, <1>4 DEF KeysOf
    <2>3. Yields(Value, h, s, WithBudget(names), k)
      BY <1>3, <2>1, <2>2 DEF Yields
    <2>4. ASSUME NEW t, NEW ys \in Seq(Value), InSlice(h, t, ys)
          PROVE  Keeps(Value, h, k.heap, t, ys)
      BY <1>3, <2>1, <2>4 DEF Keeps
    <2> QED  BY <1>2, <2>3, <2>4 DEF KeysStepped
  <1>5. CASE ~known
    <2>1. k = Appended(h, s, ComputeBudgetProgram)  BY <1>2, <1>5 DEF KeyStep
    <2>2. InSlice(h, s, names)  BY <1>2, <1>5 DEF KeysOf
    <2>3. PICK V, x : V = Value /\ x = ComputeBudgetProgram  BY Values
    <2>4. /\ Spare \in V /\ Heap(V, h) /\ names \in Seq(V) /\ x \in V
      BY <1>1, <2>3, Values
    <2>5. Yields(V, h, s, Append(names, x), Appended(h, s, x))
      BY <2>2, <2>4, AppendedYields, Zenon
    <2>6. Yields(Value, h, s, WithBudget(names), k)
      BY <2>1, <2>3, <2>5 DEF WithBudget
    <2>7. ASSUME NEW t, NEW ys \in Seq(V), InSlice(h, t, ys),
                 Harmless(s.array, Len(names) + 1, x, t, ys)
          PROVE  Keeps(V, h, k.heap, t, ys)
      <3>1. PICK n : n = Len(names) + 1  OBVIOUS
      <3>2. Harmless(s.array, n, x, t, ys) /\ ys \in Seq(V)  BY <2>7, <3>1
      <3>3. Keeps(V, h, Appended(h, s, x).heap, t, ys)
        BY <2>2, <2>4, <2>7, <3>1, <3>2, AppendedKeeps, Zenon
      <3> QED  BY <2>1, <2>3, <3>3
    <2> QED  BY <1>2, <2>3, <2>6, <2>7 DEF KeysStepped
  <1> QED  BY <1>4, <1>5

(* set takes these two steps. *)
LEMMA SetIs ==
  ASSUME NEW h, Heap(Value, h), NEW tx, NEW names, Named(names), NEW known \in BOOLEAN,
         NEW selector, NEW ins, Lacks(names, selector, ins), NEW data, NEW front \in BOOLEAN,
         TxHolds(h, tx, KeysOf(names, known), ins)
  PROVE  SetsTo(h, tx, names, known, ins, data, front, set(h, tx, selector, data, front))
  <1>1. /\ InSlice(h, tx.keys, KeysOf(names, known)) /\ InSlice(h, tx.ins, ins)
        /\ tx.keys.array # tx.ins.array
    BY DEF TxHolds
  <1>2. PICK ks \in Seq(Value) : ks = KeysOf(names, known)  BY KeysAre
  <1>3. /\ Contains(ks, ComputeBudgetProgram) <=> known
        /\ known => ProgramPlace(ks) = Len(names) + 1
    BY <1>2, KeysAre
  <1>4. Contents(h, tx.keys) = ks
    <2>1. PICK s : s = tx.keys  OBVIOUS
    <2>2. InSlice(h, s, ks)  BY <1>1, <1>2, <2>1
    <2> QED  BY <2>1, <2>2, ContentsAre
  <1>5. PICK k : k = KeyStep(h, tx, known)  OBVIOUS
  <1>6. KeysStepped(h, tx, names, k)  BY <1>1, <1>5, KeyStepIs
  <1>7. ins \in Seq(Value) /\ ins \in Seq(Instruction)  BY Values DEF Lacks
  <1>8. Contents(k.heap, tx.ins) = ins
    <2>1. PICK t : t = tx.ins  OBVIOUS
    <2>2. Harmless(tx.keys.array, Len(names) + 1, ComputeBudgetProgram, t, ins)
      BY <1>1, <2>1 DEF Harmless
    <2>3. Keeps(Value, h, k.heap, t, ins)
      BY <1>1, <1>6, <1>7, <2>1, <2>2 DEF KeysStepped
    <2>4. PICK g : g = k.heap  OBVIOUS
    <2>5. Heap(Value, g) /\ InSlice(g, t, ins)  BY <2>3, <2>4 DEF Keeps
    <2> QED  BY <1>7, <2>1, <2>4, <2>5, ContentsAre
  <1>9. k.slice.len = Len(names) + 1
    <2>1. InSlice(k.heap, k.slice, WithBudget(names))  BY <1>6 DEF KeysStepped, Yields
    <2> QED  BY <2>1 DEF InSlice, WithBudget, Named
  <1>10. PICK index : index = Len(names) + 1  OBVIOUS
  <1>11. FoundAt(ins, index, selector) = 0
    <2>1. NoneOf(ins, index, selector)  BY <1>10 DEF Lacks
    <2> QED  BY <2>1, NoneFound, Zenon
  <1>12. PICK R : R = set(h, tx, selector, data, front)  OBVIOUS
  <1>13. CASE known
    <2>1. k = [heap |-> h, slice |-> tx.keys]  BY <1>5, <1>13 DEF KeyStep
    <2>2. k.heap = h /\ k.slice = tx.keys  BY <2>1
    <2>3. Contains(ks, ComputeBudgetProgram) /\ ProgramPlace(ks) = index
      BY <1>3, <1>10, <1>13
    <2>4. Contents(h, tx.ins) = ins  BY <1>8, <2>2
    <2> QED  BY <1>4, <1>5, <1>10, <1>11, <1>13, <2>1, <2>2, <2>3, <2>4
             DEF set, SetsTo, InsStep, Compute
  <1>14. CASE ~known
    <2>1. k = Appended(h, tx.keys, ComputeBudgetProgram)  BY <1>5, <1>14 DEF KeyStep
    <2> QED  BY <1>3, <1>4, <1>5, <1>8, <1>9, <1>10, <1>11, <1>14, <2>1
             DEF set, SetsTo, InsStep, Compute
  <1> QED  BY <1>13, <1>14

-----------------------------------------------------------------------------
\* R is h and tx with the instruction in front, in an array of its own.
FrontSet(h, tx, names, known, ins, data, R) ==
  /\ R.tx = [keys |-> R.tx.keys, ins |-> R.tx.ins, ro |-> R.tx.ro]
  /\ Heap(Value, R.heap)
  /\ InSlice(R.heap, R.tx.keys, WithBudget(names))
  /\ InSlice(R.heap, R.tx.ins, <<Compute(names, data)>> \o ins)
  /\ R.tx.ins.array > Len(h)
  /\ R.tx.ro = IF known THEN tx.ro ELSE tx.ro + 1
  /\ \A t : \A ys \in Seq(Value) :
       /\ InSlice(h, t, ys)
       /\ Harmless(tx.keys.array, Len(names) + 1, ComputeBudgetProgram, t, ys)
       => InSlice(R.heap, t, ys)

\* R is h and tx with the instruction at the end.
BackSet(tx, names, known, ins, data, R) ==
  /\ Heap(Value, R.heap)
  /\ TxHolds(R.heap, R.tx, WithBudget(names), Append(ins, Compute(names, data)))
  /\ R.tx.ro = IF known THEN tx.ro ELSE tx.ro + 1

(* An instruction that is set is a value. *)
LEMMA ComputeType ==
  ASSUME NEW names, Named(names), NEW data \in Seq(Nat)
  PROVE  Compute(names, data) \in Instruction /\ Compute(names, data) \in Value
  <1>1. Len(names) + 1 \in Nat  BY DEF Named
  <1> QED  BY <1>1 DEF Compute, Instruction, Value

(* set with the instruction in front. *)
LEMMA SetInFront ==
  ASSUME NEW h, Heap(Value, h), NEW tx, NEW names, Named(names), NEW known \in BOOLEAN,
         NEW selector, NEW ins, Lacks(names, selector, ins), NEW data \in Seq(Nat),
         TxHolds(h, tx, KeysOf(names, known), ins)
  PROVE  FrontSet(h, tx, names, known, ins, data, set(h, tx, selector, data, TRUE))
  <1>1. PICK front \in BOOLEAN : front = TRUE  OBVIOUS
  <1>2. PICK R : R = set(h, tx, selector, data, front)  OBVIOUS
  <1>3. SetsTo(h, tx, names, known, ins, data, front, R)  BY <1>2, SetIs
  <1>4. PICK k : k = KeyStep(h, tx, known)  OBVIOUS
  <1>5. KeysStepped(h, tx, names, k)
    <2>1. InSlice(h, tx.keys, KeysOf(names, known))  BY DEF TxHolds
    <2> QED  BY <1>4, <2>1, KeyStepIs
  <1>6. PICK g, s, n : g = k.heap /\ s = k.slice /\ n = Compute(names, data)
    OBVIOUS
  <1>7. /\ Heap(Value, g) /\ Len(g) >= Len(h) /\ InSlice(g, s, WithBudget(names))
        /\ Len(g) \in Nat /\ Len(h) \in Nat
    BY <1>5, <1>6 DEF KeysStepped, Yields, Heap
  <1>8. PICK xs \in Seq(Value) : xs = <<n>> \o ins
    <2>1. n \in Value  BY <1>6, ComputeType
    <2>2. ins \in Seq(Value)  BY Values DEF Lacks
    <2>3. PICK one \in Seq(Value) : one = <<n>>
      <3>1. <<n>> \in Seq(Value)  BY <2>1
      <3> QED  BY <3>1
    <2>4. one \o ins \in Seq(Value)  BY <2>2, <2>3
    <2> QED  BY <2>3, <2>4
  <1>9. PICK i : i = Alloc(g, xs)  OBVIOUS
  <1>10. R = [heap |-> i.heap,
              tx |-> [keys |-> s, ins |-> i.slice,
                      ro |-> IF known THEN tx.ro ELSE tx.ro + 1]]
    BY <1>1, <1>3, <1>4, <1>6, <1>8, <1>9 DEF SetsTo, InsStep
  <1>11. Yields(Value, g, s, xs, i) /\ i.slice.array = Len(g) + 1
    BY <1>7, <1>9, Values, AllocYields
  <1>12. WithBudget(names) \in Seq(Value)
    <2>1. names \in Seq(Value) /\ ComputeBudgetProgram \in Value  BY Values DEF Named
    <2> QED  BY <2>1 DEF WithBudget
  <1>13. ASSUME NEW t, NEW ys \in Seq(Value), InSlice(g, t, ys)
         PROVE  InSlice(i.heap, t, ys)
    <2>1. Keeps(Value, g, Alloc(g, xs).heap, t, ys)
      BY <1>7, <1>13, Values, AllocKeeps, Zenon
    <2> QED  BY <1>9, <2>1 DEF Keeps
  <1>14. ASSUME NEW t, NEW ys \in Seq(Value), InSlice(h, t, ys),
                Harmless(tx.keys.array, Len(names) + 1, ComputeBudgetProgram, t, ys)
         PROVE  InSlice(i.heap, t, ys)
    <2>1. InSlice(g, t, ys)  BY <1>5, <1>6, <1>14 DEF KeysStepped, Keeps
    <2> QED  BY <1>13, <2>1
  <1>15. /\ R.heap = i.heap /\ R.tx.keys = s /\ R.tx.ins = i.slice
         /\ R.tx.ro = IF known THEN tx.ro ELSE tx.ro + 1
         /\ R.tx = [keys |-> R.tx.keys, ins |-> R.tx.ins, ro |-> R.tx.ro]
    BY <1>10
  <1>16. FrontSet(h, tx, names, known, ins, data, R)
    BY <1>6, <1>7, <1>8, <1>11, <1>12, <1>13, <1>14, <1>15 DEF FrontSet, Yields
  <1> QED  BY <1>1, <1>2, <1>16

(* set with the instruction at the end. *)
LEMMA SetAtTheEnd ==
  ASSUME NEW h, Heap(Value, h), NEW tx, NEW names, Named(names), NEW known \in BOOLEAN,
         NEW selector, NEW ins, Lacks(names, selector, ins), NEW data \in Seq(Nat),
         TxHolds(h, tx, KeysOf(names, known), ins)
  PROVE  BackSet(tx, names, known, ins, data, set(h, tx, selector, data, FALSE))
  <1>1. PICK front \in BOOLEAN : front = FALSE  OBVIOUS
  <1>2. PICK R : R = set(h, tx, selector, data, front)  OBVIOUS
  <1>3. SetsTo(h, tx, names, known, ins, data, front, R)  BY <1>2, SetIs
  <1>4. PICK k : k = KeyStep(h, tx, known)  OBVIOUS
  <1>5. KeysStepped(h, tx, names, k)
    <2>1. InSlice(h, tx.keys, KeysOf(names, known))  BY DEF TxHolds
    <2> QED  BY <1>4, <2>1, KeyStepIs
  <1>6. PICK g, s, t, x : /\ g = k.heap /\ s = k.slice /\ t = tx.ins
                          /\ x = Compute(names, data)
    OBVIOUS
  <1>7. /\ Heap(Value, g) /\ Len(g) >= Len(h) /\ InSlice(g, s, WithBudget(names))
        /\ s.array = tx.keys.array \/ s.array = Len(h) + 1
    BY <1>5, <1>6 DEF KeysStepped, Yields
  <1>8. ins \in Seq(Value) /\ x \in Value /\ Spare \in Value
    BY <1>6, ComputeType, Values DEF Lacks
  <1>9. InSlice(g, t, ins)
    <2>1. InSlice(h, t, ins) /\ tx.keys.array # t.array  BY <1>6 DEF TxHolds
    <2>2. Harmless(tx.keys.array, Len(names) + 1, ComputeBudgetProgram, t, ins)
      BY <2>1 DEF Harmless
    <2> QED  BY <1>5, <1>6, <1>8, <2>1, <2>2 DEF KeysStepped, Keeps
  <1>10. s.array # t.array /\ t.array \in 1..Len(h) /\ Len(h) \in Nat /\ s.array \in 1..Len(g)
         /\ Len(g) \in Nat
    <2>1. t.array \in 1..Len(h) /\ tx.keys.array # t.array  BY <1>6 DEF TxHolds, InSlice
    <2>2. Len(h) \in Nat /\ Len(g) \in Nat /\ s.array \in 1..Len(g)  BY <1>7 DEF Heap, InSlice
    <2> QED  BY <1>7, <2>1, <2>2
  <1>11. PICK i : i = Appended(g, t, x)  OBVIOUS
  <1>12. R = [heap |-> i.heap,
              tx |-> [keys |-> s, ins |-> i.slice,
                      ro |-> IF known THEN tx.ro ELSE tx.ro + 1]]
    BY <1>1, <1>3, <1>4, <1>6, <1>11 DEF SetsTo, InsStep
  <1>13. Yields(Value, g, t, Append(ins, x), i)
    BY <1>7, <1>8, <1>9, <1>11, AppendedYields
  <1>14. WithBudget(names) \in Seq(Value)
    <2>1. names \in Seq(Value) /\ ComputeBudgetProgram \in Value  BY Values DEF Named
    <2> QED  BY <2>1 DEF WithBudget
  <1>15. InSlice(i.heap, s, WithBudget(names))
    <2>1. PICK ys, n : /\ ys \in Seq(Value) /\ ys = WithBudget(names)
                       /\ n = Len(ins) + 1
      BY <1>14
    <2>2. Harmless(t.array, n, x, s, ys)  BY <1>10 DEF Harmless
    <2>3. InSlice(g, s, ys)  BY <1>7, <2>1
    <2>4. Keeps(Value, g, Appended(g, t, x).heap, s, ys)
      BY <1>7, <1>8, <1>9, <2>1, <2>2, <2>3, AppendedKeeps, Zenon
    <2> QED  BY <1>11, <2>1, <2>4 DEF Keeps
  <1>16. /\ R.heap = i.heap /\ R.tx.keys = s /\ R.tx.ins = i.slice
         /\ R.tx.ro = IF known THEN tx.ro ELSE tx.ro + 1
    BY <1>12
  <1>17. s.array # i.slice.array
    BY <1>10, <1>13 DEF Yields
  <1>18. BackSet(tx, names, known, ins, data, R)
    BY <1>6, <1>13, <1>15, <1>16, <1>17 DEF BackSet, Yields, TxHolds
  <1> QED  BY <1>1, <1>2, <1>18

-----------------------------------------------------------------------------
\* A transaction: slices of keys and instructions.
Slice == [array : Nat, len : Nat]

Copy == [keys : Slice, ins : Slice, ro : Nat]

\* A job, compiled and without instructions of the compute budget program.
JobOk(j) ==
  /\ j \in [calls : Seq(Instruction), keys : Seq(PublicKeys), limit : Nat,
            base : 0..MaxUint]
  /\ Named(j.keys)
  /\ \A i \in 1..Len(j.calls) : j.calls[i].program \in 1..Len(j.keys)

\* The calls of a job, and the limit if there is one.
Calls(j) ==
  IF j.limit = 0 THEN j.calls
  ELSE Append(j.calls, Compute(j.keys, encode(SetLimit, LimitLen, j.limit)))

\* The data that price its n-th copy.
PriceData(j, n) ==
  encode(SetPrice, PriceLen, CalculateFee(j.base, MaxPrice, MinPrice, n - 1))

\* The transaction of the job, which names the program if it sets a limit.
BaseOk(h, j, tx) ==
  /\ TxHolds(h, tx, KeysOf(j.keys, j.limit # 0), Calls(j))
  /\ tx.ro = IF j.limit = 0 THEN 1 ELSE 2

\* Its n-th copy c.
CopyOk(h, j, tx, n, c) ==
  /\ InSlice(h, c.keys, WithBudget(j.keys))
  /\ InSlice(h, c.ins, <<Compute(j.keys, PriceData(j, n))>> \o Calls(j))
  /\ c.ins.array # tx.keys.array
  /\ c.ro = 2

JobInv(h, j, tx, b) ==
  /\ JobOk(j) /\ Heap(Value, h) /\ BaseOk(h, j, tx)
  /\ \A n \in 1..Len(b) : CopyOk(h, j, tx, n, b[n])

\* What its n-th copy was signed for.
SignedAs(j, n) ==
  [keys |-> WithBudget(j.keys),
   ins |-> <<Compute(j.keys, PriceData(j, n))>> \o Calls(j), ro |-> 2]

Messages == [keys : Seq(Value), ins : Seq(Value), ro : Nat]

(***************************************************************************)
(* While there is a job, the arrays of its transaction and of every copy   *)
(* still hold what was put there.                                          *)
(***************************************************************************)
FeesInv ==
  /\ price \in Nat /\ built \in Seq(Copy)
  /\ signed \in Seq(Messages) /\ Len(signed) = Len(built)
  /\ job = NoJob => built = <<>>
  /\ job # NoJob => /\ JobInv(heap, job, baseTx, built)
                    /\ \A n \in 1..Len(built) : signed[n] = SignedAs(job, n)

(* encode makes data. *)
LEMMA DataType ==
  ASSUME NEW sel \in Nat, NEW w \in Nat, NEW x \in Nat
  PROVE  encode(sel, w, x) \in Seq(Nat) /\ encode(sel, w, x)[1] = sel
  <1>1. Encodes(sel, w, x, encode(sel, w, x))  BY EncodeIs, Zenon
  <1> QED  BY <1>1 DEF Encodes

(* The calls of a job set no limit, and with its limit they set no price. *)
LEMMA CallsLack ==
  ASSUME NEW j, JobOk(j)
  PROVE  /\ Named(j.keys) /\ Lacks(j.keys, SetLimit, j.calls)
         /\ Lacks(j.keys, SetPrice, Calls(j))
         /\ encode(SetLimit, LimitLen, j.limit) \in Seq(Nat)
  <1>1. /\ j.calls \in Seq(Instruction) /\ j.limit \in Nat /\ Named(j.keys)
        /\ Len(j.keys) \in Nat
        /\ \A i \in 1..Len(j.calls) : j.calls[i].program \in 1..Len(j.keys)
    BY DEF JobOk, Named
  <1>2. \A i \in 1..Len(j.calls) : j.calls[i].program # Len(j.keys) + 1
    BY <1>1
  <1>3. PICK d : d = encode(SetLimit, LimitLen, j.limit)  OBVIOUS
  <1>4. d \in Seq(Nat) /\ d[1] = SetLimit
    <2>1. SetLimit \in Nat /\ LimitLen \in Nat
      BY FeesAssumption DEF FeesAssumption, SetLimit
    <2>2. PICK sel \in Nat, w \in Nat, x \in Nat :
            sel = SetLimit /\ w = LimitLen /\ x = j.limit
      BY <1>1, <2>1
    <2> QED  BY <1>3, <2>2, DataType
  <1>5. Lacks(j.keys, SetLimit, j.calls) /\ Lacks(j.keys, SetPrice, j.calls)
    BY <1>1, <1>2 DEF Lacks, NoneOf
  <1>6. CASE j.limit = 0
    <2>1. Calls(j) = j.calls  BY <1>6 DEF Calls
    <2> QED  BY <1>1, <1>3, <1>4, <1>5, <2>1
  <1>7. CASE j.limit # 0
    <2>1. PICK x, T : x = Compute(j.keys, d) /\ T = Instruction  OBVIOUS
    <2>2. x \in T /\ x.data = d  BY <1>1, <1>4, <2>1, ComputeType DEF Compute
    <2>3. j.calls \in Seq(T)  BY <1>1, <2>1
    <2>4. PICK zs \in Seq(T) : zs = Append(j.calls, x)
      <3>1. Append(j.calls, x) \in Seq(T)  BY <2>2, <2>3
      <3> QED  BY <3>1
    <2>5. Len(zs) = Len(j.calls) + 1 /\ Len(j.calls) \in Nat
          /\ \A i \in 1..Len(zs) :
               zs[i] = IF i = Len(j.calls) + 1 THEN x ELSE j.calls[i]
      BY <2>2, <2>3, <2>4
    <2>6. NoneOf(zs, Len(j.keys) + 1, SetPrice)
      <3> SUFFICES ASSUME NEW i \in 1..Len(zs)
                   PROVE  zs[i].program # Len(j.keys) + 1 \/ zs[i].data[1] # SetPrice
        BY DEF NoneOf
      <3>1. CASE i = Len(j.calls) + 1
        BY <1>4, <2>2, <2>5, <3>1 DEF SetLimit, SetPrice
      <3>2. CASE i # Len(j.calls) + 1
        <4>1. i \in 1..Len(j.calls)  BY <2>5, <3>2
        <4> QED  BY <1>2, <2>5, <3>2, <4>1
      <3> QED  BY <3>1, <3>2
    <2>7. Calls(j) = zs  BY <1>3, <1>7, <2>1, <2>4 DEF Calls
    <2>8. Lacks(j.keys, SetPrice, Calls(j))
      BY <2>1, <2>4, <2>6, <2>7 DEF Lacks
    <2> QED  BY <1>1, <1>3, <1>4, <1>5, <2>8
  <1> QED  BY <1>6, <1>7

(* The price of a copy, and its data. *)
LEMMA PriceDataIs ==
  ASSUME NEW j, JobOk(j), NEW n \in Nat, n > 0
  PROVE  /\ PriceData(j, n) \in Seq(Nat)
         /\ MinPrice <= MaxPrice =>
              ParseComputeUnitPrice(PriceData(j, n)) = Limited(Doubled(j.base, n - 1))
  <1>1. j.base \in 0..MaxUint  BY DEF JobOk
  <1>2. PICK b \in 0..MaxUint, m \in Nat : b = j.base /\ m = n - 1
    BY <1>1
  <1>3. PICK x : x = CalculateFee(b, MaxPrice, MinPrice, m)  OBVIOUS
  <1>4. x \in 0..MaxUint /\ (MinPrice <= MaxPrice => x = Limited(Doubled(b, m)))
    BY <1>3, FeeIs
  <1>5. /\ PriceLen \in Nat /\ MaxUint \in Nat /\ Power[PriceLen] = MaxUint + 1
    BY FeesAssumption, MaxUintIs DEF FeesAssumption
  <1>6. x \in Nat /\ x < Power[PriceLen]  BY <1>4, <1>5
  <1>7. PriceData(j, n) = encode(SetPrice, PriceLen, x)
    BY <1>2, <1>3 DEF PriceData
  <1>8. PICK sel \in Nat, w \in Nat : sel = SetPrice /\ w = PriceLen
    BY <1>5 DEF SetPrice
  <1>9. encode(sel, w, x) \in Seq(Nat)  BY <1>6, <1>8, DataType
  <1>10. parse(sel, w, encode(sel, w, x)) = x  BY <1>6, <1>8, RoundTrip
  <1> QED  BY <1>2, <1>4, <1>7, <1>8, <1>9, <1>10 DEF ParseComputeUnitPrice

-----------------------------------------------------------------------------
(* The slices of a transaction that is taken from the queue. *)
LEMMA GivenHolds ==
  ASSUME NEW keys \in Seq(Value), NEW calls \in Seq(Value), NEW room \in BOOLEAN,
         NEW g, g = <<IF room THEN keys \o <<Spare>> ELSE keys,
                      IF room THEN calls \o <<Spare>> ELSE calls>>,
         NEW y, y = [keys |-> [array |-> 1, len |-> Len(keys)],
                     ins |-> [array |-> 2, len |-> Len(calls)], ro |-> 1]
  PROVE  Heap(Value, g) /\ TxHolds(g, y, keys, calls)
  <1>1. PICK z \in Seq(Value) : z = <<Spare>>
    <2>1. <<Spare>> \in Seq(Value)  BY Values
    <2> QED  BY <2>1
  <1>2. ASSUME NEW xs \in Seq(Value)
        PROVE  /\ (IF room THEN xs \o <<Spare>> ELSE xs) \in Seq(Value)
               /\ Len(IF room THEN xs \o <<Spare>> ELSE xs) >= Len(xs)
               /\ \A i \in 1..Len(xs) : (IF room THEN xs \o <<Spare>> ELSE xs)[i] = xs[i]
    <2>1. xs \o z \in Seq(Value) /\ Len(xs \o z) >= Len(xs)
          /\ \A i \in 1..Len(xs) : (xs \o z)[i] = xs[i]
      BY <1>1
    <2>2. CASE room  BY <1>1, <2>1, <2>2
    <2>3. CASE ~room  BY <2>3
    <2> QED  BY <2>2, <2>3
  <1>3. PICK a \in Seq(Value), b \in Seq(Value) :
          /\ g = <<a, b>> /\ Len(a) >= Len(keys) /\ Len(b) >= Len(calls)
          /\ \A i \in 1..Len(keys) : a[i] = keys[i]
          /\ \A i \in 1..Len(calls) : b[i] = calls[i]
    BY <1>2
  <1>4. Heap(Value, g)
    <2>1. PICK T : T = Seq(Value)  OBVIOUS
    <2>2. <<a, b>> \in Seq(T)  BY <2>1
    <2> QED  BY <1>3, <2>1, <2>2 DEF Heap
  <1>5. Len(g) = 2 /\ g[1] = a /\ g[2] = b  BY <1>3
  <1>6. Len(keys) \in Nat /\ Len(calls) \in Nat  OBVIOUS
  <1>7. y.keys = [array |-> 1, len |-> Len(keys)] /\ y.ins = [array |-> 2, len |-> Len(calls)]
    OBVIOUS
  <1>8. InSlice(g, y.keys, keys)  BY <1>3, <1>5, <1>6, <1>7 DEF InSlice
  <1>9. InSlice(g, y.ins, calls)  BY <1>3, <1>5, <1>6, <1>7 DEF InSlice
  <1> QED  BY <1>4, <1>7, <1>8, <1>9 DEF TxHolds

(* Taking a job. *)
LEMMA FeesTake ==
  ASSUME FeesInv, NEW j \in Jobs, NEW room \in BOOLEAN, Take(j, room)
  PROVE  FeesInv'
  <1>1. /\ j \in [keys : Seq(PublicKeys), calls : Seq(Instruction), limit : Nat]
        /\ \A i \in DOMAIN j.keys : j.keys[i] # ComputeBudgetProgram
        /\ \A i \in DOMAIN j.calls : j.calls[i].program \in DOMAIN j.keys
    BY FeesAssumption DEF FeesAssumption
  <1>2. j.keys \in Seq(PublicKeys) /\ j.calls \in Seq(Instruction) /\ j.limit \in Nat
    BY <1>1
  <1>3. j.keys \in Seq(Value) /\ j.calls \in Seq(Value)  BY <1>2, Values
  <1>4. /\ price \in Nat /\ built = <<>> /\ built' = built /\ price' = price
        /\ signed' = signed /\ signed \in Seq(Messages) /\ Len(signed) = Len(built)
        /\ job' = [calls |-> j.calls, keys |-> j.keys, limit |-> j.limit,
                   base |-> BaseComputeUnitPrice]
    BY Zenon DEF FeesInv, Take
  <1>5. PICK k : k = job'  OBVIOUS
  <1>6. k.calls = j.calls /\ k.keys = j.keys /\ k.limit = j.limit
        /\ k.base = BaseComputeUnitPrice
    BY <1>4, <1>5
  <1>7. JobOk(k)
    <2>1. BaseComputeUnitPrice \in 0..MaxUint  BY <1>4, BaseType
    <2>2. k \in [calls : Seq(Instruction), keys : Seq(PublicKeys), limit : Nat,
                 base : 0..MaxUint]
      BY <1>2, <1>4, <1>5, <2>1
    <2>3. DOMAIN j.keys = 1..Len(j.keys) /\ DOMAIN j.calls = 1..Len(j.calls)
      BY <1>2
    <2>4. Named(k.keys)  BY <1>1, <1>2, <1>6, <2>3 DEF Named
    <2>5. \A i \in 1..Len(k.calls) : k.calls[i].program \in 1..Len(k.keys)
      BY <1>1, <1>6, <2>3
    <2> QED  BY <2>2, <2>4, <2>5 DEF JobOk
  <1>8. PICK g : g = <<IF room THEN j.keys \o <<Spare>> ELSE j.keys,
                       IF room THEN j.calls \o <<Spare>> ELSE j.calls>>
    OBVIOUS
  <1>9. PICK y : y = [keys |-> [array |-> 1, len |-> Len(j.keys)],
                      ins |-> [array |-> 2, len |-> Len(j.calls)], ro |-> 1]
    OBVIOUS
  <1>10. Heap(Value, g) /\ TxHolds(g, y, j.keys, j.calls)
    BY <1>3, <1>8, <1>9, GivenHolds
  <1>11. heap' = (IF j.limit = 0 THEN [heap |-> g, tx |-> y]
                  ELSE SetComputeUnitLimit(g, y, j.limit)).heap
         /\ baseTx' = (IF j.limit = 0 THEN [heap |-> g, tx |-> y]
                       ELSE SetComputeUnitLimit(g, y, j.limit)).tx
    BY <1>8, <1>9, Zenon DEF Take
  <1>12. Heap(Value, heap') /\ BaseOk(heap', k, baseTx')
    <2>1. CASE j.limit = 0
      <3>1. heap' = g /\ baseTx' = y  BY <1>11, <2>1
      <3>2. KeysOf(k.keys, k.limit # 0) = j.keys /\ Calls(k) = j.calls
        BY <1>6, <2>1 DEF KeysOf, Calls
      <3>3. y.ro = 1  BY <1>9
      <3> QED  BY <1>6, <1>10, <2>1, <3>1, <3>2, <3>3 DEF BaseOk
    <2>2. CASE j.limit # 0
      <3>1. PICK R, d : /\ R = set(g, y, SetLimit, d, FALSE)
                        /\ d = encode(SetLimit, LimitLen, j.limit)
        OBVIOUS
      <3>2. heap' = R.heap /\ baseTx' = R.tx
        BY <1>11, <2>2, <3>1 DEF SetComputeUnitLimit
      <3>3. /\ Named(k.keys) /\ Lacks(k.keys, SetLimit, k.calls) /\ d \in Seq(Nat)
        BY <1>6, <1>7, <3>1, CallsLack
      <3>4. PICK no, sel, names, ins :
              no \in BOOLEAN /\ no = FALSE /\ sel = SetLimit /\ names = k.keys /\ ins = k.calls
        OBVIOUS
      <3>5. TxHolds(g, y, KeysOf(names, no), ins)
        BY <1>6, <1>10, <3>4 DEF KeysOf
      <3>6. Named(names) /\ Lacks(names, sel, ins)  BY <3>3, <3>4
      <3>7. BackSet(y, names, no, ins, d, set(g, y, sel, d, FALSE))
        BY <1>10, <3>3, <3>4, <3>5, <3>6, SetAtTheEnd
      <3>8. BackSet(y, names, no, ins, d, R)  BY <3>1, <3>4, <3>7
      <3>9. WithBudget(names) = KeysOf(k.keys, k.limit # 0)
        BY <1>6, <2>2, <3>4 DEF KeysOf
      <3>10. Append(ins, Compute(names, d)) = Calls(k)
        BY <1>6, <2>2, <3>1, <3>4 DEF Calls
      <3>11. R.tx.ro = 2
        BY <1>9, <3>4, <3>8 DEF BackSet
      <3> QED  BY <1>6, <2>2, <3>2, <3>8, <3>9, <3>10, <3>11 DEF BackSet, BaseOk
    <2> QED  BY <2>1, <2>2
  <1>13. JobInv(heap', k, baseTx', built')
    <2>1. 1..Len(built') = {}  BY <1>4
    <2> QED  BY <1>7, <1>12, <2>1 DEF JobInv
  <1>14. 1..Len(built') = {} /\ built' \in Seq(Copy)
    <2>1. <<>> \in Seq(Copy)  OBVIOUS
    <2> QED  BY <1>4, <2>1
  <1> QED  BY <1>4, <1>5, <1>13, <1>14 DEF FeesInv

(* A copy stays when another is made. *)
LEMMA CopyStays ==
  ASSUME NEW h, NEW j, JobOk(j), NEW y, BaseOk(h, j, y), NEW data, NEW R,
         FrontSet(h, y, j.keys, j.limit # 0, Calls(j), data, R),
         NEW n \in Nat, n > 0, NEW c, CopyOk(h, j, y, n, c)
  PROVE  CopyOk(R.heap, j, y, n, c)
  <1>1. /\ InSlice(h, c.keys, WithBudget(j.keys))
        /\ InSlice(h, c.ins, <<Compute(j.keys, PriceData(j, n))>> \o Calls(j))
        /\ c.ins.array # y.keys.array /\ c.ro = 2
    BY DEF CopyOk
  <1>2. PICK ks : ks = WithBudget(j.keys)  OBVIOUS
  <1>3. ks \in Seq(Value) /\ Len(ks) = Len(j.keys) + 1 /\ Len(j.keys) \in Nat
        /\ ks[Len(j.keys) + 1] = ComputeBudgetProgram
    <2>1. j.keys \in Seq(Value) /\ ComputeBudgetProgram \in Value
      BY Values DEF JobOk, Named
    <2> QED  BY <1>2, <2>1 DEF WithBudget
  <1>4. PICK xs : xs = <<Compute(j.keys, PriceData(j, n))>> \o Calls(j)
    OBVIOUS
  <1>5. xs \in Seq(Value)
    <2>1. Compute(j.keys, PriceData(j, n)) \in Value
      <3>1. PriceData(j, n) \in Seq(Nat) /\ Named(j.keys)  BY PriceDataIs DEF JobOk
      <3> QED  BY <3>1, ComputeType
    <2>2. Calls(j) \in Seq(Value)  BY CallsLack, Values DEF Lacks
    <2>3. PICK one \in Seq(Value), two \in Seq(Value) :
            one = <<Compute(j.keys, PriceData(j, n))>> /\ two = Calls(j)
      <3>1. <<Compute(j.keys, PriceData(j, n))>> \in Seq(Value)  BY <2>1
      <3> QED  BY <2>2, <3>1
    <2>4. one \o two \in Seq(Value)  OBVIOUS
    <2> QED  BY <1>4, <2>3, <2>4
  <1>6. PICK m : m = Len(j.keys) + 1  OBVIOUS
  <1>7. \A t : \A ys \in Seq(Value) :
          InSlice(h, t, ys) /\ Harmless(y.keys.array, m, ComputeBudgetProgram, t, ys)
          => InSlice(R.heap, t, ys)
    BY <1>6 DEF FrontSet
  <1>8. Harmless(y.keys.array, m, ComputeBudgetProgram, c.keys, ks)
    BY <1>3, <1>6 DEF Harmless
  <1>9. Harmless(y.keys.array, m, ComputeBudgetProgram, c.ins, xs)
    BY <1>1 DEF Harmless
  <1>10. InSlice(R.heap, c.keys, ks) /\ InSlice(R.heap, c.ins, xs)
    BY <1>1, <1>2, <1>3, <1>4, <1>5, <1>7, <1>8, <1>9
  <1> QED  BY <1>1, <1>2, <1>4, <1>10 DEF CopyOk

(* A copy that holds what was put there is what it was signed for. *)
LEMMA CopyMessage ==
  ASSUME NEW h, Heap(Value, h), NEW j, JobOk(j), NEW y, NEW n \in Nat, n > 0,
         NEW c, CopyOk(h, j, y, n, c)
  PROVE  Message(h, c) = SignedAs(j, n) /\ SignedAs(j, n) \in Messages
  <1>1. PICK s, t, ks, xs :
          /\ s = c.keys /\ t = c.ins /\ ks = WithBudget(j.keys)
          /\ xs = <<Compute(j.keys, PriceData(j, n))>> \o Calls(j)
    OBVIOUS
  <1>2. InSlice(h, s, ks) /\ InSlice(h, t, xs) /\ c.ro = 2  BY <1>1 DEF CopyOk
  <1>3. ks \in Seq(Value)
    <2>1. j.keys \in Seq(Value) /\ ComputeBudgetProgram \in Value
      BY Values DEF JobOk, Named
    <2> QED  BY <1>1, <2>1 DEF WithBudget
  <1>4. xs \in Seq(Value)
    <2>1. Compute(j.keys, PriceData(j, n)) \in Value
      <3>1. PriceData(j, n) \in Seq(Nat) /\ Named(j.keys)  BY PriceDataIs DEF JobOk
      <3> QED  BY <3>1, ComputeType
    <2>2. Calls(j) \in Seq(Value)  BY CallsLack, Values DEF Lacks
    <2>3. PICK one \in Seq(Value), two \in Seq(Value) :
            one = <<Compute(j.keys, PriceData(j, n))>> /\ two = Calls(j)
      <3>1. <<Compute(j.keys, PriceData(j, n))>> \in Seq(Value)  BY <2>1
      <3> QED  BY <2>2, <3>1
    <2>4. one \o two \in Seq(Value)  OBVIOUS
    <2> QED  BY <1>1, <2>3, <2>4
  <1>5. Contents(h, s) = ks /\ Contents(h, t) = xs
    BY <1>2, <1>3, <1>4, ContentsAre
  <1>6. Message(h, c) = SignedAs(j, n)
    BY <1>1, <1>2, <1>5, Zenon DEF Message, SignedAs
  <1>7. SignedAs(j, n) \in Messages
    <2>1. [keys |-> ks, ins |-> xs, ro |-> 2] \in Messages
      BY <1>3, <1>4 DEF Messages
    <2> QED  BY <1>1, <2>1 DEF SignedAs
  <1> QED  BY <1>6, <1>7

(* The transaction of the job stays too. *)
LEMMA BaseStays ==
  ASSUME NEW h, NEW j, JobOk(j), NEW y, BaseOk(h, j, y), NEW data, NEW R,
         FrontSet(h, y, j.keys, j.limit # 0, Calls(j), data, R)
  PROVE  BaseOk(R.heap, j, y)
  <1>1. PICK known, ks : /\ known \in BOOLEAN /\ known = (j.limit # 0)
                         /\ ks = KeysOf(j.keys, known)
    OBVIOUS
  <1>2. /\ InSlice(h, y.keys, ks) /\ InSlice(h, y.ins, Calls(j))
        /\ y.keys.array # y.ins.array
        /\ y.ro = IF j.limit = 0 THEN 1 ELSE 2
    BY <1>1 DEF BaseOk, TxHolds
  <1>3. ks \in Seq(Value)
    <2>1. Named(j.keys)  BY DEF JobOk
    <2> QED  BY <1>1, <2>1, KeysAre
  <1>4. Calls(j) \in Seq(Value)  BY CallsLack, Values DEF Lacks
  <1>5. PICK m : m = Len(j.keys) + 1  OBVIOUS
  <1>6. \A t : \A ys \in Seq(Value) :
          InSlice(h, t, ys) /\ Harmless(y.keys.array, m, ComputeBudgetProgram, t, ys)
          => InSlice(R.heap, t, ys)
    BY <1>5 DEF FrontSet
  <1>7. Harmless(y.keys.array, m, ComputeBudgetProgram, y.ins, Calls(j))
    BY <1>2 DEF Harmless
  <1>8. Harmless(y.keys.array, m, ComputeBudgetProgram, y.keys, ks)
    <2>1. j.keys \in Seq(Value) /\ ComputeBudgetProgram \in Value
      BY Values DEF JobOk, Named
    <2>2. CASE known
      BY <1>1, <1>5, <2>1, <2>2 DEF KeysOf, WithBudget, Harmless
    <2>3. CASE ~known
      BY <1>1, <1>5, <2>1, <2>3 DEF KeysOf, Harmless
    <2> QED  BY <2>2, <2>3
  <1>9. InSlice(R.heap, y.keys, ks) /\ InSlice(R.heap, y.ins, Calls(j))
    BY <1>2, <1>3, <1>4, <1>6, <1>7, <1>8
  <1> QED  BY <1>1, <1>2, <1>9 DEF BaseOk, TxHolds

-----------------------------------------------------------------------------
(* Building a copy. *)
LEMMA FeesBuild ==
  ASSUME FeesInv, buildTx
  PROVE  FeesInv'
  <1>1. /\ price \in Nat /\ job # NoJob /\ JobInv(heap, job, baseTx, built)
        /\ price' = price /\ job' = job /\ baseTx' = baseTx
        /\ built \in Seq(Copy) /\ signed \in Seq(Messages)
        /\ Len(signed) = Len(built)
        /\ \A i \in 1..Len(built) : signed[i] = SignedAs(job, i)
    BY Zenon DEF FeesInv, buildTx
  <1>2. PICK n \in Nat : n = Len(built) + 1 /\ n > 0 /\ n - 1 = Len(built)
    BY <1>1
  <1>3. PICK h, j, y : h = heap /\ j = job /\ y = baseTx  OBVIOUS
  <1>4. /\ JobOk(j) /\ Heap(Value, h) /\ BaseOk(h, j, y)
        /\ \A i \in 1..Len(built) : CopyOk(h, j, y, i, built[i])
    BY <1>1, <1>3 DEF JobInv
  <1>5. PICK d : d = PriceData(j, n)  OBVIOUS
  <1>6. PICK R : R = set(h, y, SetPrice, d, TRUE)  OBVIOUS
  <1>7. heap' = R.heap /\ built' = Append(built, R.tx)
        /\ signed' = Append(signed, Message(R.heap, R.tx))
    BY <1>2, <1>3, <1>5, <1>6 DEF buildTx, SetComputeUnitPrice, PriceData
  <1>8. FrontSet(h, y, j.keys, j.limit # 0, Calls(j), d, R)
    <2>1. PICK known, names, sel, ins :
            /\ known \in BOOLEAN /\ known = (j.limit # 0) /\ names = j.keys
            /\ sel = SetPrice /\ ins = Calls(j)
      OBVIOUS
    <2>2. Named(names) /\ Lacks(names, sel, ins) /\ d \in Seq(Nat)
      BY <1>2, <1>4, <1>5, <2>1, CallsLack, PriceDataIs
    <2>3. TxHolds(h, y, KeysOf(names, known), ins)
      BY <1>4, <2>1 DEF BaseOk
    <2>4. FrontSet(h, y, names, known, ins, d, set(h, y, sel, d, TRUE))
      BY <1>4, <2>1, <2>2, <2>3, SetInFront
    <2> QED  BY <1>6, <2>1, <2>4
  <1>9. CopyOk(R.heap, j, y, n, R.tx)
    <2>1. /\ InSlice(R.heap, R.tx.keys, WithBudget(j.keys))
          /\ InSlice(R.heap, R.tx.ins, <<Compute(j.keys, d)>> \o Calls(j))
          /\ R.tx.ins.array > Len(h)
          /\ R.tx.ro = IF j.limit # 0 THEN y.ro ELSE y.ro + 1
      BY <1>8 DEF FrontSet
    <2>2. y.keys.array \in 1..Len(h) /\ Len(h) \in Nat /\ y.ro = IF j.limit = 0 THEN 1 ELSE 2
      BY <1>4 DEF BaseOk, TxHolds, InSlice, Heap
    <2>3. R.tx.ins.array # y.keys.array  BY <2>1, <2>2
    <2>4. R.tx.ro = 2  BY <2>1, <2>2
    <2> QED  BY <1>5, <2>1, <2>3, <2>4 DEF CopyOk
  <1>10. R.tx \in Copy
    <2>1. R.tx = [keys |-> R.tx.keys, ins |-> R.tx.ins, ro |-> R.tx.ro]
      BY <1>8 DEF FrontSet
    <2>2. R.tx.keys \in Slice /\ R.tx.ins \in Slice /\ R.tx.ro \in Nat
      BY <1>9 DEF CopyOk, InSlice, Slice
    <2> QED  BY <2>1, <2>2 DEF Copy
  <1>11. built' \in Seq(Copy) /\ Len(built') = n /\ built'[n] = R.tx
         /\ \A i \in 1..Len(built) : built'[i] = built[i]
    BY <1>1, <1>2, <1>7, <1>10
  <1>12. ASSUME NEW i \in 1..Len(built') PROVE CopyOk(R.heap, j, y, i, built'[i])
    <2>1. CASE i = n  BY <1>9, <1>11, <2>1
    <2>2. CASE i # n
      <3>1. i \in 1..Len(built) /\ i \in Nat /\ i > 0  BY <1>2, <1>11, <2>2
      <3>2. PICK c : c = built[i]  OBVIOUS
      <3>3. CopyOk(h, j, y, i, c)  BY <1>4, <3>1, <3>2
      <3>4. CopyOk(R.heap, j, y, i, c)
        BY <1>4, <1>8, <3>1, <3>3, CopyStays
      <3> QED  BY <1>11, <3>1, <3>2, <3>4
    <2> QED  BY <2>1, <2>2
  <1>13. BaseOk(R.heap, j, y)  BY <1>4, <1>8, BaseStays
  <1>14. Heap(Value, R.heap)  BY <1>8 DEF FrontSet
  <1>15. JobInv(heap', job', baseTx', built')
    BY <1>1, <1>3, <1>4, <1>7, <1>12, <1>13, <1>14 DEF JobInv
  <1>16. Message(R.heap, R.tx) = SignedAs(j, n) /\ SignedAs(j, n) \in Messages
    BY <1>2, <1>4, <1>9, <1>14, CopyMessage
  <1>17. PICK m \in Messages : m = SignedAs(j, n) /\ signed' = Append(signed, m)
    BY <1>7, <1>16, Zenon
  <1>18. /\ signed' \in Seq(Messages) /\ Len(signed') = Len(built')
         /\ signed'[n] = m /\ \A i \in 1..Len(built) : signed'[i] = signed[i]
    BY <1>1, <1>2, <1>11, <1>17
  <1>19. \A i \in 1..Len(built') : signed'[i] = SignedAs(job', i)
    <2> SUFFICES ASSUME NEW i \in 1..Len(built') PROVE signed'[i] = SignedAs(job', i)
      OBVIOUS
    <2>1. CASE i = n  BY <1>1, <1>3, <1>17, <1>18, <2>1, Zenon
    <2>2. CASE i # n
      <3>1. i \in 1..Len(built)  BY <1>2, <1>11, <2>2
      <3> QED  BY <1>1, <1>18, <3>1, Zenon
    <2> QED  BY <2>1, <2>2
  <1> QED  BY <1>1, <1>11, <1>15, <1>18, <1>19, Zenon DEF FeesInv

(* Every step keeps the arrays of a job as they should be. *)
LEMMA FeesStep == FeesInv /\ [FeesNext]_feeVars => FeesInv'
  <1> SUFFICES ASSUME FeesInv, [FeesNext]_feeVars PROVE FeesInv'
    OBVIOUS
  <1>1. CASE calculatePrice
    <2>1. price' \in Nat  BY <1>1, PriceType DEF FeesInv
    <2>2. job' = job /\ heap' = heap /\ baseTx' = baseTx /\ built' = built
          /\ signed' = signed
      BY <1>1, Zenon DEF calculatePrice
    <2> QED  BY <2>1, <2>2 DEF FeesInv
  <1>2. CASE buildTx  BY <1>2, FeesBuild
  <1>3. CASE Resolved
    <2>1. price' = price /\ job' = NoJob /\ built' = <<>> /\ signed' = <<>>
      BY <1>3, Zenon DEF Resolved
    <2>2. <<>> \in Seq(Copy) /\ <<>> \in Seq(Messages)  OBVIOUS
    <2> QED  BY <2>1, <2>2 DEF FeesInv
  <1>4. ASSUME NEW j \in Jobs, NEW room \in BOOLEAN, Take(j, room) PROVE FeesInv'
    BY <1>4, FeesTake
  <1>5. CASE UNCHANGED feeVars  BY <1>5 DEF FeesInv, feeVars
  <1> QED  BY <1>1, <1>2, <1>3, <1>4, <1>5, Zenon DEF FeesNext

(* What the arrays hold is what was configured. *)
LEMMA FeesInvImplies == MinPrice <= MaxPrice /\ FeesInv => BumpedAsConfigured
  <1> SUFFICES ASSUME MinPrice <= MaxPrice, FeesInv PROVE BumpedAsConfigured
    OBVIOUS
  <1>1. built \in Seq(Copy)  BY DEF FeesInv
  <1> DEFINE Limit == IF job.limit = 0 THEN <<>>
                      ELSE Budget(encode(SetLimit, LimitLen, job.limit))
             P(n) == Programs(built[n])
  <1> SUFFICES ASSUME NEW n \in 1..Len(built)
               PROVE  /\ ParseComputeUnitPrice(P(n)[1].data) = FeeAfter(n - 1)
                      /\ P(n) = Budget(P(n)[1].data) \o Requested \o Limit
                      /\ built[n].ro = 2
                      /\ signed[n] = Message(heap, built[n])
    <2>1. DOMAIN built = 1..Len(built)  BY <1>1
    <2> QED  BY <2>1, Zenon DEF BumpedAsConfigured
  <1>2. job # NoJob
    <2>1. built # <<>>  BY <1>1
    <2> QED  BY <2>1 DEF FeesInv
  <1>3. PICK h, j, y, c : h = heap /\ j = job /\ y = baseTx /\ c = built[n]
    OBVIOUS
  <1>4. JobOk(j) /\ Heap(Value, h) /\ CopyOk(h, j, y, n, c)
    BY <1>2, <1>3 DEF FeesInv, JobInv
  <1>5. n \in Nat /\ n > 0  BY <1>1
  <1>6. PICK d : d = PriceData(j, n)  OBVIOUS
  <1>7. d \in Seq(Nat) /\ ParseComputeUnitPrice(d) = Limited(Doubled(j.base, n - 1))
    BY <1>4, <1>5, <1>6, PriceDataIs
  <1>8. /\ j.keys \in Seq(PublicKeys) /\ j.calls \in Seq(Instruction) /\ Named(j.keys)
        /\ \A i \in 1..Len(j.calls) : j.calls[i].program \in 1..Len(j.keys)
    BY <1>4 DEF JobOk
  <1>9. PICK e : e = encode(SetLimit, LimitLen, j.limit)  OBVIOUS
  <1>10. e \in Seq(Nat)  BY <1>4, <1>9, CallsLack
  \* The keys, and where the program is.
  <1>11. PICK ks : ks = WithBudget(j.keys)  OBVIOUS
  <1>12. /\ ks \in Seq(Value) /\ Len(ks) = Len(j.keys) + 1 /\ Len(j.keys) \in Nat
         /\ ks[Len(j.keys) + 1] = ComputeBudgetProgram
         /\ \A i \in 1..Len(j.keys) : ks[i] = j.keys[i]
    <2>1. j.keys \in Seq(Value) /\ ComputeBudgetProgram \in Value
      BY <1>8, Values
    <2> QED  BY <1>11, <2>1 DEF WithBudget
  <1>13. Contents(h, c.keys) = ks
    <2>1. PICK s : s = c.keys  OBVIOUS
    <2>2. InSlice(h, s, ks)  BY <1>4, <1>11, <2>1 DEF CopyOk
    <2> QED  BY <1>4, <1>12, <2>1, <2>2, ContentsAre
  \* The instructions.
  <1>14. PICK T, x, z : /\ T = Instruction /\ x = Compute(j.keys, d)
                        /\ z = Compute(j.keys, e)
    OBVIOUS
  <1>15. x \in T /\ z \in T /\ x.data = d /\ z.data = e
         /\ x.program = Len(j.keys) + 1 /\ z.program = Len(j.keys) + 1
    BY <1>7, <1>8, <1>10, <1>14, ComputeType DEF Compute
  <1>16. PICK L \in Seq(T), one \in Seq(T), cs \in Seq(T) :
           /\ one = <<x>> /\ L = (IF j.limit = 0 THEN <<>> ELSE <<z>>) /\ cs = j.calls
    <2>1. <<x>> \in Seq(T) /\ <<z>> \in Seq(T) /\ <<>> \in Seq(T) /\ j.calls \in Seq(T)
      BY <1>8, <1>14, <1>15
    <2> QED  BY <2>1
  <1>17. Calls(j) = cs \o L
    <2>1. CASE j.limit = 0
      <3>1. cs \o <<>> = cs  OBVIOUS
      <3> QED  BY <1>16, <2>1, <3>1 DEF Calls
    <2>2. CASE j.limit # 0
      <3>1. cs \o <<z>> = Append(cs, z)  BY <1>15
      <3> QED  BY <1>9, <1>14, <1>16, <2>2, <3>1 DEF Calls
    <2> QED  BY <2>1, <2>2
  <1>18. PICK is : is = one \o (cs \o L)  OBVIOUS
  <1>19. is \in Seq(T)  BY <1>18
  <1>20. Contents(h, c.ins) = is
    <2>1. PICK s : s = c.ins  OBVIOUS
    <2>2. InSlice(h, s, is)
      BY <1>4, <1>6, <1>14, <1>16, <1>17, <1>18, <2>1 DEF CopyOk
    <2>3. is \in Seq(Value)  BY <1>14, <1>19, Values
    <2> QED  BY <1>4, <2>1, <2>2, <2>3, ContentsAre
  <1>21. /\ Len(one) = 1 /\ one[1] = x /\ Len(cs) \in Nat /\ Len(L) \in 0..1
         /\ Len(is) = 1 + Len(cs) + Len(L) /\ is[1] = x
         /\ \A i \in 1..Len(cs) : is[i + 1] = cs[i]
         /\ j.limit = 0 => Len(L) = 0
         /\ j.limit # 0 => Len(L) = 1 /\ is[Len(cs) + 2] = z
    <2>1. PICK m \in Seq(T) : m = cs \o L
      <3>1. cs \o L \in Seq(T)  OBVIOUS
      <3> QED  BY <3>1
    <2>2. Len(one) = 1 /\ one[1] = x /\ Len(cs) \in Nat /\ Len(L) \in 0..1
          /\ (j.limit = 0 => Len(L) = 0)
          /\ (j.limit # 0 => Len(L) = 1 /\ L[1] = z)
      BY <1>16
    <2>3. Len(m) = Len(cs) + Len(L) /\ \A i \in 1..Len(cs) : m[i] = cs[i]
      BY <2>1
    <2>4. j.limit # 0 => m[Len(cs) + 1] = z
      BY <2>1, <2>2
    <2>5. is = one \o m  BY <1>18, <2>1
    <2>6. Len(is) = 1 + Len(m) /\ is[1] = x /\ \A i \in 1..Len(m) : is[i + 1] = m[i]
      <3>1. Len(is) = Len(one) + Len(m) /\ (\A i \in 1..Len(one) : is[i] = one[i])
            /\ (\A i \in 1..Len(m) : is[Len(one) + i] = m[i])
        BY <2>1, <2>5
      <3>2. \A i \in 1..Len(m) : Len(one) + i = i + 1  BY <2>2
      <3> QED  BY <2>2, <3>1, <3>2
    <2> QED  BY <2>2, <2>3, <2>4, <2>6
  \* With their programs.
  <1> DEFINE Q == [program : PublicKeys, data : Seq(Nat)]
             Req == [i \in 1..Len(cs) |-> [program |-> j.keys[cs[i].program],
                                          data |-> cs[i].data]]
             lim == IF j.limit = 0 THEN <<>>
                    ELSE <<[program |-> ComputeBudgetProgram, data |-> e]>>
             p == [i \in 1..Len(is) |-> [program |-> ks[is[i].program],
                                         data |-> is[i].data]]
  <1>22. P(n) = p
    <2>1. DOMAIN is = 1..Len(is)  BY <1>19
    <2> QED  BY <1>3, <1>13, <1>20, <2>1 DEF Programs
  <1>23. Requested = Req
    <2>1. DOMAIN cs = 1..Len(cs)  OBVIOUS
    <2> QED  BY <1>3, <1>16, <2>1 DEF Requested
  <1>24. Limit = lim  BY <1>3, <1>9 DEF Budget
  <1>25. p[1] = [program |-> ComputeBudgetProgram, data |-> d]
    <2>1. 1 \in 1..Len(is) /\ is[1] = x  BY <1>21
    <2>2. ks[x.program] = ComputeBudgetProgram /\ x.data = d  BY <1>12, <1>15
    <2> QED  BY <2>1, <2>2
  <1>26. Req \in Seq(Q) /\ Len(Req) = Len(cs)
    <2>1. ASSUME NEW i \in 1..Len(cs) PROVE Req[i] \in Q
      <3>1. cs[i] \in T /\ cs[i].program \in 1..Len(j.keys)  BY <1>8, <1>16
      <3>2. j.keys[cs[i].program] \in PublicKeys  BY <1>8, <3>1
      <3>3. cs[i].data \in Seq(Nat)  BY <1>14, <3>1 DEF Instruction
      <3> QED  BY <3>2, <3>3
    <2> HIDE DEF Q
    <2> QED  BY <1>21, <2>1
  <1>27. /\ lim \in Seq(Q) /\ Len(lim) = Len(L)
         /\ j.limit # 0 => lim[1] = [program |-> ComputeBudgetProgram, data |-> e]
    <2>1. PICK w \in Q : w = [program |-> ComputeBudgetProgram, data |-> e]
      BY <1>10, Values
    <2> HIDE DEF Q
    <2>2. <<w>> \in Seq(Q) /\ Len(<<w>>) = 1 /\ <<w>>[1] = w /\ <<>> \in Seq(Q) /\ Len(<<>>) = 0
      OBVIOUS
    <2> QED  BY <1>21, <2>1, <2>2
  <1>28. Budget(d) \in Seq(Q) /\ Len(Budget(d)) = 1 /\ Budget(d)[1] = p[1]
    <2>1. PICK w \in Q : w = [program |-> ComputeBudgetProgram, data |-> d]
      BY <1>7, Values
    <2> HIDE DEF Q, p
    <2>2. <<w>> \in Seq(Q) /\ Len(<<w>>) = 1 /\ <<w>>[1] = w  OBVIOUS
    <2> QED  BY <1>25, <2>1, <2>2 DEF Budget
  <1>29. \A i \in 1..Len(cs) : p[i + 1] = Req[i]
    <2> SUFFICES ASSUME NEW i \in 1..Len(cs) PROVE p[i + 1] = Req[i]
      OBVIOUS
    <2>1. i + 1 \in 1..Len(is) /\ is[i + 1] = cs[i]  BY <1>21
    <2>2. cs[i].program \in 1..Len(j.keys)  BY <1>8, <1>16
    <2>3. ks[cs[i].program] = j.keys[cs[i].program]  BY <1>12, <2>2
    <2> QED  BY <2>1, <2>3
  <1>30. j.limit # 0 => p[Len(cs) + 2] = [program |-> ComputeBudgetProgram, data |-> e]
    <2> SUFFICES ASSUME j.limit # 0
                 PROVE  p[Len(cs) + 2] = [program |-> ComputeBudgetProgram, data |-> e]
      OBVIOUS
    <2>1. Len(cs) + 2 \in 1..Len(is) /\ is[Len(cs) + 2] = z
      <3> HIDE DEF p, Req, lim, Q, Limit, P
      <3>1. Len(L) = 1 /\ is[Len(cs) + 2] = z  BY <1>21
      <3>2. Len(cs) \in Nat /\ Len(is) = 1 + Len(cs) + Len(L)  BY <1>21
      <3>3. Len(cs) + 2 \in 1..Len(is)  BY <3>1, <3>2
      <3> QED  BY <3>1, <3>3
    <2> QED  BY <1>12, <1>15, <2>1
  <1>31. DOMAIN p = 1..Len(is) /\ p = [i \in 1..Len(is) |-> p[i]]  OBVIOUS
  <1> HIDE DEF p, Req, lim, Q, Limit
  <1>32. p = Budget(d) \o Req \o lim
    <2>1. PICK q1 \in Seq(Q), q2 \in Seq(Q), q3 \in Seq(Q) :
            q1 = Budget(d) /\ q2 = Req /\ q3 = lim
      BY <1>26, <1>27, <1>28
    <2>2. PICK r \in Seq(Q), q \in Seq(Q) : r = q1 \o q2 /\ q = r \o q3
      <3>1. PICK r \in Seq(Q) : r = q1 \o q2
        <4>1. q1 \o q2 \in Seq(Q)  OBVIOUS
        <4> QED  BY <4>1
      <3>2. r \o q3 \in Seq(Q)  OBVIOUS
      <3> QED  BY <3>1, <3>2
    <2>3. Len(q) = Len(q1) + Len(q2) + Len(q3)
          /\ (\A i \in 1..Len(q1) : q[i] = q1[i])
          /\ (\A i \in 1..Len(q2) : q[Len(q1) + i] = q2[i])
          /\ (\A i \in 1..Len(q3) : q[Len(q1) + Len(q2) + i] = q3[i])
      <3>1. Len(r) = Len(q1) + Len(q2)
            /\ (\A i \in 1..Len(q1) : r[i] = q1[i])
            /\ (\A i \in 1..Len(q2) : r[Len(q1) + i] = q2[i])
        BY <2>2
      <3>2. Len(q) = Len(r) + Len(q3)
            /\ (\A i \in 1..Len(r) : q[i] = r[i])
            /\ (\A i \in 1..Len(q3) : q[Len(r) + i] = q3[i])
        BY <2>2
      <3>3. Len(q1) \in Nat /\ Len(q2) \in Nat  OBVIOUS
      <3>4. /\ \A i \in 1..Len(q1) : i \in 1..Len(r)
            /\ \A i \in 1..Len(q2) : Len(q1) + i \in 1..Len(r)
        BY <3>1, <3>3
      <3> QED  BY <3>1, <3>2, <3>4
    <2>4. Len(q) = Len(is)  BY <1>21, <1>26, <1>27, <1>28, <2>1, <2>3
    <2> HIDE DEF P
    <2>5. /\ Len(q1) = 1 /\ Len(q2) = Len(cs) /\ Len(q3) = Len(L)
          /\ q1[1] = p[1] /\ Len(cs) \in Nat /\ Len(L) \in 0..1
          /\ Len(is) = 1 + Len(cs) + Len(L)
      BY <1>21, <1>26, <1>27, <1>28, <2>1
    <2>6. p[1] = q[1]
      <3>1. 1 \in 1..Len(q1)  BY <2>5
      <3> QED  BY <2>3, <2>5, <3>1
    <2>7. \A i \in 1..Len(cs) : p[i + 1] = q[i + 1]
      <3> SUFFICES ASSUME NEW i \in 1..Len(cs) PROVE p[i + 1] = q[i + 1]
        OBVIOUS
      <3>1. q[Len(q1) + i] = q2[i]  BY <2>3, <2>5
      <3>2. Len(q1) + i = i + 1  BY <2>5
      <3> QED  BY <1>29, <2>1, <3>1, <3>2
    <2>8. Len(L) = 1 => p[Len(cs) + 2] = q[Len(cs) + 2]
      <3> SUFFICES ASSUME Len(L) = 1 PROVE p[Len(cs) + 2] = q[Len(cs) + 2]
        OBVIOUS
      <3>1. j.limit # 0
        <4>1. j.limit = 0 => Len(L) = 0  BY <1>21
        <4> QED  BY <4>1
      <3>2. q[Len(q1) + Len(q2) + 1] = q3[1]  BY <2>3, <2>5
      <3>3. Len(q1) + Len(q2) + 1 = Len(cs) + 2  BY <2>5
      <3>4. q3[1] = [program |-> ComputeBudgetProgram, data |-> e]
        BY <1>27, <2>1, <3>1
      <3> QED  BY <1>30, <3>1, <3>2, <3>3, <3>4
    <2>9. ASSUME NEW i \in 1..Len(is) PROVE p[i] = q[i]
      <3>1. PICK a \in Nat, b \in 0..1 : a = Len(cs) /\ b = Len(L) /\ i \in 1..(1 + a + b)
        BY <2>5
      <3>2. CASE i = 1  BY <2>6, <3>2
      <3>3. CASE i \in 2..(a + 1)
        <4>1. i - 1 \in 1..a /\ (i - 1) + 1 = i  BY <3>1, <3>3
        <4> QED  BY <2>7, <3>1, <4>1
      <3>4. CASE i > a + 1
        <4>1. i > a + 1 /\ i \in 1..(1 + a + b)  BY <3>1, <3>4
        <4>2. b = 1 /\ i = a + 2  BY <4>1
        <4>3. Len(L) = 1 /\ i = Len(cs) + 2  BY <3>1, <4>2
        <4> QED  BY <2>8, <4>3
      <3>5. i = 1 \/ i \in 2..(a + 1) \/ i > a + 1  BY <3>1
      <3> QED  BY <3>2, <3>3, <3>4, <3>5, Zenon
    <2>10. q = [i \in 1..Len(is) |-> q[i]]
      <3>1. PICK S : S = Q  OBVIOUS
      <3>2. q \in [1..Len(q) -> S]  BY <3>1
      <3> QED  BY <2>4, <3>2
    <2>11. p = q  BY <1>31, <2>9, <2>10
    <2> QED  BY <2>1, <2>2, <2>11
  <1>33. p[1].data = d  BY <1>25
  <1>34. FeeAfter(n - 1) = Limited(Doubled(j.base, n - 1))
    BY <1>3 DEF FeeAfter, Limited
  <1>35. built[n].ro = 2  BY <1>3, <1>4 DEF CopyOk
  <1>36. ParseComputeUnitPrice(P(n)[1].data) = FeeAfter(n - 1)
    BY <1>7, <1>22, <1>33, <1>34
  <1>37. P(n) = Budget(P(n)[1].data) \o Requested \o Limit
    BY <1>22, <1>23, <1>24, <1>32, <1>33
  <1>38. signed[n] = Message(heap, built[n])
    <2>1. signed[n] = SignedAs(j, n)  BY <1>2, <1>3 DEF FeesInv
    <2>2. Message(h, c) = SignedAs(j, n)  BY <1>4, <1>5, CopyMessage
    <2> QED  BY <1>3, <2>1, <2>2
  <1> QED  BY <1>35, <1>36, <1>37, <1>38

(***************************************************************************)
(* However often the retry loop of sendWithRetry calls buildTx, and        *)
(* whether or not append finds room behind the slices that the copies      *)
(* share, every copy that was sent still starts with the price of its own  *)
(* bump (CalculateFee, read back by ParseComputeUnitPrice), then makes the *)
(* calls that were enqueued and sets their limit, its header counts the    *)
(* program that set added, and its signature still covers it.  The fixed   *)
(* price estimator refuses a configuration whose limits are out of order;  *)
(* the theorem assumes as much.                                            *)
(***************************************************************************)
THEOREM BumpsAreConfigured ==
  ASSUME MinPrice <= MaxPrice
  PROVE  FeesSpec => []BumpedAsConfigured
  <1>1. FeesInit => FeesInv
    <2> SUFFICES ASSUME FeesInit PROVE FeesInv  OBVIOUS
    <2>1. price = DefaultPrice /\ job = NoJob /\ built = <<>> /\ signed = <<>>
      BY DEF FeesInit
    <2>2. DefaultPrice \in Nat  BY FeesAssumption DEF FeesAssumption
    <2>3. <<>> \in Seq(Copy) /\ <<>> \in Seq(Messages)  OBVIOUS
    <2> QED  BY <2>1, <2>2, <2>3 DEF FeesInv
  <1>2. FeesInv => BumpedAsConfigured  BY FeesInvImplies
  <1> QED  BY <1>1, <1>2, FeesStep, PTL DEF FeesSpec
=============================================================================

------------------------------- MODULE Chain -------------------------------
(***************************************************************************)
(* How the services of a chain come by a client (chain.go) and two of the  *)
(* services that call one: the balance monitor (monitor/balance.go) and    *)
(* the transfer of chain.go's sendTx.                                      *)
(*                                                                         *)
(* Without MultiNode there is one cached client for each endpoint.  The    *)
(* calls of a client that are wrapped first verify that the endpoint       *)
(* serves the expected chain, until one verification has succeeded.  With  *)
(* MultiNode the pool's node is taken, which its own loops have verified.  *)
(*                                                                         *)
(* An endpoint may go down, come back, and serve another chain.  A caller  *)
(* is a goroutine that takes a client and makes a sequence of calls.       *)
(***************************************************************************)
EXTENDS Naturals, Sequences

CONSTANTS
  Node,        \* the endpoints of the configuration
  Reliable,    \* those that serve the chain and answer every request
  User,        \* callers other than the monitor
  ChainID,     \* chains an endpoint may serve
  Expected,    \* the chain of the configuration
  Modes,       \* "clients" or "multinode"
  Keys,        \* number of accounts that the monitor watches
  Operations,  \* what users do: "Transact", "TransactChecked", "LatestHead"
  NilPointer,  \* what getClient hands out for a nil *MultiNodeClient: an
               \* interface that is not nil
  None

VARIABLES
  mode,
  serving,     \* what each endpoint serves, Down if it does not answer
  clientCache, \* chain.clientCache: the client of each endpoint
  chainID,     \* verifiedCachedClient.chainID, "" after a failure
  locked,      \* who holds chainIDVerifiedLock for writing
  caller,      \* the callers
  stopped,     \* the monitor's stop channel is closed
  confirmed    \* history: clients whose endpoint has answered as expected

chainVars == <<mode, serving, clientCache, chainID, locked, caller, stopped,
               confirmed>>

Monitor == "BalanceMonitor"
Caller == User \cup {Monitor}
Down == "down"

\* Stands for the creator of the clients of MultiNode's nodes.
Pool == "MultiNode"

\* A client is known by its endpoint and by the caller that created it.
Client == Node \X Caller

endpoint(cl) == cl[1]

ASSUME ChainAssumption ==
  /\ None \notin Client /\ NilPointer \notin Client
  /\ Pool \notin User
  /\ Expected # ""
  /\ Keys \in Nat
  /\ Operations \subseteq {"Transact", "TransactChecked", "LatestHead"}

\* Mutant of matches: any answer of the endpoint will do.
matchesAny(id) == id # ""

\* The check of verifyChainID.
matches(id) == id = Expected

\* verifiedCachedClient.chainIDVerified.
chainIDVerified(cl) == matches(chainID[cl])

ChainInit ==
  /\ mode \in Modes
  /\ serving = [n \in Node |-> Expected]
  /\ clientCache = [n \in Node |-> None]
  /\ chainID = [cl \in Client |-> ""]
  /\ locked = [cl \in Client |-> None]
  /\ caller = [c \in Caller |->
                 [pc |-> IF c = Monitor THEN "new" ELSE "idle",
                  client |-> None, todo |-> <<>>, got |-> FALSE]]
  /\ stopped = FALSE
  /\ confirmed = {}

\* The endpoints.
Serve ==
  /\ \E n \in Node \ Reliable, s \in ChainID \cup {Down} :
       serving' = [serving EXCEPT ![n] = s]
  /\ UNCHANGED <<mode, clientCache, chainID, locked, caller, stopped,
                 confirmed>>

-----------------------------------------------------------------------------
(***************************************************************************)
(* What callers do.                                                        *)
(***************************************************************************)
\* Wrapped by verifiedCachedClient; GetLatestBlock is not.
Wrapped == {"SendTx", "SimulateTx", "SignatureStatuses", "Balance",
            "SlotHeight", "LatestBlockhash", "ChainID", "GetFeeForMessage",
            "GetAccountInfoWithOpts"}

\* The calls of updateBalances, one for each account.
updateBalances == [k \in 1..Keys |-> "Balance"]

\* The calls of sendTx; it enqueues its transfer when all have succeeded.
sendTx(balanceCheck) ==
  IF balanceCheck THEN <<"LatestBlockhash", "Balance", "GetFeeForMessage">>
                  ELSE <<"LatestBlockhash">>

LatestHead == <<"GetLatestBlock">>

Script(op) == CASE op = "Monitor" -> updateBalances
                [] op = "Transact" -> sendTx(FALSE)
                [] op = "TransactChecked" -> sendTx(TRUE)
                [] op = "LatestHead" -> LatestHead

Scripts(c) ==
  {Script(op) : op \in IF c = Monitor THEN {"Monitor"} ELSE Operations}

At(c, pc) == caller[c].pc = pc
Goto(c, pc) == caller' = [caller EXCEPT ![c].pc = pc]
Got(c, client, pc) ==
  caller' = [caller EXCEPT ![c].client = client, ![c].pc = pc]

\* The monitor's tick, or a call of a method of the chain.  The monitor has
\* its reader from an earlier tick, or asks for one (getReader).
Begin(c) ==
  /\ At(c, "idle")
  /\ \E calls \in Scripts(c) :
       caller' = [caller EXCEPT
                    ![c].todo = calls, ![c].got = FALSE,
                    ![c].pc = IF caller[c].client = None THEN "getClient"
                                                         ELSE "call"]
  /\ UNCHANGED <<mode, serving, clientCache, chainID, locked, stopped,
                 confirmed>>

-----------------------------------------------------------------------------
(***************************************************************************)
(* getClient and verifiedClient.  The node is random, and creating a       *)
(* client does not fail.                                                   *)
(***************************************************************************)
Cached(c, n) ==
  /\ At(c, "getClient") /\ mode = "clients"
  /\ clientCache[n] # None
  /\ Got(c, clientCache[n], "call")
  /\ UNCHANGED <<mode, serving, clientCache, chainID, locked, stopped,
                 confirmed>>

NewClient(c, n) ==
  /\ At(c, "getClient") /\ mode = "clients"
  /\ clientCache[n] = None
  /\ Got(c, <<n, c>>, "recheck")
  /\ UNCHANGED <<mode, serving, clientCache, chainID, locked, stopped,
                 confirmed>>

\* Mutant of Recheck: the entry is overwritten.
RecheckNot(c) ==
  /\ At(c, "recheck")
  /\ clientCache' = [clientCache EXCEPT
                       ![endpoint(caller[c].client)] = caller[c].client]
  /\ Goto(c, "call")
  /\ UNCHANGED <<mode, serving, chainID, locked, stopped, confirmed>>

Recheck(c) ==
  LET n == endpoint(caller[c].client)
  IN  /\ At(c, "recheck")
      /\ IF clientCache[n] = None
         THEN /\ clientCache' = [clientCache EXCEPT ![n] = caller[c].client]
              /\ Goto(c, "call")
         ELSE /\ Got(c, clientCache[n], "call")
              /\ UNCHANGED clientCache
      /\ UNCHANGED <<mode, serving, chainID, locked, stopped, confirmed>>

\* MultiNode's SelectRPC: the client of a live node.
SelectRPC(c, n) ==
  /\ At(c, "getClient") /\ mode = "multinode"
  /\ Got(c, <<n, Pool>>, "call")
  /\ UNCHANGED <<mode, serving, clientCache, chainID, locked, stopped,
                 confirmed>>

\* No node is alive.  The caller gets the error, but getReader has already
\* assigned the result to the monitor's reader.
SelectRPCFails(c) ==
  /\ At(c, "getClient") /\ mode = "multinode"
  /\ caller' = [caller EXCEPT
                  ![c].client = IF c = Monitor THEN NilPointer ELSE None,
                  ![c].pc = "idle", ![c].todo = <<>>]
  /\ UNCHANGED <<mode, serving, clientCache, chainID, locked, stopped,
                 confirmed>>

-----------------------------------------------------------------------------
(***************************************************************************)
(* A call through verifiedCachedClient, or directly.                       *)
(***************************************************************************)
\* A failed call ends sendTx and LatestHead; the monitor goes on.
Failed(c) ==
  caller' = [caller EXCEPT ![c].pc = "call",
                           ![c].todo = IF c = Monitor THEN Tail(@) ELSE <<>>]

\* Shutdown is checked before each account; the reader stays.
Stopping(c) == c = Monitor /\ stopped

CallStops(c) ==
  /\ At(c, "call") /\ caller[c].todo # <<>> /\ Stopping(c)
  /\ Goto(c, "idle")
  /\ UNCHANGED <<mode, serving, clientCache, chainID, locked, stopped,
                 confirmed>>

Ready(c) == At(c, "call") /\ caller[c].todo # <<>> /\ ~Stopping(c)
Verifies(c) == mode = "clients" /\ Head(caller[c].todo) \in Wrapped

CallUnverified(c) ==
  /\ Ready(c) /\ ~Verifies(c)
  /\ Goto(c, IF caller[c].client = NilPointer THEN "panicked" ELSE "perform")
  /\ UNCHANGED <<mode, serving, clientCache, chainID, locked, stopped,
                 confirmed>>

\* verifyChainID, under the read lock.
VerifyFast(c) ==
  /\ Ready(c) /\ Verifies(c)
  /\ locked[caller[c].client] = None
  /\ Goto(c, IF chainIDVerified(caller[c].client) THEN "perform" ELSE "verify")
  /\ UNCHANGED <<mode, serving, clientCache, chainID, locked, stopped,
                 confirmed>>

\* The write lock is taken, and another verification is not looked for.
VerifyLock(c) ==
  /\ At(c, "verify") /\ locked[caller[c].client] = None
  /\ locked' = [locked EXCEPT ![caller[c].client] = c]
  /\ Goto(c, "asking")
  /\ UNCHANGED <<mode, serving, clientCache, chainID, stopped, confirmed>>

\* The endpoint names its chain, "" stands for an error.
VerifyAnswer(c, answer) ==
  LET cl == caller[c].client
  IN  /\ At(c, "asking")
      /\ \/ answer = "" /\ endpoint(cl) \notin Reliable
         \/ answer = serving[endpoint(cl)] /\ answer # Down
      /\ chainID' = [chainID EXCEPT ![cl] = answer]
      /\ locked' = [locked EXCEPT ![cl] = None]
      /\ confirmed' = IF answer = Expected THEN confirmed \cup {cl}
                                           ELSE confirmed
      /\ IF matches(answer) THEN Goto(c, "perform") ELSE Failed(c)
      /\ UNCHANGED <<mode, serving, clientCache, stopped>>

Perform(c) ==
  /\ At(c, "perform") /\ serving[endpoint(caller[c].client)] # Down
  /\ caller' = [caller EXCEPT ![c].pc = "call", ![c].todo = Tail(@),
                              ![c].got = @ \/ c = Monitor]
  /\ UNCHANGED <<mode, serving, clientCache, chainID, locked, stopped,
                 confirmed>>

PerformFails(c) ==
  /\ At(c, "perform") /\ endpoint(caller[c].client) \notin Reliable
  /\ Failed(c)
  /\ UNCHANGED <<mode, serving, clientCache, chainID, locked, stopped,
                 confirmed>>

\* Mutant of Finish: the monitor keeps its reader.
FinishKeeps(c) ==
  /\ At(c, "call") /\ caller[c].todo = <<>>
  /\ Got(c, IF c = Monitor THEN caller[c].client ELSE None, "idle")
  /\ UNCHANGED <<mode, serving, clientCache, chainID, locked, stopped,
                 confirmed>>

\* The monitor tries a new client if it got no balance at all.
Finish(c) ==
  /\ At(c, "call") /\ caller[c].todo = <<>>
  /\ Got(c, IF caller[c].got THEN caller[c].client ELSE None, "idle")
  /\ UNCHANGED <<mode, serving, clientCache, chainID, locked, stopped,
                 confirmed>>

-----------------------------------------------------------------------------
\* The chain's Start starts the monitor's loop.
StartChain ==
  /\ At(Monitor, "new") /\ Goto(Monitor, "idle")
  /\ UNCHANGED <<mode, serving, clientCache, chainID, locked, stopped,
                 confirmed>>

\* The chain's Close closes the monitor, which waits for its loop.
StopChain ==
  /\ ~At(Monitor, "new") /\ ~stopped /\ stopped' = TRUE
  /\ UNCHANGED <<mode, serving, clientCache, chainID, locked, caller,
                 confirmed>>

MonitorEnds ==
  /\ stopped /\ At(Monitor, "idle")
  /\ Goto(Monitor, "closed")
  /\ UNCHANGED <<mode, serving, clientCache, chainID, locked, stopped,
                 confirmed>>

CallerStep(c) ==
  \/ Begin(c) \/ Recheck(c) \/ SelectRPCFails(c) \/ Finish(c)
  \/ \E n \in Node : Cached(c, n) \/ NewClient(c, n) \/ SelectRPC(c, n)
  \/ CallStops(c) \/ CallUnverified(c) \/ VerifyFast(c) \/ VerifyLock(c)
  \/ \E id \in ChainID \cup {""} : VerifyAnswer(c, id)
  \/ Perform(c) \/ PerformFails(c)

ChainNext ==
  \/ Serve \/ StartChain \/ StopChain \/ MonitorEnds
  \/ \E c \in Caller : CallerStep(c)

(***************************************************************************)
(* Goroutines run, requests end, and a lock is handed on to those who wait *)
(* for it.  A select with two ready cases takes each in the end, and a     *)
(* random permutation starts with each endpoint now and then.              *)
(***************************************************************************)
ChainFairness ==
  /\ \A c \in Caller :
       /\ WF_chainVars(\E id \in ChainID \cup {""} : VerifyAnswer(c, id))
       /\ WF_chainVars(Perform(c) \/ PerformFails(c))
  /\ WF_chainVars(Begin(Monitor)) /\ WF_chainVars(Recheck(Monitor))
  /\ WF_chainVars(CallStops(Monitor)) /\ WF_chainVars(Finish(Monitor))
  /\ WF_chainVars(CallUnverified(Monitor))
  /\ SF_chainVars(VerifyFast(Monitor) \/ VerifyLock(Monitor))
  /\ \A n \in Reliable :
       SF_chainVars(Cached(Monitor, n) \/ NewClient(Monitor, n))
  /\ SF_chainVars(MonitorEnds)

ChainSpec == ChainInit /\ [][ChainNext]_chainVars /\ ChainFairness

-----------------------------------------------------------------------------
Holds(c) == caller[c].client \in Client /\ ~At(c, "recheck")

(***************************************************************************)
(* There is one client for each endpoint, although callers create them     *)
(* without a lock: whoever holds a client holds the one in the cache, so   *)
(* that its verification and its request group are shared.                 *)
(***************************************************************************)
OneClientPerURL ==
  \A c \in Caller :
    Holds(c) => clientCache[endpoint(caller[c].client)] = caller[c].client

(***************************************************************************)
(* A wrapped call is made only through a client whose endpoint has named   *)
(* the expected chain, whatever order the verifications of several callers *)
(* succeed and fail in.                                                    *)
(***************************************************************************)
VerifiedBeforeUse ==
  \A c \in Caller :
    At(c, "perform") /\ Verifies(c) => caller[c].client \in confirmed

(***************************************************************************)
(* The balance monitor keeps reporting as long as one endpoint serves the  *)
(* chain, although it holds on to a client, and it ends when it is closed. *)
(***************************************************************************)
MonitorServes ==
  (mode = "clients" /\ ~At(Monitor, "new"))
    ~> (caller[Monitor].got \/ At(Monitor, "closed"))

(***************************************************************************)
(* The reader that the monitor calls is a client: getReader "returns the   *)
(* cached solanaClient.Reader, or creates a new one if nil".               *)
(***************************************************************************)
MonitorReaderIsAClient == ~At(Monitor, "panicked")
=============================================================================

------------------------------- MODULE Caches -------------------------------
(***************************************************************************)
(* The polling caches behind the OCR2 providers (client/cache.go,          *)
(* state_cache.go, transmissions_cache.go) and what the providers read     *)
(* from them (median_contract.go, config_tracker.go, transmitter.go).      *)
(*                                                                         *)
(* On chain a transmission changes the aggregator's state and the feed in  *)
(* one transaction, so both accounts are described by how many there have  *)
(* been: the state holds the number, and the feed's live ring the last     *)
(* LiveLength of them.  A cache is polled by one goroutine, whose calls    *)
(* are answered by the endpoint at one moment and arrive at another.  Time *)
(* passes in ticks, and ages are counted only as far as they matter.       *)
(***************************************************************************)
EXTENDS Integers, FiniteSetsExt

CONSTANTS
  Cache,        \* the caches: "state", "transmissions" or both
  LiveLength,   \* length of the feed's live ring
  PollPeriod,   \* OCR2CachePollPeriod
  Jitter,       \* how far WithJitter moves the period
  TTL,          \* OCR2CacheTTL
  Timeout,      \* time limit of a request
  VerifyDelay,  \* how long verifyChainID may hold up a request
  MaxWrites     \* bound: transmissions

ASSUME CachesAssumption ==
  /\ Cache \subseteq {"state", "transmissions"}
  /\ LiveLength \in Nat \ {0}
  /\ TTL \in Nat /\ Timeout \in Nat /\ VerifyDelay \in Nat
  /\ MaxWrites \in Nat

VARIABLES
  written,      \* how many transmissions are on chain
  outdated,     \* for each number: ticks since it was the latest
  svc,          \* life cycle of each cache
  request,      \* the getter's request, if one is under way
  tick,         \* time until the next poll is due
  res,          \* c.res
  resAge        \* time since c.resTime

cacheVars == <<written, outdated, svc, request, tick, res, resAge>>

Requests(c) == IF c = "state" THEN 1 ELSE 2

\* The time from the first request of a getter to its end; the client may
\* have to verify its chain again before it makes the second.
HeaderAge == Timeout + VerifyDelay
Getting(c) == IF c = "state" THEN Timeout ELSE HeaderAge + Timeout

\* How old a value may be that is read without an error.
Allowed(c) == TTL + Getting(c)

NoRequest == [of |-> 0, since |-> 0, answer |-> -1, cursor |-> -1]

CachesInit ==
  /\ written = 0
  /\ outdated = [n \in 0..MaxWrites |-> 0]
  /\ svc = [c \in Cache |-> "new"]
  /\ request = [c \in Cache |-> NoRequest]
  /\ tick = [c \in Cache |-> 0]
  /\ res = [c \in Cache |-> 0]
  /\ resAge = [c \in Cache |-> TTL + 1]

-----------------------------------------------------------------------------
(***************************************************************************)
(* The chain and the clock.                                                *)
(***************************************************************************)
Write ==
  /\ written < MaxWrites
  /\ written' = written + 1
  /\ UNCHANGED <<outdated, svc, request, tick, res, resAge>>

Older(age, most) == IF age > most THEN age ELSE age + 1

\* The header has arrived, or is about to, and its slot is to be asked for.
Between(c) == request[c].of < Requests(c) /\ request[c].answer >= 0

\* A request never lasts longer than its context.  Time starts to matter
\* with the first cache.
Clock ==
  /\ \E c \in Cache : svc[c] # "new"
  /\ \A c \in Cache : request[c].of > 0 =>
       request[c].since < IF Between(c) THEN HeaderAge ELSE Timeout
  /\ outdated' = [n \in 0..MaxWrites |->
                    IF n >= written THEN 0
                    ELSE Older(outdated[n], TTL + HeaderAge + Timeout)]
  /\ request' = [c \in Cache |->
                   IF request[c].of > 0 THEN [request[c] EXCEPT !.since = @ + 1]
                   ELSE request[c]]
  /\ tick' = [c \in Cache |-> IF tick[c] > 0 THEN tick[c] - 1 ELSE 0]
  /\ resAge' = [c \in Cache |-> Older(resAge[c], TTL)]
  /\ UNCHANGED <<written, svc, res>>

LiveCursor == written % LiveLength

\* The number of the transmission in a slot of the live ring, 0 if empty.
Slot(i) == Max({0} \cup {n \in 1..written : (n - 1) % LiveLength = i})

-----------------------------------------------------------------------------
(***************************************************************************)
(* The getters.  GetState makes one request, GetLatestTransmission one for *)
(* the header and one for the slot before its cursor.                      *)
(***************************************************************************)
\* Mutant of LatestSlot: the slot the next transmission goes to.
LatestSlotNext(cursor) == cursor

LatestSlot(cursor) == (IF cursor = 0 THEN LiveLength ELSE cursor) - 1

\* The endpoint answers; what it sent is not yet received.
Endpoint(c) ==
  LET r == request[c]
  IN  /\ r.of > 0 /\ r.answer = -1
      /\ request' = [request EXCEPT ![c].answer =
                       CASE c = "state" -> written
                         [] c = "transmissions" /\ r.of = 1 -> LiveCursor
                         [] OTHER -> Slot(LatestSlot(r.cursor))]
      /\ UNCHANGED <<written, outdated, svc, tick, res, resAge>>

\* The header has arrived, verifiedCachedClient has verified the chain, which
\* may wait for the lock or for a request of its own, and the slot is asked for.
NextRequest(c) ==
  LET r == request[c]
  IN  /\ Between(c)
      /\ request' = [request EXCEPT
                       ![c] = [of |-> r.of + 1, since |-> 0, answer |-> -1,
                               cursor |-> r.answer]]
      /\ UNCHANGED <<written, outdated, svc, tick, res, resAge>>

-----------------------------------------------------------------------------
(***************************************************************************)
(* Cache.                                                                  *)
(***************************************************************************)
\* Start runs the first Fetch itself; its error is only logged.
Start(c) ==
  /\ svc[c] = "new"
  /\ svc' = [svc EXCEPT ![c] = "starting"]
  /\ request' = [request EXCEPT ![c].of = 1]
  /\ UNCHANGED <<written, outdated, tick, res, resAge>>

\* Once Start's Fetch is over Poll is started, with a tick that is due.
AfterFetch(c) ==
  /\ request' = [request EXCEPT ![c] = NoRequest]
  /\ svc' = [svc EXCEPT ![c] = IF @ = "starting" THEN "polling" ELSE @]

Fetched(c) ==
  /\ request[c].of = Requests(c) /\ request[c].answer >= 0
  /\ res' = [res EXCEPT ![c] = request[c].answer]
  /\ resAge' = [resAge EXCEPT ![c] = 0]
  /\ AfterFetch(c)
  /\ UNCHANGED <<written, outdated, tick>>

\* A request fails, times out, is cancelled, or its answer does not decode.
\* One that the endpoint never sees is like one whose answer is lost.
Lost(c) == request[c].of > 0 /\ request[c].answer >= 0

\* Mutant of FetchFails: an error ends the polling.
FetchFailsEnds(c) ==
  /\ Lost(c)
  /\ request' = [request EXCEPT ![c] = NoRequest]
  /\ svc' = [svc EXCEPT ![c] = IF @ = "closing" THEN "closing" ELSE "dead"]
  /\ UNCHANGED <<written, outdated, tick, res, resAge>>

FetchFails(c) ==
  /\ Lost(c)
  /\ AfterFetch(c)
  /\ UNCHANGED <<written, outdated, tick, res, resAge>>

\* The next tick is counted from the start of this poll.
Poll(c) ==
  /\ svc[c] \in {"polling", "closing"} /\ request[c].of = 0 /\ tick[c] = 0
  /\ request' = [request EXCEPT ![c].of = 1]
  /\ \E d \in PollPeriod - Jitter..PollPeriod + Jitter :
       tick' = [tick EXCEPT ![c] = d]
  /\ UNCHANGED <<written, outdated, svc, res, resAge>>

Close(c) ==
  /\ svc[c] = "polling"
  /\ svc' = [svc EXCEPT ![c] = "closing"]
  /\ UNCHANGED <<written, outdated, request, tick, res, resAge>>

\* The loop sees its context done; Close, which waits for that, returns.
PollEnds(c) ==
  /\ svc[c] = "closing" /\ request[c].of = 0
  /\ svc' = [svc EXCEPT ![c] = "closed"]
  /\ UNCHANGED <<written, outdated, request, tick, res, resAge>>

Getter(c) == Endpoint(c) \/ NextRequest(c)
CacheStep(c) ==
  \/ Start(c) \/ Getter(c) \/ Fetched(c) \/ FetchFails(c)
  \/ Poll(c) \/ Close(c) \/ PollEnds(c)

CachesNext == Write \/ Clock \/ \E c \in Cache : CacheStep(c)

(***************************************************************************)
(* Time passes, a select with two ready cases takes each of them in the    *)
(* end, and an endpoint that gets a request again and again answers it     *)
(* within its time limit now and then.                                     *)
(***************************************************************************)
CachesFairness ==
  /\ WF_cacheVars(Clock)
  /\ \A c \in Cache :
       /\ WF_cacheVars(Poll(c)) /\ SF_cacheVars(PollEnds(c))
       /\ SF_cacheVars(NextRequest(c)) /\ SF_cacheVars(Fetched(c))
       /\ WF_cacheVars(Endpoint(c))

CachesSpec == CachesInit /\ [][CachesNext]_cacheVars /\ CachesFairness

-----------------------------------------------------------------------------
(***************************************************************************)
(* What the providers read.                                                *)
(***************************************************************************)
Read(c) == [res |-> res[c], err |-> resAge[c] > TTL]

LatestTransmissionDetails ==
  LET state == Read("state")
      answer == Read("transmissions")
  IN  [epoch |-> state.res, latestAnswer |-> answer.res,
       err |-> state.err \/ answer.err]

LatestConfigDetails == Read("state")
LatestConfigDigestAndEpoch == Read("state")

Recent(n, age) == n <= written /\ outdated[n] <= age

(***************************************************************************)
(* What a provider gets without an error was the latest on chain not       *)
(* longer ago than the time to live plus the time limits of the requests   *)
(* that fetched it and the delay between them, although the cache dates a  *)
(* value when it arrives, the feed is read in two requests between which   *)
(* the ring may advance or wrap, and fetches fail at any point.            *)
(***************************************************************************)
FreshReads ==
  /\ ~LatestConfigDetails.err =>
       Recent(LatestConfigDetails.res, Allowed("state"))
  /\ ~LatestTransmissionDetails.err =>
       /\ Recent(LatestTransmissionDetails.epoch, Allowed("state"))
       /\ Recent(LatestTransmissionDetails.latestAnswer,
                 Allowed("transmissions"))

(***************************************************************************)
(* A cache that is polled reaches what is on chain, whatever failed before, *)
(* and one that is closed stops.                                           *)
(***************************************************************************)
CachesCatchUp ==
  \A c \in Cache :
    /\ (svc[c] = "polling" /\ written = MaxWrites)
         ~> (res[c] = MaxWrites \/ svc[c] \in {"closing", "closed"})
    /\ svc[c] = "closing" ~> svc[c] = "closed"
=============================================================================

----------------------------- MODULE MCServices -----------------------------
(***************************************************************************)
(* Two services that poll an endpoint: the cache of the feed and the       *)
(* balance monitor.  They share no state; a behaviour is one of one part,  *)
(* and the other is never started.                                         *)
(***************************************************************************)
EXTENDS Chain

CONSTANTS Parts, LiveLength, PollPeriod, Jitter, TTL, Timeout, VerifyDelay,
          MaxWrites

VARIABLES part, written, outdated, svc, request, tick, res, resAge

C == INSTANCE Caches WITH Cache <- {"transmissions"}

cacheVars == <<written, outdated, svc, request, tick, res, resAge>>
vars == <<part, cacheVars, chainVars>>

Init == part \in Parts /\ C!CachesInit /\ ChainInit

Next ==
  /\ UNCHANGED part
  /\ \/ part = "cache" /\ C!CachesNext /\ UNCHANGED chainVars
     \/ part = "chain" /\ ChainNext /\ UNCHANGED cacheVars

Spec == Init /\ [][Next]_vars /\ C!CachesFairness /\ ChainFairness

\* A cache that is polled catches up, and one that is closed stops.
CachesCatchUp == C!CachesCatchUp
=============================================================================

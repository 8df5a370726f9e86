------------------------------- MODULE MCWire -------------------------------
(***************************************************************************)
(* What Go and the programs tell each other, part by part: instructions,   *)
(* account and event layouts, reports, digests, the events in the logs,    *)
(* the cached accounts, the clients that all of it goes through, and the   *)
(* fees that transactions offer.  The parts share no state; a behaviour is *)
(* one of one part.                                                        *)
(***************************************************************************)
EXTENDS Chain, Caches, Envelope, Reports, Digests, Fees

CONSTANTS Parts, ClientMethods, Pairs, I128Align

VARIABLES part,
          call, builder, tx, outcome,
          decoding, field, cursor

\* Values with and without a sign, a carry and a second byte.
SomeObservations ==
    {[value |-> -300, timestamp |-> 1, juels |-> 0],
     [value |-> 0, timestamp |-> 65536, juels |-> 129],
     [value |-> 5, timestamp |-> 255, juels |-> 70000]}

SomeAnswers == {-5, 0, 300}

\* Lists in and out of order, one too short for f, two with an oracle that has
\* the key of another, and off-chain configs of none to three chunks, with the
\* last chunk full, short or too long.
SomeGiven ==
    LET oracle(s, t) == [signer |-> s, transmitter |-> t]
        lists == {<<oracle(101, 204), oracle(102, 203), oracle(103, 202),
                    oracle(104, 201)>>,
                  <<oracle(104, 204), oracle(101, 203), oracle(103, 202),
                    oracle(102, 201)>>,
                  <<oracle(101, 201), oracle(102, 202), oracle(103, 203)>>}
        refused == {<<oracle(101, 201), oracle(102, 202), oracle(101, 203),
                      oracle(104, 204)>>,
                    <<oracle(101, 201), oracle(102, 202), oracle(103, 202),
                      oracle(104, 204)>>}
        config(l, v, n) ==
          [oracles |-> l, f |-> 1, version |-> v, bytes |-> [i \in 1..n |-> 10 + i]]
    IN {config(l, v, n) : l \in lists, v \in {1, 258}, n \in 0..5}
         \cup {config(l, 1, 1) : l \in refused}

\* A call of one program and a call of two, with a compute limit and without.
SomeJobs ==
    LET send == [program |-> 2, data |-> <<1, 0>>]
        note == [program |-> 3, data |-> <<3, 0, 0>>]
    IN {[keys |-> <<"payer", "ocr2">>, calls |-> <<send>>, limit |-> 0],
        [keys |-> <<"payer", "ocr2", "memo">>, calls |-> <<note, send>>,
         limit |-> 3]}

\* Blocks with votes, with a transaction that failed to load, and with
\* transactions that set a price, set only a limit and set nothing.
SomeBlocks ==
    LET ins(p, d) == [program |-> p, data |-> d]
        tx0(is) == [meta |-> TRUE, instructions |-> is]
        priced(p) == tx0(<<ins("ComputeBudget", <<2, 1>>),
                           ins("ComputeBudget", <<3, p, 2>>),
                           ins("ocr2", <<3, 1, 1>>)>>)
        vote == tx0(<<ins("Vote", <<1>>)>>)
        broken == [meta |-> FALSE, instructions |-> <<>>]
        free == tx0(<<ins("ocr2", <<3, 1, 1>>)>>)
    IN {<<vote, broken>>, <<free, vote>>, <<vote, priced(1)>>,
        <<priced(3), free>>, <<priced(0), broken, priced(2), free>>}

W == INSTANCE Wire
L == INSTANCE Layout

wireVars == <<call, builder, tx, outcome>>
layoutVars == <<decoding, field, cursor>>

Init ==
    /\ part \in Parts
    /\ W!WireInit /\ L!LayoutInit /\ ReportsInit /\ EnvelopeInit
    /\ DigestsInit /\ CachesInit /\ FeesInit
    /\ ChainInit /\ (mode # "clients" => part = "clients")

Next ==
    /\ UNCHANGED part
    /\ \/ /\ part = "instructions" /\ W!WireNext
          /\ UNCHANGED <<layoutVars, reportVars, digestVars, envelopeVars,
                         cacheVars, chainVars, feeVars>>
       \/ /\ part = "layouts" /\ L!LayoutNext
          /\ UNCHANGED <<wireVars, reportVars, digestVars, envelopeVars,
                         cacheVars, chainVars, feeVars>>
       \/ /\ part = "reports" /\ ReportsNext
          /\ UNCHANGED <<wireVars, layoutVars, digestVars, envelopeVars,
                         cacheVars, chainVars, feeVars>>
       \/ /\ part = "digests" /\ DigestsNext
          /\ UNCHANGED <<wireVars, layoutVars, reportVars, envelopeVars,
                         cacheVars, chainVars, feeVars>>
       \/ /\ part = "events" /\ EnvelopeNext
          /\ UNCHANGED <<wireVars, layoutVars, reportVars, digestVars,
                         cacheVars, chainVars, feeVars>>
       \/ /\ part = "caches" /\ CachesNext
          /\ UNCHANGED <<wireVars, layoutVars, reportVars, digestVars,
                         envelopeVars, chainVars, feeVars>>
       \/ /\ part = "clients" /\ ChainNext
          /\ UNCHANGED <<wireVars, layoutVars, reportVars, digestVars,
                         envelopeVars, cacheVars, feeVars>>
       \/ /\ part = "fees" /\ FeesNext
          /\ UNCHANGED <<wireVars, layoutVars, reportVars, digestVars,
                         envelopeVars, cacheVars, chainVars>>

vars == <<part, wireVars, layoutVars, reportVars, digestVars,
          envelopeVars, cacheVars, chainVars, feeVars>>

Spec == Init /\ [][Next]_vars

\* Instructions that Go lets through are taken by the programs, and the
\* bindings decode what they encode.
InstructionsAgree == W!InstructionsAgree

\* The decoders read what the programs wrote, field by field.
LayoutsAgree == L!LayoutsAgree
=============================================================================

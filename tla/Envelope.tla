------------------------------ MODULE Envelope ------------------------------
(***************************************************************************)
(* The envelope source of pkg/monitoring/source_envelope.go, which reads a *)
(* feed while transactions go on, and the event parser it uses             *)
(* (pkg/monitoring/event/decode.go). Programs call each other, log events  *)
(* and other words, and succeed or fail; the source reads the state first, *)
(* then the answer and the price of gas concurrently, the latter from the  *)
(* logs of past transactions.                                              *)
(***************************************************************************)
EXTENDS Naturals, Sequences, SequencesExt, FiniteSetsExt

CONSTANTS
    Ocr2,        \* the program of the feed
    Others,      \* other programs
    Foreign,     \* the price in the events of other programs
    MaxDepth,    \* bound: nested invocations
    MaxLogs,     \* bound: log lines of a transaction
    MaxTxs       \* bound: transactions

VARIABLES
    stack,       \* programs running in the transaction under way
    logs,        \* its log lines so far
    txs,         \* past transactions of the state account, newest first; of
                 \* the logs, which stay as they are, what the parser finds
    committed,   \* the prices of the feed's transmissions, oldest first
    reading,     \* what the source has read for the envelope under way
    cache        \* cacheJuelsPerLamport

envelopeVars == <<stack, logs, txs, committed, reading, cache>>

none == <<>>
unread == [round |-> 0, answer |-> none, juels |-> none, failed |-> FALSE]

EnvelopeInit ==
    /\ stack = <<>> /\ logs = <<>> /\ txs = <<>> /\ committed = <<>>
    /\ reading = none /\ cache = 0

-----------------------------------------------------------------------------
(* decode.go *)

\* Mutant of Parsed: a program that returns stays on the stack.
ParsedNoPop(at, line, program) ==
    CASE line.kind = "invoke" -> [at EXCEPT !.stack = Append(@, line.program)]
      [] line.kind = "log" /\ Last(at.stack) = program ->
            [at EXCEPT !.output = Append(@, line.event)]
      [] OTHER -> at

\* The parser after one more line: its invocation stack and its output.
Parsed(at, line, program) ==
    CASE at.ended -> at
      [] line.kind = "invoke" -> [at EXCEPT !.stack = Append(@, line.program)]
      [] line.kind = "log" ->
            IF Last(at.stack) = program
            THEN [at EXCEPT !.output = Append(@, line.event)] ELSE at
      [] line.kind = "success" ->
            IF at.stack = <<>> THEN [at EXCEPT !.ended = TRUE]
            ELSE IF Last(at.stack) = line.program
                 THEN [at EXCEPT !.stack = Front(@)] ELSE at
      [] OTHER -> at

ExtractEvents(ls, program) ==
    LET at[i \in 0..Len(ls)] ==
            IF i = 0 THEN [stack |-> <<>>, output |-> <<>>, ended |-> FALSE]
            ELSE Parsed(at[i-1], ls[i], program)
    IN at[Len(ls)].output

\* Decode fails on a word; getJuelsPerLamport goes on with the next event.
Decodes(event) == event.type # "word"

-----------------------------------------------------------------------------
(* The runtime *)

Line(kind, p, event) == [kind |-> kind, program |-> p, event |-> event]

\* What a program logs: an event of the feed's types, or a single word that
\* the parser takes for one. The feed's price is new in every transaction.
NewTransmission(j) == [type |-> "NewTransmission", juels |-> j]
Word == [type |-> "word", juels |-> 0]
Price(p) == IF p = Ocr2 THEN Len(txs) + 1 ELSE Foreign
Bodies(p) == {NewTransmission(Price(p)), Word}

Invoke(p) ==
    /\ Len(stack) < MaxDepth /\ Len(logs) < MaxLogs /\ Len(txs) < MaxTxs
    /\ stack' = Append(stack, p)
    /\ logs' = Append(logs, Line("invoke", p, Word))
    /\ UNCHANGED <<txs, committed, reading, cache>>

LogEvent ==
    /\ stack # <<>> /\ Len(logs) < MaxLogs
    /\ \E body \in Bodies(Last(stack)) :
           logs' = Append(logs, Line("log", Last(stack), body))
    /\ UNCHANGED <<stack, txs, committed, reading, cache>>

Success ==
    /\ stack # <<>>
    /\ logs' = Append(logs, Line("success", Last(stack), Word))
    /\ stack' = Front(stack)
    /\ UNCHANGED <<txs, committed, reading, cache>>

\* The prices of the transmissions that the feed's own program logged.
IsOwn(l) ==
    /\ l.kind = "log" /\ l.program = Ocr2 /\ l.event.type = "NewTransmission"

Own(ls) ==
    LET own[i \in 0..Len(ls)] ==
            IF i = 0 THEN <<>>
            ELSE IF IsOwn(ls[i]) THEN Append(own[i-1], ls[i].event.juels)
                 ELSE own[i-1]
    IN own[Len(ls)]

Commit ==
    /\ stack = <<>> /\ logs # <<>>
    /\ txs' = <<[err |-> FALSE, events |-> ExtractEvents(logs, Ocr2)]>> \o txs
    /\ committed' = committed \o Own(logs)
    /\ logs' = <<>>
    /\ UNCHANGED <<stack, reading, cache>>

\* A failing program ends the transaction and undoes it; "failed: ..." is no
\* line that the parser knows.
Fail ==
    /\ stack # <<>>
    /\ LET ls == Append(logs, Line("text", Last(stack), Word))
       IN txs' = <<[err |-> TRUE, events |-> ExtractEvents(ls, Ocr2)]>> \o txs
    /\ logs' = <<>> /\ stack' = <<>>
    /\ UNCHANGED <<committed, reading, cache>>

-----------------------------------------------------------------------------
(* source_envelope.go *)

Transmissions(tx) ==
    {k \in DOMAIN tx.events :
        Decodes(tx.events[k]) /\ tx.events[k].type = "NewTransmission"}

\* The transactions that succeeded, whose details the endpoint returns, and
\* that hold a transmission.
Useful(found) ==
    {i \in found : ~txs[i].err /\ Transmissions(txs[i]) # {}}

StartFetch ==
    /\ reading = none
    /\ reading' = [unread EXCEPT !.round = Len(committed)]
    /\ UNCHANGED <<stack, logs, txs, committed, cache>>

GetLatestTransmission ==
    /\ reading # none /\ reading.answer = none
    /\ \/ reading' = [reading EXCEPT !.answer = <<Len(committed)>>]
       \/ reading' = [reading EXCEPT !.answer = <<0>>, !.failed = TRUE]
    /\ UNCHANGED <<stack, logs, txs, committed, cache>>

\* listed: how many signatures the endpoint has, the newest ones, and found:
\* those whose transactions it returns.
getJuelsPerLamport(listed, found) ==
    /\ reading # none /\ reading.juels = none
    /\ LET useful == Useful(found)
       IN IF listed = 0
          THEN UNCHANGED cache /\ reading' = [reading EXCEPT !.juels = <<cache>>]
          ELSE IF useful = {}
          THEN /\ UNCHANGED cache
               /\ reading' = [reading EXCEPT !.juels = <<0>>, !.failed = TRUE]
          ELSE LET tx == txs[Min(useful)]
                   j == tx.events[Min(Transmissions(tx))].juels
               IN cache' = j /\ reading' = [reading EXCEPT !.juels = <<j>>]
    /\ UNCHANGED <<stack, logs, txs, committed>>

Complete == reading # none /\ reading.answer # none /\ reading.juels # none

\* wg.Wait: the envelope is returned, or an error when a read failed.
FetchReturns ==
    /\ Complete
    /\ reading' = none
    /\ UNCHANGED <<stack, logs, txs, committed, cache>>

EnvelopeNext ==
    \/ \E p \in Others \cup {Ocr2} : Invoke(p)
    \/ LogEvent \/ Success \/ Commit \/ Fail
    \/ /\ logs = <<>>   \* a read sees nothing of a transaction under way
       /\ \/ StartFetch \/ GetLatestTransmission
          \/ \E listed \in 0..Len(txs) : \E found \in SUBSET (1..listed) :
                getJuelsPerLamport(listed, found)
          \/ FetchReturns

EnvelopeSpec == EnvelopeInit /\ [][EnvelopeNext]_envelopeVars

-----------------------------------------------------------------------------
(***************************************************************************)
(* An envelope is of the feed: its price of gas is one that a successful   *)
(* transaction's own event carried, never one that another program logged  *)
(* before, around or inside the feed's calls, nor one of a transaction     *)
(* that was undone (zero stands for no price, at startup); and its answer  *)
(* is not older than the round in the state it was read with.              *)
(***************************************************************************)
EnvelopeIsOfTheFeed ==
    /\ cache \in ToSet(committed) \cup {0}
    /\ Complete /\ ~reading.failed =>
           /\ reading.juels[1] \in ToSet(committed) \cup {0}
           /\ reading.answer[1] >= reading.round
=============================================================================

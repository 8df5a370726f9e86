------------------------------- MODULE Reports ------------------------------
(***************************************************************************)
(* A report on its way from the oracles' observations to the program: the  *)
(* codec of pkg/solana/report.go builds it, the transmitter puts it into   *)
(* an instruction, and transmit_impl of the OCR2 program takes it apart.   *)
(* Bytes are numbers below 256. A number of the model fits three bytes, so *)
(* that the bytes before them are its sign.                                *)
(***************************************************************************)
EXTENDS Integers, Sequences, FiniteSets

CONSTANTS
    Observer,      \* oracle ids, a set 0..n-1
    Faulty,        \* the observers that may observe anything
    Observation,   \* the observations, [value, timestamp, juels], where only a
                   \* value may be negative
    Epochs         \* epochs of the reports

VARIABLES
    observed,   \* the observations that the leader has, by observer
    payload,    \* the data of the transmit instruction, <<>> when none
    unpacked,   \* what the program read from the last payload, or nothing
    transmitted \* history: the epoch, round and signers of that payload

reportVars == <<observed, payload, unpacked, transmitted>>

nothing == [status |-> "none"]
rejected == [status |-> "rejected"]

ReportsInit ==
    /\ observed = [o \in {} |-> nothing]
    /\ payload = <<>>
    /\ unpacked = nothing /\ transmitted = nothing

-----------------------------------------------------------------------------
(* Widths, from pkg/solana/types.go *)

TimestampLen == 4
ObsCountLen == 1
ObsArrLen == 32
MedianLen == 16
JuelsLen == 8
ReportHeaderLen == TimestampLen + ObsCountLen + ObsArrLen
ReportLen == ReportHeaderLen + MedianLen + JuelsLen

\* The numbers of the model: three bytes of two's complement, and three bytes.
Signed == {x \in Int : -(128 * 65536) <= x /\ x < 128 * 65536}
Unsigned == {x \in Int : 0 <= x /\ x < 256 * 65536}

\* Oracles that a configuration has at most, from ocr_2/src/state.rs.
MAX_ORACLES == 19

ASSUME ReportsAssumption ==
    /\ Observer \subseteq Nat
    /\ IsFiniteSet(Observer) /\ Cardinality(Observer) <= MAX_ORACLES
    /\ Faulty \subseteq Observer
    /\ Observation \subseteq
           [value : Signed, timestamp : Unsigned, juels : Unsigned]
    /\ Epochs \subseteq Unsigned

Fill(n, byte) == [i \in 1..n |-> byte]

\* Two's complement, most significant byte first.
SerializeSigned(width, x) ==
    Fill(width - 3, IF x < 0 THEN 255 ELSE 0)
        \o <<(x \div 65536) % 256, (x \div 256) % 256, x % 256>>

Low(bytes) ==
    LET n == Len(bytes)
    IN 65536 * bytes[n-2] + 256 * bytes[n-1] + bytes[n]

from_signed_be_bytes(bytes) ==
    IF bytes[1] >= 128 THEN Low(bytes) - 256 * 65536 ELSE Low(bytes)

\* 2^24 stands for every number that does not fit three bytes.
from_be_bytes(bytes) ==
    IF \A i \in 1..(Len(bytes) - 3) : bytes[i] = 0
    THEN Low(bytes) ELSE 256 * 65536

\* The bytes of a slice, numbered from 0 as in Go and Rust.
Slice(bytes, start, end) == SubSeq(bytes, start + 1, end)

-----------------------------------------------------------------------------
(* report.go *)

\* The orders in which sort.Slice, which is not stable, may leave them.
Sorted(obs, field) ==
    {p \in [1..Cardinality(DOMAIN obs) -> DOMAIN obs] :
        \A i, j \in DOMAIN p :
            i < j => /\ p[i] # p[j]
                     /\ obs[p[i]][field] <= obs[p[j]][field]}

\* Mutant of Middle: one observation early.
MiddleEarly(p) == p[Len(p) \div 2]

\* oo[n/2] of a slice of n, which Go numbers from 0.
Middle(p) == p[Len(p) \div 2 + 1]

\* The report whose observers are in the order p.
Encoded(obs, p) ==
    LET n == Len(p)
        median(field) ==
            obs[Middle(CHOOSE q \in Sorted(obs, field) : TRUE)][field]
    IN SerializeSigned(TimestampLen, median("timestamp"))
       \o <<n>>
       \o p \o Fill(ObsArrLen - n, 0)
       \o SerializeSigned(MedianLen, median("value"))
       \o SerializeSigned(JuelsLen, median("juels"))

BuildReport(obs) == {Encoded(obs, p) : p \in Sorted(obs, "value")}

MedianFromReport(report) ==
    from_signed_be_bytes(
        Slice(report, ReportHeaderLen, ReportHeaderLen + MedianLen))

ObserversCountFromReport(report) ==
    Slice(report, TimestampLen, TimestampLen + ObsCountLen)[1]

-----------------------------------------------------------------------------
(* transmitter.go *)

STORE_NONCE == 254
DIGEST == [i \in 1..32 |-> i]
CONTEXT_HASH == 9

\* libocr's RawReportContext: digest, then 27 zeroes, epoch and round, then
\* the extra hash.
RawReportContext(epoch, round) ==
    DIGEST
        \o Fill(27, 0) \o SerializeSigned(4, epoch) \o <<round>>
        \o Fill(32, CONTEXT_HASH)

\* 64 bytes and the recovery id.
Signature(o) == Fill(64, 100 + o) \o <<o>>

TransmitData(epoch, round, report, sigs) ==
    LET end[i \in 0..Len(sigs)] ==
            IF i = 0 THEN <<>> ELSE end[i-1] \o Signature(sigs[i])
    IN <<STORE_NONCE>> \o RawReportContext(epoch, round) \o report
       \o end[Len(sigs)]

-----------------------------------------------------------------------------
(* ocr_2/src/lib.rs *)

CONTEXT_LEN == 96
REPORT_LEN == 4 + 1 + 32 + 16 + 8
SIGNATURE_LEN == 64 + 1

\* Mutant of unpack: the median is taken for unsigned.
unpackUnsigned(raw) ==
    [timestamp |-> from_be_bytes(Slice(raw, 0, 4)),
     observers |-> SubSeq(Slice(raw, 5, 5 + MAX_ORACLES), 1, Slice(raw, 4, 5)[1]),
     median |-> from_be_bytes(Slice(raw, 37, 53)),
     juels |-> from_be_bytes(Slice(raw, 53, 61))]

unpack(raw) ==
    [timestamp |-> from_be_bytes(Slice(raw, 0, 4)),
     observers |-> LET count == Slice(raw, 4, 5)[1]
                       kept == SubSeq(Slice(raw, 5, 37), 1, MAX_ORACLES)
                   IN SubSeq(kept, 1, count),
     median |-> from_signed_be_bytes(Slice(raw, 37, 53)),
     juels |-> from_be_bytes(Slice(raw, 53, 61))]

\* transmit_impl up to the signatures; "rejected" where a length is wrong.
Received(data) ==
    LET rest == Tail(data)
        raw == Slice(rest, 0, CONTEXT_LEN + REPORT_LEN)
        context == Slice(raw, 0, CONTEXT_LEN)
        report == Slice(raw, CONTEXT_LEN, CONTEXT_LEN + REPORT_LEN)
        sigs == Slice(rest, CONTEXT_LEN + REPORT_LEN, Len(rest))
        chunk(i) == Slice(sigs, (i - 1) * SIGNATURE_LEN, i * SIGNATURE_LEN)
    IN IF Len(rest) <= CONTEXT_LEN + REPORT_LEN \/ Len(sigs) % SIGNATURE_LEN # 0
       THEN rejected
       ELSE [status |-> "received",
             nonce |-> data[1],
             digest |-> Slice(context, 0, 32),
             epoch |-> from_be_bytes(Slice(context, 59, 63)),
             round |-> Slice(context, 63, 64)[1],
             signatures |-> [i \in 1..(Len(sigs) \div SIGNATURE_LEN) |-> chunk(i)],
             sent |-> report,
             read |-> unpack(report)]

-----------------------------------------------------------------------------
(* Steps *)

\* More than twice as many observations as there may be faulty ones.
Enough == 2 * Cardinality(Faulty) < Cardinality(DOMAIN observed)

Observe(o, obs) ==
    /\ payload = <<>> /\ unpacked = nothing
    /\ o \notin DOMAIN observed
    /\ observed' = [p \in DOMAIN observed \cup {o} |->
                        IF p = o THEN obs ELSE observed[p]]
    /\ UNCHANGED <<payload, unpacked, transmitted>>

\* Any f + 1 of the oracles sign; the signatures are theirs in some order.
Transmit(epoch, round, signers) ==
    /\ payload = <<>> /\ unpacked = nothing
    /\ Enough
    /\ \E report \in BuildReport(observed) :
           payload' = TransmitData(epoch, round, report, signers)
    /\ transmitted' = [epoch |-> epoch, round |-> round, signers |-> signers]
    /\ UNCHANGED <<observed, unpacked>>

transmit_impl ==
    /\ payload # <<>>
    /\ unpacked' = Received(payload)
    /\ payload' = <<>>
    /\ UNCHANGED <<observed, transmitted>>

\* The next round of the protocol starts without observations.
NextRound ==
    /\ unpacked # nothing
    /\ observed' = [o \in {} |-> nothing]
    /\ unpacked' = nothing /\ transmitted' = nothing
    /\ UNCHANGED payload

Signers ==
    {s \in {<<o, p>> : o, p \in Observer} : s[1] # s[2]}

ReportsNext ==
    \/ \E o \in Observer, obs \in Observation : Observe(o, obs)
    \/ \E epoch \in Epochs, s \in Signers : Transmit(epoch, 3, s)
    \/ transmit_impl
    \/ NextRound

ReportsSpec == ReportsInit /\ [][ReportsNext]_reportVars

-----------------------------------------------------------------------------
\* x is an upper median of what was observed: n \div 2 observations and no
\* more may be below it, and more than that are not above it.
IsUpperMedian(x, field) ==
    LET half == Cardinality(DOMAIN observed) \div 2
    IN /\ \E o \in DOMAIN observed : x = observed[o][field]
       /\ Cardinality({o \in DOMAIN observed : observed[o][field] < x}) <= half
       /\ half < Cardinality({o \in DOMAIN observed : observed[o][field] <= x})

(***************************************************************************)
(* What the program reads is what the oracles observed and the transmitter *)
(* sent: the answer, the timestamp and the price of gas are the medians of *)
(* the observations, with their sign, the observers are those whose        *)
(* observations were used, ordered by value, and the digest, the epoch,    *)
(* the round and each signature are the ones that were put into the        *)
(* instruction. MedianFromReport, by which the oracles decide whether to   *)
(* transmit, and the count of observers read the same from the report.     *)
(***************************************************************************)
ReportSurvives ==
    unpacked # nothing =>
        /\ unpacked # rejected
        /\ unpacked.nonce = STORE_NONCE
        /\ unpacked.digest = DIGEST
        /\ unpacked.epoch = transmitted.epoch
        /\ unpacked.round = transmitted.round
        /\ DOMAIN unpacked.signatures = DOMAIN transmitted.signers
        /\ \A i \in DOMAIN transmitted.signers :
               unpacked.signatures[i] = Signature(transmitted.signers[i])
        /\ unpacked.read.observers \in Sorted(observed, "value")
        /\ IsUpperMedian(unpacked.read.median, "value")
        /\ IsUpperMedian(unpacked.read.timestamp, "timestamp")
        /\ IsUpperMedian(unpacked.read.juels, "juels")
        /\ unpacked.read.median = MedianFromReport(unpacked.sent)
        /\ Len(unpacked.read.observers)
               = ObserversCountFromReport(unpacked.sent)

(***************************************************************************)
(* No faulty minority moves the median out of the range of what correct    *)
(* oracles observed, for the answer, the timestamp and the price of gas    *)
(* alike.                                                                  *)
(***************************************************************************)
MedianIsHonest ==
    unpacked \notin {nothing, rejected} =>
        LET within(x, field) ==
                \E o, p \in DOMAIN observed \ Faulty :
                    observed[o][field] <= x /\ x <= observed[p][field]
        IN /\ within(unpacked.read.median, "value")
           /\ within(unpacked.read.timestamp, "timestamp")
           /\ within(unpacked.read.juels, "juels")
=============================================================================

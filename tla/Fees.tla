-------------------------------- MODULE Fees --------------------------------
(***************************************************************************)
(* What a transaction offers to pay: the block history estimator           *)
(* (fees/block_history.go), CalculateFee and ParseBlock (fees/utils.go),   *)
(* the instructions of the compute budget program (fees/computebudget.go), *)
(* and the copies of a transaction that sendWithRetry (txm/txm.go) builds  *)
(* with growing fees.                                                      *)
(*                                                                         *)
(* A copy of a Go struct shares the arrays behind its slices with the      *)
(* original, so a transaction's account keys and instructions are slices   *)
(* of arrays on a heap.  Numbers are bytes to base Byte, and a price has   *)
(* PriceLen of them, so that doubling it may overflow.                     *)
(***************************************************************************)
EXTENDS Integers, Sequences, SequencesExt, FiniteSets

CONSTANTS
  Byte,        \* number of values of a byte
  PriceLen,    \* bytes of a price, the uint64
  LimitLen,    \* bytes of a limit, the uint32
  MinPrice,    \* ComputeUnitPriceMin
  MaxPrice,    \* ComputeUnitPriceMax
  DefaultPrice,\* ComputeUnitPriceDefault
  PublicKeys,  \* of accounts and programs
  Jobs,        \* transactions that are enqueued
  Blocks,      \* blocks that the estimator may see
  MaxBumps     \* bound: bumps of a transaction

VARIABLES
  price,       \* blockHistoryEstimator.price
  job,         \* the job of sendWithRetry, NoJob if there is none
  heap,        \* the arrays behind slices
  baseTx,      \* its transaction
  built,       \* the copies with a fee, the first without a bump
  signed       \* what the signature of each copy is of

feeVars == <<price, job, heap, baseTx, built, signed>>

\* Powers of the base of a byte, and the largest price.
Power[n \in Nat] == IF n = 0 THEN 1 ELSE Byte * Power[n - 1]

MaxUint == Power[PriceLen] - 1

NoJob == [calls |-> <<>>]
NoTx == [ro |-> 0]

ComputeBudgetProgram == "ComputeBudget"
SetLimit == 2      \* InstructionSetComputeUnitLimit
SetPrice == 3      \* InstructionSetComputeUnitPrice

\* A compiled instruction: the place of its program in the keys, and its data.
Instruction == [program : Nat, data : Seq(Nat)]

(***************************************************************************)
(* The limits fit a price.  A transaction to send is compiled, so that its *)
(* calls name programs among its keys, and it comes without instructions   *)
(* of the compute budget program, as Transmit makes it.  The instructions  *)
(* of a block name their programs.                                         *)
(***************************************************************************)
FeesAssumption ==
  /\ Byte \in Nat \ {0, 1} /\ PriceLen \in Nat \ {0} /\ LimitLen \in Nat
  /\ MinPrice \in 0..MaxUint /\ MaxPrice \in 0..MaxUint /\ DefaultPrice \in Nat
  /\ ComputeBudgetProgram \in PublicKeys
  /\ Jobs \subseteq [keys : Seq(PublicKeys), calls : Seq(Instruction), limit : Nat]
  /\ \A j \in Jobs :
       /\ \A i \in DOMAIN j.keys : j.keys[i] # ComputeBudgetProgram
       /\ \A i \in DOMAIN j.calls : j.calls[i].program \in DOMAIN j.keys
  /\ Blocks \subseteq
       Seq([meta : BOOLEAN, instructions : Seq([program : PublicKeys, data : Seq(Nat)])])

ASSUME FeesAssumption

FeesInit ==
  /\ price = DefaultPrice
  /\ job = NoJob /\ heap = <<>> /\ baseTx = NoTx
  /\ built = <<>> /\ signed = <<>>

-----------------------------------------------------------------------------
(***************************************************************************)
(* Compute budget instructions: a selector and a little-endian number.     *)
(***************************************************************************)
encode(selector, width, value) ==
  <<selector>> \o [i \in 1..width |-> (value \div Power[i - 1]) % Byte]

Invalid == -1

parse(selector, width, data) ==
  LET number[i \in 0..width] ==
        IF i = 0 THEN 0 ELSE number[i - 1] + data[i + 1] * Power[i - 1]
  IN  IF Len(data) # 1 + width \/ data[1] # selector THEN Invalid
      ELSE number[width]

ParseComputeUnitPrice(data) == parse(SetPrice, PriceLen, data)

-----------------------------------------------------------------------------
(***************************************************************************)
(* The estimator.  A transaction of a block is the sequence of its         *)
(* instructions, with what ParseBlock skips: one without metadata and one  *)
(* with a single vote.                                                     *)
(***************************************************************************)
PriceOf(instructions) ==
  LET prices == {i \in DOMAIN instructions :
                   /\ instructions[i].program = ComputeBudgetProgram
                   /\ ParseComputeUnitPrice(instructions[i].data) # Invalid}
  IN  IF prices = {} THEN 0
      ELSE ParseComputeUnitPrice(
             instructions[CHOOSE i \in prices : \A j \in prices : i <= j].data)

\* The prices of the transactions that count.
ParseBlock(block) ==
  LET counted == {i \in DOMAIN block :
                    /\ block[i].meta
                    /\ ~ (/\ Len(block[i].instructions) = 1
                          /\ block[i].instructions[1].program = "Vote")}
  IN  [i \in counted |-> PriceOf(block[i].instructions)]

\* The ways to put the transactions in the order of their prices.
ByPrice(prices) ==
  {order \in [1..Cardinality(DOMAIN prices) -> DOMAIN prices] :
     /\ \A i, j \in DOMAIN order : i # j => order[i] # order[j]
     /\ \A i, j \in DOMAIN order : i < j => prices[order[i]] <= prices[order[j]]}

\* mathutil.Median: the mean of the two in the middle of an even number.
MedianPrice(prices, order) ==
  LET n == Cardinality(DOMAIN prices)
  IN  IF n % 2 = 1 THEN prices[order[(n + 1) \div 2]]
      ELSE (prices[order[n \div 2]] + prices[order[n \div 2 + 1]]) \div 2

\* Without a client, a block or a transaction in it the price stays.
calculatePrice ==
  /\ \E block \in Blocks :
       LET prices == ParseBlock(block)
       IN  /\ DOMAIN prices # {}
           /\ \E order \in ByPrice(prices) : price' = MedianPrice(prices, order)
  /\ UNCHANGED <<job, heap, baseTx, built, signed>>

BaseComputeUnitPrice ==
  CASE price < MinPrice -> MinPrice
    [] price > MaxPrice -> MaxPrice
    [] OTHER -> price

-----------------------------------------------------------------------------
\* Mutant of CalculateFee: the overflow goes unnoticed.
CalculateFeeWraps(base, max, min, count) ==
  LET amount[i \in 0..count] ==
        IF i = 0 THEN base
        ELSE IF base = 0 /\ i = 1 THEN 1
        ELSE (2 * amount[i - 1]) % (MaxUint + 1)
  IN  IF amount[count] < min THEN min
      ELSE IF amount[count] > max THEN max ELSE amount[count]

\* The loop stops at an overflow with max, here by staying there.
CalculateFee(base, max, min, count) ==
  LET Overflow == -1
      amount[i \in 0..count] ==
        IF i = 0 THEN base
        ELSE IF base = 0 /\ i = 1 THEN 1
        ELSE IF amount[i - 1] = Overflow THEN Overflow
        ELSE LET next == (2 * amount[i - 1]) % (MaxUint + 1)
             IN  IF next <= amount[i - 1] THEN Overflow ELSE next
      final == IF amount[count] = Overflow THEN max ELSE amount[count]
  IN  IF final < min THEN min ELSE IF final > max THEN max ELSE final

-----------------------------------------------------------------------------
(***************************************************************************)
(* Slices.  append writes behind the slice if its array has room, and      *)
(* moves to a larger array otherwise.                                      *)
(***************************************************************************)
Spare == [program |-> 0, data |-> <<>>]

Contents(h, s) == SubSeq(h[s.array], 1, s.len)

Alloc(h, xs) == [heap |-> Append(h, xs \o <<Spare>>),
                 slice |-> [array |-> Len(h) + 1, len |-> Len(xs)]]

Appended(h, s, x) ==
  IF s.len < Len(h[s.array])
  THEN [heap |-> [h EXCEPT ![s.array][s.len + 1] = x],
        slice |-> [s EXCEPT !.len = @ + 1]]
  ELSE Alloc(h, Append(Contents(h, s), x))

\* The first place of the program among keys, and of an instruction of it
\* with this selector; 0 if there is none.
ProgramPlace(keys) == SelectInSeq(keys, LAMBDA a : a = ComputeBudgetProgram)

FoundAt(ins, index, selector) ==
  SelectInSeq(ins, LAMBDA i : /\ i.program = index
                              /\ i.data # <<>>
                              /\ i.data[1] = selector)

\* set: the account keys, then the instruction, replaced where it is found.
set(h, tx, selector, data, appendToFront) ==
  LET keys == Contents(h, tx.keys)
      exists == Contains(keys, ComputeBudgetProgram)
      k == IF exists THEN [heap |-> h, slice |-> tx.keys]
           ELSE Appended(h, tx.keys, ComputeBudgetProgram)
      index == IF exists THEN ProgramPlace(keys) ELSE k.slice.len
      new == [program |-> index, data |-> data]
      ins == Contents(k.heap, tx.ins)
      found == FoundAt(ins, index, selector)
      i == IF found # 0
           THEN [heap |-> [k.heap EXCEPT ![tx.ins.array][found] = new],
                 slice |-> tx.ins]
           ELSE IF appendToFront THEN Alloc(k.heap, <<new>> \o ins)
           ELSE Appended(k.heap, tx.ins, new)
  IN  [heap |-> i.heap,
       tx |-> [keys |-> k.slice, ins |-> i.slice,
               ro |-> IF exists THEN tx.ro ELSE tx.ro + 1]]

SetComputeUnitPrice(h, tx, value) ==
  set(h, tx, SetPrice, encode(SetPrice, PriceLen, value), TRUE)

SetComputeUnitLimit(h, tx, value) ==
  set(h, tx, SetLimit, encode(SetLimit, LimitLen, value), FALSE)

-----------------------------------------------------------------------------
\* The caller's transaction, with room behind its slices or none, is taken
\* from the queue and gets its limit.
Take(j, room) ==
  LET full(xs) == IF room THEN xs \o <<Spare>> ELSE xs
      given == <<full(j.keys), full(j.calls)>>
      tx == [keys |-> [array |-> 1, len |-> Len(j.keys)],
             ins |-> [array |-> 2, len |-> Len(j.calls)], ro |-> 1]
      limited == IF j.limit = 0 THEN [heap |-> given, tx |-> tx]
                 ELSE SetComputeUnitLimit(given, tx, j.limit)
  IN  /\ job = NoJob
      /\ job' = [calls |-> j.calls, keys |-> j.keys, limit |-> j.limit,
                 base |-> BaseComputeUnitPrice]
      /\ heap' = limited.heap /\ baseTx' = limited.tx
      /\ UNCHANGED <<price, built, signed>>

\* What is signed of a transaction.
Message(h, tx) == [keys |-> Contents(h, tx.keys), ins |-> Contents(h, tx.ins),
                   ro |-> tx.ro]

\* buildTx, on a copy of baseTx.  The retry loop keeps the last copy; its
\* rebroadcasts hold on to the earlier ones.  baseTx has no Signatures, so
\* that appending one allocates: no two copies share an array of them.
buildTx ==
  LET count == Len(built)
      fee == CalculateFee(job.base, MaxPrice, MinPrice, count)
      new == SetComputeUnitPrice(heap, baseTx, fee)
  IN  /\ job # NoJob /\ count <= MaxBumps
      /\ heap' = new.heap /\ built' = Append(built, new.tx)
      /\ signed' = Append(signed, Message(new.heap, new.tx))
      /\ UNCHANGED <<price, job, baseTx>>

Resolved ==
  /\ job # NoJob /\ built # <<>>
  /\ job' = NoJob /\ heap' = <<>> /\ baseTx' = NoTx
  /\ built' = <<>> /\ signed' = <<>>
  /\ UNCHANGED price

FeesNext ==
  \/ calculatePrice \/ buildTx \/ Resolved
  \/ \E j \in Jobs, room \in BOOLEAN : Take(j, room)

FeesSpec == FeesInit /\ [][FeesNext]_feeVars

-----------------------------------------------------------------------------
\* The fee after some bumps: doubled each time from 1 at least, inside the
\* limits.
Doubled(base, n) ==
  LET amount[i \in 0..n] ==
        IF i = 0 THEN base
        ELSE IF amount[i - 1] = 0 THEN 1 ELSE 2 * amount[i - 1]
  IN  amount[n]

FeeAfter(n) ==
  LET fee == Doubled(job.base, n)
  IN  IF fee > MaxPrice THEN MaxPrice
      ELSE IF fee < MinPrice THEN MinPrice ELSE fee

\* The instructions of a transaction, with the programs that they name.
Programs(tx) ==
  LET keys == Contents(heap, tx.keys)
      ins == Contents(heap, tx.ins)
  IN  [i \in DOMAIN ins |-> [program |-> keys[ins[i].program],
                             data |-> ins[i].data]]

Requested == [i \in DOMAIN job.calls |->
            [program |-> job.keys[job.calls[i].program],
             data |-> job.calls[i].data]]

Budget(data) == <<[program |-> ComputeBudgetProgram, data |-> data]>>

(***************************************************************************)
(* Every copy of a transaction, however often it was bumped since, sets    *)
(* the price of its own bump first, then makes the calls that were asked   *)
(* for and sets the limit if there is one; the price is the base doubled   *)
(* for each bump, inside the configured limits although doubling may       *)
(* overflow; the header counts the program that was added; and what it was *)
(* signed for is what it still is, so that a rebroadcast is not refused.   *)
(***************************************************************************)
BumpedAsConfigured ==
  \A n \in DOMAIN built :
    LET p == Programs(built[n])
        limit == IF job.limit = 0 THEN <<>>
                 ELSE Budget(encode(SetLimit, LimitLen, job.limit))
    IN  /\ ParseComputeUnitPrice(p[1].data) = FeeAfter(n - 1)
        /\ p = Budget(p[1].data) \o Requested \o limit
        /\ built[n].ro = 2
        /\ signed[n] = Message(heap, built[n])
=============================================================================

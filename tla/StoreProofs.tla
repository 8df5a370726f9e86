---------------------------- MODULE StoreProofs -----------------------------
(***************************************************************************)
(* The ring buffers of a feed account return what was submitted, for       *)
(* feeds of every size, every granularity and every number of rounds.      *)
(* Ownership, the deviation flag, the access lists and the rights that     *)
(* depend on them hold for any number of keys and access controllers,      *)
(* lists of any length, any answers and any thresholds.                    *)
(***************************************************************************)
EXTENDS Feed, StoreAccess, FiniteSetTheorems, WellFoundedInduction, TLAPS

(***************************************************************************)
(* The slot k places before cursor c in a ring of n slots.                 *)
(***************************************************************************)
Back(c, n, k) == IF k <= c THEN c - k ELSE n - (k - c)

LiveRing ==
  version = FEED_VERSION =>
    \A k \in 1..live_length :
      k <= latest_round_id =>
        slots[Back(live_cursor, live_length, k)]
          = submitted[latest_round_id - k + 1]

HistoricalRing ==
  (version = FEED_VERSION /\ historical_length > 0) =>
    \A k \in 1..historical_length :
      k * granularity <= historical_end =>
        slots[live_length + Back(historical_cursor, historical_length, k)]
          = submitted[historical_end - (k - 1) * granularity]

RoundsCounted == Len(submitted) = latest_round_id

(***************************************************************************)
(* The inductive invariant: the k-th slot before each cursor holds the     *)
(* k-th last round that ring took in.                                      *)
(***************************************************************************)
FeedInv == FeedTypeOK /\ RoundsCounted /\ LiveRing /\ HistoricalRing

-----------------------------------------------------------------------------
(***************************************************************************)
(* The remainder of the next number, as the cursors and the granularity    *)
(* test of insert use it.                                                  *)
(***************************************************************************)
LEMMA ModRange ==
  ASSUME NEW a \in Nat, NEW g \in Nat, g > 0
  PROVE  /\ a % g \in 0..(g - 1)
         /\ a \div g \in Nat
         /\ a = (a \div g) * g + (a % g)
  OBVIOUS

(* A quotient and a remainder in range determine \div and %. *)
LEMMA ModUnique ==
  ASSUME NEW g \in Nat, g > 0, NEW p \in Nat, NEW q \in Nat,
         NEW x \in 0..(g - 1), NEW y \in 0..(g - 1),
         p * g + x = q * g + y
  PROVE  p = q /\ x = y
  <1>1. CASE p < q
    <2>1. PICK d \in Nat : q = p + 1 + d  BY <1>1, q = p + 1 + (q - p - 1)
    <2>2. q * g = p * g + g + d * g  BY <2>1
    <2>3. d * g >= 0  OBVIOUS
    <2> QED  BY <2>2, <2>3
  <1>2. CASE q < p
    <2>1. PICK d \in Nat : p = q + 1 + d  BY <1>2, p = q + 1 + (p - q - 1)
    <2>2. p * g = q * g + g + d * g  BY <2>1
    <2>3. d * g >= 0  OBVIOUS
    <2> QED  BY <2>2, <2>3
  <1>3. CASE p = q  BY <1>3
  <1> QED  BY <1>1, <1>2, <1>3

(* How the remainder of insert's round id moves when the id grows by one. *)
LEMMA ModStep ==
  ASSUME NEW a \in Nat, NEW g \in Nat, g > 0
  PROVE  (a + 1) % g = IF a % g = g - 1 THEN 0 ELSE (a % g) + 1
  <1> DEFINE p == a \div g
             q == (a + 1) \div g
             x == a % g
             y == (a + 1) % g
  <1>1. /\ x \in 0..(g - 1) /\ p \in Nat /\ a = p * g + x
        /\ y \in 0..(g - 1) /\ q \in Nat /\ a + 1 = q * g + y
    BY ModRange, a + 1 \in Nat
  <1> HIDE DEF p, q, x, y
  <1>2. CASE x = g - 1
    <2>1. (p + 1) * g = p * g + g  BY <1>1
    <2>2. (p + 1) * g + 0 = q * g + y  BY <1>1, <1>2, <2>1
    <2>3. 0 = y
      BY <2>2, <1>1, ModUnique, p + 1 \in Nat, 0 \in 0..(g - 1)
    <2> QED  BY <2>3, <1>2 DEF x, y
  <1>3. CASE x # g - 1
    <2>1. p * g + (x + 1) = q * g + y  BY <1>1
    <2>2. x + 1 = y
      BY <2>1, <1>1, <1>3, ModUnique, x + 1 \in 0..(g - 1)
    <2> QED  BY <2>2, <1>3 DEF x, y
  <1> QED  BY <1>2, <1>3

(* The remainder of a multiple of m plus a small offset. *)
LEMMA ModOf ==
  ASSUME NEW a \in Nat, NEW g \in Nat, g > 0,
         NEW p \in Nat, NEW x \in 0..(g - 1), a = p * g + x
  PROVE  a % g = x
  <1>1. /\ a % g \in 0..(g - 1) /\ a \div g \in Nat
        /\ a = (a \div g) * g + (a % g)
    BY ModRange
  <1> QED  BY <1>1, ModUnique

(* The quotient of a multiple of m plus a small offset. *)
LEMMA DivOf ==
  ASSUME NEW a \in Nat, NEW g \in Nat, g > 0,
         NEW p \in Nat, NEW x \in 0..(g - 1), a = p * g + x
  PROVE  a \div g = p
  <1>1. /\ a % g \in 0..(g - 1) /\ a \div g \in Nat
        /\ a = (a \div g) * g + (a % g)
    BY ModRange
  <1> QED  BY <1>1, ModUnique

(* Multiplication by a natural number keeps the order. *)
LEMMA ProductMonotone ==
  ASSUME NEW a \in Nat, NEW b \in Nat, a <= b, NEW g \in Nat
  PROVE  a * g <= b * g
  <1>1. PICK d \in Nat : b = a + d  BY b = a + (b - a), b - a \in Nat
  <1>2. b * g = a * g + d * g  BY <1>1
  <1>3. d * g >= 0  OBVIOUS
  <1> QED  BY <1>2, <1>3

(* A ring cursor that insert advances stays inside its ring. *)
LEMMA CursorStep ==
  ASSUME NEW n \in Nat, n > 0, NEW c \in 0..(n - 1)
  PROVE  (c + 1) % n = IF c = n - 1 THEN 0 ELSE c + 1
  <1>1. c % n = c
    <2>1. /\ c % n \in 0..(n - 1) /\ c \div n \in Nat
          /\ c = (c \div n) * n + (c % n)
      BY ModRange
    <2>2. 0 * n + c = (c \div n) * n + (c % n)  BY <2>1
    <2> QED  BY <2>1, <2>2, ModUnique
  <1> QED  BY <1>1, ModStep

(***************************************************************************)
(* The cursor's move and the slots behind it: one step further back from   *)
(* the new cursor is the same slot, and the slot just behind it is the one *)
(* insert wrote.                                                           *)
(***************************************************************************)
LEMMA BackRange ==
  ASSUME NEW n \in Nat, NEW c \in 0..(n - 1), NEW k \in 1..n
  PROVE  Back(c, n, k) \in 0..(n - 1)
  BY DEF Back

(* What lay k places behind the cursor lies k + 1 places behind the next one. *)
LEMMA BackStep ==
  ASSUME NEW n \in Nat, n > 0, NEW c \in 0..(n - 1), NEW k \in 1..n,
         NEW d, d = (c + 1) % n
  PROVE  /\ d \in 0..(n - 1)
         /\ Back(d, n, 1) = c
         /\ k > 1 => /\ Back(d, n, k) = Back(c, n, k - 1)
                     /\ Back(d, n, k) # c
  <1>1. d = IF c = n - 1 THEN 0 ELSE c + 1  BY CursorStep
  <1> QED  BY <1>1 DEF Back

(***************************************************************************)
(* The last recorded round moves by one granularity when insert records.   *)
(***************************************************************************)
LEMMA EndStep ==
  ASSUME NEW a \in Nat, NEW g \in Nat, g > 0
  PROVE  (a + 1) - ((a + 1) % g)
           = IF (a + 1) % g = 0 THEN (a - (a % g)) + g ELSE a - (a % g)
  <1>1. /\ a % g \in 0..(g - 1)
        /\ (a + 1) % g = IF a % g = g - 1 THEN 0 ELSE (a % g) + 1
    BY ModStep, ModRange
  <1> QED  BY <1>1

(* Round 0 of an empty feed is a multiple of every granularity. *)
LEMMA ZeroMod ==
  ASSUME NEW g \in Nat, g > 0
  PROVE  0 % g = 0
  OBVIOUS

(* The product of granularity and a positive count is at least granularity. *)
LEMMA PositiveProduct ==
  ASSUME NEW k \in Nat, k > 0, NEW g \in Nat, g > 0
  PROVE  k * g \in Nat /\ k * g > 0
  OBVIOUS

(* A freshly allocated account satisfies the inductive invariant. *)
LEMMA TypeInit == FeedInit => FeedInv
  <1> SUFFICES ASSUME FeedInit PROVE FeedInv
    OBVIOUS
  <1>1. space \in Nat  BY FeedAssumption DEF FeedInit, Allocated
  <1> QED
    BY <1>1 DEF FeedInit, Allocated, FeedInv, FeedTypeOK, RoundsCounted,
                LiveRing, HistoricalRing, FEED_VERSION, historical_length

(* create_feed establishes the layout part of the inductive invariant. *)
LEMMA CreateStep ==
  ASSUME FeedInv, NEW length \in 0..(MaxSpace + 1),
         NEW gran \in 0..MaxGranularity, CreateLayout(length, gran)
  PROVE  FeedInv'
  <1> USE FeedAssumption
  <1>1. length \in Nat /\ gran \in Nat  OBVIOUS
  <1>2. FeedTypeOK'
    BY <1>1 DEF FeedInv, FeedTypeOK, CreateLayout, FEED_VERSION,
                historical_length
  <1>3. RoundsCounted'  BY DEF FeedInv, RoundsCounted, CreateLayout
  <1>4. latest_round_id' = 0
    BY DEF FeedInv, FeedTypeOK, CreateLayout
  <1>5. LiveRing'  BY <1>4, <1>1 DEF LiveRing, CreateLayout
  <1>6. HistoricalRing'
    <2>1. granularity' \in Nat /\ granularity' > 0
      BY <1>1 DEF CreateLayout
    <2>2. historical_end' = 0
      <3>1. 0 % granularity' = 0  BY <2>1, ZeroMod
      <3> QED  BY <1>4, <3>1 DEF historical_end
    <2>4. historical_length' \in Int
      BY <1>2 DEF FeedTypeOK, historical_length
    <2>5. \A k \in 1..historical_length' : ~(k * granularity' <= historical_end')
      <3> SUFFICES ASSUME NEW k \in 1..historical_length'
                   PROVE  ~(k * granularity' <= 0)
        BY <2>2
      <3>1. k \in Nat /\ k > 0  BY <2>4
      <3>2. k * granularity' \in Nat /\ k * granularity' > 0
        BY <3>1, <2>1, PositiveProduct
      <3> QED  BY <3>2
    <2> QED  BY <2>5 DEF HistoricalRing
  <1> QED  BY <1>2, <1>3, <1>5, <1>6 DEF FeedInv

(* Feed::insert preserves the inductive invariant. *)
LEMMA InsertStep ==
  ASSUME FeedInv, NEW t \in Transmission, insert(t)
  PROVE  FeedInv'
  <1> DEFINE L == live_length
             H == historical_length
             g == granularity
             id == latest_round_id + 1
  <1>1. /\ L \in Nat /\ L > 0 /\ g \in Nat /\ g > 0 /\ H \in Nat
        /\ space \in Nat /\ space = L + H
        /\ latest_round_id \in Nat /\ id \in Nat
        /\ live_cursor \in 0..(L - 1)
        /\ H > 0 => historical_cursor \in 0..(H - 1)
        /\ historical_cursor \in Nat
        /\ slots \in [0..(space - 1) -> Transmission \cup {Zero}]
        /\ submitted \in Seq(Transmission)
        /\ Len(submitted) = latest_round_id
        /\ version = FEED_VERSION
    BY DEF FeedInv, FeedTypeOK, RoundsCounted, insert, historical_length
  <1>2. /\ latest_round_id' = id
        /\ live_cursor' = (live_cursor + 1) % L
        /\ submitted' = Append(submitted, t)
        /\ space' = space /\ version' = version
        /\ live_length' = L /\ granularity' = g
        /\ historical_length' = H
    BY DEF insert, historical_length
  <1>3. /\ Recorded(id) =>
             /\ slots' = [slots EXCEPT ![live_cursor] = t,
                                       ![L + historical_cursor] = t]
             /\ historical_cursor' = (historical_cursor + 1) % H
        /\ ~Recorded(id) =>
             /\ slots' = [slots EXCEPT ![live_cursor] = t]
             /\ historical_cursor' = historical_cursor
    BY DEF insert
  <1>4. Recorded(id) <=> (H > 0 /\ id % g = 0)  BY DEF Recorded
  <1> HIDE DEF L, H, g, id
  <1>5. /\ live_cursor' \in 0..(L - 1)
        /\ H > 0 => (historical_cursor + 1) % H \in 0..(H - 1)
    <2>1. live_cursor' \in 0..(L - 1)
      BY <1>1, <1>2, BackStep, 1 \in 1..L
    <2>2. ASSUME H > 0 PROVE (historical_cursor + 1) % H \in 0..(H - 1)
      BY <2>2, <1>1, BackStep, 1 \in 1..H
    <2> QED  BY <2>1, <2>2
  <1>6. /\ slots' \in [0..(space - 1) -> Transmission \cup {Zero}]
        /\ slots'[live_cursor] = t
        /\ \A i \in 0..(L - 1) : i # live_cursor => slots'[i] = slots[i]
    <2>1. CASE Recorded(id)
      <3>1. L + historical_cursor \in 0..(space - 1)
            /\ L + historical_cursor \notin 0..(L - 1)
        BY <2>1, <1>1, <1>4
      <3> DEFINE h == L + historical_cursor
                 D == 0..(space - 1)
                 R == Transmission \cup {Zero}
      <3>2. slots' = [slots EXCEPT ![live_cursor] = t, ![h] = t]
        BY <2>1, <1>3
      <3>3. /\ live_cursor \in D /\ h \in D /\ h # live_cursor
            /\ \A i \in 0..(L - 1) : i \in D /\ i # h
        BY <3>1, <1>1
      <3>4. slots \in [D -> R] /\ t \in R  BY <1>1
      <3> HIDE DEF h, D, R
      <3>5. slots' \in [D -> R]  BY <3>2, <3>3, <3>4
      <3>6. slots'[live_cursor] = t  BY <3>2, <3>3, <3>4
      <3>7. \A i \in 0..(L - 1) : i # live_cursor => slots'[i] = slots[i]
        BY <3>2, <3>3, <3>4
      <3> QED  BY <3>5, <3>6, <3>7 DEF D, R
    <2>2. CASE ~Recorded(id)
      <3>1. slots' = [slots EXCEPT ![live_cursor] = t]  BY <2>2, <1>3
      <3>2. /\ live_cursor \in 0..(space - 1)
            /\ \A i \in 0..(L - 1) : i \in 0..(space - 1)
        BY <1>1
      <3> QED  BY <3>1, <3>2, <1>1
    <2> QED  BY <2>1, <2>2
  <1>7. /\ submitted' \in Seq(Transmission)
        /\ Len(submitted') = id
        /\ submitted'[id] = t
        /\ \A r \in 1..latest_round_id : submitted'[r] = submitted[r]
    BY <1>1, <1>2 DEF id
  <1>8. FeedTypeOK'
    <2>1. historical_cursor' \in Nat
          /\ (historical_cursor' < H \/ historical_cursor' = 0)
      BY <1>1, <1>3, <1>4, <1>5 DEF FeedInv, FeedTypeOK, H
    <2> QED
      BY <1>1, <1>2, <1>5, <1>6, <1>7, <2>1
      DEF FeedTypeOK, FEED_VERSION, L, H, g, id, historical_length
  <1>9. RoundsCounted'  BY <1>2, <1>7 DEF RoundsCounted
  <1>10. LiveRing'
    <2> SUFFICES ASSUME NEW k \in 1..L, k <= id
                 PROVE  slots'[Back(live_cursor', L, k)]
                          = submitted'[id - k + 1]
      BY <1>2 DEF LiveRing
    <2>1. CASE k = 1
      <3>1. Back(live_cursor', L, 1) = live_cursor
        BY <1>1, <1>2, BackStep
      <3>2. id - 1 + 1 = id  BY <1>1
      <3> QED  BY <2>1, <3>1, <3>2, <1>6, <1>7
    <2>2. CASE k > 1
      <3>1. k - 1 \in 1..L /\ k - 1 <= latest_round_id
        BY <2>2, <1>1 DEF id
      <3>2. slots[Back(live_cursor, L, k - 1)]
              = submitted[latest_round_id - (k - 1) + 1]
        BY <3>1, <1>1 DEF FeedInv, LiveRing, L
      <3>3. /\ Back(live_cursor', L, k) = Back(live_cursor, L, k - 1)
            /\ Back(live_cursor', L, k) # live_cursor
            /\ Back(live_cursor, L, k - 1) \in 0..(L - 1)
        <4>1. L \in Nat /\ L > 0 /\ live_cursor \in 0..(L - 1)
              /\ live_cursor' = (live_cursor + 1) % L
          BY <1>1, <1>2
        <4>2. k > 1 => /\ Back(live_cursor', L, k)
                            = Back(live_cursor, L, k - 1)
                       /\ Back(live_cursor', L, k) # live_cursor
          BY <4>1, BackStep
        <4>3. Back(live_cursor, L, k - 1) \in 0..(L - 1)
          BY <4>1, <3>1, BackRange
        <4> QED  BY <4>2, <4>3, <2>2
      <3>4. slots'[Back(live_cursor', L, k)]
              = slots[Back(live_cursor, L, k - 1)]
        BY <3>3, <1>6
      <3>5. /\ latest_round_id - (k - 1) + 1 = id - k + 1
            /\ id - k + 1 \in 1..latest_round_id
        BY <2>2, <1>1 DEF id
      <3> QED  BY <3>2, <3>4, <3>5, <1>7
    <2> QED  BY <2>1, <2>2
  <1>11. HistoricalRing'
    <2> SUFFICES ASSUME H > 0, NEW k \in 1..H, k * g <= historical_end'
                 PROVE  slots'[L + Back(historical_cursor', H, k)]
                          = submitted'[historical_end' - (k - 1) * g]
      BY <1>2 DEF HistoricalRing
    <2>1. historical_end' = IF id % g = 0 THEN historical_end + g
                                          ELSE historical_end
      BY <1>1, <1>2, EndStep DEF historical_end, id, g
    <2>2. historical_end \in 0..latest_round_id
      BY <1>1, ModRange DEF historical_end, g
    <2>3. \A j \in Nat : /\ j * g \in Nat
                         /\ (j + 1) * g = j * g + g
      BY <1>1
    <2>4. /\ k - 1 \in Nat /\ (k - 1) * g \in Nat
          /\ k * g = (k - 1) * g + g
      <3>1. k - 1 \in Nat /\ (k - 1) + 1 = k  BY <1>1
      <3> QED  BY <3>1, <2>3
    <2>5. CASE id % g # 0
      <3>1. ~Recorded(id)  BY <2>5, <1>4
      <3>2. slots[L + Back(historical_cursor, H, k)]
              = submitted[historical_end - (k - 1) * g]
        BY <2>1, <2>5, <1>1 DEF FeedInv, HistoricalRing, L, H, g
      <3>3. Back(historical_cursor, H, k) \in 0..(H - 1)
        BY <1>1, BackRange
      <3>4. L + Back(historical_cursor, H, k) \in 0..(space - 1)
            /\ L + Back(historical_cursor, H, k) # live_cursor
        BY <3>3, <1>1
      <3>5. slots'[L + Back(historical_cursor', H, k)]
              = slots[L + Back(historical_cursor, H, k)]
        BY <3>1, <3>4, <1>1, <1>3
      <3>6. historical_end - (k - 1) * g \in 1..latest_round_id
        BY <2>1, <2>2, <2>4, <2>5, <1>1
      <3> QED  BY <3>2, <3>5, <3>6, <1>7, <2>1, <2>5
    <2>6. CASE id % g = 0
      <3>1. Recorded(id)  BY <2>6, <1>4
      <3>2. /\ L + historical_cursor \in 0..(space - 1)
            /\ historical_cursor \in 0..(H - 1)
            /\ historical_cursor' = (historical_cursor + 1) % H
            /\ slots'[L + historical_cursor] = t
            /\ \A i \in L..(space - 1) :
                 i # L + historical_cursor => slots'[i] = slots[i]
        BY <3>1, <1>1, <1>3
      <3>3. historical_end' = id
        BY <2>6, <1>1, <1>2 DEF historical_end, id
      <3>4. CASE k = 1
        <4>1. Back(historical_cursor', H, k) = historical_cursor
          BY <3>4, <3>2, <1>1, BackStep
        <4>2. (k - 1) * g = 0  BY <3>4, <1>1
        <4>3. historical_end' - (k - 1) * g = id  BY <4>2, <3>3, <1>1
        <4> QED  BY <4>1, <4>3, <3>2, <1>7
      <3>5. CASE k > 1
        <4>1. k - 1 \in 1..H  BY <3>5, <1>1
        <4>2. /\ Back(historical_cursor', H, k)
                   = Back(historical_cursor, H, k - 1)
              /\ Back(historical_cursor', H, k) # historical_cursor
              /\ Back(historical_cursor, H, k - 1) \in 0..(H - 1)
          <5>1. H \in Nat /\ H > 0  BY <1>1
          <5>2. k > 1 => /\ Back(historical_cursor', H, k)
                              = Back(historical_cursor, H, k - 1)
                         /\ Back(historical_cursor', H, k)
                              # historical_cursor
            <6>1. PICK n, c, d :
                    n = H /\ c = historical_cursor /\ d = historical_cursor'
              OBVIOUS
            <6>2. n \in Nat /\ n > 0 /\ c \in 0..(n - 1) /\ d = (c + 1) % n /\ k \in 1..n
              BY <6>1, <5>1, <3>2
            <6>3. k > 1 => Back(d, n, k) = Back(c, n, k - 1) /\ Back(d, n, k) # c
              BY <6>2, BackStep
            <6> QED  BY <6>1, <6>3
          <5>3. Back(historical_cursor, H, k - 1) \in 0..(H - 1)
            BY <5>1, <4>1, <3>2, BackRange
          <5> QED  BY <5>2, <5>3, <3>5
        <4>3. (k - 1) * g <= historical_end
          BY <2>1, <2>2, <2>4, <2>6, <1>1
        <4>4. slots[L + Back(historical_cursor, H, k - 1)]
                = submitted[historical_end - ((k - 1) - 1) * g]
          BY <4>1, <4>3, <1>1 DEF FeedInv, HistoricalRing, L, H, g
        <4>5. slots'[L + Back(historical_cursor', H, k)]
                = slots[L + Back(historical_cursor, H, k - 1)]
          BY <4>2, <3>2, <1>1
        <4>6. (k - 1) * g = ((k - 1) - 1) * g + g
              /\ ((k - 1) - 1) * g \in Nat
          <5>1. (k - 1) - 1 \in Nat /\ ((k - 1) - 1) + 1 = k - 1
            BY <4>1
          <5> QED  BY <5>1, <2>3
        <4>7. /\ historical_end - ((k - 1) - 1) * g
                   = historical_end' - (k - 1) * g
              /\ historical_end' - (k - 1) * g \in 1..latest_round_id
          BY <4>3, <4>6, <2>1, <2>2, <2>6, <1>1
        <4> QED  BY <4>4, <4>5, <4>7, <1>7
      <3> QED  BY <3>4, <3>5
    <2> QED  BY <2>5, <2>6
  <1> QED  BY <1>8, <1>9, <1>10, <1>11 DEF FeedInv

(***************************************************************************)
(* The inductive invariant holds of every reachable feed.                  *)
(***************************************************************************)
THEOREM FeedInvariance == FeedSpec => []FeedInv
  <1>1. FeedInv /\ [FeedNext]_feedVars => FeedInv'
    <2> SUFFICES ASSUME FeedInv, [FeedNext]_feedVars PROVE FeedInv'
      OBVIOUS
    <2>1. CASE \E length \in 0..(MaxSpace + 1), gran \in 0..MaxGranularity :
                 CreateLayout(length, gran)
      BY <2>1, CreateStep
    <2>2. CASE \E t \in Transmission : insert(t)
      BY <2>2, InsertStep
    <2>3. CASE UNCHANGED feedVars
      BY <2>3 DEF feedVars, FeedInv, FeedTypeOK, RoundsCounted, LiveRing,
                  HistoricalRing, historical_length, historical_end
    <2> QED  BY <2>1, <2>2, <2>3 DEF FeedNext
  <1> QED  BY TypeInit, <1>1, PTL DEF FeedSpec

(***************************************************************************)
(* What the invariant says of the three answers a feed gives.              *)
(***************************************************************************)
LEMMA LatestFromInv == FeedInv => LatestIsLastSubmitted
  <1> SUFFICES ASSUME FeedInv, version = FEED_VERSION
               PROVE  latest = IF submitted = <<>> THEN None
                               ELSE submitted[Len(submitted)]
    BY DEF LatestIsLastSubmitted
  <1>1. /\ live_length \in Nat /\ live_length > 0
        /\ latest_round_id \in Nat
        /\ live_cursor \in 0..(live_length - 1)
        /\ submitted \in Seq(Transmission)
        /\ Len(submitted) = latest_round_id
    BY DEF FeedInv, FeedTypeOK, RoundsCounted
  <1>2. CASE latest_round_id = 0
    <2>1. submitted = <<>>  BY <1>1, <1>2
    <2> QED  BY <2>1, <1>2 DEF latest
  <1>3. CASE latest_round_id # 0
    <2>1. (live_cursor + live_length - 1) % live_length
            = Back(live_cursor, live_length, 1)
      <3> DEFINE b == Back(live_cursor, live_length, 1)
      <3>1. b \in 0..(live_length - 1)  BY <1>1, BackRange, 1 \in 1..live_length
      <3>2. \/ live_cursor + live_length - 1 = 0 * live_length + b
            \/ live_cursor + live_length - 1 = 1 * live_length + b
        BY <1>1 DEF Back
      <3>3. live_cursor + live_length - 1 \in Nat  BY <1>1
      <3> HIDE DEF b
      <3> QED  BY <3>1, <3>2, <3>3, <1>1, ModOf DEF b
    <2>2. slots[Back(live_cursor, live_length, 1)]
            = submitted[latest_round_id - 1 + 1]
      BY <1>1, <1>3, 1 \in 1..live_length DEF FeedInv, LiveRing
    <2>3. submitted # <<>>  BY <1>1, <1>3
    <2>4. latest_round_id - 1 + 1 = latest_round_id  BY <1>1
    <2> QED  BY <1>1, <1>3, <2>1, <2>2, <2>3, <2>4 DEF latest
  <1> QED  BY <1>2, <1>3

(* fetch on the live window, from the inductive invariant. *)
LEMMA LiveFromInv == FeedInv => LiveWindowExact
  <1> SUFFICES ASSUME FeedInv, version = FEED_VERSION,
                      NEW r \in 1..latest_round_id,
                      r > latest_round_id - live_length
               PROVE  fetch(r) = submitted[r]
    BY DEF LiveWindowExact
  <1> DEFINE k == latest_round_id - r + 1
  <1>1. /\ live_length \in Nat /\ live_length > 0
        /\ latest_round_id \in Nat /\ r \in Nat /\ r > 0
        /\ live_cursor \in 0..(live_length - 1)
    BY DEF FeedInv, FeedTypeOK
  <1>2. live_start <= r  BY <1>1 DEF live_start, SaturatingSub
  <1>3. k \in 1..live_length /\ k <= latest_round_id
        /\ latest_round_id - k + 1 = r
    BY <1>1
  <1>4. Back(live_cursor, live_length, k) \in 0..(live_length - 1)
    BY <1>1, <1>3, BackRange
  <1>5. slots[Back(live_cursor, live_length, k)] = submitted[r]
    BY <1>3 DEF FeedInv, LiveRing
  <1>6. fetch(r) = Before(0, live_length, live_cursor, k)
    BY <1>1, <1>2 DEF fetch
  <1> HIDE DEF k
  <1>7. Before(0, live_length, live_cursor, k)
          = slots[0 + Back(live_cursor, live_length, k)]
    BY <1>4 DEF Before, Back
  <1>8. 0 + Back(live_cursor, live_length, k)
          = Back(live_cursor, live_length, k)
    BY <1>4
  <1> QED  BY <1>5, <1>6, <1>7, <1>8

(* fetch on the historical range, from the inductive invariant. *)
LEMMA HistoricalFromInv == FeedInv => HistoricalRoundsDown
  <1> SUFFICES ASSUME FeedInv, version = FEED_VERSION,
                      NEW r \in 1..latest_round_id,
                      historical_length > 0,
                      r <= latest_round_id - live_length,
                      r <= historical_end,
                      RoundDown(r) >= granularity,
                      RoundDown(r) > historical_end
                                       - granularity * historical_length
               PROVE  fetch(r) = submitted[RoundDown(r)]
    BY DEF HistoricalRoundsDown
  <1> DEFINE L == live_length
             H == historical_length
             g == granularity
             m == latest_round_id \div g
             n == r \div g
             k == m - n + 1
  <1>1. /\ L \in Nat /\ L > 0 /\ g \in Nat /\ g > 0 /\ H \in Nat
        /\ latest_round_id \in Nat /\ r \in Nat /\ r > 0
        /\ historical_cursor \in 0..(H - 1)
    BY DEF FeedInv, FeedTypeOK, historical_length
  <1>2. /\ m \in Nat /\ historical_end = m * g
        /\ n \in Nat /\ RoundDown(r) = n * g
    BY <1>1, ModRange DEF historical_end, RoundDown
  <1>2a. r < n * g + g
    BY <1>1, ModRange
  <1> HIDE DEF L, H, g, m, n
  <1>3. n <= m
    <2> SUFFICES ASSUME m + 1 <= n PROVE FALSE  BY <1>2
    <2>1. (m + 1) * g <= n * g  BY <1>1, <1>2, ProductMonotone, m + 1 \in Nat
    <2>2. n * g <= r  BY <1>1, <1>2, ModRange DEF RoundDown, g
    <2> QED  BY <2>1, <2>2, <1>1, <1>2
  <1>4. m < n + H
    <2> SUFFICES ASSUME n + H <= m PROVE FALSE  BY <1>1, <1>2
    <2>1. (n + H) * g <= m * g  BY <1>1, <1>2, ProductMonotone, n + H \in Nat
    <2>2. (n + H) * g = n * g + g * H  BY <1>1, <1>2
    <2>3. /\ n * g \in Int /\ g * H \in Int /\ m * g \in Int
          /\ n * g > m * g - g * H
      BY <1>1, <1>2 DEF g, H
    <2> QED  BY <2>1, <2>2, <2>3
  <1>5. n >= 1
    <2>1. n = 0 => n * g = 0  BY <1>1
    <2> QED  BY <2>1, <1>1, <1>2 DEF g
  <1>6. k \in 1..H /\ m - (k - 1) = n  BY <1>1, <1>2, <1>3, <1>4
  <1>7. /\ (k - 1) * g = m * g - n * g
        /\ k * g = m * g - n * g + g
    BY <1>1, <1>2
  <1>8. k * g <= historical_end
    <2>1. g <= n * g  BY <1>2 DEF g
    <2> QED  BY <2>1, <1>7, <1>2, <1>1
  <1>9. slots[L + Back(historical_cursor, H, k)] = submitted[RoundDown(r)]
    <2>1. slots[L + Back(historical_cursor, H, k)]
            = submitted[historical_end - (k - 1) * g]
      BY <1>6, <1>8, <1>1 DEF FeedInv, HistoricalRing, L, H, g
    <2>2. historical_end - (k - 1) * g = RoundDown(r)
      BY <1>1, <1>2, <1>7
    <2> QED  BY <2>1, <2>2
  <1>10. (historical_end - RoundDown(r)) \div g + 1 = k
    <2>1. historical_end - RoundDown(r) = (m - n) * g + 0
      BY <1>1, <1>2
    <2>2. (historical_end - RoundDown(r)) \div g = m - n
      BY <2>1, <1>1, <1>2, <1>3, DivOf, m - n \in Nat
    <2> QED  BY <2>2
  <1>11. historical_start <= r
    <2>1. SaturatingSub(H, 1) = H - 1  BY <1>1 DEF SaturatingSub, H
    <2>2. (H - 1) \in Nat /\ m - n <= H - 1  BY <1>1, <1>2, <1>4 DEF H
    <2>3. (m - n) * g <= (H - 1) * g
      BY <2>2, <1>1, <1>2, <1>3, ProductMonotone, m - n \in Nat
    <2>4. (m - n) * g = m * g - n * g  BY <1>1, <1>2
    <2>5. g * (H - 1) = (H - 1) * g  BY <1>1
    <2>6. n * g <= r  BY <1>1, <1>2, ModRange DEF RoundDown, g
    <2>7. m * g \in Nat /\ n * g \in Nat /\ (H - 1) * g \in Nat
      BY <1>1, <1>2, <2>2
    <2>8. historical_end - g * (H - 1) <= r
      BY <2>3, <2>4, <2>5, <2>6, <2>7, <1>1, <1>2
    <2>9. historical_start = SaturatingSub(historical_end, g * (H - 1))
      BY <2>1 DEF historical_start, g, H
    <2> QED  BY <2>5, <2>7, <2>8, <2>9, <1>1, <1>2 DEF SaturatingSub
  <1>12. ~(live_start <= r)
    BY <1>1 DEF live_start, SaturatingSub, L
  <1>13. fetch(r) = Before(L, H, historical_cursor, k)
    BY <1>1, <1>10, <1>11, <1>12 DEF fetch, L, H, g
  <1>14. Back(historical_cursor, H, k) \in 0..(H - 1)
    BY <1>1, <1>6, BackRange
  <1> HIDE DEF k
  <1>15. Before(L, H, historical_cursor, k)
           = slots[L + Back(historical_cursor, H, k)]
    BY <1>14 DEF Before, Back
  <1> QED  BY <1>9, <1>13, <1>15

(* A round id rounded down to a multiple of the granularity. *)
LEMMA RoundedDown ==
  ASSUME NEW a \in Nat, NEW g \in Nat, g > 0
  PROVE  a - (a % g) \in Nat
  <1>1. /\ a % g \in 0..(g - 1) /\ a \div g \in Nat
        /\ a = (a \div g) * g + (a % g)
    BY ModRange
  <1>2. (a \div g) * g \in Nat  BY <1>1
  <1> QED  BY <1>1, <1>2

(* fetch below both windows, from the types: neither buffer is read. *)
LEMMA EvictedFromInv == FeedInv => EvictedNotFound
  <1> SUFFICES ASSUME FeedInv, version = FEED_VERSION,
                      NEW r \in 1..latest_round_id,
                      r <= latest_round_id - live_length,
                      r < historical_end
                            - granularity * SaturatingSub(historical_length, 1)
               PROVE  fetch(r) = None
    BY DEF EvictedNotFound
  <1> DEFINE kept == granularity * SaturatingSub(historical_length, 1)
  <1>1. /\ live_length \in Nat /\ live_length > 0
        /\ latest_round_id \in Nat /\ r \in Nat /\ r > 0
        /\ granularity \in Nat /\ granularity > 0 /\ historical_length \in Nat
    BY DEF FeedInv, FeedTypeOK, historical_length
  <1>2. historical_end \in Nat
    BY <1>1, RoundedDown DEF historical_end
  <1>3. SaturatingSub(historical_length, 1) \in Nat
    BY <1>1 DEF SaturatingSub
  <1>4. kept \in Nat  BY <1>1, <1>3
  <1>5. ~(live_start <= r)
    BY <1>1 DEF live_start, SaturatingSub
  <1>6. historical_start = SaturatingSub(historical_end, kept)
    BY DEF historical_start
  <1> HIDE DEF kept
  <1>7. r < historical_end - kept  BY DEF kept
  <1>8. ~(historical_start <= r)
    BY <1>1, <1>2, <1>4, <1>6, <1>7 DEF SaturatingSub
  <1> QED  BY <1>5, <1>8 DEF fetch

(***************************************************************************)
(* Feed accounts keep their types and their cursors inside their rings, so *)
(* no index of insert or latest is ever out of bounds.                     *)
(***************************************************************************)
THEOREM FeedTypeCorrect == FeedSpec => []FeedTypeOK
  BY FeedInvariance, PTL DEF FeedInv

(***************************************************************************)
(* Feed::latest is the last transmission inserted, whatever the size of    *)
(* the live buffer and however often it has wrapped around.                *)
(***************************************************************************)
THEOREM LatestCorrect == FeedSpec => []LatestIsLastSubmitted
  BY FeedInvariance, LatestFromInv, PTL

(***************************************************************************)
(* Feed::fetch is exact on the last live_length rounds.                    *)
(***************************************************************************)
THEOREM LiveWindowCorrect == FeedSpec => []LiveWindowExact
  BY FeedInvariance, LiveFromInv, PTL

(***************************************************************************)
(* Feed::fetch answers a round of the historical range with the recorded   *)
(* round at or below it.                                                   *)
(***************************************************************************)
THEOREM HistoricalRangeCorrect == FeedSpec => []HistoricalRoundsDown
  BY FeedInvariance, HistoricalFromInv, PTL

(***************************************************************************)
(* Feed::fetch answers None for a round that neither ring buffer reaches   *)
(* any more, never with the round that has taken its slot.                 *)
(***************************************************************************)
THEOREM EvictedCorrect == FeedSpec => []EvictedNotFound
  BY FeedInvariance, EvictedFromInv, PTL

-----------------------------------------------------------------------------
(***************************************************************************)
(* An account's owner can sign, and the one proposed can sign or is the    *)
(* zero key.                                                               *)
(***************************************************************************)
Owned(r, K) ==
  /\ {"owner", "proposed_owner"} \subseteq DOMAIN r
  /\ r.owner \in K /\ r.proposed_owner \in K \cup {Default}

CtrlOwned ==
  DOMAIN ctrl = Ctrl /\ \A c \in Ctrl : Owned(ctrl[c], Key)

StoreOwned == Owned(store, Key)

AggOwned == Owned(agg, Key)

OpenFeed ==
  [open : {TRUE}, owner : Owner, proposed_owner : Owner \cup {Default},
   writer : {Default, StoreAuthority}, state : {"NORMAL", "FLAGGED"},
   flagging_threshold : Nat, latest : Seq(Int)]

FeedOk == feed \in OpenFeed \cup [open : {FALSE}]

OwnershipInv == CtrlOwned /\ StoreOwned /\ AggOwned /\ FeedOk

(* The accounts are created with an owner who can sign. *)
LEMMA OwnershipInit == Init => OwnershipInv
  <1> SUFFICES ASSUME Init PROVE OwnershipInv  OBVIOUS
  <1>1. CtrlOwned  BY DEF Init, CtrlOwned, Owned
  <1>2. StoreOwned  BY DEF Init, StoreOwned, Owned
  <1>3. AggOwned  BY DEF Init, AggOwned, Owned
  <1>4. FeedOk  BY DEF Init, FeedOk
  <1> QED  BY <1>1, <1>2, <1>3, <1>4 DEF OwnershipInv

(* A change of other fields leaves the owners. *)
LEMMA ProposedOwned ==
  ASSUME NEW K, NEW r, Owned(r, K), NEW k \in K \cup {Default}
  PROVE  Owned(Proposed(r, k), K)
  BY DEF Owned, Proposed

(* accept_ownership makes the proposed owner the owner. *)
LEMMA AcceptedOwned ==
  ASSUME NEW K, NEW r, Owned(r, K), r.proposed_owner \in K
  PROVE  Owned(Accepted(r), K)
  BY DEF Owned, Accepted

(* The instructions of the access_controller program keep the owners. *)
LEMMA CtrlStepOwned ==
  ASSUME OwnershipInv, NEW signer \in Key, CtrlStep(signer)
  PROVE  OwnershipInv'
  <1> USE DEF OwnershipInv
  <1>0. PICK c \in Ctrl, k \in Key \cup {Default} :
          \/ add_access(c, signer, k) \/ remove_access(c, signer, k)
          \/ transfer_ownership(c, signer, k) \/ accept_ownership(c, signer)
    BY DEF CtrlStep
  <1>1. UNCHANGED <<store, agg, feed>>
    BY <1>0 DEF add_access, remove_access, transfer_ownership,
                accept_ownership
  <1>2. StoreOwned' /\ AggOwned' /\ FeedOk'
    BY <1>1 DEF StoreOwned, AggOwned, FeedOk
  <1>3. PICK r : ctrl' = [ctrl EXCEPT ![c] = r] /\ Owned(r, Key)
    <2>1. Owned(ctrl[c], Key)  BY DEF CtrlOwned
    <2>2. CASE add_access(c, signer, k)
      <3> DEFINE r == [ctrl[c] EXCEPT !.access_list = Inserted(@, k)]
      <3>1. Owned(r, Key)  BY <2>1 DEF Owned
      <3>2. ctrl' = [ctrl EXCEPT ![c] = r]  BY <2>2 DEF add_access
      <3> QED  BY <3>1, <3>2
    <2>3. CASE remove_access(c, signer, k)
      <3> DEFINE r == [ctrl[c] EXCEPT !.access_list = Removed(@, k)]
      <3>1. Owned(r, Key)  BY <2>1 DEF Owned
      <3>2. ctrl' = [ctrl EXCEPT ![c] = r]  BY <2>3 DEF remove_access
      <3> QED  BY <3>1, <3>2
    <2>4. CASE transfer_ownership(c, signer, k)
      <3>1. Owned(Proposed(ctrl[c], k), Key)  BY <2>1, ProposedOwned
      <3> QED  BY <2>4, <3>1 DEF transfer_ownership
    <2>5. CASE accept_ownership(c, signer)
      <3>1. Owned(Accepted(ctrl[c]), Key)
        BY <2>1, <2>5, AcceptedOwned DEF accept_ownership
      <3> QED  BY <2>5, <3>1 DEF accept_ownership
    <2> QED  BY <1>0, <2>2, <2>3, <2>4, <2>5
  <1>4. CtrlOwned'
    BY <1>3 DEF CtrlOwned
  <1> QED  BY <1>2, <1>4

(* The instructions on the store account keep the owners. *)
LEMMA StoreStepOwned ==
  ASSUME OwnershipInv, NEW signer \in Key, StoreStep(signer)
  PROVE  OwnershipInv'
  <1> USE DEF OwnershipInv
  <1>1. UNCHANGED <<ctrl, agg, feed>>
    BY DEF StoreStep, transfer_store_ownership, accept_store_ownership,
           set_lowering_access_controller
  <1>2. CtrlOwned' /\ AggOwned' /\ FeedOk'
    BY <1>1 DEF CtrlOwned, AggOwned, FeedOk
  <1>3. StoreOwned'
    <2>1. CASE \E k \in Key \cup {Default} :
                 transfer_store_ownership(signer, k)
      BY <2>1, ProposedOwned DEF transfer_store_ownership, StoreOwned
    <2>2. CASE accept_store_ownership(signer)
      BY <2>2, AcceptedOwned DEF accept_store_ownership, StoreOwned
    <2>3. CASE \E c \in Ctrl : set_lowering_access_controller(signer, c)
      BY <2>3 DEF set_lowering_access_controller, StoreOwned, Owned
    <2> QED  BY <2>1, <2>2, <2>3 DEF StoreStep
  <1> QED  BY <1>2, <1>3

(* The aggregator's instructions keep the owners. *)
LEMMA AggregatorStepOwned ==
  ASSUME OwnershipInv, NEW signer \in Key, AggregatorStep(signer)
  PROVE  OwnershipInv'
  <1> USE DEF OwnershipInv
  <1>1. UNCHANGED <<ctrl, store, feed>>
    BY DEF AggregatorStep, transfer_aggregator_ownership,
           accept_aggregator_ownership, set_billing_access_controller,
           set_requester_access_controller, billing_instruction,
           request_new_round
  <1>2. CtrlOwned' /\ StoreOwned' /\ FeedOk'
    BY <1>1 DEF CtrlOwned, StoreOwned, FeedOk
  <1>3. AggOwned'
    <2>1. CASE \E k \in Key \cup {Default} :
                 transfer_aggregator_ownership(signer, k)
      BY <2>1, ProposedOwned DEF transfer_aggregator_ownership, AggOwned
    <2>2. CASE accept_aggregator_ownership(signer)
      BY <2>2, AcceptedOwned DEF accept_aggregator_ownership, AggOwned
    <2>3. CASE \E c \in Ctrl : \/ set_billing_access_controller(signer, c)
                               \/ set_requester_access_controller(signer, c)
      BY <2>3 DEF set_billing_access_controller,
                  set_requester_access_controller, AggOwned, Owned
    <2>4. CASE \E c \in Ctrl : \/ billing_instruction(signer, c)
                               \/ request_new_round(signer, c)
      BY <2>4 DEF billing_instruction, request_new_round, AggOwned
    <2> QED  BY <2>1, <2>2, <2>3, <2>4 DEF AggregatorStep
  <1> QED  BY <1>2, <1>3

(* The instructions on a feed account keep an owner who can sign. *)
LEMMA FeedStepOwned ==
  ASSUME OwnershipInv, NEW signer \in Key, FeedStep(signer)
  PROVE  OwnershipInv'
  <1> USE DEF OwnershipInv
  <1>1. UNCHANGED <<ctrl, store, agg>>
    BY DEF FeedStep, create_feed, close_feed, set_validator_config,
           set_writer, transfer_feed_ownership, accept_feed_ownership,
           lower_flag
  <1>2. CtrlOwned' /\ StoreOwned' /\ AggOwned'
    BY <1>1 DEF CtrlOwned, StoreOwned, AggOwned
  <1>3. FeedOk'
    <2>1. CASE create_feed(signer)
      <3>1. signer \in Owner /\ <<>> \in Seq(Int)  BY DEF Owner
      <3>2. feed' \in OpenFeed
        BY <2>1, <3>1 DEF create_feed, OpenFeed
      <3> QED  BY <3>2 DEF FeedOk
    <2>2. CASE close_feed(signer)
      BY <2>2 DEF close_feed, FeedOk
    <2>3. CASE \E t \in Threshold : set_validator_config(signer, t)
      BY <2>3, StoreAssumption
         DEF set_validator_config, owner, FeedOk, OpenFeed
    <2>4. CASE \/ set_writer(signer, StoreAuthority)
               \/ set_writer(signer, Default)
      BY <2>4 DEF set_writer, owner, FeedOk, OpenFeed
    <2>5. CASE \E o \in Owner \cup {Default} :
                 transfer_feed_ownership(signer, o)
      BY <2>5 DEF transfer_feed_ownership, owner, Proposed, FeedOk, OpenFeed
    <2>6. CASE accept_feed_ownership(signer)
      <3>1. feed \in OpenFeed
        BY <2>6 DEF accept_feed_ownership, FeedOk
      <3>2. feed.proposed_owner # Default
        BY <2>6, StoreAssumption DEF accept_feed_ownership, SignerOf
      <3> QED  BY <2>6, <3>1, <3>2
               DEF accept_feed_ownership, Accepted, FeedOk, OpenFeed
    <2>7. CASE \E c \in Ctrl : lower_flag(signer, c)
      BY <2>7 DEF lower_flag, FeedOk, OpenFeed
    <2> QED  BY <2>1, <2>2, <2>3, <2>4, <2>5, <2>6, <2>7 DEF FeedStep
  <1> QED  BY <1>2, <1>3

(* submit changes a feed's answers and flag, not its owner. *)
LEMMA SubmitOwned ==
  ASSUME OwnershipInv, NEW a \in Answer, submit(a)
  PROVE  OwnershipInv'
  <1> USE DEF OwnershipInv
  <1>1. CtrlOwned' /\ StoreOwned' /\ AggOwned'
    BY DEF submit, CtrlOwned, StoreOwned, AggOwned
  <1>2. FeedOk'
    <2>1. feed \in OpenFeed  BY DEF submit, FeedOk
    <2>2. <<a>> \in Seq(Int)  BY StoreAssumption
    <2>3. feed' \in OpenFeed  BY <2>1, <2>2 DEF submit, OpenFeed
    <2> QED  BY <2>3 DEF FeedOk
  <1> QED  BY <1>1, <1>2

(* Every instruction keeps the owners. *)
LEMMA OwnershipNext == OwnershipInv /\ [Next]_vars => OwnershipInv'
  <1> SUFFICES ASSUME OwnershipInv, [Next]_vars PROVE OwnershipInv'
    OBVIOUS
  <1>1. CASE UNCHANGED vars
    BY <1>1 DEF vars, OwnershipInv, CtrlOwned, StoreOwned, AggOwned, FeedOk
  <1>2. CASE Next
    BY <1>2, CtrlStepOwned, FeedStepOwned, StoreStepOwned,
       AggregatorStepOwned, SubmitOwned DEF Next
  <1> QED  BY <1>1, <1>2

(***************************************************************************)
(* Whatever is proposed, withdrawn and accepted by whomever, every access  *)
(* controller, the store, the aggregator and the feed keep an owner for    *)
(* whom somebody can sign (transfer_ownership and accept_ownership of the  *)
(* three programs).                                                        *)
(***************************************************************************)
THEOREM OwnershipAlwaysKept == Spec => []OwnershipKept
  <1>1. OwnershipInv => OwnershipKept
    BY DEF OwnershipInv, CtrlOwned, StoreOwned, AggOwned, Owned, FeedOk,
           OpenFeed, OwnershipKept
  <1> QED  BY <1>1, OwnershipInit, OwnershipNext, PTL DEF Spec

-----------------------------------------------------------------------------
(***************************************************************************)
(* The quotient that is_valid compares with the threshold, without \div.   *)
(***************************************************************************)
LEMMA QuotientAtMost ==
  ASSUME NEW n \in Nat, NEW d \in Nat \ {0}, NEW t \in Nat
  PROVE  n \div d <= t <=> n < (t + 1) * d
  <1> DEFINE q == n \div d
             x == n % d
  <1>1. x \in 0..(d - 1) /\ q \in Nat /\ n = q * d + x  OBVIOUS
  <1> HIDE DEF q, x
  <1>2. CASE q <= t
    <2>1. PICK e \in Nat : t = q + e  BY <1>1, <1>2, t = q + (t - q)
    <2>2. (t + 1) * d = q * d + d + e * d  BY <1>1, <2>1
    <2>3. e * d >= 0  OBVIOUS
    <2>4. n < (t + 1) * d  BY <1>1, <2>2, <2>3
    <2> QED  BY <1>2, <2>4 DEF q
  <1>3. CASE t < q
    <2>1. PICK e \in Nat : q = t + 1 + e  BY <1>1, <1>3, q = t + 1 + (q - t - 1)
    <2>2. q * d = (t + 1) * d + e * d  BY <1>1, <2>1
    <2>3. e * d >= 0  OBVIOUS
    <2>4. ~(n < (t + 1) * d)  BY <1>1, <2>2, <2>3
    <2> QED  BY <1>1, <1>3, <2>4 DEF q
  <1> QED  BY <1>1, <1>2, <1>3

(* The magnitude of an integer is a natural, and 0 only for 0. *)
LEMMA AbsNat ==
  ASSUME NEW x \in Int
  PROVE  Abs(x) \in Nat /\ (x # 0 => Abs(x) > 0)
  BY DEF Abs

(* is_valid decides the deviation without rounding errors. *)
LEMMA ValidIsWithin ==
  ASSUME NEW t \in Nat, NEW p \in Int, NEW a \in Int
  PROVE  is_valid(t, p, a) <=> Within(t, p, a)
  <1>1. CASE p = 0  BY <1>1 DEF is_valid, Within
  <1>2. CASE p # 0
    <2> DEFINE n == Abs(a - p) * THRESHOLD_MULTIPLIER
    <2>1. n \in Nat  BY AbsNat, StoreAssumption
    <2>2. Abs(p) \in Nat \ {0}  BY <1>2, AbsNat
    <2>3. n \div Abs(p) <= t <=> n < (t + 1) * Abs(p)
      BY <2>1, <2>2, QuotientAtMost
    <2> QED  BY <1>2, <2>3 DEF is_valid, Within
  <1> QED  BY <1>1, <1>2

FlagInv ==
  OwnershipInv /\ deviated \in BOOLEAN /\ FlagTracksDeviation

(* Every instruction keeps the flag in step with the deviations. *)
LEMMA FlagNext == FlagInv /\ [Next]_vars => FlagInv'
  <1> SUFFICES ASSUME FlagInv, [Next]_vars PROVE FlagInv'
    OBVIOUS
  <1> USE DEF FlagInv
  <1>1. OwnershipInv'  BY OwnershipNext
  <1>2. FeedOk  BY DEF OwnershipInv
  <1>3. CASE UNCHANGED <<feed, deviated>>
    BY <1>1, <1>3 DEF FlagTracksDeviation
  <1>4. ASSUME NEW signer \in Key, FeedStep(signer)
        PROVE  deviated' \in BOOLEAN /\ FlagTracksDeviation'
    <2>1. CASE create_feed(signer)
      <3>1. feed'.state # "FLAGGED"  BY <2>1 DEF create_feed
      <3>2. deviated' = FALSE  BY <2>1 DEF create_feed
      <3> QED  BY <3>1, <3>2, Zenon DEF FlagTracksDeviation
    <2>2. CASE close_feed(signer)
      BY <2>2 DEF close_feed, history, FlagTracksDeviation
    <2>3. CASE \E t \in Threshold : set_validator_config(signer, t)
      BY <1>2, <2>3 DEF set_validator_config, owner, history, FeedOk,
                        OpenFeed, FlagTracksDeviation
    <2>4. CASE \/ set_writer(signer, StoreAuthority)
               \/ set_writer(signer, Default)
      <3>1. PICK w : set_writer(signer, w)  BY <2>4
      <3>2. feed \in OpenFeed /\ feed'.state = feed.state
        BY <1>2, <3>1 DEF set_writer, owner, FeedOk, OpenFeed
      <3>3. deviated' = deviated  BY <3>1 DEF set_writer, history
      <3>4. feed.open  BY <3>1 DEF set_writer, owner
      <3> QED  BY <3>2, <3>3, <3>4 DEF FlagTracksDeviation
    <2>5. CASE \E o \in Owner \cup {Default} :
                 transfer_feed_ownership(signer, o)
      BY <1>2, <2>5 DEF transfer_feed_ownership, owner, Proposed, history,
                        FeedOk, OpenFeed, FlagTracksDeviation
    <2>6. CASE accept_feed_ownership(signer)
      BY <1>2, <2>6 DEF accept_feed_ownership, Accepted, history, FeedOk,
                        OpenFeed, FlagTracksDeviation
    <2>7. CASE \E c \in Ctrl : lower_flag(signer, c)
      BY <1>2, <2>7 DEF lower_flag, FeedOk, OpenFeed, FlagTracksDeviation
    <2> QED  BY <1>4, <2>1, <2>2, <2>3, <2>4, <2>5, <2>6, <2>7 DEF FeedStep
  <1>5. ASSUME NEW a \in Answer, submit(a)
        PROVE  deviated' \in BOOLEAN /\ FlagTracksDeviation'
    <2>1. feed \in OpenFeed  BY <1>2, <1>5 DEF submit, FeedOk
    <2>2. Validated(a) <=> ~Deviates(a)
      <3>1. ASSUME NEW i \in DOMAIN feed.latest
            PROVE  is_valid(feed.flagging_threshold, feed.latest[i], a)
                     <=> Within(feed.flagging_threshold, feed.latest[i], a)
        <4>1. /\ feed.flagging_threshold \in Nat /\ a \in Int
              /\ feed.latest[i] \in Int
          BY <2>1, <3>1, StoreAssumption DEF OpenFeed
        <4> QED  BY <4>1, ValidIsWithin
      <3> QED  BY <3>1 DEF Validated, Deviates
    <2>3. feed'.state = IF Deviates(a) THEN "FLAGGED" ELSE feed.state
      BY <1>5, <2>1, <2>2 DEF submit, OpenFeed
    <2>4. deviated' = (deviated \/ Deviates(a))
      BY <1>5 DEF submit
    <2>5. feed.state = "FLAGGED" <=> deviated
      BY <1>5 DEF submit, FlagTracksDeviation
    <2> QED  BY <2>3, <2>4, <2>5 DEF FlagTracksDeviation
  <1>6. ASSUME NEW signer \in Key,
               CtrlStep(signer) \/ StoreStep(signer) \/ AggregatorStep(signer)
        PROVE  UNCHANGED <<feed, deviated>>
    <2>1. CASE CtrlStep(signer)
      BY <2>1 DEF CtrlStep, add_access, remove_access, transfer_ownership,
                  accept_ownership, history
    <2>2. CASE StoreStep(signer)
      BY <2>2 DEF StoreStep, transfer_store_ownership,
                  accept_store_ownership, set_lowering_access_controller,
                  history
    <2>3. CASE AggregatorStep(signer)
      BY <2>3 DEF AggregatorStep, transfer_aggregator_ownership,
                  accept_aggregator_ownership,
                  set_billing_access_controller,
                  set_requester_access_controller, billing_instruction,
                  request_new_round, history
    <2> QED  BY <1>6, <2>1, <2>2, <2>3
  <1>7. CASE UNCHANGED vars  BY <1>3, <1>7 DEF vars
  <1>8. CASE Next
    <2>1. CASE \E signer \in Key : FeedStep(signer)  BY <1>1, <1>4, <2>1
    <2>2. CASE \E a \in Answer : submit(a)  BY <1>1, <1>5, <2>2
    <2>3. CASE \E signer \in Key : \/ CtrlStep(signer) \/ StoreStep(signer)
                                   \/ AggregatorStep(signer)
      BY <1>3, <1>6, <2>3
    <2> QED  BY <1>8, <2>1, <2>2, <2>3 DEF Next
  <1> QED  BY <1>7, <1>8

(***************************************************************************)
(* For every threshold and all answers, the quotient that is_valid of the  *)
(* store computes flags the rounds that deviate and no others, and the     *)
(* flag stays up until lower_flag (or until the feed is closed and created *)
(* anew).                                                                  *)
(***************************************************************************)
THEOREM FlagAlwaysTracks == Spec => []FlagTracksDeviation
  <1>1. ASSUME Init PROVE FlagInv
    <2>1. feed.open = FALSE  BY <1>1 DEF Init
    <2>2. deviated = FALSE  BY <1>1 DEF Init
    <2> QED  BY <1>1, <2>1, <2>2, OwnershipInit
             DEF FlagInv, FlagTracksDeviation
  <1>2. FlagInv => FlagTracksDeviation  BY DEF FlagInv
  <1> QED  BY <1>1, <1>2, FlagNext, PTL DEF Spec

-----------------------------------------------------------------------------
(***************************************************************************)
(* Sorted arrays without duplicates, and the bisection of them.            *)
(***************************************************************************)
Sorted(xs) == \A i, j \in 1..Len(xs) : i < j => xs[i] < xs[j]

Elements(xs) == {xs[i] : i \in 1..Len(xs)}

(* What binary_search answers for a sorted list. *)
Located(xs, k, r) ==
  \/ r.found = TRUE /\ r.at \in 1..Len(xs) /\ xs[r.at] = k
  \/ /\ r.found = FALSE /\ r.at \in 1..Len(xs) + 1
     /\ \A i \in 1..Len(xs) : /\ i < r.at => xs[i] < k
                              /\ i >= r.at => k < xs[i]

(* One step of the bisection, by the searches g among fewer elements. *)
Halve(xs, k, g, n) ==
  [lo \in 1..Len(xs) + 1 - n |->
     IF n = 0 THEN [found |-> FALSE, at |-> lo]
     ELSE LET mid == lo + n \div 2
          IN  IF xs[mid] = k THEN [found |-> TRUE, at |-> mid]
              ELSE IF xs[mid] < k THEN g[n - 1 - n \div 2][mid + 1]
                                  ELSE g[n \div 2][lo]]

(* A set of naturals has a least element. *)
LEMMA Least ==
  ASSUME NEW T \in SUBSET Nat, T # {}
  PROVE  \E n \in T : \A m \in T : n <= m
  <1>1. PICK n \in T : \A m \in T : ~(<<m, n>> \in OpToRel(<, Nat))
    BY WFMin, NatLessThanWellFounded
  <1>2. ASSUME NEW m \in T PROVE n <= m
    <2>1. n \in Nat /\ m \in Nat  OBVIOUS
    <2>2. ~(m < n)  BY <1>1, <2>1 DEF OpToRel
    <2> QED  BY <2>1, <2>2
  <1> QED  BY <1>2

(* The two halves and the element between them. *)
LEMMA HalvesRange ==
  ASSUME NEW n \in Nat, n # 0
  PROVE  /\ n \div 2 \in 0..n - 1 /\ n - 1 - n \div 2 \in 0..n - 1
  OBVIOUS

(* A step depends on the searches among fewer elements only. *)
LEMMA HalveLocal ==
  ASSUME NEW xs, NEW k, NEW g, NEW h, NEW n \in Nat,
         \A m \in 0..n - 1 : g[m] = h[m]
  PROVE  Halve(xs, k, g, n) = Halve(xs, k, h, n)
  <1>1. CASE n = 0  BY <1>1 DEF Halve
  <1>2. CASE n # 0
    <2>1. /\ g[n \div 2] = h[n \div 2]
          /\ g[n - 1 - n \div 2] = h[n - 1 - n \div 2]
      BY <1>2, HalvesRange
    <2> QED  BY <1>2, <2>1, Zenon DEF Halve
  <1> QED  BY <1>1, <1>2

(* The recursion of the bisection has a solution, up to every length. *)
LEMMA BisectExists ==
  ASSUME NEW xs, NEW k, NEW N \in Nat
  PROVE  \E g : g = [n \in 0..N |-> Halve(xs, k, g, n)]
  <1> DEFINE Solved(n) == \E g : g = [m \in 0..n |-> Halve(xs, k, g, m)]
             T == {n \in Nat : ~Solved(n)}
  <1> SUFFICES ASSUME T # {} PROVE FALSE  OBVIOUS
  <1>1. PICK n \in T : \A m \in T : n <= m  BY Least
  <1>2. n \in Nat /\ ~Solved(n)  OBVIOUS
  <1>3. CASE n = 0
    <2> DEFINE g == [m \in 0..0 |-> Halve(xs, k, <<>>, m)]
    <2>1. Halve(xs, k, g, 0) = Halve(xs, k, <<>>, 0)
      BY HalveLocal
    <2>2. g = [m \in 0..0 |-> Halve(xs, k, g, m)]
      <3>1. \A m \in 0..0 : m = 0  OBVIOUS
      <3> QED  BY <2>1, <3>1
    <2> HIDE DEF g
    <2> QED  BY <1>2, <1>3, <2>2
  <1>4. CASE n # 0
    <2>1. n - 1 \in Nat /\ n - 1 \notin T  BY <1>1, <1>2, <1>4
    <2>2. PICK g : g = [m \in 0..n - 1 |-> Halve(xs, k, g, m)]
      BY <2>1
    <2> DEFINE h == [m \in 0..n |-> Halve(xs, k, g, m)]
    <2>3. \A m \in 0..n - 1 : h[m] = g[m]
      <3>1. \A m \in 0..n - 1 : g[m] = Halve(xs, k, g, m)  BY <2>2
      <3>2. \A m \in 0..n - 1 : m \in 0..n  BY <1>2
      <3> QED  BY <3>1, <3>2
    <2>4. ASSUME NEW m \in 0..n
          PROVE  Halve(xs, k, g, m) = Halve(xs, k, h, m)
      <3> HIDE DEF h
      <3>1. \A i \in 0..m - 1 : g[i] = h[i]  BY <1>2, <2>3
      <3> QED  BY <1>2, <3>1, HalveLocal
    <2>5. h = [m \in 0..n |-> Halve(xs, k, h, m)]  BY <2>4, Zenon
    <2> HIDE DEF h
    <2> QED  BY <1>2, <2>5
  <1> QED  BY <1>3, <1>4

(***************************************************************************)
(* The search finds k, or the place where it belongs, if all elements      *)
(* outside its range are below, or above, k.                               *)
(***************************************************************************)
LEMMA BisectFinds ==
  ASSUME NEW xs \in Seq(Nat), Sorted(xs), NEW k \in Nat,
         NEW g, g = [n \in 0..Len(xs) |-> Halve(xs, k, g, n)]
  PROVE  \A n \in 0..Len(xs) : \A lo \in 1..Len(xs) + 1 - n :
           /\ \A i \in 1..lo - 1 : xs[i] < k
           /\ \A i \in lo + n..Len(xs) : k < xs[i]
           => Located(xs, k, g[n][lo])
  <1> DEFINE N == Len(xs)
             Outside(n, lo) == /\ \A i \in 1..lo - 1 : xs[i] < k
                               /\ \A i \in lo + n..N : k < xs[i]
             Finds(n) == \A lo \in 1..N + 1 - n :
                           Outside(n, lo) => Located(xs, k, g[n][lo])
             T == {n \in 0..N : ~Finds(n)}
  <1> SUFFICES ASSUME T # {} PROVE FALSE  OBVIOUS
  <1>0. N \in Nat /\ \A i \in 1..N : xs[i] \in Nat  OBVIOUS
  <1>1. PICK n \in T : \A m \in T : n <= m
    <2>1. T \in SUBSET Nat  BY <1>0
    <2> HIDE DEF T
    <2> QED  BY <2>1, Least
  <1>2. n \in 0..N /\ ~Finds(n)  OBVIOUS
  <1>3. \A m \in 0..n - 1 : Finds(m)
    <2> HIDE DEF Finds
    <2> QED  BY <1>0, <1>1, <1>2
  <1>4. PICK lo \in 1..N + 1 - n :
          Outside(n, lo) /\ ~Located(xs, k, g[n][lo])
    BY <1>2
  <1> HIDE DEF T, Finds
  <1>5. g[n] = Halve(xs, k, g, n)  BY <1>2
  <1>6. CASE n = 0
    <2>1. g[n][lo] = [found |-> FALSE, at |-> lo]
      BY <1>4, <1>5, <1>6 DEF Halve
    <2>2. \A i \in 1..N : /\ i < lo => xs[i] < k
                          /\ i >= lo => k < xs[i]
      BY <1>0, <1>4, <1>6
    <2>3. lo \in 1..N + 1  BY <1>0, <1>4, <1>6
    <2> DEFINE r == [found |-> FALSE, at |-> lo]
    <2>4. r.found = FALSE /\ r.at = lo  OBVIOUS
    <2> HIDE DEF r
    <2>5. Located(xs, k, r)  BY <2>2, <2>3, <2>4 DEF Located
    <2> QED  BY <1>4, <2>1, <2>5 DEF r
  <1>7. CASE n # 0
    <2> DEFINE half == n \div 2
               mid == lo + half
    <2>1. /\ half \in 0..n - 1 /\ n - 1 - half \in 0..n - 1
          /\ mid \in 1..N /\ mid + 1 \in 1..N + 1 - (n - 1 - half)
          /\ lo \in 1..N + 1 - half
      <3>1. n \in Nat  BY <1>0, <1>2
      <3>2. half \in 0..n - 1 /\ n - 1 - half \in 0..n - 1
        BY <1>7, <3>1, HalvesRange
      <3> HIDE DEF half
      <3> QED  BY <1>0, <1>2, <1>4, <3>1, <3>2
    <2>2. g[n][lo] = IF xs[mid] = k THEN [found |-> TRUE, at |-> mid]
                     ELSE IF xs[mid] < k THEN g[n - 1 - half][mid + 1]
                                         ELSE g[half][lo]
      BY <1>4, <1>5, <1>7 DEF Halve
    <2> HIDE DEF half
    <2>3. CASE xs[mid] = k
      <3>1. g[n][lo] = [found |-> TRUE, at |-> mid]  BY <2>2, <2>3
      <3> DEFINE r == [found |-> TRUE, at |-> mid]
      <3>2. r.found = TRUE /\ r.at = mid  OBVIOUS
      <3> HIDE DEF r
      <3>3. Located(xs, k, r)  BY <2>1, <2>3, <3>2 DEF Located
      <3> QED  BY <1>4, <3>1, <3>3 DEF r
    <2>4. CASE xs[mid] < k
      <3>1. g[n][lo] = g[n - 1 - half][mid + 1]
        BY <1>0, <2>1, <2>2, <2>4
      <3>2. ASSUME NEW i \in 1..mid PROVE xs[i] < k
        <4>1. i \in 1..N /\ (i = mid \/ i < mid)  BY <1>0, <2>1
        <4>2. i < mid => xs[i] < xs[mid]  BY <2>1, <4>1 DEF Sorted
        <4>3. xs[i] \in Nat /\ xs[mid] \in Nat  BY <1>0, <2>1, <4>1
        <4> QED  BY <2>4, <4>1, <4>2, <4>3
      <3>3. Outside(n - 1 - half, mid + 1)
        <4>1. \A i \in 1..(mid + 1) - 1 : i \in 1..mid  BY <1>0, <2>1
        <4>2. \A i \in (mid + 1) + (n - 1 - half)..N : i \in lo + n..N
          BY <1>0, <1>2, <1>4, <2>1
        <4> QED  BY <1>4, <3>2, <4>1, <4>2
      <3>4. Located(xs, k, g[n - 1 - half][mid + 1])
        BY <1>3, <2>1, <3>3 DEF Finds
      <3> QED  BY <1>4, <3>1, <3>4
    <2>5. CASE k < xs[mid]
      <3>1. g[n][lo] = g[half][lo]  BY <1>0, <2>1, <2>2, <2>5
      <3>2. ASSUME NEW i \in mid..N PROVE k < xs[i]
        <4>1. i \in 1..N /\ (i = mid \/ mid < i)  BY <1>0, <2>1
        <4>2. mid < i => xs[mid] < xs[i]  BY <2>1, <4>1 DEF Sorted
        <4>3. xs[i] \in Nat /\ xs[mid] \in Nat  BY <1>0, <2>1, <4>1
        <4> QED  BY <2>5, <4>1, <4>2, <4>3
      <3>3. Outside(half, lo)  BY <1>4, <3>2
      <3>4. Located(xs, k, g[half][lo])
        BY <1>3, <2>1, <3>3 DEF Finds
      <3> QED  BY <1>4, <3>1, <3>4
    <2> QED  BY <1>0, <2>1, <2>3, <2>4, <2>5
  <1> QED  BY <1>6, <1>7

(* binary_search on a sorted list. *)
LEMMA Searched ==
  ASSUME NEW xs \in Seq(Nat), Sorted(xs), NEW k \in Nat
  PROVE  Located(xs, k, binary_search(xs, k))
  <1> DEFINE g == CHOOSE g : g = [n \in 0..Len(xs) |-> Halve(xs, k, g, n)]
  <1>0. Len(xs) \in Nat  OBVIOUS
  <1>1. g = [n \in 0..Len(xs) |-> Halve(xs, k, g, n)]
    BY <1>0, BisectExists
  <1>2. binary_search(xs, k) = g[Len(xs)][1]
    BY Zenon DEF binary_search, Halve
  <1> HIDE DEF g
  <1>3. \A n \in 0..Len(xs) : \A lo \in 1..Len(xs) + 1 - n :
           /\ \A i \in 1..lo - 1 : xs[i] < k
           /\ \A i \in lo + n..Len(xs) : k < xs[i]
           => Located(xs, k, g[n][lo])
    BY <1>1, BisectFinds
  <1>4. /\ Len(xs) \in 0..Len(xs) /\ 1 \in 1..Len(xs) + 1 - Len(xs)
        /\ 1..1 - 1 = {} /\ 1 + Len(xs)..Len(xs) = {}
    BY <1>0
  <1> QED  BY <1>2, <1>3, <1>4

(* A key is found exactly when it is in a sorted list. *)
LEMMA FoundIsElement ==
  ASSUME NEW xs \in Seq(Nat), Sorted(xs), NEW k \in Nat
  PROVE  binary_search(xs, k).found <=> k \in Elements(xs)
  <1> DEFINE r == binary_search(xs, k)
  <1>1. Located(xs, k, r)  BY Searched
  <1> HIDE DEF r
  <1>2. CASE r.found = TRUE /\ r.at \in 1..Len(xs) /\ xs[r.at] = k
    BY <1>2 DEF Elements, r
  <1>3. CASE /\ r.found = FALSE /\ r.at \in 1..Len(xs) + 1
             /\ \A i \in 1..Len(xs) : /\ i < r.at => xs[i] < k
                                      /\ i >= r.at => k < xs[i]
    <2>1. ASSUME NEW i \in 1..Len(xs) PROVE xs[i] # k
      <3>1. xs[i] \in Nat /\ i \in Nat /\ r.at \in Nat  BY <1>3
      <3>2. i < r.at \/ i >= r.at  BY <3>1
      <3> QED  BY <1>3, <3>1, <3>2
    <2> QED  BY <1>3, <2>1 DEF Elements, r
  <1> QED  BY <1>1, <1>2, <1>3 DEF Located

(* A sorted list has as many elements as its length. *)
LEMMA SortedCardinality ==
  ASSUME NEW xs \in Seq(Nat), Sorted(xs)
  PROVE  Cardinality(Elements(xs)) = Len(xs)
  <1> DEFINE n == Len(xs)
             E == Elements(xs)
             g == [i \in 1..n |-> xs[i]]
  <1>1. n \in Nat /\ \A i \in 1..n : xs[i] \in Nat  OBVIOUS
  <1>2. IsFiniteSet(1..n) /\ Cardinality(1..n) = n  BY <1>1, FS_Interval
  <1>3. g \in [1..n -> E]  BY DEF Elements
  <1>4. \A i, j \in 1..n : xs[i] = xs[j] => i = j
    <2> SUFFICES ASSUME NEW i \in 1..n, NEW j \in 1..n, i < j
                 PROVE  xs[i] # xs[j]
      BY <1>1
    <2>1. xs[i] < xs[j]  BY DEF Sorted
    <2> QED  BY <1>1, <2>1
  <1>5. g \in Bijection(1..n, E)
    BY <1>3, <1>4 DEF Bijection, Injection, IsInjective, Surjection, Elements
  <1>6. ExistsBijection(1..n, E)  BY <1>5 DEF ExistsBijection
  <1> HIDE DEF n, E
  <1>7. Cardinality(E) = n  BY <1>2, <1>6, FS_Bijection
  <1> QED  BY <1>7 DEF n, E

(* Concatenation, by positions. *)
LEMMA ConcatIs ==
  ASSUME NEW K, NEW a \in Seq(K), NEW b \in Seq(K)
  PROVE  /\ a \o b \in Seq(K) /\ Len(a \o b) = Len(a) + Len(b)
         /\ \A i \in 1..Len(a) : (a \o b)[i] = a[i]
         /\ \A i \in Len(a) + 1..Len(a) + Len(b) : (a \o b)[i] = b[i - Len(a)]
  <1>1. a \o b \in Seq(K)  OBVIOUS
  <1>2. Len(a \o b) = Len(a) + Len(b)  OBVIOUS
  <1>3. Len(a) \in Nat /\ Len(b) \in Nat OBVIOUS
  <1>4. ASSUME NEW i \in 1..Len(a) PROVE (a \o b)[i] = a[i] BY <1>3
  <1>5. ASSUME NEW i \in Len(a) + 1..Len(a) + Len(b) PROVE (a \o b)[i] = b[i - Len(a)] BY <1>3
  <1> QED BY <1>1, <1>2, <1>4, <1>5

(* InsertAt shifts the elements from its position on. *)
LEMMA InsertAtIs ==
  ASSUME NEW K, NEW xs \in Seq(K), NEW p \in 1..Len(xs) + 1, NEW k \in K
  PROVE  /\ InsertAt(xs, p, k) \in Seq(K)
         /\ Len(InsertAt(xs, p, k)) = Len(xs) + 1
         /\ \A i \in 1..Len(xs) + 1 :
              InsertAt(xs, p, k)[i] =
                IF i < p THEN xs[i] ELSE IF i = p THEN k ELSE xs[i - 1]
  <1> DEFINE a == SubSeq(xs, 1, p - 1)
             b == SubSeq(xs, p, Len(xs))
  <1>0. Len(xs) \in Nat /\ p \in Nat  OBVIOUS
  <1>1. /\ a \in Seq(K) /\ Len(a) = p - 1 /\ \A i \in 1..p - 1 : a[i] = xs[i]
    BY <1>0
  <1>2. /\ b \in Seq(K) /\ Len(b) = Len(xs) - p + 1
        /\ \A i \in 1..Len(xs) - p + 1 : b[i] = xs[p + i - 1]
    BY <1>0
  <1>3. InsertAt(xs, p, k) = (a \o <<k>>) \o b  BY DEF InsertAt
  <1> HIDE DEF a, b
  <1> DEFINE c == a \o <<k>>
  <1>4. /\ c \in Seq(K) /\ Len(c) = p
        /\ \A i \in 1..p - 1 : c[i] = a[i]
        /\ c[p] = k
    BY <1>0, <1>1
  <1> HIDE DEF c
  <1> DEFINE d == c \o b
  <1>5. /\ d \in Seq(K) /\ Len(d) = Len(xs) + 1
        /\ \A i \in 1..p : d[i] = c[i]
        /\ \A i \in p + 1..Len(xs) + 1 : d[i] = b[i - p]
    <2>1. p + (Len(xs) - p + 1) = Len(xs) + 1  BY <1>0
    <2>2. /\ d \in Seq(K) /\ Len(d) = Len(c) + Len(b)
          /\ \A i \in 1..Len(c) : d[i] = c[i]
          /\ \A i \in Len(c) + 1..Len(c) + Len(b) : d[i] = b[i - Len(c)]
      BY <1>2, <1>4, ConcatIs
    <2> HIDE DEF d
    <2> QED  BY <1>2, <1>4, <2>1, <2>2
  <1>6. InsertAt(xs, p, k) = d  BY <1>3 DEF c
  <1> HIDE DEF d
  <1>7. ASSUME NEW i \in 1..Len(xs) + 1
        PROVE  d[i] = IF i < p THEN xs[i] ELSE IF i = p THEN k ELSE xs[i - 1]
    <2>1. CASE i < p
      BY <1>0, <1>1, <1>4, <1>5, <2>1
    <2>2. CASE i = p  BY <1>0, <1>4, <1>5, <2>2
    <2>3. CASE i > p
      <3>1. d[i] = b[i - p] /\ i - p \in 1..Len(xs) - p + 1
        BY <1>0, <1>5, <2>3
      <3>2. b[i - p] = xs[p + (i - p) - 1]  BY <1>2, <3>1
      <3>3. p + (i - p) - 1 = i - 1  BY <1>0
      <3> QED  BY <1>0, <2>3, <3>1, <3>2, <3>3
    <2> QED  BY <1>0, <2>1, <2>2, <2>3
  <1> QED  BY <1>5, <1>6, <1>7

(* RemoveAt closes the gap. *)
LEMMA RemoveAtIs ==
  ASSUME NEW K, NEW xs \in Seq(K), NEW p \in 1..Len(xs)
  PROVE  /\ RemoveAt(xs, p) \in Seq(K)
         /\ Len(RemoveAt(xs, p)) = Len(xs) - 1
         /\ \A i \in 1..Len(xs) - 1 :
              RemoveAt(xs, p)[i] = IF i < p THEN xs[i] ELSE xs[i + 1]
  <1> DEFINE a == SubSeq(xs, 1, p - 1)
             b == SubSeq(xs, p + 1, Len(xs))
             d == a \o b
  <1>0. Len(xs) \in Nat /\ p \in Nat  OBVIOUS
  <1>1. /\ a \in Seq(K) /\ Len(a) = p - 1 /\ \A i \in 1..p - 1 : a[i] = xs[i]
    BY <1>0
  <1>2. /\ b \in Seq(K) /\ Len(b) = Len(xs) - p
        /\ \A i \in 1..Len(xs) - p : b[i] = xs[p + i]
    BY <1>0
  <1>3. RemoveAt(xs, p) = d  BY DEF RemoveAt
  <1> HIDE DEF a, b
  <1>5. /\ d \in Seq(K) /\ Len(d) = Len(xs) - 1
        /\ \A i \in 1..p - 1 : d[i] = a[i]
        /\ \A i \in p..Len(xs) - 1 : d[i] = b[i - (p - 1)]
    <2>1. (p - 1) + (Len(xs) - p) = Len(xs) - 1 /\ (p - 1) + 1 = p
      BY <1>0
    <2>2. /\ d \in Seq(K) /\ Len(d) = Len(a) + Len(b)
          /\ \A i \in 1..Len(a) : d[i] = a[i]
          /\ \A i \in Len(a) + 1..Len(a) + Len(b) : d[i] = b[i - Len(a)]
      BY <1>1, <1>2, ConcatIs
    <2> HIDE DEF d
    <2> QED  BY <1>1, <1>2, <2>1, <2>2
  <1> HIDE DEF d
  <1>7. ASSUME NEW i \in 1..Len(xs) - 1
        PROVE  d[i] = IF i < p THEN xs[i] ELSE xs[i + 1]
    <2>1. CASE i < p
      BY <1>0, <1>1, <1>5, <2>1
    <2>2. CASE i >= p
      <3>1. d[i] = b[i - (p - 1)] /\ i - (p - 1) \in 1..Len(xs) - p
        BY <1>0, <1>5, <2>2
      <3>2. b[i - (p - 1)] = xs[p + (i - (p - 1))]  BY <1>2, <3>1
      <3>3. p + (i - (p - 1)) = i + 1  BY <1>0
      <3> QED  BY <1>0, <2>2, <3>1, <3>2, <3>3
    <2> QED  BY <1>0, <2>1, <2>2
  <1> QED  BY <1>3, <1>5, <1>7

(* A list of keys is a list of numbers. *)
LEMMA KeysAreNumbers ==
  ASSUME NEW xs \in Seq(Key)
  PROVE  xs \in Seq(Nat) /\ \A i \in 1..Len(xs) : xs[i] \in Nat
  <1>1. Key \subseteq Nat BY StoreAssumption
  <1>2. Len(xs) \in Nat /\ DOMAIN xs = 1..Len(xs) /\ xs = [i \in 1..Len(xs) |-> xs[i]] OBVIOUS
  <1>3. ASSUME NEW i \in 1..Len(xs) PROVE xs[i] \in Nat
    <2>1. xs[i] \in Key OBVIOUS
    <2> QED BY <1>1, <2>1
  <1>4. \A n \in Nat : \A f \in [1..n -> Nat] : f \in Seq(Nat) OBVIOUS
  <1>5. xs \in [1..Len(xs) -> Nat] BY <1>2, <1>3
  <1> QED BY <1>2, <1>3, <1>4, <1>5
(* add_access puts a new key where the search says it belongs. *)
LEMMA InsertedFits ==
  ASSUME NEW xs \in Seq(Key), Sorted(xs), NEW k \in Key
  PROVE  /\ Inserted(xs, k) \in Seq(Key) /\ Sorted(Inserted(xs, k))
         /\ Elements(Inserted(xs, k)) = Elements(xs) \cup {k}
  <1> DEFINE r == binary_search(xs, k)
             N == Len(xs)
  <1>0. /\ xs \in Seq(Nat) /\ k \in Nat /\ N \in Nat
        /\ \A i \in 1..N : xs[i] \in Nat
    BY StoreAssumption, KeysAreNumbers
  <1>1. Located(xs, k, r) /\ (r.found <=> k \in Elements(xs))
    BY <1>0, Searched, FoundIsElement
  <1>2. Inserted(xs, k) = IF r.found THEN xs ELSE InsertAt(xs, r.at, k)
    BY DEF Inserted
  <1> HIDE DEF r
  <1>3. CASE r.found
    BY <1>1, <1>2, <1>3
  <1>4. CASE ~r.found
    <2> DEFINE p == r.at
               ys == InsertAt(xs, p, k)
    <2>1. /\ p \in 1..N + 1
          /\ \A i \in 1..N : /\ i < p => xs[i] < k
                             /\ i >= p => k < xs[i]
      BY <1>1, <1>4 DEF Located
    <2>2. /\ ys \in Seq(Key) /\ Len(ys) = N + 1
          /\ \A i \in 1..N + 1 :
               ys[i] = IF i < p THEN xs[i] ELSE IF i = p THEN k ELSE xs[i - 1]
      <3> HIDE DEF p
      <3>1. p \in 1..Len(xs) + 1 /\ k \in Key  BY <2>1
      <3>2. InsertAt(xs, p, k) \in Seq(Key)  BY <3>1, InsertAtIs
      <3>3. Len(InsertAt(xs, p, k)) = Len(xs) + 1  BY <3>1, InsertAtIs
      <3>4. \A i \in 1..Len(xs) + 1 :
              InsertAt(xs, p, k)[i] =
                IF i < p THEN xs[i] ELSE IF i = p THEN k ELSE xs[i - 1]
        BY <3>1, InsertAtIs
      <3> QED  BY <3>2, <3>3, <3>4
    <2>3. Inserted(xs, k) = ys  BY <1>2, <1>4
    <2> HIDE DEF p, ys
    <2>4. Sorted(ys)
      <3> SUFFICES ASSUME NEW i \in 1..N + 1, NEW j \in 1..N + 1, i < j
                   PROVE  ys[i] < ys[j]
        BY <2>2 DEF Sorted
      <3>0. p \in Nat /\ i \in Nat /\ j \in Nat  BY <1>0, <2>1
      <3>1. CASE j < p
        <4>0. i \in 1..N /\ j \in 1..N  BY <1>0, <2>1, <3>0, <3>1
        <4>1. xs[i] < xs[j]  BY <4>0 DEF Sorted
        <4> QED  BY <2>2, <3>0, <3>1, <4>1
      <3>2. CASE j = p
        <4>1. xs[i] < k  BY <1>0, <2>1, <3>0, <3>2
        <4> QED  BY <2>2, <3>0, <3>2, <4>1
      <3>3. CASE j > p /\ i < p
        <4>1. i \in 1..N /\ j - 1 \in 1..N /\ j - 1 >= p
          BY <1>0, <2>1, <3>0, <3>3
        <4>2. xs[i] < k /\ k < xs[j - 1]  BY <2>1, <3>3, <4>1
        <4>3. xs[i] < xs[j - 1]  BY <1>0, <4>1, <4>2
        <4> QED  BY <2>2, <3>0, <3>3, <4>3
      <3>4. CASE j > p /\ i = p
        <4>1. j - 1 \in 1..N /\ j - 1 >= p  BY <1>0, <2>1, <3>0, <3>4
        <4>2. k < xs[j - 1]  BY <2>1, <4>1
        <4> QED  BY <2>2, <3>0, <3>4, <4>2
      <3>5. CASE i > p
        <4>1. i - 1 \in 1..N /\ j - 1 \in 1..N /\ i - 1 < j - 1
          BY <1>0, <2>1, <3>0, <3>5
        <4>2. xs[i - 1] < xs[j - 1]  BY <4>1 DEF Sorted
        <4> QED  BY <2>2, <3>0, <3>5, <4>2
      <3> QED  BY <3>0, <3>1, <3>2, <3>3, <3>4, <3>5
    <2>5. Elements(ys) = Elements(xs) \cup {k}
      <3>1. ASSUME NEW i \in 1..N + 1
            PROVE  ys[i] \in Elements(xs) \cup {k}
        <4>1. CASE i < p
          BY <1>0, <2>1, <2>2, <4>1 DEF Elements
        <4>2. CASE i = p  BY <2>2, <4>2, <2>1
        <4>3. CASE i > p
          <5>1. i - 1 \in 1..N /\ ys[i] = xs[i - 1]
            BY <1>0, <2>1, <2>2, <4>3
          <5> QED  BY <5>1 DEF Elements
        <4> QED  BY <2>1, <4>1, <4>2, <4>3
      <3>2. k \in Elements(ys)
        <4>1. p \in 1..N + 1 /\ ys[p] = k  BY <2>1, <2>2
        <4> QED  BY <2>2, <4>1 DEF Elements
      <3>3. ASSUME NEW i \in 1..N PROVE xs[i] \in Elements(ys)
        <4>1. CASE i < p
          <5>1. i \in 1..N + 1 /\ ys[i] = xs[i]  BY <1>0, <2>2, <4>1
          <5> QED  BY <2>2, <5>1 DEF Elements
        <4>2. CASE i >= p
          <5>1. /\ i + 1 \in 1..N + 1 /\ ys[i + 1] = xs[(i + 1) - 1]
                /\ (i + 1) - 1 = i
            BY <1>0, <2>1, <2>2, <4>2
          <5> QED  BY <2>2, <5>1 DEF Elements
        <4> QED  BY <2>1, <4>1, <4>2
      <3> QED  BY <2>2, <3>1, <3>2, <3>3 DEF Elements
    <2> QED  BY <2>2, <2>3, <2>4, <2>5
  <1> QED  BY <1>3, <1>4

(* remove_access takes the key's only place away. *)
LEMMA RemovedFits ==
  ASSUME NEW xs \in Seq(Key), Sorted(xs), NEW k \in Key
  PROVE  /\ Removed(xs, k) \in Seq(Key) /\ Sorted(Removed(xs, k))
         /\ Elements(Removed(xs, k)) = Elements(xs) \ {k}
  <1> DEFINE r == binary_search(xs, k)
             N == Len(xs)
  <1>0. /\ xs \in Seq(Nat) /\ k \in Nat /\ N \in Nat
        /\ \A i \in 1..N : xs[i] \in Nat
    BY StoreAssumption, KeysAreNumbers
  <1>1. Located(xs, k, r) /\ (r.found <=> k \in Elements(xs))
    BY <1>0, Searched, FoundIsElement
  <1>2. Removed(xs, k) = IF r.found THEN RemoveAt(xs, r.at) ELSE xs
    BY DEF Removed
  <1> HIDE DEF r
  <1>3. CASE ~r.found
    BY <1>1, <1>2, <1>3
  <1>4. CASE r.found
    <2> DEFINE p == r.at
               ys == RemoveAt(xs, p)
    <2>1. p \in 1..N /\ xs[p] = k
      BY <1>1, <1>4 DEF Located
    <2>2. /\ ys \in Seq(Key) /\ Len(ys) = N - 1
          /\ \A i \in 1..N - 1 : ys[i] = IF i < p THEN xs[i] ELSE xs[i + 1]
      BY <2>1, RemoveAtIs
    <2>3. Removed(xs, k) = ys  BY <1>2, <1>4
    <2> HIDE DEF p, ys
    <2>4. Sorted(ys)
      <3> SUFFICES ASSUME NEW i \in 1..N - 1, NEW j \in 1..N - 1, i < j
                   PROVE  ys[i] < ys[j]
        BY <2>2 DEF Sorted
      <3>0. p \in Nat /\ i \in Nat /\ j \in Nat  BY <1>0, <2>1
      <3>1. CASE j < p
        <4>0. i \in 1..N /\ j \in 1..N  BY <1>0, <2>1, <3>0, <3>1
        <4>1. xs[i] < xs[j]  BY <4>0 DEF Sorted
        <4> QED  BY <2>2, <3>0, <3>1, <4>1
      <3>2. CASE j >= p /\ i < p
        <4>1. i \in 1..N /\ j + 1 \in 1..N /\ i < j + 1
          BY <1>0, <3>0
        <4>2. xs[i] < xs[j + 1]  BY <4>1 DEF Sorted
        <4> QED  BY <2>2, <3>0, <3>2, <4>2
      <3>3. CASE i >= p
        <4>1. i + 1 \in 1..N /\ j + 1 \in 1..N /\ i + 1 < j + 1
          BY <1>0, <3>0
        <4>2. xs[i + 1] < xs[j + 1]  BY <4>1 DEF Sorted
        <4> QED  BY <2>2, <3>0, <3>3, <4>2
      <3> QED  BY <3>0, <3>1, <3>2, <3>3
    <2>0. \A i \in 1..N : i # p => xs[i] # k
      <3> SUFFICES ASSUME NEW i \in 1..N, i # p PROVE xs[i] # xs[p]
        BY <2>1
      <3>1. i < p \/ p < i  BY <1>0, <2>1
      <3>2. xs[i] < xs[p] \/ xs[p] < xs[i]  BY <2>1, <3>1 DEF Sorted
      <3> QED  BY <1>0, <2>1, <3>2
    <2>5. Elements(ys) = Elements(xs) \ {k}
      <3>1. ASSUME NEW i \in 1..N - 1
            PROVE  ys[i] \in Elements(xs) \ {k}
        <4>1. PICK j \in 1..N : j # p /\ ys[i] = xs[j]
          <5>1. CASE i < p
            <6>1. i \in 1..N /\ i # p /\ ys[i] = xs[i]
              BY <1>0, <2>1, <2>2, <5>1
            <6> QED  BY <6>1
          <5>2. CASE i >= p
            <6>1. i + 1 \in 1..N /\ i + 1 # p /\ ys[i] = xs[i + 1]
              BY <1>0, <2>1, <2>2, <5>2
            <6> QED  BY <6>1
          <5> QED  BY <1>0, <2>1, <5>1, <5>2
        <4> QED  BY <2>0, <4>1 DEF Elements
      <3>2. ASSUME NEW i \in 1..N, xs[i] # k PROVE xs[i] \in Elements(ys)
        <4>1. CASE i < p
          <5>1. i \in 1..N - 1 /\ ys[i] = xs[i]  BY <1>0, <2>1, <2>2, <4>1
          <5> QED  BY <2>2, <5>1 DEF Elements
        <4>2. CASE i > p
          <5>1. /\ i - 1 \in 1..N - 1 /\ ys[i - 1] = xs[(i - 1) + 1]
                /\ (i - 1) + 1 = i
            BY <1>0, <2>1, <2>2, <4>2
          <5> QED  BY <2>2, <5>1 DEF Elements
        <4> QED  BY <1>0, <2>1, <3>2, <4>1, <4>2
      <3> QED  BY <2>2, <3>1, <3>2 DEF Elements
    <2> QED  BY <2>2, <2>3, <2>4, <2>5
  <1> QED  BY <1>3, <1>4

-----------------------------------------------------------------------------
(***************************************************************************)
(* Every access list is sorted, without duplicates, and holds the keys     *)
(* with access to its controller.                                          *)
(***************************************************************************)
ListFits(r, g) ==
  /\ "access_list" \in DOMAIN r /\ r.access_list \in Seq(Key)
  /\ Sorted(r.access_list) /\ Elements(r.access_list) = g

ListsFit ==
  /\ granted \in [Ctrl -> SUBSET Key]
  /\ \A c \in Ctrl : ListFits(ctrl[c], granted[c])

RightsInv == OwnershipInv /\ ListsFit /\ NoBreach

(* The search of a controller's list answers for the keys with access. *)
LEMMA ListAnswers ==
  ASSUME NEW r, NEW g, ListFits(r, g)
  PROVE  /\ \A k \in Key : binary_search(r.access_list, k).found <=> k \in g
         /\ Len(r.access_list) = Cardinality(g)
  <1>1. r.access_list \in Seq(Nat)  BY KeysAreNumbers DEF ListFits
  <1>2. Sorted(r.access_list) /\ Elements(r.access_list) = g
    BY DEF ListFits
  <1>3. Key \subseteq Nat  BY StoreAssumption
  <1>4. ASSUME NEW k \in Key
        PROVE  binary_search(r.access_list, k).found <=> k \in g
    BY <1>1, <1>2, <1>3, FoundIsElement
  <1> QED  BY <1>1, <1>2, <1>4, SortedCardinality

(* A controller is created with an empty list. *)
LEMMA RightsInit == Init => RightsInv
  <1> SUFFICES ASSUME Init PROVE RightsInv  OBVIOUS
  <1>1. granted = [c \in Ctrl |-> {}] /\ NoBreach  BY DEF Init, NoBreach
  <1>2. ASSUME NEW c \in Ctrl PROVE ListFits(ctrl[c], {})
    <2>1. "access_list" \in DOMAIN ctrl[c] /\ ctrl[c].access_list = <<>>
      BY DEF Init
    <2>2. <<>> \in Seq(Key) /\ Sorted(<<>>) /\ Elements(<<>>) = {}
      BY DEF Sorted, Elements
    <2> QED  BY <2>1, <2>2 DEF ListFits
  <1> QED  BY <1>1, <1>2, OwnershipInit DEF RightsInv, ListsFit

(* The access_controller program's instructions keep the lists. *)
LEMMA CtrlStepLists ==
  ASSUME RightsInv, NEW signer \in Key, CtrlStep(signer)
  PROVE  ListsFit'
  <1> USE DEF RightsInv
  <1>1. DOMAIN ctrl = Ctrl /\ granted \in [Ctrl -> SUBSET Key]
    BY DEF OwnershipInv, CtrlOwned, ListsFit
  <1>2. PICK c \in Ctrl, k \in Key \cup {Default} :
          \/ k \in Key /\ add_access(c, signer, k)
          \/ k \in Key /\ remove_access(c, signer, k)
          \/ transfer_ownership(c, signer, k) \/ accept_ownership(c, signer)
    BY DEF CtrlStep
  <1>3. ListFits(ctrl[c], granted[c])  BY DEF ListsFit
  <1>4. PICK r, g : /\ ctrl' = [ctrl EXCEPT ![c] = r]
                    /\ granted' = [granted EXCEPT ![c] = g]
                    /\ ListFits(r, g) /\ g \in SUBSET Key
    <2> DEFINE xs == ctrl[c].access_list
    <2>1. xs \in Seq(Key) /\ Sorted(xs) /\ Elements(xs) = granted[c]
      BY <1>3 DEF ListFits
    <2>2. CASE k \in Key /\ add_access(c, signer, k)
      <3> DEFINE r == [ctrl[c] EXCEPT !.access_list = Inserted(@, k)]
                 g == granted[c] \cup {k}
      <3>1. "access_list" \in DOMAIN r /\ r.access_list = Inserted(xs, k)
        BY <1>3 DEF ListFits
      <3>2. ListFits(r, g)
        BY <2>1, <2>2, <3>1, InsertedFits DEF ListFits
      <3>3. g \in SUBSET Key  BY <1>1, <2>2
      <3>4. /\ ctrl' = [ctrl EXCEPT ![c] = r]
            /\ granted' = [granted EXCEPT ![c] = g]
        BY <2>2 DEF add_access
      <3> QED  BY <3>2, <3>3, <3>4
    <2>3. CASE k \in Key /\ remove_access(c, signer, k)
      <3> DEFINE r == [ctrl[c] EXCEPT !.access_list = Removed(@, k)]
                 g == granted[c] \ {k}
      <3>1. "access_list" \in DOMAIN r /\ r.access_list = Removed(xs, k)
        BY <1>3 DEF ListFits
      <3>2. ListFits(r, g)
        BY <2>1, <2>3, <3>1, RemovedFits DEF ListFits
      <3>3. g \in SUBSET Key  BY <1>1
      <3>4. /\ ctrl' = [ctrl EXCEPT ![c] = r]
            /\ granted' = [granted EXCEPT ![c] = g]
        BY <2>3 DEF remove_access
      <3> QED  BY <3>2, <3>3, <3>4
    <2>4. CASE transfer_ownership(c, signer, k)
      <3>1. ListFits(Proposed(ctrl[c], k), granted[c])
        BY <1>3 DEF ListFits, Proposed
      <3>2. /\ ctrl' = [ctrl EXCEPT ![c] = Proposed(ctrl[c], k)]
            /\ granted' = [granted EXCEPT ![c] = granted[c]]
        BY <1>1, <2>4 DEF transfer_ownership, history
      <3> QED  BY <1>1, <3>1, <3>2
    <2>5. CASE accept_ownership(c, signer)
      <3>1. ListFits(Accepted(ctrl[c]), granted[c])
        BY <1>3 DEF ListFits, Accepted
      <3>2. /\ ctrl' = [ctrl EXCEPT ![c] = Accepted(ctrl[c])]
            /\ granted' = [granted EXCEPT ![c] = granted[c]]
        BY <1>1, <2>5 DEF accept_ownership, history
      <3> QED  BY <1>1, <3>1, <3>2
    <2> QED  BY <1>2, <2>2, <2>3, <2>4, <2>5
  <1>5. granted' \in [Ctrl -> SUBSET Key]  BY <1>1, <1>4
  <1>6. ASSUME NEW d \in Ctrl PROVE ListFits(ctrl'[d], granted'[d])
    <2>1. CASE d = c
      <3>1. ctrl'[d] = r /\ granted'[d] = g  BY <1>1, <1>4, <2>1
      <3> QED  BY <1>4, <3>1
    <2>2. CASE d # c
      <3>1. ctrl'[d] = ctrl[d] /\ granted'[d] = granted[d]
        BY <1>1, <1>4, <2>2
      <3>2. ListFits(ctrl[d], granted[d])  BY DEF ListsFit
      <3> QED  BY <3>1, <3>2
    <2> QED  BY <2>1, <2>2
  <1> QED  BY <1>5, <1>6 DEF ListsFit

(* The other instructions leave the lists alone. *)
LEMMA OtherStepsLists ==
  ASSUME NEW signer \in Key,
         FeedStep(signer) \/ StoreStep(signer) \/ AggregatorStep(signer)
  PROVE  UNCHANGED <<ctrl, granted>>
  <1>1. CASE FeedStep(signer)
    BY <1>1 DEF FeedStep, create_feed, close_feed, set_validator_config,
                set_writer, transfer_feed_ownership, accept_feed_ownership,
                lower_flag, history
  <1>2. CASE StoreStep(signer)
    BY <1>2 DEF StoreStep, transfer_store_ownership,
                accept_store_ownership, set_lowering_access_controller,
                history
  <1>3. CASE AggregatorStep(signer)
    BY <1>3 DEF AggregatorStep, transfer_aggregator_ownership,
                accept_aggregator_ownership, set_billing_access_controller,
                set_requester_access_controller, billing_instruction,
                request_new_round, history
  <1> QED  BY <1>1, <1>2, <1>3

(* Whoever an access list lets through was given access. *)
LEMMA AccessGranted ==
  ASSUME ListsFit, NEW c \in Ctrl, NEW k \in Key, has_access(c, k)
  PROVE  k \in granted[c]
  <1>1. ListFits(ctrl[c], granted[c])  BY DEF ListsFit
  <1> QED  BY <1>1, ListAnswers DEF has_access

(* An instruction that passes its guard is allowed. *)
LEMMA StepAllowed ==
  ASSUME RightsInv, NEW signer \in Key,
         \/ CtrlStep(signer) \/ FeedStep(signer)
         \/ StoreStep(signer) \/ AggregatorStep(signer)
  PROVE  breach' = {}
  <1> USE DEF RightsInv
  <1>0. breach = {}  BY DEF NoBreach
  <1>1. CASE CtrlStep(signer)
    BY <1>0, <1>1 DEF CtrlStep, add_access, remove_access,
                      transfer_ownership, accept_ownership, history
  <1>2. CASE StoreStep(signer)
    BY <1>0, <1>2 DEF StoreStep, transfer_store_ownership, history,
              accept_store_ownership, set_lowering_access_controller
  <1>3. CASE FeedStep(signer)
    <2>1. CASE \E c \in Ctrl : lower_flag(signer, c)
      <3>1. PICK c \in Ctrl : lower_flag(signer, c)  BY <2>1
      <3>2. has_lowering_access(signer, c)  BY <3>1 DEF lower_flag
      <3>3. \/ signer = SignerOf(feed.owner)
            \/ /\ feed.owner = S
               /\ signer \in granted[store.lowering_access_controller]
        BY <3>2, AccessGranted DEF has_lowering_access, SignerOf
      <3> QED  BY <1>0, <3>1, <3>3 DEF lower_flag, Audit
    <2>2. CASE ~\E c \in Ctrl : lower_flag(signer, c)
      BY <1>0, <1>3, <2>2
         DEF FeedStep, create_feed, close_feed, set_validator_config,
             set_writer, transfer_feed_ownership, accept_feed_ownership,
             history
    <2> QED  BY <2>1, <2>2
  <1>4. CASE AggregatorStep(signer)
    <2>1. ASSUME NEW c \in Ctrl, billing_instruction(signer, c)
          PROVE  breach' = {}
      <3>1. has_billing_access(signer, c)  BY <2>1 DEF billing_instruction
      <3>2. Entitled(signer, agg.billing_access_controller)
        BY <3>1, AccessGranted DEF has_billing_access, Entitled
      <3> QED  BY <1>0, <2>1, <3>2 DEF billing_instruction, Audit
    <2>2. ASSUME NEW c \in Ctrl, request_new_round(signer, c)
          PROVE  breach' = {}
      <3>1. has_requester_access(signer, c)  BY <2>2 DEF request_new_round
      <3>2. Entitled(signer, agg.requester_access_controller)
        BY <3>1, AccessGranted DEF has_requester_access, Entitled
      <3> QED  BY <1>0, <2>2, <3>2 DEF request_new_round, Audit
    <2>3. CASE ~\E c \in Ctrl : \/ billing_instruction(signer, c)
                                \/ request_new_round(signer, c)
      BY <1>0, <1>4, <2>3
         DEF AggregatorStep, transfer_aggregator_ownership,
             accept_aggregator_ownership, set_billing_access_controller,
             set_requester_access_controller, history
    <2> QED  BY <2>1, <2>2, <2>3
  <1> QED  BY <1>1, <1>2, <1>3, <1>4

(* Every instruction keeps the lists and the rights. *)
LEMMA RightsNext == RightsInv /\ [Next]_vars => RightsInv'
  <1> SUFFICES ASSUME RightsInv, [Next]_vars PROVE RightsInv'  OBVIOUS
  <1> USE DEF RightsInv
  <1>1. OwnershipInv'  BY OwnershipNext
  <1>2. ASSUME UNCHANGED <<ctrl, granted>> PROVE ListsFit'
    BY <1>2 DEF ListsFit
  <1>3. CASE UNCHANGED vars
    BY <1>1, <1>2, <1>3 DEF vars, NoBreach
  <1>4. CASE \E a \in Answer : submit(a)
    BY <1>1, <1>2, <1>4 DEF submit, NoBreach
  <1>5. ASSUME NEW signer \in Key, \/ CtrlStep(signer) \/ FeedStep(signer)
                                   \/ StoreStep(signer)
                                   \/ AggregatorStep(signer)
        PROVE  ListsFit' /\ NoBreach'
    <2>1. ListsFit'  BY <1>2, <1>5, CtrlStepLists, OtherStepsLists
    <2>2. breach' = {}  BY <1>5, StepAllowed
    <2> QED  BY <2>1, <2>2 DEF NoBreach
  <1> QED  BY <1>1, <1>3, <1>4, <1>5 DEF Next

(***************************************************************************)
(* For any number of keys and controllers and lists of any length, the     *)
(* bisection of access-controller's has_access answers exactly for those   *)
(* who were added and not removed since, and add_access and remove_access  *)
(* leave the array as it has to be.                                        *)
(***************************************************************************)
THEOREM AccessListExact == Spec => []AccessListIsTheSet
  <1>1. ASSUME RightsInv PROVE AccessListIsTheSet
    <2> SUFFICES ASSUME NEW c \in Ctrl
                 PROVE  /\ \A k \in Key : has_access(c, k) <=> k \in granted[c]
                        /\ Len(ctrl[c].access_list) = Cardinality(granted[c])
      BY DEF AccessListIsTheSet
    <2>1. ListFits(ctrl[c], granted[c])  BY <1>1 DEF RightsInv, ListsFit
    <2> QED  BY <2>1, ListAnswers DEF has_access
  <1> QED  BY <1>1, RightsInit, RightsNext, PTL DEF Spec

(***************************************************************************)
(* No lower_flag, billing instruction or request_new_round goes through    *)
(* for someone who is neither the owner nor has access to the controller   *)
(* that the account names, whichever controller the caller passes.         *)
(***************************************************************************)
THEOREM RightsRespected == Spec => []NoBreach
  <1>1. RightsInv => NoBreach  BY DEF RightsInv
  <1> QED  BY <1>1, RightsInit, RightsNext, PTL DEF Spec
=============================================================================

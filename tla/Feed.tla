-------------------------------- MODULE Feed --------------------------------
(***************************************************************************)
(* The feed account of the store program                                   *)
(* (contracts/programs/store/src/state.rs): a header and one array of      *)
(* transmission slots that with_store splits into two ring buffers.  The   *)
(* first live_length slots are the live buffer, the rest the historical    *)
(* one, which keeps one round out of every `granularity`.                  *)
(*                                                                         *)
(* A transmission is an opaque value.  `submitted` is a history variable:  *)
(* submitted[r] is what round r inserted.                                  *)
(***************************************************************************)
EXTENDS Integers, Sequences

CONSTANTS
  Transmission,    \* the transmissions a writer may submit
  Zero,            \* Transmission::default(): a slot that was never written
  None,            \* Option::None
  Abort,           \* a panic or a checked overflow: the instruction fails
  MaxSpace,        \* bound: slots in the largest feed account
  MaxGranularity,  \* largest granularity (u8::MAX in the code)
  U32Max           \* largest round id (u32::MAX in the code)

ASSUME FeedAssumption ==
  /\ MaxSpace \in Nat
  /\ MaxGranularity \in Nat
  /\ U32Max \in Nat

VARIABLES
  space,              \* slots the account was allocated with
  version,            \* 0 while the account is not initialised
  live_length,
  granularity,
  latest_round_id,
  live_cursor,
  historical_cursor,
  slots,              \* the data behind the header
  submitted           \* history variable

feedVars == <<space, version, live_length, granularity, latest_round_id,
              live_cursor, historical_cursor, slots, submitted>>

FEED_VERSION == 2

historical_length == space - live_length

(***************************************************************************)
(* An account the system program has just allocated: all bytes are zero.   *)
(***************************************************************************)
Allocated ==
  /\ space \in 0..MaxSpace
  /\ version = 0
  /\ live_length = 0
  /\ granularity = 0
  /\ latest_round_id = 0
  /\ live_cursor = 0
  /\ historical_cursor = 0
  /\ slots = [i \in 0..(space - 1) |-> Zero]
  /\ submitted = <<>>

(***************************************************************************)
(* create_feed: the part that fixes the layout of the ring buffers.        *)
(***************************************************************************)
CreateLayout(length, gran) ==
  /\ version = 0
  /\ length > 0 /\ length <= space
  /\ gran > 0
  /\ version' = FEED_VERSION
  /\ live_length' = length
  /\ granularity' = gran
  /\ UNCHANGED <<space, latest_round_id, live_cursor, historical_cursor,
                 slots, submitted>>

(***************************************************************************)
(* Feed::insert.  The round id is incremented with overflow checks on, so  *)
(* the insert of a round past U32Max aborts.                               *)
(***************************************************************************)
\* Mutant of Recorded: tests the round id before the increment.
RecordedOldId(id) == historical_length > 0 /\ (id - 1) % granularity = 0

Recorded(id) == historical_length > 0 /\ id % granularity = 0

insert(t) ==
  LET id == latest_round_id + 1 IN
  /\ version = FEED_VERSION
  /\ id <= U32Max
  /\ latest_round_id' = id
  /\ live_cursor' = (live_cursor + 1) % live_length
  /\ \/ /\ Recorded(id)
        /\ slots' = [slots EXCEPT ![live_cursor] = t,
                                  ![live_length + historical_cursor] = t]
        /\ historical_cursor' = (historical_cursor + 1) % historical_length
     \/ /\ ~Recorded(id)
        /\ slots' = [slots EXCEPT ![live_cursor] = t]
        /\ UNCHANGED historical_cursor
  /\ submitted' = Append(submitted, t)
  /\ UNCHANGED <<space, version, live_length, granularity>>

(***************************************************************************)
(* Feed::latest                                                            *)
(***************************************************************************)
\* Mutant of latest: reads the slot under the cursor.
latestAtCursor == IF latest_round_id = 0 THEN None ELSE slots[live_cursor]

latest ==
  IF latest_round_id = 0
  THEN None
  ELSE slots[(live_cursor + live_length - 1) % live_length]

(***************************************************************************)
(* Feed::fetch                                                             *)
(***************************************************************************)
SaturatingSub(a, b) == IF a < b THEN 0 ELSE a - b

\* Mutant of Before: wraps around to one slot too low.
BeforeShortWrap(base, length, cursor, offset) ==
  LET index == IF offset <= cursor THEN cursor - offset
                                   ELSE length - (offset - cursor) - 1
  IN  IF index \in 0..(length - 1) THEN slots[base + index] ELSE Abort

\* The slot `offset` places before `cursor` in a ring of `length` slots that
\* starts at `base`; an underflow or an index out of bounds aborts.
Before(base, length, cursor, offset) ==
  LET index == IF offset <= cursor THEN cursor - offset
                                   ELSE length - (offset - cursor)
  IN  IF index \in 0..(length - 1) THEN slots[base + index] ELSE Abort

live_start == SaturatingSub(latest_round_id, SaturatingSub(live_length, 1))

historical_end == latest_round_id - (latest_round_id % granularity)

\* Mutant of historical_start: one granule too many.
historical_startOffByOne ==
  SaturatingSub(historical_end, granularity * historical_length)

historical_start ==
  SaturatingSub(historical_end,
                granularity * SaturatingSub(historical_length, 1))

RoundDown(round_id) == round_id - (round_id % granularity)

fetch(round_id) ==
  IF round_id = 0 \/ latest_round_id < round_id
  THEN None
  ELSE IF live_start <= round_id
  THEN Before(0, live_length, live_cursor, latest_round_id - round_id + 1)
  ELSE IF historical_start <= round_id /\ round_id <= historical_end
  THEN Before(live_length, historical_length, historical_cursor,
              (historical_end - RoundDown(round_id)) \div granularity + 1)
  ELSE None

-----------------------------------------------------------------------------
FeedInit == Allocated

FeedNext ==
  \/ \E length \in 0..(MaxSpace + 1), gran \in 0..MaxGranularity :
       CreateLayout(length, gran)
  \/ \E t \in Transmission : insert(t)

FeedSpec == FeedInit /\ [][FeedNext]_feedVars

-----------------------------------------------------------------------------
(***************************************************************************)
(* The header and the slots have the types of the Transmissions struct,    *)
(* and both cursors stay inside their rings, so that indexing never aborts *)
(* in insert or latest.                                                    *)
(***************************************************************************)
FeedTypeOK ==
  /\ space \in Nat
  /\ version \in {0, FEED_VERSION}
  /\ live_length \in 0..space
  /\ granularity \in Nat
  /\ latest_round_id \in Nat
  /\ live_cursor \in Nat
  /\ historical_cursor \in Nat
  /\ slots \in [0..(space - 1) -> Transmission \cup {Zero}]
  /\ submitted \in Seq(Transmission)
  /\ version = 0 => latest_round_id = 0
  /\ version = FEED_VERSION =>
       /\ live_length > 0
       /\ granularity > 0
       /\ live_cursor < live_length
  /\ historical_cursor < historical_length \/ historical_cursor = 0

(***************************************************************************)
(* Feed::latest returns what the last insert wrote, after any number of    *)
(* wraparounds of the live buffer, and None only on an empty feed.         *)
(***************************************************************************)
LatestIsLastSubmitted ==
  version = FEED_VERSION =>
    latest = IF submitted = <<>> THEN None ELSE submitted[Len(submitted)]

(***************************************************************************)
(* Feed::fetch answers each of the last live_length rounds with exactly    *)
(* what that round inserted.                                               *)
(***************************************************************************)
LiveWindowExact ==
  version = FEED_VERSION =>
    \A r \in 1..latest_round_id :
      r > latest_round_id - live_length => fetch(r) = submitted[r]

(***************************************************************************)
(* Below the live window, and up to the last recorded round                *)
(* (historical_end), Feed::fetch rounds a round down to a multiple of      *)
(* granularity and answers with what that round inserted, as long as the   *)
(* historical buffer still holds it.                                       *)
(***************************************************************************)
HistoricalRoundsDown ==
  version = FEED_VERSION =>
    \A r \in 1..latest_round_id :
      /\ historical_length > 0
      /\ r <= latest_round_id - live_length
      /\ r <= historical_end
      /\ RoundDown(r) >= granularity
      /\ RoundDown(r) > historical_end - granularity * historical_length
      => fetch(r) = submitted[RoundDown(r)]

(***************************************************************************)
(* A round that neither buffer can reach any more is not found: fetch      *)
(* never answers an evicted round with the newer one that took its slot.   *)
(***************************************************************************)
EvictedNotFound ==
  version = FEED_VERSION =>
    \A r \in 1..latest_round_id :
      /\ r <= latest_round_id - live_length
      /\ r < historical_end - granularity * SaturatingSub(historical_length, 1)
      => fetch(r) = None
=============================================================================

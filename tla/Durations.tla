------------------------------ MODULE Durations ------------------------------
(***************************************************************************)
(* The numbers people type: how many messages /purge deletes, how many     *)
(* days of messages /ban deletes, how long /mute and /poll last.  The code *)
(* computes in machine words, so the width of a word is a parameter: with  *)
(* u64 a magnitude reaches 2^64 - 1, and a product is checked.             *)
(***************************************************************************)
EXTENDS Integers, Results

CONSTANTS MaxU64,      \* the largest u64
          Malformed    \* stands for a text that is no unsigned number

Hour == 3600
Day  == 86400
MAX_TIMEOUT_SECS      == 28 * Day
MIN_DURATION_SECS     == Hour
MAX_DURATION_SECS     == 32 * Day
DEFAULT_DURATION_SECS == 24 * Hour

Units == {"s", "m", "h", "d"}
PerUnit(unit) == CASE unit = "s" -> 1  [] unit = "m" -> 60
                   [] unit = "h" -> Hour [] unit = "d" -> Day

(* How many of the unit fit in so many seconds, without multiplying.       *)
Fitting(unit, secs) == secs \div PerUnit(unit)

(* A duration as typed, its outer blanks gone: the number before the last  *)
(* character, and that character; "" is the unit of an empty text.         *)
Tokens == [magnitude : Nat \cup {Malformed}, unit : Units \cup {"", "other"}]

(* A word holds at least the longest poll and a day on top of it.          *)
ASSUME WordAssumption ==
  /\ MaxU64 \in Nat /\ MaxU64 >= MAX_DURATION_SECS + Day
  /\ Malformed \notin Int
  /\ None \notin Tokens

(* match on the unit, then str::parse::<u64>                               *)
Parses(token) == token.unit \in Units /\ token.magnitude \in 0 .. MaxU64

(* u64::checked_mul of the magnitude with the seconds per unit             *)
Representable(token) == token.magnitude <= Fitting(token.unit, MaxU64)
TotalSecs(token) == token.magnitude * PerUnit(token.unit)

-----------------------------------------------------------------------------
(* The cast to u8 comes after the check, where it changes nothing.         *)
AsU8(n) == n % 256

(* Mutant: the cast before the check.                                      *)
NarrowedPurgeCount(count) ==
  IF AsU8(count) \in 1 .. 100 THEN Ok(AsU8(count)) ELSE Err("InvalidPurgeCount")

validate_purge_count(count) ==
  IF count \in 1 .. 100 THEN Ok(AsU8(count)) ELSE Err("InvalidPurgeCount")

(* In seconds, which fit a u32.                                            *)
validate_ban_delete_days(days) ==
  IF days \in 0 .. 7 THEN Ok(days * Day) ELSE Err("InvalidBanDeleteDays")

(* Mutant: the poll's answer to an overflow.                               *)
UnreadableTimeout(token) ==
  IF ~(Parses(token) /\ Representable(token)) \/ token.magnitude = 0 THEN Err("InvalidDuration")
  ELSE IF TotalSecs(token) <= MAX_TIMEOUT_SECS
       THEN Ok(TotalSecs(token)) ELSE Err("DurationTooLong")

parse_timeout_duration(token) ==
  IF ~Parses(token) \/ token.magnitude = 0 THEN Err("InvalidDuration")
  ELSE IF Representable(token) /\ TotalSecs(token) <= MAX_TIMEOUT_SECS
       THEN Ok(TotalSecs(token)) ELSE Err("DurationTooLong")

(* The poll runs for whole hours, and the range is that of the hours, not  *)
(* of what was typed.                                                      *)
WholeHours(secs) == (secs \div Hour) * Hour

(* Mutant: the range of what was typed.                                    *)
RangeThenRound(token) ==
  IF token = None THEN Ok(DEFAULT_DURATION_SECS)
  ELSE IF /\ Parses(token) /\ Representable(token)
          /\ TotalSecs(token) \in MIN_DURATION_SECS .. MAX_DURATION_SECS
       THEN Ok(WholeHours(TotalSecs(token))) ELSE Err("InvalidDuration")

parse_poll_duration(token) ==
  IF token = None THEN Ok(DEFAULT_DURATION_SECS)
  ELSE IF /\ Parses(token) /\ Representable(token)
          /\ WholeHours(TotalSecs(token)) \in MIN_DURATION_SECS .. MAX_DURATION_SECS
       THEN Ok(WholeHours(TotalSecs(token))) ELSE Err("InvalidDuration")
=============================================================================

---------------------------- MODULE DurationsProofs ---------------------------
(***************************************************************************)
(* What the parsers of Durations say, for every number anybody may type    *)
(* and every width of a word that holds the longest duration.              *)
(***************************************************************************)
EXTENDS Durations, TLAPS

(* The limits, for the provers: their order, not their digits.             *)
LEMMA Limits ==
  /\ MAX_TIMEOUT_SECS \in Nat /\ MAX_TIMEOUT_SECS <= MAX_DURATION_SECS
  /\ MIN_DURATION_SECS = Hour /\ MAX_DURATION_SECS \in Nat
  /\ Hour \in Nat /\ Day \in Nat /\ Hour > 0 /\ Hour <= 86400
  /\ MaxU64 \in Nat /\ MaxU64 >= MAX_DURATION_SECS + Day
  BY WordAssumption, SMT
     DEF Hour, Day, MAX_TIMEOUT_SECS, MIN_DURATION_SECS, MAX_DURATION_SECS

(* And in hours.                                                           *)
LEMMA InHours ==
  Hour = 3600 /\ MIN_DURATION_SECS = 3600 /\ MAX_DURATION_SECS = 768 * 3600
  BY SMT DEF Hour, Day, MIN_DURATION_SECS, MAX_DURATION_SECS

(* A cast of a number the check let through changes nothing.               *)
LEMMA CastsAreExact == \A n \in 0 .. 255 : AsU8(n) = n
  BY DEF AsU8

(* What can be read: a number within the word, in one of the units.        *)
LEMMA Readable ==
  ASSUME NEW token, Parses(token)
  PROVE  /\ token.magnitude \in Nat
         /\ PerUnit(token.unit) \in {1, 60, 3600, 86400}
         /\ TotalSecs(token) \in Nat
<1>1. token.magnitude \in Nat
  BY Limits DEF Parses
<1>2. PerUnit(token.unit) \in {1, 60, 3600, 86400}
  BY SMT DEF Parses, Units, PerUnit, Hour, Day
<1>3. TotalSecs(token) \in Nat
  BY <1>1, <1>2, SMT DEF TotalSecs
<1>4. QED
  BY <1>1, <1>2, <1>3

(* Counting how many units fit is multiplying without the product; a       *)
(* limit within the word makes whatever is below it representable.         *)
LEMMA FittingIsExact ==
  ASSUME NEW token, Parses(token), NEW secs \in Nat
  PROVE  /\ token.magnitude <= Fitting(token.unit, secs) <=> TotalSecs(token) <= secs
         /\ token.magnitude > Fitting(token.unit, secs) <=> TotalSecs(token) > secs
<1> DEFINE m == token.magnitude
<1>1. m \in Nat /\ PerUnit(token.unit) \in {1, 60, 3600, 86400}
  BY Readable
<1>2. CASE PerUnit(token.unit) = 1
  BY <1>1, <1>2, SMT DEF Fitting, TotalSecs
<1>3. CASE PerUnit(token.unit) = 60
  BY <1>1, <1>3, SMT DEF Fitting, TotalSecs
<1>4. CASE PerUnit(token.unit) = 3600
  BY <1>1, <1>4, SMT DEF Fitting, TotalSecs
<1>5. CASE PerUnit(token.unit) = 86400
  BY <1>1, <1>5, SMT DEF Fitting, TotalSecs
<1>6. QED
  BY <1>1, <1>2, <1>3, <1>4, <1>5, SMT

LEMMA ShortIsRepresentable ==
  ASSUME NEW token, Parses(token), TotalSecs(token) <= MAX_DURATION_SECS + Day
  PROVE  Representable(token)
<1>1. token.magnitude \in Nat /\ PerUnit(token.unit) \in {1, 60, 3600, 86400}
  BY Readable
<1>2. CASE PerUnit(token.unit) = 1
  BY <1>1, <1>2, Limits, SMT DEF Representable, Fitting, TotalSecs
<1>3. CASE PerUnit(token.unit) = 60
  BY <1>1, <1>3, Limits, SMT DEF Representable, Fitting, TotalSecs
<1>4. CASE PerUnit(token.unit) = 3600
  BY <1>1, <1>4, Limits, SMT DEF Representable, Fitting, TotalSecs
<1>5. CASE PerUnit(token.unit) = 86400
  BY <1>1, <1>5, Limits, SMT DEF Representable, Fitting, TotalSecs
<1>6. QED
  BY <1>1, <1>2, <1>3, <1>4, <1>5, SMT

(* Rounding to hours takes less than an hour.                              *)
LEMMA HoursAreClose ==
  ASSUME NEW secs \in Nat
  PROVE  /\ WholeHours(secs) \in Nat
         /\ WholeHours(secs) <= secs /\ secs <= WholeHours(secs) + Hour - 1
         /\ (WholeHours(secs) \div Hour) * Hour = WholeHours(secs)
  BY SMT DEF WholeHours, Hour

LEMMA RoundsFromBelow ==
  ASSUME NEW secs \in Nat, WholeHours(secs) \in MIN_DURATION_SECS .. MAX_DURATION_SECS
  PROVE  secs <= MAX_DURATION_SECS + Day
<1>1. WholeHours(secs) <= MAX_DURATION_SECS
  BY Limits
<1>2. WholeHours(secs) \in Nat /\ secs <= WholeHours(secs) + Hour - 1
  BY HoursAreClose
<1>3. QED
  BY <1>1, <1>2, SMT DEF Hour, Day, MAX_DURATION_SECS

LEMMA WithinRange ==
  ASSUME NEW n \in Int, n >= 1, n <= 768 PROVE n \in 1 .. 32 * 24
  BY SMT

(* The ends of the range, one at a time.                                   *)
LEMMA FromOneHour ==
  ASSUME NEW n \in Nat, n >= MIN_DURATION_SECS, n <= MAX_DURATION_SECS
  PROVE  n \div Hour >= 1 /\ n \div Hour <= 768
  BY InHours, SMT

LEMMA BelowOneHour ==
  ASSUME NEW secs \in Nat, WholeHours(secs) < MIN_DURATION_SECS
  PROVE  secs <= Hour - 1
  BY InHours, SMT DEF WholeHours

LEMMA BeyondLastHour ==
  ASSUME NEW secs \in Nat, WholeHours(secs) > MAX_DURATION_SECS
  PROVE  secs > MAX_DURATION_SECS + Hour - 1
  BY InHours, SMT DEF WholeHours

(* The range of the hours, seen from either side.                          *)
LEMMA HoursInRange ==
  ASSUME NEW secs \in Nat, WholeHours(secs) \in MIN_DURATION_SECS .. MAX_DURATION_SECS
  PROVE  /\ WholeHours(secs) \div Hour \in 1 .. 32 * 24
         /\ (WholeHours(secs) \div Hour) * Hour = WholeHours(secs)
<1>1. WholeHours(secs) \in Nat
  BY HoursAreClose
<1>2. WholeHours(secs) >= MIN_DURATION_SECS /\ WholeHours(secs) <= MAX_DURATION_SECS
  BY <1>1, Limits
<1>3. WholeHours(secs) \div Hour >= 1 /\ WholeHours(secs) \div Hour <= 768
  BY <1>1, <1>2, FromOneHour
<1>4. WholeHours(secs) \div Hour \in Int
  BY <1>1, Limits
<1>5. WholeHours(secs) \div Hour \in 1 .. 32 * 24
  BY <1>3, <1>4, WithinRange
<1>6. QED
  BY <1>5, HoursAreClose

LEMMA OutsideBeforeRounding ==
  ASSUME NEW secs \in Nat, WholeHours(secs) \notin MIN_DURATION_SECS .. MAX_DURATION_SECS
  PROVE  secs <= Hour - 1 \/ secs > MAX_DURATION_SECS + Hour - 1
<1>1. WholeHours(secs) \in Nat
  BY HoursAreClose
<1>2. WholeHours(secs) < MIN_DURATION_SECS \/ WholeHours(secs) > MAX_DURATION_SECS
  BY <1>1, Limits
<1>3. QED
  BY <1>2, BelowOneHour, BeyondLastHour

-----------------------------------------------------------------------------
(* What each parser says, for every token.                                 *)
LEMMA TimeoutVerdict ==
  ASSUME NEW token
  PROVE  IF Parses(token) /\ token.magnitude > 0
         THEN parse_timeout_duration(token) =
                IF token.magnitude <= Fitting(token.unit, MAX_TIMEOUT_SECS)
                THEN Ok(TotalSecs(token)) ELSE Err("DurationTooLong")
         ELSE parse_timeout_duration(token) = Err("InvalidDuration")
<1>1. CASE ~Parses(token) \/ token.magnitude = 0
  BY <1>1 DEF parse_timeout_duration
<1>2. CASE Parses(token) /\ token.magnitude # 0
  <2>1. token.magnitude > 0 /\ TotalSecs(token) \in Nat
    BY <1>2, Readable
  <2>2. token.magnitude <= Fitting(token.unit, MAX_TIMEOUT_SECS)
          <=> TotalSecs(token) <= MAX_TIMEOUT_SECS
    BY <1>2, Limits, FittingIsExact
  <2>3. TotalSecs(token) <= MAX_TIMEOUT_SECS => Representable(token)
    BY <1>2, <2>1, Limits, ShortIsRepresentable
  <2>4. QED
    BY <1>2, <2>1, <2>2, <2>3 DEF parse_timeout_duration
<1>3. QED
  BY <1>1, <1>2

LEMMA PollVerdict ==
  ASSUME NEW token, token # None
  PROVE  \/ /\ parse_poll_duration(token) = Ok(WholeHours(TotalSecs(token)))
            /\ Parses(token)
            /\ WholeHours(TotalSecs(token)) \in MIN_DURATION_SECS .. MAX_DURATION_SECS
         \/ /\ parse_poll_duration(token) = Err("InvalidDuration")
            /\ Parses(token) =>
                 WholeHours(TotalSecs(token)) \notin MIN_DURATION_SECS .. MAX_DURATION_SECS
<1>1. CASE ~Parses(token)
  BY <1>1, SMT DEF parse_poll_duration
<1>2. CASE Parses(token)
  <2>1. /\ TotalSecs(token) \in Nat /\ WholeHours(TotalSecs(token)) \in Nat
        /\ TotalSecs(token) <= WholeHours(TotalSecs(token)) + Hour - 1
    BY <1>2, Readable, HoursAreClose
  <2>2. ASSUME WholeHours(TotalSecs(token)) \in MIN_DURATION_SECS .. MAX_DURATION_SECS
        PROVE  Representable(token)
    <3>1. TotalSecs(token) <= MAX_DURATION_SECS + Day
      BY <2>1, <2>2, RoundsFromBelow
    <3>2. QED
      BY <1>2, <3>1, ShortIsRepresentable
  <2>3. QED
    BY <1>2, <2>2, SMT DEF parse_poll_duration
<1>3. QED
  BY <1>1, <1>2
=============================================================================

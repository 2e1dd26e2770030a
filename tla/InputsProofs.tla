---------------------------- MODULE InputsProofs ----------------------------
(***************************************************************************)
(* The properties of Inputs, for all numbers, texts, names and limits.     *)
(***************************************************************************)
EXTENDS Inputs, DurationsProofs, RelayProofs, PollInputProofs

LEMMA Results ==
  /\ \A v : Ok(v).ok /\ Ok(v).value = v
  /\ \A e : ~Err(e).ok
  /\ \A v, e : Ok(v) # Err(e)
  /\ \A d, e : Err(d) = Err(e) => d = e
  BY DEF Ok, Err

(* /purge and /ban hand on what was typed, or refuse it: for every number. *)
THEOREM CountsNeverAliasEver == Spec => []CountsNeverAlias
<1>1. Init => CountsNeverAlias
  BY DEF Init, CountsNeverAlias, Asked
<1>2. CountsNeverAlias /\ [Next]_vars => CountsNeverAlias'
  <2> SUFFICES ASSUME CountsNeverAlias, [Next]_vars PROVE CountsNeverAlias'
    OBVIOUS
  <2>1. ASSUME NEW count \in Counts, Purge(count) PROVE CountsNeverAlias'
    <3>1. request' = [command |-> "purge", count |-> count]
          /\ answer' = validate_purge_count(count) /\ count \in Int
      BY <2>1, InputsAssumption DEF Purge, Answers
    <3>2. request'.command = "purge" /\ request'.count = count
      BY <3>1
    <3>3. IF count >= 1 /\ count <= 100 THEN answer' = Ok(count) ELSE ~(answer').ok
      BY <3>1, CastsAreExact, Results, SMT DEF validate_purge_count
    <3>4. QED
      BY <3>2, <3>3 DEF CountsNeverAlias, Asked
  <2>2. ASSUME NEW days \in DayCounts, Ban(days) PROVE CountsNeverAlias'
    <3> DEFINE verdict == validate_ban_delete_days(days)
    <3>1. request' = [command |-> "ban", days |-> days] /\ days \in Int
          /\ answer' = IF verdict.ok THEN Ok(AsU8(days)) ELSE verdict
      BY <2>2, InputsAssumption DEF Ban, Answers
    <3>2. request'.command = "ban" /\ request'.days = days
      BY <3>1
    <3>3. verdict.ok <=> days >= 0 /\ days <= 7
      BY <3>1, Results DEF validate_ban_delete_days
    <3>4. verdict.ok => Ok(AsU8(days)) = Ok(days)
      BY <3>1, <3>3, CastsAreExact
    <3>5. IF days >= 0 /\ days <= 7 THEN answer' = Ok(days) ELSE ~(answer').ok
      <4> HIDE DEF verdict
      <4> QED BY <3>1, <3>3, <3>4
    <3> QED BY <3>2, <3>5 DEF CountsNeverAlias, Asked
  <2>3. ASSUME NEW token \in TypedDurations, Mute(token) PROVE CountsNeverAlias'
    BY <2>3 DEF Mute, Answers, CountsNeverAlias, Asked
  <2>4. ASSUME NEW form \in PollForms, Poll(form) PROVE CountsNeverAlias'
    BY <2>4 DEF Poll, Answers, CountsNeverAlias, Asked
  <2>5. ASSUME NEW message \in RemoteMessages, Relay(message) PROVE CountsNeverAlias'
    BY <2>5 DEF Relay, Answers, CountsNeverAlias, Asked
  <2>6. CASE UNCHANGED vars
    BY <2>6 DEF vars, CountsNeverAlias, Asked
  <2>7. QED
    BY <2>1, <2>2, <2>3, <2>4, <2>5, <2>6 DEF Next
<1>3. QED
  BY <1>1, <1>2, PTL DEF Spec

(* /mute lasts what was typed up to 28 days, whatever the unit and however *)
(* wide the number.                                                        *)
THEOREM TimeoutAlwaysAsAsked == Spec => []TimeoutAsAsked
<1>1. Init => TimeoutAsAsked
  BY DEF Init, TimeoutAsAsked, Asked
<1>2. TimeoutAsAsked /\ [Next]_vars => TimeoutAsAsked'
  <2> SUFFICES ASSUME TimeoutAsAsked, [Next]_vars PROVE TimeoutAsAsked'
    OBVIOUS
  <2>1. ASSUME NEW count \in Counts, Purge(count) PROVE TimeoutAsAsked'
    BY <2>1 DEF Purge, Answers, TimeoutAsAsked, Asked
  <2>2. ASSUME NEW days \in DayCounts, Ban(days) PROVE TimeoutAsAsked'
    BY <2>2 DEF Ban, Answers, TimeoutAsAsked, Asked
  <2>3. ASSUME NEW token \in TypedDurations, Mute(token) PROVE TimeoutAsAsked'
    <3>1. request' = [command |-> "mute", duration |-> token]
          /\ answer' = parse_timeout_duration(token)
      BY <2>3 DEF Mute, Answers
    <3>2. request'.duration = token
      BY <3>1
    <3>3. QED
      BY <3>1, <3>2, TimeoutVerdict DEF TimeoutAsAsked
  <2>4. ASSUME NEW form \in PollForms, Poll(form) PROVE TimeoutAsAsked'
    BY <2>4 DEF Poll, Answers, TimeoutAsAsked, Asked
  <2>5. ASSUME NEW message \in RemoteMessages, Relay(message) PROVE TimeoutAsAsked'
    BY <2>5 DEF Relay, Answers, TimeoutAsAsked, Asked
  <2>6. CASE UNCHANGED vars
    BY <2>6 DEF vars, TimeoutAsAsked, Asked
  <2>7. QED
    BY <2>1, <2>2, <2>3, <2>4, <2>5, <2>6 DEF Next
<1>3. QED
  BY <1>1, <1>2, PTL DEF Spec

-----------------------------------------------------------------------------
(* The answer to /poll, from the three verdicts it is made of.             *)
LEMMA PollAnswerFromVerdicts ==
  ASSUME NEW question, NEW options, NEW duration, NEW reply,
         reply = PollAnswer(question, options, duration)
  PROVE  /\ reply.ok => duration.ok /\ reply.value.hours = duration.value \div Hour
         /\ ~reply.ok => reply \in {question, options, duration}
<1>1. CASE question.ok /\ options.ok /\ duration.ok
  <2>1. reply = Ok(NativePoll(question.value, options.value, duration.value))
    BY <1>1 DEF PollAnswer
  <2>2. reply.ok /\ reply.value = NativePoll(question.value, options.value, duration.value)
    BY <2>1, Results
  <2>3. reply.value.hours = duration.value \div Hour
    BY <2>2 DEF NativePoll
  <2>4. QED
    BY <1>1, <2>2, <2>3
<1>2. CASE ~(question.ok /\ options.ok /\ duration.ok)
  BY <1>2 DEF PollAnswer
<1>3. QED
  BY <1>1, <1>2

LEMMA TextErrors ==
  ASSUME NEW text
  PROVE  /\ validate_poll_question(text) # Err("InvalidDuration")
         /\ parse_poll_options(text) # Err("InvalidDuration")
  BY Results DEF validate_poll_question, parse_poll_options

(* A poll runs at least an hour, at most 32 days, and less than an hour    *)
(* short of what was typed; a readable duration is refused only outside of *)
(* that.                                                                   *)
THEOREM PollAlwaysRunsAsTold == Spec => []PollRunsAsTold
<1>1. Init => PollRunsAsTold
  BY DEF Init, PollRunsAsTold, Asked
<1>2. PollRunsAsTold /\ [Next]_vars => PollRunsAsTold'
  <2> SUFFICES ASSUME PollRunsAsTold, [Next]_vars PROVE PollRunsAsTold'
    OBVIOUS
  <2>1. ASSUME NEW count \in Counts, Purge(count) PROVE PollRunsAsTold'
    BY <2>1 DEF Purge, Answers, PollRunsAsTold, Asked
  <2>2. ASSUME NEW days \in DayCounts, Ban(days) PROVE PollRunsAsTold'
    BY <2>2 DEF Ban, Answers, PollRunsAsTold, Asked
  <2>3. ASSUME NEW token \in TypedDurations, Mute(token) PROVE PollRunsAsTold'
    BY <2>3 DEF Mute, Answers, PollRunsAsTold, Asked
  <2>4. ASSUME NEW form \in PollForms, Poll(form), form.duration # None
        PROVE  PollRunsAsTold'
    <3> DEFINE asked == form.duration
               verdict == parse_poll_duration(asked)
    <3>1. /\ request' = [command |-> "poll", form |-> form]
          /\ answer' = PollAnswer(validate_poll_question(form.question),
                                  parse_poll_options(form.options), verdict)
      BY <2>4 DEF Poll, Answers
    <3>2. request'.form.duration = asked
      BY <3>1
    <3>3. ASSUME (answer').ok
          PROVE  LET secs == (answer').value.hours * Hour IN
                   /\ (answer').value.hours \in 1 .. 32 * 24
                   /\ asked.magnitude <= Fitting(asked.unit, secs + Hour - 1)
                   /\ TotalSecs(asked) >= secs
      <4>1. verdict.ok /\ (answer').value.hours = verdict.value \div Hour
        BY <3>1, <3>3, PollAnswerFromVerdicts
      <4>2. /\ verdict.value = WholeHours(TotalSecs(asked)) /\ Parses(asked)
            /\ verdict.value \in MIN_DURATION_SECS .. MAX_DURATION_SECS
        BY <2>4, <4>1, PollVerdict, Results
      <4>3. TotalSecs(asked) \in Nat
        BY <4>2, Readable
      <4>4. /\ (answer').value.hours \in 1 .. 32 * 24
            /\ (answer').value.hours * Hour = verdict.value
        BY <4>1, <4>2, <4>3, HoursInRange
      <4>5. verdict.value \in Nat /\ verdict.value <= TotalSecs(asked)
            /\ TotalSecs(asked) <= verdict.value + Hour - 1
        BY <4>2, <4>3, HoursAreClose
      <4>6. asked.magnitude <= Fitting(asked.unit, verdict.value + Hour - 1)
        <5>1. verdict.value + Hour - 1 \in Nat
          BY <4>5, SMT DEF Hour
        <5>2. QED
          BY <4>2, <4>5, <5>1, FittingIsExact
      <4>7. QED
        BY <4>4, <4>5, <4>6, SMT
    <3>4. ASSUME answer' = Err("InvalidDuration"), Parses(asked)
          PROVE  \/ asked.magnitude <= Fitting(asked.unit, Hour - 1)
                 \/ asked.magnitude > Fitting(asked.unit, MAX_DURATION_SECS + Hour - 1)
      <4>1. verdict = Err("InvalidDuration")
        <5>1. ~(answer').ok
          BY <3>4, Results
        <5>2. answer' \in {validate_poll_question(form.question),
                           parse_poll_options(form.options), verdict}
          BY <3>1, <5>1, PollAnswerFromVerdicts
        <5>3. QED
          BY <3>4, <5>2, TextErrors
      <4>2. WholeHours(TotalSecs(asked)) \notin MIN_DURATION_SECS .. MAX_DURATION_SECS
        BY <2>4, <3>4, <4>1, PollVerdict, Results
      <4>3. asked.magnitude \in Nat /\ TotalSecs(asked) \in Nat
        BY <3>4, Readable
      <4>4. TotalSecs(asked) <= Hour - 1 \/ TotalSecs(asked) > MAX_DURATION_SECS + Hour - 1
        BY <4>2, <4>3, OutsideBeforeRounding
      <4>5. /\ asked.magnitude <= Fitting(asked.unit, Hour - 1) <=> TotalSecs(asked) <= Hour - 1
            /\ asked.magnitude > Fitting(asked.unit, MAX_DURATION_SECS + Hour - 1)
                 <=> TotalSecs(asked) > MAX_DURATION_SECS + Hour - 1
        <5>1. Hour - 1 \in Nat /\ MAX_DURATION_SECS + Hour - 1 \in Nat
          BY SMT DEF Hour, Day, MAX_DURATION_SECS
        <5>2. QED
          BY <3>4, <5>1, FittingIsExact
      <4>6. QED
        BY <4>4, <4>5
    <3>5. QED
      BY <3>2, <3>3, <3>4 DEF PollRunsAsTold
  <2>5. ASSUME NEW form \in PollForms, Poll(form), form.duration = None
        PROVE  PollRunsAsTold'
    <3>1. request' = [command |-> "poll", form |-> form]
      BY <2>5 DEF Poll, Answers
    <3>2. request'.form.duration = None
      BY <2>5, <3>1
    <3>3. QED
      BY <3>2 DEF PollRunsAsTold
  <2>6. ASSUME NEW message \in RemoteMessages, Relay(message) PROVE PollRunsAsTold'
    BY <2>6 DEF Relay, Answers, PollRunsAsTold, Asked
  <2>7. CASE UNCHANGED vars
    BY <2>7 DEF vars, PollRunsAsTold, Asked
  <2>8. QED
    BY <2>1, <2>2, <2>3, <2>4, <2>5, <2>6, <2>7 DEF Next
<1>3. QED
  BY <1>1, <1>2, PTL DEF Spec
-----------------------------------------------------------------------------
(* What a relayed message becomes.                                         *)
LEMMA RelayStep ==
  ASSUME NEW message \in RemoteMessages, Relay(message)
  PROVE  /\ request'.message = message
         /\ IF prepare_relay_content(message.content) = <<>> THEN ~(answer').ok
            ELSE /\ (answer').ok
                 /\ (answer').value.content = prepare_relay_content(message.content)
                 /\ (answer').value.username = derive_webhook_username(message.author)
<1> DEFINE content == prepare_relay_content(message.content)
           sent == [content |-> content, username |-> derive_webhook_username(message.author)]
<1>1. /\ request' = [command |-> "relay", message |-> message]
      /\ answer' = IF content = <<>> THEN Err("nothing") ELSE Ok(sent)
  BY DEF Relay, Answers
<1>2. request'.message = message
  BY <1>1
<1>3. /\ sent.content = content
      /\ sent.username = derive_webhook_username(message.author)
  OBVIOUS
<1> HIDE DEF content, sent
<1>4. IF content = <<>> THEN ~(answer').ok ELSE (answer').ok /\ (answer').value = sent
  BY <1>1, Results
<1>5. QED
  BY <1>2, <1>3, <1>4 DEF content

(* A text of any length and of any characters is relayed defused, within   *)
(* the limit and not blank, as itself up to where the limit cuts it; and   *)
(* dropped only when its start within the limit is blank.                  *)
THEOREM RelayedTextAlwaysLegal == Spec => []RelayedTextIsLegal
<1>1. Init => RelayedTextIsLegal
  BY DEF Init, RelayedTextIsLegal, Asked
<1>2. RelayedTextIsLegal /\ [Next]_vars => RelayedTextIsLegal'
  <2> SUFFICES ASSUME RelayedTextIsLegal, [Next]_vars PROVE RelayedTextIsLegal'
    OBVIOUS
  <2>1. ASSUME NEW count \in Counts, Purge(count) PROVE RelayedTextIsLegal'
    BY <2>1 DEF Purge, Answers, RelayedTextIsLegal, Asked
  <2>2. ASSUME NEW days \in DayCounts, Ban(days) PROVE RelayedTextIsLegal'
    BY <2>2 DEF Ban, Answers, RelayedTextIsLegal, Asked
  <2>3. ASSUME NEW token \in TypedDurations, Mute(token) PROVE RelayedTextIsLegal'
    BY <2>3 DEF Mute, Answers, RelayedTextIsLegal, Asked
  <2>4. ASSUME NEW form \in PollForms, Poll(form) PROVE RelayedTextIsLegal'
    BY <2>4 DEF Poll, Answers, RelayedTextIsLegal, Asked
  <2>5. ASSUME NEW message \in RemoteMessages, Relay(message) PROVE RelayedTextIsLegal'
    <3> DEFINE text == message.content
               V == ToSet(text) \cup {At, ZWSP}
               sent == prepare_relay_content(text)
    <3>1. text \in Seq(V) /\ {At, ZWSP} \subseteq V
      <4>1. text \in Seq(ToSet(text)) /\ ToSet(text) \subseteq V
        BY InputsAssumption DEF IsText
      <4>2. QED
        BY <4>1, SeqMonotonic
    <3>2. IF \A i \in Solid(text) : i > MAX_MESSAGE_CHARS THEN sent = <<>>
          ELSE /\ sent # <<>>
               /\ Len(sent) \in 1 .. MAX_MESSAGE_CHARS
               /\ Solid(sent) # {}
               /\ \A i \in 1 .. Len(sent) - 1 : sent[i] = At => sent[i + 1] = ZWSP
               /\ IsPrefix(Visible(sent), Visible(text))
               /\ Len(sent) < MAX_MESSAGE_CHARS => Visible(sent) = Visible(text)
      <4> HIDE DEF V
      <4> QED BY <3>1, PreparedContent, Zenon
    <3>3. /\ request'.message.content = text
          /\ IF sent = <<>> THEN ~(answer').ok
             ELSE (answer').ok /\ (answer').value.content = sent
      BY <2>5, RelayStep, Zenon
    <3> HIDE DEF text, sent
    <3>4. QED
      BY <3>2, <3>3 DEF RelayedTextIsLegal
  <2>6. CASE UNCHANGED vars
    BY <2>6 DEF vars, RelayedTextIsLegal, Asked
  <2>7. QED
    BY <2>1, <2>2, <2>3, <2>4, <2>5, <2>6 DEF Next
<1>3. QED
  BY <1>1, <1>2, PTL DEF Spec

(* The name, of an author with any name.                                   *)
LEMMA RelayedName ==
  ASSUME NEW message \in RemoteMessages, Relay(message), (answer').ok
  PROVE  /\ request'.message.author = message.author /\ message.author \in Seq(Chars)
         /\ (answer').value.username = derive_webhook_username(message.author)
<1>1. message.author \in Seq(Chars)
  BY InputsAssumption
<1>2. QED
  BY <1>1, RelayStep, Zenon

(* Whatever the author is called, the name is one Discord takes: for every *)
(* alphabet, all forbidden and reserved words, and names of any length.    *)
THEOREM RelayedNameAlwaysLegal == Spec => []RelayedNameIsLegal
<1>1. Init => RelayedNameIsLegal
  BY DEF Init, RelayedNameIsLegal, Asked
<1>2. RelayedNameIsLegal /\ [Next]_vars => RelayedNameIsLegal'
  <2> SUFFICES ASSUME RelayedNameIsLegal, [Next]_vars PROVE RelayedNameIsLegal'
    OBVIOUS
  <2>1. ASSUME NEW count \in Counts, Purge(count) PROVE RelayedNameIsLegal'
    BY <2>1 DEF Purge, Answers, RelayedNameIsLegal, Asked
  <2>2. ASSUME NEW days \in DayCounts, Ban(days) PROVE RelayedNameIsLegal'
    BY <2>2 DEF Ban, Answers, RelayedNameIsLegal, Asked
  <2>3. ASSUME NEW token \in TypedDurations, Mute(token) PROVE RelayedNameIsLegal'
    BY <2>3 DEF Mute, Answers, RelayedNameIsLegal, Asked
  <2>4. ASSUME NEW form \in PollForms, Poll(form) PROVE RelayedNameIsLegal'
    BY <2>4 DEF Poll, Answers, RelayedNameIsLegal, Asked
  <2>5. ASSUME NEW message \in RemoteMessages, Relay(message) PROVE RelayedNameIsLegal'
    <3> SUFFICES ASSUME (answer').ok
                 PROVE  LET name == (answer').value.username IN
                          /\ Len(name) \in 1 .. MAX_LEN /\ Head(name) # Blank
                          /\ ~Forbidden(name) /\ LowerCase(name) \notin RESERVED
      BY DEF RelayedNameIsLegal
    <3> DEFINE name == (answer').value.username
    <3>1. message.author \in Seq(Chars) /\ name = derive_webhook_username(message.author)
      BY <2>5, RelayedName
    <3> HIDE DEF name
    <3>2. /\ Len(name) \in 1 .. MAX_LEN /\ Head(name) # Blank
          /\ ~Forbidden(name) /\ LowerCase(name) \notin RESERVED
      BY <3>1, DerivedName
    <3>3. QED
      BY <3>2 DEF name
  <2>6. CASE UNCHANGED vars
    BY <2>6 DEF vars, RelayedNameIsLegal, Asked
  <2>7. QED
    BY <2>1, <2>2, <2>3, <2>4, <2>5, <2>6 DEF Next
<1>3. QED
  BY <1>1, <1>2, PTL DEF Spec

(* The two ways to say that a text is left of another agree.               *)
LEMMA RemainsIsLeftOf ==
  ASSUME NEW text \in Seq(Chars), NEW rest \in Seq(Chars), Remains(text, rest)
  PROVE  LeftOf(text, rest)
<1>1. DOMAIN text = 1 .. Len(text) /\ DOMAIN rest = 1 .. Len(rest) /\ Len(rest) \in Nat
  BY LenProperties
<1>2. PICK from \in [1 .. Len(rest) -> 1 .. Len(text)] : Picks(from, text, rest)
  BY DEF Remains
<1>3. ASSUME NEW k \in DOMAIN rest
      PROVE  rest[k] = text[from[k]] /\ (k > 1 => from[k - 1] < from[k])
  <2>1. rest[k] = text[from[k]]
    BY <1>1, <1>2 DEF Picks
  <2>2. ASSUME k > 1 PROVE from[k - 1] < from[k]
    <3>1. k - 1 \in 1 .. Len(rest) /\ k - 1 < k
      BY <1>1, <2>2
    <3>2. QED
      BY <1>1, <1>2, <3>1 DEF Picks
  <2>3. QED
    BY <2>1, <2>2
<1>4. QED
  BY <1>1, <1>2, <1>3 DEF LeftOf

(* A name with nothing forbidden in it is kept, and of any other letters   *)
(* are only taken out, in however many rounds.                             *)
THEOREM RelayedNameAlwaysTheAuthors == Spec => []RelayedNameIsTheAuthors
<1>1. Init => RelayedNameIsTheAuthors
  BY DEF Init, RelayedNameIsTheAuthors, Asked
<1>2. RelayedNameIsTheAuthors /\ [Next]_vars => RelayedNameIsTheAuthors'
  <2> SUFFICES ASSUME RelayedNameIsTheAuthors, [Next]_vars PROVE RelayedNameIsTheAuthors'
    OBVIOUS
  <2>1. ASSUME NEW count \in Counts, Purge(count) PROVE RelayedNameIsTheAuthors'
    BY <2>1 DEF Purge, Answers, RelayedNameIsTheAuthors, Asked
  <2>2. ASSUME NEW days \in DayCounts, Ban(days) PROVE RelayedNameIsTheAuthors'
    BY <2>2 DEF Ban, Answers, RelayedNameIsTheAuthors, Asked
  <2>3. ASSUME NEW token \in TypedDurations, Mute(token) PROVE RelayedNameIsTheAuthors'
    BY <2>3 DEF Mute, Answers, RelayedNameIsTheAuthors, Asked
  <2>4. ASSUME NEW form \in PollForms, Poll(form) PROVE RelayedNameIsTheAuthors'
    BY <2>4 DEF Poll, Answers, RelayedNameIsTheAuthors, Asked
  <2>5. ASSUME NEW message \in RemoteMessages, Relay(message) PROVE RelayedNameIsTheAuthors'
    <3> SUFFICES ASSUME (answer').ok
                 PROVE  LET name == (answer').value.username
                            own  == Trim(request'.message.author)
                        IN  IF Forbidden(own) THEN name = FALLBACK \/ LeftOf(own, name)
                            ELSE name = IF own = <<>> \/ LowerCase(own) \in RESERVED
                                        THEN FALLBACK ELSE Take(own, MAX_LEN)
      BY DEF RelayedNameIsTheAuthors
    <3> DEFINE name == (answer').value.username
               own == Trim(message.author)
    <3>1. /\ message.author \in Seq(Chars) /\ request'.message.author = message.author
          /\ name = derive_webhook_username(message.author)
      BY <2>5, RelayedName
    <3> HIDE DEF name
    <3>2. /\ name \in Seq(Chars)
          /\ name = FALLBACK \/ Remains(own, name)
          /\ ~Forbidden(own) => name = IF own = <<>> \/ LowerCase(own) \in RESERVED
                                       THEN FALLBACK ELSE Take(own, MAX_LEN)
      BY <3>1, DerivedName
    <3>3. own \in Seq(Chars)
      BY <3>1, TrimIsTheMiddle
    <3> HIDE DEF own
    <3>4. Remains(own, name) => LeftOf(own, name)
      BY <3>2, <3>3, RemainsIsLeftOf
    <3>5. QED
      BY <3>1, <3>2, <3>4 DEF name, own
  <2>6. CASE UNCHANGED vars
    BY <2>6 DEF vars, RelayedNameIsTheAuthors, Asked
  <2>7. QED
    BY <2>1, <2>2, <2>3, <2>4, <2>5, <2>6 DEF Next
<1>3. QED
  BY <1>1, <1>2, PTL DEF Spec
-----------------------------------------------------------------------------
(* What parse_poll_options says, from the options that are left.           *)
LEMMA OptionsVerdict ==
  ASSUME NEW text, Len(Kept(text)) \in Nat
  PROVE  LET verdict == parse_poll_options(text)
             options == Kept(text)
         IN  /\ verdict.ok => /\ verdict.value = options
                              /\ Len(options) \in MIN_OPTIONS .. MAX_OPTIONS
                              /\ \A k \in DOMAIN options : ~(Len(options[k]) > MAX_OPTION_CHARS)
             /\ verdict = Err("TooFewOptions") => Len(options) < MIN_OPTIONS
             /\ verdict = Err("TooManyOptions") => Len(options) > MAX_OPTIONS
             /\ verdict = Err("OptionTooLong") =>
                  \E k \in DOMAIN options : Len(options[k]) > MAX_OPTION_CHARS
<1> DEFINE verdict == parse_poll_options(text)
           options == Kept(text)
           TooLong == \E k \in DOMAIN options : Len(options[k]) > MAX_OPTION_CHARS
<1>1. MIN_OPTIONS \in Nat /\ MAX_OPTIONS \in Nat /\ MIN_OPTIONS <= MAX_OPTIONS
  BY PollLimits
<1>2. CASE Len(options) < MIN_OPTIONS
  <2>1. ~(Len(options) > MAX_OPTIONS)
    BY <1>1, <1>2
  <2>2. verdict = Err("TooFewOptions")
    BY <1>2, <2>1 DEF parse_poll_options
  <2> HIDE DEF verdict, options
  <2>3. QED
    BY <1>2, <2>2, Results DEF verdict, options
<1>3. CASE Len(options) > MAX_OPTIONS
  <2>1. ~(Len(options) < MIN_OPTIONS)
    BY <1>1, <1>3
  <2>2. verdict = Err("TooManyOptions")
    BY <1>3, <2>1 DEF parse_poll_options
  <2> HIDE DEF verdict, options
  <2>3. QED
    BY <1>3, <2>2, Results DEF verdict, options
<1>4. CASE ~(Len(options) < MIN_OPTIONS) /\ ~(Len(options) > MAX_OPTIONS)
  <2>1. verdict = IF TooLong THEN Err("OptionTooLong") ELSE Ok(options)
    BY <1>4 DEF parse_poll_options
  <2>2. Len(options) \in MIN_OPTIONS .. MAX_OPTIONS
    BY <1>1, <1>4
  <2>3. CASE TooLong
    <3>1. verdict = Err("OptionTooLong")
      BY <2>1, <2>3
    <3> HIDE DEF verdict, options
    <3>2. QED
      BY <2>3, <3>1, Results DEF verdict, options
  <2>4. CASE ~TooLong
    <3>1. verdict = Ok(options)
      BY <2>1, <2>4
    <3> HIDE DEF verdict, options
    <3>2. verdict.ok /\ verdict.value = options
      BY <3>1, Results
    <3>3. /\ verdict # Err("TooFewOptions") /\ verdict # Err("TooManyOptions")
          /\ verdict # Err("OptionTooLong")
      BY <3>1, Results
    <3>4. QED
      BY <2>2, <2>4, <3>2, <3>3 DEF verdict, options
  <2>5. QED
    BY <2>3, <2>4
<1>5. QED
  BY <1>2, <1>3, <1>4

(* A poll's options are those of parse_poll_options, and a complaint about *)
(* them is its complaint.                                                  *)
LEMMA PollOptionsFromVerdicts ==
  ASSUME NEW form, Poll(form)
  PROVE  LET verdict == parse_poll_options(form.options) IN
           /\ request'.form.options = form.options
           /\ (answer').ok => verdict.ok /\ (answer').value.options = verdict.value
           /\ \A e \in {"TooFewOptions", "TooManyOptions", "OptionTooLong"} :
                answer' = Err(e) => verdict = Err(e)
<1> DEFINE question == validate_poll_question(form.question)
           verdict == parse_poll_options(form.options)
           duration == parse_poll_duration(form.duration)
<1>1. /\ request' = [command |-> "poll", form |-> form]
      /\ answer' = PollAnswer(question, verdict, duration)
  BY DEF Poll, Answers
<1>2. request'.form.options = form.options
  BY <1>1
<1>3. /\ \E v : question \in {Err("EmptyQuestion"), Err("QuestionTooLong"), Ok(v)}
      /\ \E v : duration \in {Err("InvalidDuration"), Ok(v)}
  <2>1. \E v : question \in {Err("EmptyQuestion"), Err("QuestionTooLong"), Ok(v)}
    BY DEF validate_poll_question
  <2>2. duration \in {Err("InvalidDuration"), Ok(DEFAULT_DURATION_SECS),
                      Ok(WholeHours(TotalSecs(form.duration)))}
    BY Zenon DEF parse_poll_duration
  <2>3. QED
    BY <2>1, <2>2
<1> HIDE DEF question, verdict, duration
<1>4. CASE question.ok /\ verdict.ok /\ duration.ok
  <2>1. answer' = Ok(NativePoll(question.value, verdict.value, duration.value))
    BY <1>1, <1>4 DEF PollAnswer
  <2>2. (answer').value = NativePoll(question.value, verdict.value, duration.value)
        /\ (answer').ok /\ \A e : answer' # Err(e)
    BY <2>1, Results
  <2>3. (answer').value.options = verdict.value
    BY <2>2 DEF NativePoll
  <2>4. QED
    BY <1>2, <1>4, <2>2, <2>3 DEF verdict
<1>5. CASE ~(question.ok /\ verdict.ok /\ duration.ok)
  <2>1. \/ answer' = question /\ ~question.ok
        \/ answer' = verdict /\ ~verdict.ok
        \/ answer' = duration /\ ~duration.ok
    BY <1>1, <1>5 DEF PollAnswer
  <2>2. ~(answer').ok
    BY <2>1
  <2>3. ASSUME NEW e \in {"TooFewOptions", "TooManyOptions", "OptionTooLong"}, answer' = Err(e)
        PROVE  verdict = Err(e)
    <3>1. question # Err(e)
      BY <1>3, Results
    <3>2. duration # Err(e)
      BY <1>3, Results
    <3>3. QED
      BY <2>1, <2>3, <3>1, <3>2
  <2>4. QED
    BY <1>2, <2>2, <2>3 DEF verdict
<1>6. QED
  BY <1>4, <1>5

(* Whatever text of options is typed, with however many separators and     *)
(* blanks: a poll offers each option in it, in order and letter for        *)
(* letter, within the limits, or says truly which limit they exceed.       *)
THEOREM OptionsAlwaysAsTyped == Spec => []OptionsAsTyped
<1>1. Init => OptionsAsTyped
  BY DEF Init, OptionsAsTyped, Asked
<1>2. OptionsAsTyped /\ [Next]_vars => OptionsAsTyped'
  <2> SUFFICES ASSUME OptionsAsTyped, [Next]_vars PROVE OptionsAsTyped'
    OBVIOUS
  <2>1. ASSUME NEW count \in Counts, Purge(count) PROVE OptionsAsTyped'
    BY <2>1 DEF Purge, Answers, OptionsAsTyped, Asked
  <2>2. ASSUME NEW days \in DayCounts, Ban(days) PROVE OptionsAsTyped'
    BY <2>2 DEF Ban, Answers, OptionsAsTyped, Asked
  <2>3. ASSUME NEW token \in TypedDurations, Mute(token) PROVE OptionsAsTyped'
    BY <2>3 DEF Mute, Answers, OptionsAsTyped, Asked
  <2>4. ASSUME NEW form \in PollForms, Poll(form) PROVE OptionsAsTyped'
    <3> DEFINE text == form.options
               V == ToSet(text)
               verdict == parse_poll_options(text)
               options == Kept(text)
    <3>1. text \in Seq(V)
      BY InputsAssumption DEF IsText
    <3> HIDE DEF text, V
    <3>2. /\ request'.form.options = text
          /\ (answer').ok => verdict.ok /\ (answer').value.options = verdict.value
          /\ answer' = Err("TooFewOptions") => verdict = Err("TooFewOptions")
          /\ answer' = Err("TooManyOptions") => verdict = Err("TooManyOptions")
          /\ answer' = Err("OptionTooLong") => verdict = Err("OptionTooLong")
      BY <2>4, PollOptionsFromVerdicts DEF text
    <3>3. /\ options \in Lists(V)
          /\ Len(options) = Cardinality(Starts(text)) /\ Len(options) \in Nat
          /\ Joined(options) = Letters(text)
          /\ \A k \in 1 .. Len(options) :
               /\ Len(options[k]) \in Nat /\ Len(options[k]) >= 1
               /\ OPTION_SEPARATOR \notin ToSet(options[k])
               /\ Letter(Head(options[k])) /\ Letter(Last(options[k]))
               /\ \E i \in Starts(text) :
                    Extent(text, i) \in Nat /\ Extent(text, i) >= Len(options[k])
      BY <3>1, OptionsKept, Zenon
    <3>4. /\ verdict.ok => /\ verdict.value = options
                           /\ Len(options) \in MIN_OPTIONS .. MAX_OPTIONS
                           /\ \A k \in DOMAIN options : ~(Len(options[k]) > MAX_OPTION_CHARS)
          /\ verdict = Err("TooFewOptions") => Len(options) < MIN_OPTIONS
          /\ verdict = Err("TooManyOptions") => Len(options) > MAX_OPTIONS
          /\ verdict = Err("OptionTooLong") =>
               \E k \in DOMAIN options : Len(options[k]) > MAX_OPTION_CHARS
      BY <3>3, OptionsVerdict, Zenon
    <3> HIDE DEF verdict, options
    <3>5. DOMAIN options = 1 .. Len(options)
      BY <3>3, LenProperties DEF Lists
    <3>6. MAX_OPTION_CHARS \in Nat
      BY PollLimits
    <3>7. ASSUME (answer').ok
          PROVE  LET offered == (answer').value.options IN
                   /\ Len(offered) = Cardinality(Starts(text))
                   /\ Len(offered) \in MIN_OPTIONS .. MAX_OPTIONS
                   /\ FlattenSeq([k \in DOMAIN offered |-> Letters(offered[k])]) = Letters(text)
                   /\ \A k \in DOMAIN offered :
                        /\ Len(offered[k]) \in 1 .. MAX_OPTION_CHARS
                        /\ OPTION_SEPARATOR \notin ToSet(offered[k])
                        /\ Letter(Head(offered[k])) /\ Letter(Last(offered[k]))
      <4>1. (answer').value.options = options /\ Len(options) \in MIN_OPTIONS .. MAX_OPTIONS
        BY <3>2, <3>4, <3>7
      <4>2. ASSUME NEW k \in DOMAIN options
            PROVE  /\ Len(options[k]) \in 1 .. MAX_OPTION_CHARS
                   /\ OPTION_SEPARATOR \notin ToSet(options[k])
                   /\ Letter(Head(options[k])) /\ Letter(Last(options[k]))
        <5>1. /\ Len(options[k]) \in Nat /\ Len(options[k]) >= 1
              /\ OPTION_SEPARATOR \notin ToSet(options[k])
              /\ Letter(Head(options[k])) /\ Letter(Last(options[k]))
          BY <3>3, <3>5
        <5>2. ~(Len(options[k]) > MAX_OPTION_CHARS)
          BY <3>2, <3>4, <3>7
        <5>3. Len(options[k]) \in 1 .. MAX_OPTION_CHARS
          BY <3>6, <5>1, <5>2
        <5>4. QED
          BY <5>1, <5>3
      <4>3. FlattenSeq([k \in DOMAIN options |-> Letters(options[k])]) = Letters(text)
        BY <3>3 DEF Joined
      <4>4. QED
        BY <3>3, <4>1, <4>2, <4>3, Zenon
    <3>8. answer' = Err("TooFewOptions") => Cardinality(Starts(text)) < MIN_OPTIONS
      BY <3>2, <3>3, <3>4
    <3>9. answer' = Err("TooManyOptions") => Cardinality(Starts(text)) > MAX_OPTIONS
      BY <3>2, <3>3, <3>4
    <3>10. ASSUME answer' = Err("OptionTooLong")
           PROVE  \E i \in Starts(text) : Extent(text, i) > MAX_OPTION_CHARS
      <4>1. PICK k \in DOMAIN options : Len(options[k]) > MAX_OPTION_CHARS
        BY <3>2, <3>4, <3>10
      <4>2. PICK i \in Starts(text) : Extent(text, i) \in Nat /\ Extent(text, i) >= Len(options[k])
        BY <3>3, <3>5
      <4>3. Len(options[k]) \in Nat
        BY <3>3, <3>5
      <4>4. Extent(text, i) > MAX_OPTION_CHARS
        BY <3>6, <4>1, <4>2, <4>3
      <4>5. QED
        BY <4>4
    <3>11. Starts(text) = {i \in DOMAIN text : Begins(text, i)}
      BY DEF Starts
    <3>12. QED
      BY <3>2, <3>7, <3>8, <3>9, <3>10, <3>11, Zenon DEF OptionsAsTyped
  <2>5. ASSUME NEW message \in RemoteMessages, Relay(message) PROVE OptionsAsTyped'
    BY <2>5 DEF Relay, Answers, OptionsAsTyped, Asked
  <2>6. CASE UNCHANGED vars
    BY <2>6 DEF vars, OptionsAsTyped, Asked
  <2>7. QED
    BY <2>1, <2>2, <2>3, <2>4, <2>5, <2>6 DEF Next
<1>3. QED
  BY <1>1, <1>2, PTL DEF Spec
=============================================================================

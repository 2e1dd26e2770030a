------------------------------- MODULE Inputs -------------------------------
(***************************************************************************)
(* What people type, and what becomes of it on its way to Discord: the     *)
(* numbers of /purge, /ban, /mute and /poll, the texts of /poll, and the   *)
(* content and author of a relayed message.  Each action is one command up *)
(* to the value it hands to Discord, or to its refusal; who may use it and *)
(* on whom is the business of Moderation.  The functions keep no state, so *)
(* a behaviour is a single use of one of them.                             *)
(***************************************************************************)
EXTENDS Durations, PollInput, RelayText, WebhookUsername

CONSTANTS Counts, DayCounts,                  \* numbers for /purge and /ban
          TypedDurations,                     \* tokens for /mute
          PollForms,                          \* the arguments of /poll
          RemoteMessages                      \* what the remote platform sends

ASSUME InputsAssumption ==
  /\ Counts \subseteq Int /\ DayCounts \subseteq Int
  /\ TypedDurations \subseteq Tokens
  /\ \A form \in PollForms : form.duration \in Tokens \cup {None} /\ IsText(form.options)
  /\ \A message \in RemoteMessages : message.author \in Seq(Chars) /\ IsText(message.content)

VARIABLES request,    \* what was typed
          answer      \* what the code hands on, or why it refuses

vars == <<request, answer>>

Init == request = None /\ answer = None

Answers(use, handedOn) == request' = use /\ answer' = handedOn

Purge(count) ==
  Answers([command |-> "purge", count |-> count], validate_purge_count(count))

(* The helper's seconds only gate the range; Discord gets the days.        *)
Ban(days) ==
  LET verdict == validate_ban_delete_days(days) IN
    Answers([command |-> "ban", days |-> days],
            IF verdict.ok THEN Ok(AsU8(days)) ELSE verdict)

Mute(token) ==
  Answers([command |-> "mute", duration |-> token], parse_timeout_duration(token))

(* serenity sends Discord the hours of the duration.                       *)
NativePoll(question, options, secs) ==
  [question |-> question, options |-> options, hours |-> secs \div Hour]

(* The three inputs are looked at in this order; the first bad one is the  *)
(* reply.                                                                  *)
PollAnswer(question, options, duration) ==
  CASE ~question.ok -> question
    [] question.ok /\ ~options.ok -> options
    [] question.ok /\ options.ok /\ ~duration.ok -> duration
    [] OTHER -> Ok(NativePoll(question.value, options.value, duration.value))

Poll(form) ==
  Answers([command |-> "poll", form |-> form],
          PollAnswer(validate_poll_question(form.question), parse_poll_options(form.options),
                     parse_poll_duration(form.duration)))

(* relay_inbound up to the webhook: nothing to send, or content and name.  *)
Relay(message) ==
  LET content == prepare_relay_content(message.content) IN
    Answers([command |-> "relay", message |-> message],
            IF content = <<>> THEN Err("nothing")
            ELSE Ok([content |-> content, username |-> derive_webhook_username(message.author)]))

Next ==
  /\ request = None
  /\ \/ \E count \in Counts : Purge(count)
     \/ \E days \in DayCounts : Ban(days)
     \/ \E token \in TypedDurations : Mute(token)
     \/ \E form \in PollForms : Poll(form)
     \/ \E message \in RemoteMessages : Relay(message)

Spec == Init /\ [][Next]_vars

-----------------------------------------------------------------------------
Asked(command) == request # None /\ request.command = command

(* /purge and /ban hand on the number that was typed, and only one Discord *)
(* takes: no number outside the range becomes one inside it by a cast.     *)
CountsNeverAlias ==
  /\ Asked("purge") => IF request.count >= 1 /\ request.count <= 100
                       THEN answer = Ok(request.count) ELSE ~answer.ok
  /\ Asked("ban") => IF request.days >= 0 /\ request.days <= 7
                     THEN answer = Ok(request.days) ELSE ~answer.ok

(* /mute lasts exactly what was typed, in every unit up to 28 days and no  *)
(* longer, however wide a number is typed; and it says "too long" only of  *)
(* a number it can read.                                                   *)
TimeoutAsAsked ==
  Asked("mute") =>
    LET asked == request.duration IN
      IF Parses(asked) /\ asked.magnitude > 0
      THEN answer = IF asked.magnitude <= Fitting(asked.unit, MAX_TIMEOUT_SECS)
                    THEN Ok(TotalSecs(asked)) ELSE Err("DurationTooLong")
      ELSE answer = Err("InvalidDuration")

(* A poll is sent with at least one hour and at most 32 days, less than an *)
(* hour short of what was typed; and a duration is refused only when it is *)
(* no number, below one hour, or 32 days and an hour or more.              *)
PollRunsAsTold ==
  Asked("poll") /\ request.form.duration # None =>
    LET asked == request.form.duration IN
      /\ answer.ok =>
           LET secs == answer.value.hours * Hour IN
             /\ answer.value.hours \in 1 .. 32 * 24
             /\ asked.magnitude <= Fitting(asked.unit, secs + Hour - 1)
             /\ TotalSecs(asked) >= secs
      /\ answer = Err("InvalidDuration") =>
           \/ ~Parses(asked)
           \/ asked.magnitude <= Fitting(asked.unit, Hour - 1)
           \/ asked.magnitude > Fitting(asked.unit, MAX_DURATION_SECS + Hour - 1)

-----------------------------------------------------------------------------
(* A poll offers every option that was typed, in order, letter for letter, *)
(* each within Discord's limits, and is refused only when there are too    *)
(* few, too many or too long ones: stray separators and blanks make no     *)
(* option and split none.                                                  *)
OptionsAsTyped ==
  Asked("poll") =>
    LET text  == request.form.options
        typed == {i \in DOMAIN text : Begins(text, i)}
    IN  /\ answer.ok =>
             LET offered == answer.value.options IN
               /\ Len(offered) = Cardinality(typed)
               /\ Len(offered) \in MIN_OPTIONS .. MAX_OPTIONS
               /\ FlattenSeq([k \in DOMAIN offered |-> Letters(offered[k])]) = Letters(text)
               /\ \A k \in DOMAIN offered :
                    /\ Len(offered[k]) \in 1 .. MAX_OPTION_CHARS
                    /\ OPTION_SEPARATOR \notin ToSet(offered[k])
                    /\ Letter(Head(offered[k])) /\ Letter(Last(offered[k]))
        /\ answer = Err("TooFewOptions") => Cardinality(typed) < MIN_OPTIONS
        /\ answer = Err("TooManyOptions") => Cardinality(typed) > MAX_OPTIONS
        /\ answer = Err("OptionTooLong") =>
             \E i \in typed : Extent(text, i) > MAX_OPTION_CHARS

(* What is relayed has a length Discord takes, is not blank, and leaves no *)
(* @ next to what followed it; it is the content itself, in full unless    *)
(* the limit cuts it.  Nothing is sent only when there is nothing but      *)
(* blanks within the limit.                                                *)
RelayedTextIsLegal ==
  Asked("relay") =>
    LET text == request.message.content
        sent == answer.value.content
    IN  IF \A i \in Solid(text) : i > MAX_MESSAGE_CHARS THEN ~answer.ok
        ELSE /\ answer.ok
             /\ Len(sent) \in 1 .. MAX_MESSAGE_CHARS
             /\ Solid(sent) # {}
             /\ \A i \in 1 .. Len(sent) - 1 : sent[i] = At => sent[i + 1] = ZWSP
             /\ IsPrefix(Visible(sent), Visible(text))
             /\ Len(sent) < MAX_MESSAGE_CHARS => Visible(sent) = Visible(text)

(* The name a message is relayed under is one Discord takes, whatever the  *)
(* author is called: no removal leaves a forbidden or a reserved word.     *)
RelayedNameIsLegal ==
  Asked("relay") /\ answer.ok =>
    LET name == answer.value.username IN
      /\ Len(name) \in 1 .. MAX_LEN /\ Head(name) # Blank
      /\ ~Forbidden(name) /\ LowerCase(name) \notin RESERVED

(* What remains when characters are taken out of a text.                   *)
LeftOf(text, rest) ==
  \E from \in [DOMAIN rest -> DOMAIN text] :
    \A k \in DOMAIN rest : rest[k] = text[from[k]] /\ (k > 1 => from[k - 1] < from[k])

(* A legal name is kept as it is, and of any other nothing is changed but  *)
(* what is taken out.                                                      *)
RelayedNameIsTheAuthors ==
  Asked("relay") /\ answer.ok =>
    LET name == answer.value.username
        own  == Trim(request.message.author)
    IN  IF Forbidden(own) THEN name = FALLBACK \/ LeftOf(own, name)
        ELSE name = IF own = <<>> \/ LowerCase(own) \in RESERVED
                    THEN FALLBACK ELSE Take(own, MAX_LEN)
=============================================================================

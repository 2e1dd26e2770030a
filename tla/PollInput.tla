------------------------------ MODULE PollInput ------------------------------
(***************************************************************************)
(* The question and the options of /poll (commands/poll.rs).  The limits   *)
(* are parameters: 300 and 55 characters, 2 to 10 options.                 *)
(***************************************************************************)
EXTENDS Texts, Results

CONSTANTS MAX_QUESTION_CHARS, MAX_OPTION_CHARS, MIN_OPTIONS, MAX_OPTIONS

ASSUME PollLimits ==
  /\ {MAX_QUESTION_CHARS, MAX_OPTION_CHARS, MIN_OPTIONS, MAX_OPTIONS} \subseteq Nat \ {0}
  /\ MIN_OPTIONS <= MAX_OPTIONS

OPTION_SEPARATOR == "|"

validate_poll_question(input) ==
  CASE Trim(input) = <<>>                      -> Err("EmptyQuestion")
    [] Len(Trim(input)) > MAX_QUESTION_CHARS   -> Err("QuestionTooLong")
    [] OTHER                                   -> Ok(Trim(input))

(* str::split: a separator ends one piece and begins the next.  pieces[n]  *)
(* are those of the first n characters.                                    *)
Pieces(input) ==
  LET pieces[n \in 0 .. Len(input)] ==
        IF n = 0 THEN <<<<>>>>
        ELSE LET before == pieces[n - 1] IN
               IF input[n] = OPTION_SEPARATOR THEN Append(before, <<>>)
               ELSE Append(Front(before), Append(Last(before), input[n]))
  IN  pieces[Len(input)]

(* filter(|s| !s.is_empty())                                               *)
NonEmpty(texts) ==
  FlattenSeq([k \in DOMAIN texts |-> IF texts[k] = <<>> THEN <<>> ELSE <<texts[k]>>])

(* Mutant: blank pieces are dropped before they are trimmed.               *)
KeptBlank(input) ==
  LET pieces == NonEmpty(Pieces(input)) IN [k \in DOMAIN pieces |-> Trim(pieces[k])]

Kept(input) ==
  LET pieces == Pieces(input) IN NonEmpty([k \in DOMAIN pieces |-> Trim(pieces[k])])

parse_poll_options(input) ==
  LET options == Kept(input) IN
    CASE Len(options) < MIN_OPTIONS -> Err("TooFewOptions")
      [] Len(options) > MAX_OPTIONS -> Err("TooManyOptions")
      [] OTHER -> IF \E k \in DOMAIN options : Len(options[k]) > MAX_OPTION_CHARS
                  THEN Err("OptionTooLong") ELSE Ok(options)

-----------------------------------------------------------------------------
(* What a reader of the typed text sees, without splitting it.             *)
Letter(ch) == ch \notin {Blank, OPTION_SEPARATOR}
Letters(text) ==
  FlattenSeq([i \in DOMAIN text |-> IF Letter(text[i]) THEN <<text[i]>> ELSE <<>>])

(* Where an option begins: a letter with none before it since the last     *)
(* separator; and how far it reaches.                                      *)
Begins(text, i) ==
  /\ Letter(text[i])
  /\ \A j \in 1 .. i - 1 : Letter(text[j]) => OPTION_SEPARATOR \in ToSet(SubSeq(text, j, i))
Extent(text, i) ==
  Max({j - i + 1 : j \in {k \in i .. Len(text) :
         Letter(text[k]) /\ OPTION_SEPARATOR \notin ToSet(SubSeq(text, i, k))}})
=============================================================================

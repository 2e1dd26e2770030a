------------------------------ MODULE MCInputs ------------------------------
(***************************************************************************)
(* Inputs for TLC: the numbers around every limit, and all short texts     *)
(* over small alphabets, with limits scaled to them.                       *)
(***************************************************************************)
EXTENDS Inputs

CONSTANTS TextLength, OptionsLength, NameLength, SpliceLength

(* Around the range, and what the casts of the wrong order would alias.    *)
MCCounts == {-255, -157, -1, 0, 1, 2, 99, 100, 101, 255, 256, 257, 300, 356, 357}
MCDayCounts == {-256, -249, -1, 0, 1, 6, 7, 8, 249, 256, 263, 264}

(* Magnitudes next to each limit in each unit, to the edge of the word     *)
(* and beyond, products around the edge of the word included.              *)
Around(n) == {m \in {n - 1, n, n + 1} : m >= 0}
Edges == UNION {Around(secs \div PerUnit(unit)) :
                  secs \in {0, Hour, 2 * Hour, MAX_TIMEOUT_SECS, MAX_DURATION_SECS,
                            MAX_DURATION_SECS + Hour, MaxU64}, unit \in Units}
MCTypedDurations == [magnitude : Edges \cup {Malformed}, unit : Units \cup {"", "other"}]

TextsOf(alphabet, length) == UNION {[1 .. n -> alphabet] : n \in 0 .. length}

PollForm(question, options, duration) ==
  [question |-> question, options |-> options, duration |-> duration]

Questions == {<<Blank>>, <<"q">>, <<Blank, "q", Blank, "q">>, <<"q", "q", "q", Blank>>,
              <<"q", "q", "q", "q">>}
Two == <<"a", OPTION_SEPARATOR, "a">>

(* All option texts by themselves; every question with every duration.     *)
MCPollForms ==
  {PollForm(<<"q">>, options, None) :
     options \in TextsOf({"a", "b", Blank, OPTION_SEPARATOR}, OptionsLength)}
  \cup {PollForm(question, options, duration) :
          question \in Questions, options \in {Two, <<"a">>},
          duration \in MCTypedDurations \cup {None}}

(* "discord" keeps its overlap with itself (dcd), the letter it shares     *)
(* with "clyde" (cl), and its capital; a reserved name is xc.              *)
MCChars == {"d", "D", "c", "l", "x", Blank}
MCLower == [ch \in MCChars |-> IF ch = "D" THEN "d" ELSE ch]
MCForbidden == <<<<"d", "c", "d">>, <<"c", "l">>>>
MCReserved == {<<"x", "c">>}
MCFallback == <<"x">>

(* Longer ones without capitals and blanks, for words within words within  *)
(* words: cdclcdl takes three rounds.                                      *)
MCAuthors == TextsOf(MCChars, NameLength) \cup TextsOf({"d", "c", "l", "x"}, SpliceLength)

(* All contents from one author, and one content from all.                 *)
Message(content, author) == [content |-> content, author |-> author]
MCRemoteMessages ==
  {Message(content, MCFallback) : content \in TextsOf({"a", Blank, At, ZWSP}, TextLength)}
  \cup {Message(<<"a">>, author) : author \in MCAuthors}
=============================================================================

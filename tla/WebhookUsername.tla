--------------------------- MODULE WebhookUsername ---------------------------
(***************************************************************************)
(* The name a relayed message appears under (proxy/username.rs).  The      *)
(* words are parameters, because what matters of them is how they overlap: *)
(* "discord" begins with the letter it ends with and shares others with    *)
(* "clyde", so that what is left of a removal may spell a forbidden word.  *)
(***************************************************************************)
EXTENDS Texts

CONSTANTS FORBIDDEN_SUBSTRINGS,   \* the two needles, in the order they are removed
          RESERVED,               \* the names "everyone" and "here"
          FALLBACK, MAX_LEN,
          Chars,                  \* the characters names are made of
          Lower                   \* what lower case makes of each

ASSUME NameAssumption ==
  /\ DOMAIN FORBIDDEN_SUBSTRINGS = 1 .. 2
  /\ \A k \in 1 .. 2 : FORBIDDEN_SUBSTRINGS[k] \in Seq(Chars) \ {<<>>}
  /\ RESERVED \subseteq Seq(Chars) /\ FALLBACK \in Seq(Chars)
  /\ MAX_LEN \in Nat /\ Len(FALLBACK) \in 1 .. MAX_LEN
  /\ \A name \in RESERVED : Len(name) < MAX_LEN
  /\ Lower \in [Chars -> Chars]

LowerCase(text) == [i \in DOMAIN text |-> Lower[text[i]]]

(* eq_ignore_ascii_case of the window that begins at i                     *)
Matches(haystack, i, needle) ==
  /\ i + Len(needle) - 1 <= Len(haystack)
  /\ LowerCase(SubSeq(haystack, i, i + Len(needle) - 1)) = needle

(* What Discord refuses in a name; "user" is a name it takes.              *)
Forbidden(name) ==
  \E k \in DOMAIN FORBIDDEN_SUBSTRINGS, i \in DOMAIN name :
    Matches(name, i, FORBIDDEN_SUBSTRINGS[k])

ASSUME FallbackAssumption ==
  Head(FALLBACK) # Blank /\ ~Forbidden(FALLBACK) /\ LowerCase(FALLBACK) \notin RESERVED

(* Mutant: the scan puts out what it compared.                             *)
LoweredStrip(haystack, needle) ==
  LET rest[i \in Nat] ==
        CASE i > Len(haystack)             -> <<>>
          [] Matches(haystack, i, needle)  -> rest[i + Len(needle)]
          [] OTHER                         -> <<Lower[haystack[i]]>> \o rest[i + 1]
  IN  rest[1]

(* rest[i] is what the scan puts out from position i on.                   *)
strip_ci(haystack, needle) ==
  LET rest[i \in Nat] ==
        CASE i > Len(haystack)             -> <<>>
          [] Matches(haystack, i, needle)  -> rest[i + Len(needle)]
          [] OTHER                         -> <<haystack[i]>> \o rest[i + 1]
  IN  rest[1]

StripBoth(name) ==
  strip_ci(strip_ci(name, FORBIDDEN_SUBSTRINGS[1]), FORBIDDEN_SUBSTRINGS[2])

(* Mutant: one round.                                                      *)
StrippedOnce(name) == StripBoth(name)

(* The loop: again, until a round changes nothing.                         *)
Settled(name) ==
  LET loop[n \in Seq(Chars)] == IF StripBoth(n) = n THEN n ELSE loop[StripBoth(n)]
  IN  loop[name]

derive_webhook_username(raw) ==
  LET name == Trim(Settled(Trim(raw))) IN
    IF name = <<>> \/ LowerCase(name) \in RESERVED THEN FALLBACK ELSE Take(name, MAX_LEN)
=============================================================================

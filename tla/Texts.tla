-------------------------------- MODULE Texts --------------------------------
(***************************************************************************)
(* What the code takes from Rust's standard library for strings.  A text   *)
(* is a sequence of characters, and one character stands for every one the *)
(* code treats the same way: Blank is any whitespace.                      *)
(***************************************************************************)
EXTENDS Integers, FiniteSetsExt, SequencesExt

Blank == " "

IsText(text) == text \in Seq(ToSet(text))

Solid(text) == {i \in DOMAIN text : text[i] # Blank}

(* str::trim: what lies between the first and the last solid character.    *)
Trim(text) ==
  IF Solid(text) = {} THEN <<>> ELSE SubSeq(text, Min(Solid(text)), Max(Solid(text)))

(* chars().take(n)                                                         *)
Take(text, n) == SubSeq(text, 1, IF Len(text) < n THEN Len(text) ELSE n)
=============================================================================

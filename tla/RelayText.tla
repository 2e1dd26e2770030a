------------------------------ MODULE RelayText ------------------------------
(***************************************************************************)
(* The content of a relayed message (proxy/sanitize.rs).  Discord's limit  *)
(* of 2000 characters is a parameter.                                      *)
(***************************************************************************)
EXTENDS Texts

CONSTANT MAX_MESSAGE_CHARS

ASSUME MessageLimit == MAX_MESSAGE_CHARS \in Nat \ {0}

At   == "@"
ZWSP == "zwsp"      \* U+200B, which str::trim does not count as whitespace

sanitize_content(input) ==
  FlattenSeq([i \in DOMAIN input |-> IF input[i] = At THEN <<At, ZWSP>> ELSE <<input[i]>>])

(* What a reader sees of a text.                                           *)
Visible(text) ==
  FlattenSeq([i \in DOMAIN text |-> IF text[i] = ZWSP THEN <<>> ELSE <<text[i]>>])

(* Mutant: the clamp before the sanitizer.                                 *)
ClampThenSanitize(input) ==
  LET prepared == sanitize_content(Take(input, MAX_MESSAGE_CHARS))
  IN  IF Trim(prepared) = <<>> THEN <<>> ELSE prepared

(* The text to send; an empty one stands for None: nothing is sent.        *)
prepare_relay_content(input) ==
  LET prepared == Take(sanitize_content(input), MAX_MESSAGE_CHARS)
  IN  IF Trim(prepared) = <<>> THEN <<>> ELSE prepared
=============================================================================

------------------------------ MODULE Results ------------------------------
(***************************************************************************)
(* Rust's Result: a value, or the name of the error variant (error.rs);    *)
(* and the None of its Option.                                             *)
(***************************************************************************)
CONSTANT None

Ok(value)  == [ok |-> TRUE, value |-> value]
Err(error) == [ok |-> FALSE, error |-> error]
=============================================================================

------------------------------- MODULE Retain -------------------------------
(***************************************************************************)
(* Rust's Vec::retain, VecDeque::retain and Iterator::filter.  SelectSeq   *)
(* is the same, but it is opaque to the provers; a recursive function is   *)
(* not.                                                                    *)
(***************************************************************************)
EXTENDS Naturals, Sequences

(* retain(|y| kept.contains(y)) *)
Only(s, kept) ==
  LET upto[n \in 0 .. Len(s)] ==
        IF n = 0 THEN <<>>
        ELSE IF s[n] \in kept THEN Append(upto[n - 1], s[n]) ELSE upto[n - 1]
  IN upto[Len(s)]

(* retain(|y| y != x) *)
Without(s, x) == Only(s, {s[i] : i \in DOMAIN s} \ {x})
=============================================================================

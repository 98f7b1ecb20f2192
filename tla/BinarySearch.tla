---------------------------- MODULE BinarySearch ----------------------------
(***************************************************************************)
(* slice::binary_search_by of Rust's standard library, as manifest.rs      *)
(* (child_by_name) and keys/mod.rs (get) use it: the position, from 1, of   *)
(* an element the comparison finds equal, or 0.  Order(i) is the sign of    *)
(* element i compared with what is looked for.  Which of several equal      *)
(* elements is found is left open by its documentation; this is the loop    *)
(* the library runs.                                                        *)
(***************************************************************************)
EXTENDS Integers

\* The binary search over a slice of n elements.
BinarySearch(n, Order(_)) ==
  LET base[size \in 1..n, at \in 1..n] ==
        IF size = 1 THEN at
        ELSE LET half == size \div 2
             IN  base[size - half, IF Order(at + half) > 0 THEN at ELSE at + half]
  IN  IF n = 0 THEN 0
      ELSE LET at == base[n, 1] IN IF Order(at) = 0 THEN at ELSE 0
=============================================================================

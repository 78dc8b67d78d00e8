------------------------------- MODULE Filter --------------------------------
(* The entries of a sequence that are in a set, in their order: Rust's        *)
(* Iterator::filter.  A recursive function, so that it can be proved about    *)
(* (FilterTheorems), where SelectSeq of Sequences cannot.                     *)
EXTENDS Naturals, Sequences

Kept(s, keep) ==
    LET kept[i \in 0 .. Len(s)] ==
          IF i = 0 THEN <<>>
          ELSE IF s[i] \in keep THEN Append(kept[i - 1], s[i]) ELSE kept[i - 1]
    IN  kept[Len(s)]
=============================================================================

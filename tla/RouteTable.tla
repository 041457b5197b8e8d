----------------------------- MODULE RouteTable -----------------------------
(***************************************************************************)
(* Cidr and RouteTable of src/net.rs, on addresses of any width. A word is *)
(* the set of the positions of its ones, from 0 for the lowest, so that &  *)
(* is an intersection. An address is [family, bits], a CIDR                *)
(* [family, bits, prefix].                                                 *)
(***************************************************************************)
EXTENDS Naturals

CONSTANT Width  \* [{"v4", "v6"} -> Nat]; 32 and 128 in the code

MAX(w) == 0 .. w - 1

(* word << n, which loses what is shifted beyond the width. *)
Shl(w, word, n) == {i \in MAX(w) : i >= n /\ i - n \in word}

(* Mutant: without the case of 0, the shift by the whole width wraps to one
   by nothing.                                                             *)
prefix_mask_wraps(w, prefix) == Shl(w, MAX(w), (w - prefix) % w)

prefix_mask(w, prefix) ==
  IF prefix = 0 THEN {}
    ELSE IF prefix >= w THEN MAX(w) ELSE Shl(w, MAX(w), w - prefix)

(* RouteTable::new. Its vectors are searched for any match, so their order
   does not matter.                                                        *)
new(direct) ==
  {LET mask == prefix_mask(Width[c.family], c.prefix)
   IN  [family |-> c.family, base |-> c.bits \cap mask, mask |-> mask] :
     c \in direct}

decide(table, a) ==
  IF \E e \in table : e.family = a.family /\ a.bits \cap e.mask = e.base
    THEN "direct" ELSE "proxy"

(* What a CIDR means: the addresses that agree with it in the first bits. *)
Covers(c, a) ==
  /\ c.family = a.family
  /\ \A i \in MAX(Width[c.family]) :
       i >= Width[c.family] - c.prefix => (i \in c.bits <=> i \in a.bits)

=============================================================================

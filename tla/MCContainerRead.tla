--------------------------- MODULE MCContainerRead ---------------------------
(***************************************************************************)
(* Containers whose sizes lie around the boundaries where an encoded number*)
(* grows by a byte (128, 256, 65536), and all key orders of small dicts.   *)
(***************************************************************************)
EXTENDS ContainerRead, SequencesExt

Serialized(kind, sizes, keys, comp, csum) ==
  [kind |-> kind, sizes |-> sizes, keys |-> keys, comp |-> comp, csum |-> csum]

Near == (78..132) \cup (205..262) \cup (65480..65542)
SmallAround(s) == {<<s>>, <<6, s>>, <<s, 6>>, <<6, s, 6>>, <<s, s>>}
Repeat(n, s) == [i \in 1..n |-> s]

Leaves ==
  {Serialized("leaf", <<s>>, <<>>, comp, csum) :
     s \in {0} \cup Near, comp \in BOOLEAN, csum \in {0, 8}}
Arrays ==
  {Serialized("array", sizes, <<>>, FALSE, csum) :
     sizes \in UNION {SmallAround(s) : s \in Near}, csum \in {0, 8, 16}}
  \cup {Serialized("array", Repeat(n, s), <<>>, FALSE, csum) :
     n \in (0..3) \cup (18..34) \cup (126..129), s \in {1, 6}, csum \in {0, 16}}
Dicts ==
  {Serialized("dict", <<6, s>>, <<3>>, FALSE, 8) : s \in Near}
  \cup {Serialized("dict", <<6, s, 6, 9>>, <<1, 3>>, FALSE, 0) : s \in Near}
  \cup {Serialized("dict", Repeat(2 * Len(keys), 6), keys, FALSE, 0) :
     keys \in BoundedSeq(1..4, 3) \cup {<<1, 2, 3, 5>>, <<1, 3, 4, 5, 6>>,
                                          <<2, 3, 4, 5, 6, 7, 8>>}}

MCInputs == Leaves \cup Arrays \cup Dicts
MCKeys == 0..9
=============================================================================

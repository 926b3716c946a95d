---------------------------- MODULE ContainerRead ----------------------------
(***************************************************************************)
(* A container is serialized and then read back: an array or a leaf by the *)
(* ranges its reader computes, a dict by searching a key in the keys that  *)
(* its index leads to.                                                     *)
(***************************************************************************)
EXTENDS ContainerLayout, DictSearch

vars == <<layoutVars, searchVars>>

ReadInit ==
  /\ Init
  /\ stored = <<>> /\ wanted = 0 /\ lo = 0 /\ hi = 0 /\ answer = NotFound

findKey ==
  /\ place = "written" /\ input.kind = "dict" /\ answer = NotFound /\ stored = <<>>
  /\ \E key \in Keys : StartSearch([k \in DOMAIN input.keys |-> keyAt(k)], key)
  /\ UNCHANGED layoutVars

Step ==
  \/ Serialize /\ UNCHANGED searchVars
  \/ findKey
  \/ Search /\ UNCHANGED layoutVars

Next == Step \/ (place \in {"written", "refused"} /\ UNCHANGED vars)

(* One thread, which does not stop.                                        *)
Spec == ReadInit /\ [][Next]_vars /\ WF_vars(Step)

-----------------------------------------------------------------------------
(* Properties                                                              *)

TypeOK ==
  /\ place \in {"validate", "inner", "outer", "write", "written", "refused"}
  /\ outer \in 0..10 /\ inner \in 0..10
  /\ iSize \in 0..9 /\ valOffset \in Nat
  /\ offsets \in Seq(Nat) /\ starts \in Seq(Nat)
  /\ indexOffset \in Nat /\ total \in Nat /\ pos \in Nat
  /\ lo \in 0..Len(stored) /\ hi \in 0..Len(stored)
  /\ answer \in {Searching, NotFound} \cup 0 .. Len(stored) - 1

(* "std.debug.assert(pos == total)": what is written fills the buffer to   *)
(* the byte, for every size of the elements, and the index leads to them.  *)
WrittenAsLaidOut ==
  place = "written" =>
    /\ pos = total
    /\ input.kind # "leaf" => offsets = starts

(* Every element, value and payload is read with exactly the bytes it has. *)
ReadAsWritten ==
  place = "written" =>
    /\ input.kind = "array" =>
         \A i \in DOMAIN input.sizes :
           elementBytesAt(i) = Bytes(starts[i], starts[i] + input.sizes[i])
    /\ input.kind = "dict" =>
         \A k \in DOMAIN input.keys :
           valueAt(k) = Bytes(starts[2 * k], starts[2 * k] + input.sizes[2 * k])
    /\ input.kind = "leaf" =>
         payloadSlice = Bytes(starts[1], starts[1] + input.sizes[1])

(* findKey answers with the pair that has the key, and with null only if   *)
(* none has.                                                               *)
SearchIsRight ==
  /\ answer >= 0 => input.keys[answer + 1] = wanted
  /\ answer = NotFound /\ stored # <<>> =>
       \A k \in DOMAIN input.keys : input.keys[k] # wanted

(* "We iterate until I_size stabilizes": both loops settle before their    *)
(* count of passes is used up.                                             *)
LoopsSettle == outer < 10 /\ inner < 10

(* A serialization and a search always finish.                             *)
CallsFinish ==
  /\ <>(place \in {"written", "refused"})
  /\ [](answer = Searching => <>(answer # Searching))
=============================================================================

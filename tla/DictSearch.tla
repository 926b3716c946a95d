------------------------------ MODULE DictSearch ------------------------------
(***************************************************************************)
(* DictReader.findKey (dict.zig): a binary search over the keys of a dict  *)
(* with unsigned bounds.  Pairs are numbered from 0 as in the code.        *)
(***************************************************************************)
EXTENDS Integers, Sequences

CONSTANT Keys   \* all keys; numbers stand for byte strings in their order

ASSUME KeysAssumption == Keys \subseteq Nat

VARIABLES
  stored,    \* the keys as keyAt reads them
  wanted,    \* key_bytes
  lo, hi,
  answer     \* Searching, NotFound or the number of the pair

searchVars == <<stored, wanted, lo, hi, answer>>

Searching == -1
NotFound == -2
KeyNo(i) == stored[i + 1]
Mid == lo + (hi - lo) \div 2
StayAtMid == Mid            \* mutant
AfterMid == Mid + 1
BeforeMid == Mid - 1        \* mutant
UpToMid == Mid

StartSearch(keys, key) ==
  /\ stored' = keys
  /\ wanted' = key
  /\ lo' = 0
  /\ hi' = Len(keys)
  /\ answer' = Searching

Probe ==
  /\ answer = Searching
  /\ lo < hi
  /\ \/ KeyNo(Mid) = wanted /\ answer' = Mid /\ UNCHANGED <<lo, hi>>
     \/ KeyNo(Mid) < wanted /\ lo' = AfterMid /\ UNCHANGED <<hi, answer>>
     \/ KeyNo(Mid) > wanted /\ hi' = UpToMid /\ UNCHANGED <<lo, answer>>
  /\ UNCHANGED <<stored, wanted>>

NoMore ==
  /\ answer = Searching
  /\ lo >= hi
  /\ answer' = NotFound
  /\ UNCHANGED <<stored, wanted, lo, hi>>

Search == Probe \/ NoMore
=============================================================================

------------------------------ MODULE BitArray ------------------------------
(***************************************************************************)
(* The bits of one page of characters (strings/legacy/BitArray.h, .cpp):   *)
(* no array at all, the pointer value 1 for all bits, or an array of       *)
(* words, each here the set of its bits that are 1.                        *)
(***************************************************************************)
EXTENDS Integers

CONSTANTS ELEMENTS,   \* words of an array
          WIDTH       \* bits of a word (MASK + 1)

ASSUME SizesAssumption == ELEMENTS \in Nat \ {0} /\ WIDTH \in Nat \ {0}

MASK     == WIDTH - 1
Element  == 0 .. MASK
Index    == 0 .. ELEMENTS - 1
PageSize == ELEMENTS * WIDTH
Forms    == {"null", "one", "array"}
BitArrays == [form : Forms, words : [Index -> SUBSET Element]]

createArray(set) ==
  [form |-> "array", words |-> [i \in Index |-> IF set THEN Element ELSE {}]]
clearAll == [createArray(FALSE) EXCEPT !.form = "null"]
setAll   == [createArray(FALSE) EXCEPT !.form = "one"]

(* The array a change is made in: a new one when there was none.           *)
Written(ba) == IF ba.form = "array" THEN ba ELSE createArray(ba.form = "one")

getBit(ba, pos) ==
  \/ ba.form = "one"
  \/ ba.form = "array" /\ pos % WIDTH \in ba.words[pos \div WIDTH]

setBit(ba, pos) ==
  IF ba.form = "one" THEN ba
  ELSE [Written(ba) EXCEPT !.words[pos \div WIDTH] = @ \cup {pos % WIDTH}]

clearBit(ba, pos) ==
  IF ba.form = "null" THEN ba
  ELSE [Written(ba) EXCEPT !.words[pos \div WIDTH] = @ \ {pos % WIDTH}]

(* The bits of word i that addRange sets. The first word is cut at s only  *)
(* when s is not its first bit, the last one at e only when it is another  *)
(* word than the first; what lies between is whole.                        *)
Filled(s, e, i) ==
  LET cs == s \div WIDTH
      ce == e \div WIDTH
      cutsFirst == s % WIDTH # 0
      cutsLast  == cs # ce /\ e % WIDTH # MASK
      whole == (IF cutsFirst THEN cs + 1 ELSE cs) .. (IF cutsLast THEN ce - 1 ELSE ce)
  IN  {b \in Element :
        \/ cutsFirst /\ i = cs /\ s % WIDTH <= b /\ (ce = cs => b <= e % WIDTH)
        \/ cutsLast /\ i = ce /\ b <= e % WIDTH
        \/ i \in whole}

addRange(ba, s, e) ==
  IF ba.form = "one" THEN ba
  ELSE IF \A i \in Index : Filled(s, e, i) = Element THEN setAll
  ELSE [Written(ba) EXCEPT !.words = [i \in Index |-> @[i] \cup Filled(s, e, i)]]

addBitArray(ba, other) ==
  IF ba.form = "one" \/ other.form = "null" THEN ba
  ELSE IF other.form = "one" THEN setAll
  ELSE [Written(ba) EXCEPT !.words = [i \in Index |-> @[i] \cup other.words[i]]]

clearBitArray(ba, other) ==
  IF ba.form = "null" \/ other.form = "null" THEN ba
  ELSE IF other.form = "one" THEN clearAll
  ELSE [Written(ba) EXCEPT !.words = [i \in Index |-> @[i] \ other.words[i]]]

Mutant_intersectBitArray(ba, other) ==
  IF ba.form = "null" \/ other.form # "array" THEN ba
  ELSE [Written(ba) EXCEPT !.words = [i \in Index |-> @[i] \cap other.words[i]]]
intersectBitArray(ba, other) ==
  IF ba.form = "null" \/ other.form = "one" THEN ba
  ELSE IF other.form = "null" THEN clearAll
  ELSE [Written(ba) EXCEPT !.words = [i \in Index |-> @[i] \cap other.words[i]]]

(* A table of a character category, a stream of bytes: its bits of a page. *)
addBits(ba, bits) ==
  IF ba.form = "one" THEN ba
  ELSE [Written(ba) EXCEPT !.words = [i \in Index |-> @[i] \cup {b \in Element : i * WIDTH + b \in bits}]]
Mutant_clearBits(ba, bits) ==
  IF ba.form # "array" THEN ba
  ELSE [ba EXCEPT !.words = [i \in Index |-> @[i] \ {b \in Element : i * WIDTH + b \in bits}]]
clearBits(ba, bits) ==
  IF ba.form = "null" THEN ba
  ELSE [Written(ba) EXCEPT !.words = [i \in Index |-> @[i] \ {b \in Element : i * WIDTH + b \in bits}]]
=============================================================================

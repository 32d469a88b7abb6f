----------------------------- MODULE Characters -----------------------------
(***************************************************************************)
(* What the expressions of CRegExp ask of a character (class Character,    *)
(* src/colorer/strings).                                                   *)
(***************************************************************************)
CONSTANTS Chars,
          Ascii,                \* those below 128, which a mask can hold
          Digits, Letters, Underscores, Spaces, Uppers, Lowers, LineBreaks,
          LowerCase             \* toLowerCase, a function on Chars

ASSUME CharsAssumption ==
  /\ Ascii \subseteq Chars
  /\ LowerCase \in [Chars -> Chars]
  /\ \A class \in {Digits, Letters, Underscores, Spaces, Uppers, Lowers, LineBreaks} :
       class \subseteq Chars

WordChars == Letters \cup Digits \cup Underscores

(* The characters a meta symbol that takes one accepts.                    *)
MetaClass(meta, singleLine) ==
  CASE meta = "AnyChr"    -> IF singleLine THEN Chars ELSE Chars \ LineBreaks
    [] meta = "Digit"     -> Digits
    [] meta = "NDigit"    -> Chars \ Digits
    [] meta = "WordSymb"  -> WordChars
    [] meta = "NWordSymb" -> Chars \ WordChars
    [] meta = "WSpace"    -> Spaces
    [] meta = "NWSpace"   -> Chars \ Spaces
    [] meta = "UCase"     -> Uppers
    [] meta = "NUCase"    -> Lowers

OneCharMetas == {"AnyChr", "Digit", "NDigit", "WordSymb", "NWordSymb", "WSpace", "NWSpace",
                 "UCase", "NUCase"}
ZeroWidthMetas == {"SoL", "EoL", "WBound", "NWBound", "PreNW", "SoScheme", "Start", "End"}

(* The characters equal to c under i, or without it.                       *)
Same(c, ignoreCase) ==
  IF ignoreCase THEN {d \in Chars : LowerCase[d] = LowerCase[c]} ELSE {c}
=============================================================================

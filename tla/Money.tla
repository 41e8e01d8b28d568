-------------------------------- MODULE Money --------------------------------
(***************************************************************************)
(* pkg/money: amounts as decimal text and as a raw integer in units of     *)
(* 10^-decimals.  A text is its sign, its whole part, and its fraction as  *)
(* the number its digits spell together with how many digits there are, so *)
(* that "0.5", "0.50" and "0.05" are three texts.                          *)
(***************************************************************************)
EXTENDS Integers

Text(neg, whole, frac, digits) == [neg |-> neg, whole |-> whole, frac |-> frac, digits |-> digits]

(* What n more zeros behind the digits of a number multiply it by.         *)
Pow10[n \in Nat] == IF n = 0 THEN 1 ELSE 10 * Pow10[n - 1]

(* What decimalStringRe lets through: the fraction has the digits it has.  *)
Texts == {t \in [neg : BOOLEAN, whole : Nat, frac : Nat, digits : Nat] : t.frac < Pow10[t.digits]}

(* More fractional digits than the asset has are refused, never rounded.   *)
Parses(t, decimals) == t.digits <= decimals

(* Seeded fault for PaysWhatWasAsked: the fraction is not filled up.       *)
ParseAmount_NoFill(t, decimals) ==
    LET raw == t.whole * Pow10[decimals] + t.frac
    IN  IF t.neg THEN -raw ELSE raw

ParseAmount(t, decimals) ==
    LET raw == t.whole * Pow10[decimals] + t.frac * Pow10[decimals - t.digits]
    IN  IF t.neg THEN -raw ELSE raw

String(raw, decimals) ==
    LET abs == IF raw < 0 THEN -raw ELSE raw
    IN  Text(raw < 0, abs \div Pow10[decimals], abs % Pow10[decimals], decimals)

(* Reference: two texts name the same number.                              *)
Scaled(t, digits) == (t.whole * Pow10[t.digits] + t.frac) * Pow10[digits]
SameValue(t, u) ==
    /\ Scaled(t, u.digits) = Scaled(u, t.digits)
    /\ t.neg = u.neg \/ Scaled(t, 0) = 0
=============================================================================

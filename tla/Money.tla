------------------------------- MODULE Money -------------------------------
(***************************************************************************)
(* The conversion between decimal dollar amounts and int64 cents          *)
(* (src/internal/domain/money.go).                                         *)
(*                                                                         *)
(* A request's amount arrives as a JSON number that Go parses into the    *)
(* nearest float64.  A decimal with at most Digits fractional digits is   *)
(* written here as an integer count of 10^-Digits dollars, and the float  *)
(* as that exact value.  A float product differs from the exact product  *)
(* by a representation error far below 10^-Digits; its sign is all that  *)
(* can change a rounding, and only where the exact value sits on the      *)
(* boundary, so each product carries an error sign in {-1, 0, 1} that the *)
(* model chooses freely.  Amounts are non-negative: both callers reject a  *)
(* negative amount before converting.                                      *)
(***************************************************************************)
EXTENDS Integers

CONSTANT Digits   \* fractional digits of the decimals requests may carry

ASSUME Digits \in Nat /\ Digits >= 3

\* 10^-Digits dollars per unit of a decimal amount.
Unit == 10^Digits

\* The sign of a float product's representation error.
ErrorSigns == {-1, 0, 1}

\* math.Round(num/den) of the float product num/den + err*epsilon (num >= 0):
\* to the nearest integer, a half away from zero.
Round(num, den, err) ==
    LET q == num \div den  r == num % den IN
    IF 2 * r > den \/ (2 * r = den /\ err >= 0) THEN q + 1 ELSE q

\* int64(x) of the same float product: truncation toward zero.
Trunc(num, den, err) ==
    IF num % den = 0 /\ err < 0 /\ num > 0 THEN num \div den - 1 ELSE num \div den

Rejected == [ok |-> FALSE, cents |-> 0]

\* Mutant: cents := int64(f * 100), without math.Round.
ConvertTrunc(d, e1, e2) ==
    IF Round(d * 1000, Unit, e1) % 10 # 0 THEN Rejected
    ELSE [ok |-> TRUE, cents |-> Trunc(d * 100, Unit, e2)]

\* DollarsToCents for the float products f*1000 and f*100 with error signs
\* e1 and e2: scaled := math.Round(f * 1000); reject when math.Mod(scaled,
\* 10) != 0; else cents := math.Round(f * 100).
Convert(d, e1, e2) ==
    IF Round(d * 1000, Unit, e1) % 10 # 0 THEN Rejected
    ELSE [ok |-> TRUE, cents |-> Round(d * 100, Unit, e2)]

\* Every result DollarsToCents(d) can return.
DollarsToCents(d) == {Convert(d, e1, e2) : e1, e2 \in ErrorSigns}

\* CentsToDollars(c) == float64(c) / 100.0: the float nearest c/100, which
\* is the float a client's decimal c/100 parses back into.
CentsToDollars(c) == c * 10^(Digits - 2)
==============================================================================

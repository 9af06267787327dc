----------------------------- MODULE PreciseMath -----------------------------
(***************************************************************************)
(* The fixed-point arithmetic of utils/common/mathUtils.ts, on BigNumbers: *)
(* integers of any size, whose division drops the fraction.                *)
(***************************************************************************)
EXTENDS Integers

CONSTANT PRECISE_UNIT  \* the integer that stands for 1

ASSUME UnitAssumption == PRECISE_UNIT \in Nat \ {0}

Abs(n) == IF n < 0 THEN -n ELSE n

\* BigNumber.div
Div(n, d) == IF (n < 0) = (d < 0) THEN Abs(n) \div Abs(d) ELSE -(Abs(n) \div Abs(d))

\* The second half of the condition is a.mod(b), which is there for b > 0 only.
DivDown(a, b) ==
  IF a * b < 0 /\ a % b # 0 THEN Div(a, b) - 1 ELSE Div(a, b)

PreciseMul(a, b) == Div(a * b, PRECISE_UNIT)

PreciseMulCeil(a, b) ==
  IF a = 0 \/ b = 0 THEN 0 ELSE Div(a * b - 1, PRECISE_UNIT) + 1

SameSign(a, b) == (a > 0 /\ b > 0) \/ (a < 0 /\ b < 0)

\* Mutant: the case of different signs is missing.
PreciseMulCeilPositive(a, b) == PreciseMulCeil(a, b)

PreciseMulCeilInt(a, b) ==
  CASE a = 0 \/ b = 0 -> 0
    [] SameSign(a, b) -> Div(a * b - 1, PRECISE_UNIT) + 1
    [] OTHER          -> Div(a * b + 1, PRECISE_UNIT) - 1

PreciseDiv(a, b) == Div(a * PRECISE_UNIT, b)

PreciseDivCeil(a, b) ==
  IF a = 0 \/ b = 0 THEN 0 ELSE Div(a * PRECISE_UNIT - 1, b) + 1

PreciseDivCeilInt(a, b) ==
  CASE a = 0 \/ b = 0 -> 0
    [] SameSign(a, b) -> Div(a * PRECISE_UNIT - 1, b) + 1
    [] OTHER          -> Div(a * PRECISE_UNIT + 1, b) - 1
=============================================================================

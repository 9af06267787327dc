------------------------------ MODULE Rounding ------------------------------
(***************************************************************************)
(* Which way each helper of PreciseMath rounds.  Their operands are the    *)
(* position units of StreamingFee, as every accrual leaves them, and small *)
(* numbers of either sign; the result is compared with the exact quotient. *)
(* Exact quotients are where the -1 and +1 of the helpers could go wrong.  *)
(***************************************************************************)
EXTENDS StreamingFee

CONSTANT Bound  \* second operands are at most this far from 0

ASSUME BoundAssumption == Bound \in Nat

\* result has the sign of n / d, or is 0.
SignKept(n, d, result) == result # 0 => (result < 0) = ((n < 0) # (d < 0))

\* How much n exceeds result * d, without their signs.
Excess(n, d, result) == Abs(n) - Abs(result) * Abs(d)

\* The nearest integers that are not farther from 0 than n / d, not nearer to 0, and
\* not greater.
ToZero(n, d, result) ==
  SignKept(n, d, result) /\ Excess(n, d, result) \in 0..(Abs(d) - 1)
FromZero(n, d, result) ==
  SignKept(n, d, result) /\ -Excess(n, d, result) \in 0..(Abs(d) - 1)
Down(n, d, result) == n - result * d \in 0..(d - 1)

Operands == {units[c] : c \in DOMAIN units}

\* preciseMul and preciseDiv round to 0, the helpers with "Ceil" away from it and an
\* exact result not at all, divDown down.  preciseMulCeil and preciseDivCeil are for
\* results that are not below 0 ("Int" in a name is for the others), and what rounds
\* up or down divides by positive numbers.
RoundsAsNamed ==
  \A a \in Operands, b \in -Bound..Bound :
    /\ ToZero(a * b, PRECISE_UNIT, PreciseMul(a, b))
    /\ FromZero(a * b, PRECISE_UNIT, PreciseMulCeilInt(a, b))
    /\ a * b >= 0 => FromZero(a * b, PRECISE_UNIT, PreciseMulCeil(a, b))
    /\ b # 0 => ToZero(a * PRECISE_UNIT, b, PreciseDiv(a, b))
    /\ b > 0 => /\ FromZero(a * PRECISE_UNIT, b, PreciseDivCeilInt(a, b))
                /\ a >= 0 => FromZero(a * PRECISE_UNIT, b, PreciseDivCeil(a, b))
                /\ Down(a, b, DivDown(a, b))
=============================================================================

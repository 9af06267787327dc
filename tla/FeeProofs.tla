------------------------------ MODULE FeeProofs ------------------------------
(***************************************************************************)
(* For every unit, supply, rate and length of the year, and any number of  *)
(* accruals: the Set's holdings cover its tokens, and accruing often is    *)
(* never dearer than accruing once.  And for any operands, each helper of  *)
(* PreciseMath rounds the way its name says.                               *)
(***************************************************************************)
EXTENDS Rounding, TLAPS

-----------------------------------------------------------------------------
(***************************************************************************)
(* Arithmetic.                                                             *)
(***************************************************************************)
\* The quotient of numbers that are not negative is rounded down.
LEMMA DivNat ==
  ASSUME NEW n \in Nat, NEW d \in Nat \ {0}
  PROVE  /\ Div(n, d) \in Nat
         /\ Div(n, d) * d <= n
         /\ n < Div(n, d) * d + d
<1>1. Div(n, d) = n \div d
  BY DEF Div, Abs
<1>2. n \div d \in Int /\ n % d \in 0..(d - 1) /\ n = d * (n \div d) + (n % d)
  OBVIOUS
<1> QED
  BY <1>1, <1>2

\* Numbers below 0 lose their fraction too.
LEMMA DivNegative ==
  ASSUME NEW n \in Nat \ {0}, NEW d \in Nat \ {0}
  PROVE  Div(-n, d) = -Div(n, d)
BY DEF Div, Abs

LEMMA Monotonic ==
  ASSUME NEW x \in Nat, NEW y \in Nat, NEW k \in Nat, x <= y
  PROVE  x * k <= y * k /\ k * x <= k * y
<1>1. PICK z \in Nat : y = x + z
  <2>1. y - x \in Nat /\ y = x + (y - x)
    OBVIOUS
  <2> QED
    BY <2>1
<1>2. y * k = x * k + z * k /\ z * k \in Nat
  BY <1>1
<1>3. k * y = y * k /\ k * x = x * k /\ x * k \in Nat
  OBVIOUS
<1> QED
  BY <1>2, <1>3

LEMMA Cancellation ==
  ASSUME NEW x \in Nat, NEW y \in Nat, NEW k \in Nat \ {0}, x * k < y * k + k
  PROVE  x <= y
<1>1. SUFFICES ASSUME y + 1 <= x PROVE FALSE
  OBVIOUS
<1>2. (y + 1) * k <= x * k
  BY <1>1, Monotonic
<1>3. (y + 1) * k = y * k + k /\ y * k \in Nat /\ x * k \in Nat
  OBVIOUS
<1> QED
  BY <1>2, <1>3

-----------------------------------------------------------------------------
(***************************************************************************)
(* One accrual, for one position: u units before it, supply S, of the unit *)
(* U a part i is the fee and r the rest.                                   *)
(***************************************************************************)
\* The rounded units times the rounded supply are no more than before.
LEMMA HoldingStep ==
  ASSUME NEW u \in Nat, NEW S \in Nat, NEW B \in Nat, NEW U \in Nat \ {0},
         NEW i \in Nat, NEW r \in Nat \ {0}, U = i + r, u * S <= B,
         NEW v \in Nat, v * U <= u * r, NEW m \in Nat, m * r <= i * S
  PROVE  v * (S + m) <= B
<1>1. (v * U) * (S + m) <= (u * r) * (S + m)
  <2>1. v * U \in Nat /\ u * r \in Nat /\ S + m \in Nat
    OBVIOUS
  <2> QED
    BY <2>1, Monotonic
<1>2. u * (r * S + m * r) <= u * (r * S + i * S)
  <2>1. r * S + m * r \in Nat /\ r * S + i * S \in Nat /\ r * S + m * r <= r * S + i * S
    OBVIOUS
  <2> QED
    BY <2>1, Monotonic
<1>3. (u * S) * U <= B * U
  <2>1. u * S \in Nat
    OBVIOUS
  <2> QED
    BY <2>1, Monotonic
<1>4. (v * U) * (S + m) = (v * (S + m)) * U
  OBVIOUS
<1>5. (u * r) * (S + m) = u * (r * S + m * r)
  OBVIOUS
<1>6. u * (r * S + i * S) = (u * S) * U
  OBVIOUS
<1>7. v * (S + m) \in Nat /\ (v * (S + m)) * U \in Nat /\ B * U \in Nat
      /\ (u * S) * U \in Nat
  OBVIOUS
<1>8. (v * (S + m)) * U <= B * U
  BY <1>1, <1>2, <1>3, <1>4, <1>5, <1>6, <1>7
<1> QED
  BY <1>7, <1>8, Cancellation

\* A debt of e units, rounded up to w, is not smaller by more than e in all.
LEMMA DebtStep ==
  ASSUME NEW e \in Nat, NEW S \in Nat, NEW U \in Nat \ {0},
         NEW i \in Nat, NEW r \in Nat \ {0}, U = i + r,
         NEW w \in Nat, e * r <= w * U, w * U < e * r + U,
         NEW m \in Nat, i * S < m * r + r
  PROVE  w <= e /\ e * S <= w * (S + m) + e
<1>1. e * r <= e * U
  BY Monotonic
<1>2. w <= e
  <2>1. w * U < e * U + U
    <3>1. w * U \in Nat /\ e * r \in Nat /\ e * U \in Nat
      OBVIOUS
    <3> QED
      BY <1>1, <3>1
  <2> QED
    BY <2>1, Cancellation
<1>3. (e * r) * (S + m) <= (w * U) * (S + m)
  <2>1. e * r \in Nat /\ w * U \in Nat /\ S + m \in Nat
    OBVIOUS
  <2> QED
    BY <2>1, Monotonic
<1>4. e * (r * S + i * S) <= e * (r * S + (m * r + r))
  <2>1. r * S + i * S \in Nat /\ r * S + (m * r + r) \in Nat
        /\ r * S + i * S <= r * S + (m * r + r)
    OBVIOUS
  <2> QED
    BY <2>1, Monotonic
<1>5. e * (r * S + i * S) = (e * S) * U
  OBVIOUS
<1>6. e * (r * S + (m * r + r)) = (e * r) * (S + m) + e * r
  OBVIOUS
<1>7. (w * U) * (S + m) + e * U = (w * (S + m) + e) * U
  OBVIOUS
<1>8. w * (S + m) + e \in Nat /\ e * S \in Nat
  OBVIOUS
<1>9. (e * S) * U <= (w * (S + m) + e) * U
  <2>1. /\ (e * r) * (S + m) \in Nat /\ (w * U) * (S + m) \in Nat
        /\ e * r \in Nat /\ e * U \in Nat
    OBVIOUS
  <2> QED
    BY <1>1, <1>3, <1>4, <1>5, <1>6, <1>7, <2>1
<1>10. (e * S) * U < (w * (S + m) + e) * U + U
  <2>1. (e * S) * U \in Nat /\ (w * (S + m) + e) * U \in Nat
    BY <1>8
  <2> QED
    BY <1>9, <2>1
<1> QED
  BY <1>2, <1>8, <1>10, Cancellation

-----------------------------------------------------------------------------
(***************************************************************************)
(* The accruals.                                                           *)
(***************************************************************************)
LEMMA InitEstablishes == Init => FeeInvariant
<1> SUFFICES ASSUME Init PROVE FeeInvariant
  OBVIOUS
<1>1. /\ first \in [Components -> Int] /\ units = first
      /\ issued \in Nat /\ totalSupply = issued /\ rate \in Nat
      /\ time = 0 /\ charged = 0 /\ accruals = 0
  BY FeeAssumption DEF Init
<1>2. \A c \in Components : first[c] \in Int
  BY <1>1
<1>3. HoldingsBacked /\ DebtsKept
  BY <1>1, <1>2 DEF HoldingsBacked, DebtsKept
<1> QED
  BY <1>1, <1>2, <1>3, FeeAssumption DEF FeeInvariant

\* An accrual that took the time t.
LEMMA AccrueKeeps ==
  ASSUME FeeInvariant, NEW t \in Elapsed, Accrue(t)
  PROVE  FeeInvariant'
<1> DEFINE U   == PRECISE_UNIT
           fee == GetStreamingFee(t, rate)
           r   == U - fee
           m   == GetStreamingFeeInflationAmount(fee, totalSupply)
<1>1. /\ first \in [Components -> Int] /\ units \in [Components -> Int]
      /\ issued \in Nat /\ totalSupply \in Nat /\ rate \in Nat /\ time \in Nat
      /\ charged \in Nat /\ accruals \in Nat /\ t \in Nat
      /\ U \in Nat \ {0} /\ ONE_YEAR_IN_SECONDS \in Nat \ {0}
  BY FeeAssumption, UnitAssumption DEF FeeInvariant
<1>2. /\ fee < U
      /\ units' = GetPostFeePositionUnits(units, fee)
      /\ totalSupply' = totalSupply + m
      /\ time' = time + t /\ charged' = charged + fee /\ accruals' = accruals + 1
      /\ first' = first /\ issued' = issued /\ rate' = rate
  BY DEF Accrue
<1>3. fee \in Nat /\ fee * ONE_YEAR_IN_SECONDS <= t * rate
  <2>1. t * rate \in Nat
    BY <1>1
  <2> QED
    BY <1>1, <2>1, DivNat DEF GetStreamingFee
<1>4. r \in Nat \ {0} /\ U = fee + r
  BY <1>1, <1>2, <1>3
<1>5. m \in Nat /\ m * r <= fee * totalSupply /\ fee * totalSupply < m * r + r
  <2>1. fee * totalSupply \in Nat
    BY <1>1, <1>3
  <2> QED
    BY <1>4, <2>1, DivNat DEF GetStreamingFeeInflationAmount
<1> HIDE DEF fee, m, r
<1>6. ASSUME NEW c \in Components, first[c] >= 0
      PROVE  units'[c] \in Nat /\ units'[c] * totalSupply' <= first[c] * issued
  <2>1. units[c] \in Nat /\ first[c] \in Nat /\ units[c] * totalSupply <= first[c] * issued
    BY <1>1, <1>6 DEF FeeInvariant, HoldingsBacked
  <2>2. units'[c] = Div(units[c] * r, U)
    BY <1>1, <1>2, <2>1 DEF GetPostFeePositionUnits, PreciseMul, r
  <2>3. units[c] * r \in Nat /\ first[c] * issued \in Nat
    BY <1>1, <1>4, <2>1
  <2>4. units'[c] \in Nat /\ units'[c] * U <= units[c] * r
    BY <1>1, <2>2, <2>3, DivNat
  <2> QED
    BY <1>1, <1>2, <1>3, <1>4, <1>5, <2>1, <2>3, <2>4, HoldingStep
<1>7. ASSUME NEW c \in Components, first[c] < 0
      PROVE  /\ units'[c] \in Int /\ units'[c] < 0 /\ first[c] <= units'[c]
             /\ units'[c] * totalSupply' <= first[c] * issued - first[c] * (accruals + 1)
  <2> DEFINE e == -units[c]
             n == e * r - 1
             w == Div(n, U) + 1
  <2>1. /\ first[c] \in Int /\ units[c] \in Int /\ units[c] < 0 /\ first[c] <= units[c]
        /\ units[c] * totalSupply <= first[c] * issued - first[c] * accruals
    BY <1>1, <1>7 DEF FeeInvariant, DebtsKept
  <2>2. e \in Nat \ {0} /\ e * r \in Nat \ {0} /\ n \in Nat
    <3>1. e \in Nat \ {0}
      BY <2>1
    <3>2. 1 * r <= e * r
      BY <1>4, <3>1, Monotonic
    <3>3. e * r \in Nat
      BY <1>4, <3>1
    <3> QED
      BY <1>4, <3>1, <3>2, <3>3
  <2>3. units'[c] = -w
    <3>1. units'[c] = PreciseMulCeilInt(units[c], r)
      BY <1>1, <1>2, <2>1 DEF GetPostFeePositionUnits, r
    <3>2. PreciseMulCeilInt(units[c], r) = Div(units[c] * r + 1, U) - 1
      BY <1>4, <2>1 DEF PreciseMulCeilInt, SameSign
    <3>3. units[c] * r + 1 = -n
      BY <1>4, <2>1
    <3>4. Div(-n, U) = -Div(n, U)
      <4>1. CASE n = 0
        BY <1>1, <4>1, DivNat DEF Div, Abs
      <4>2. CASE n # 0
        BY <1>1, <2>2, <4>2, DivNegative
      <4> QED
        BY <4>1, <4>2
    <3>5. Div(n, U) \in Nat
      BY <1>1, <2>2, DivNat
    <3> QED
      BY <3>1, <3>2, <3>3, <3>4, <3>5
  <2>4. w \in Nat \ {0} /\ e * r <= w * U /\ w * U < e * r + U
    <3>1. Div(n, U) \in Nat /\ Div(n, U) * U <= n /\ n < Div(n, U) * U + U
      BY <1>1, <2>2, DivNat
    <3>2. (Div(n, U) + 1) * U = Div(n, U) * U + U /\ Div(n, U) * U \in Nat
      BY <1>1, <3>1
    <3> QED
      BY <1>1, <2>2, <3>1, <3>2
  <2> HIDE DEF n, w
  <2>5. w <= e /\ e * totalSupply <= w * (totalSupply + m) + e
    BY <1>1, <1>3, <1>4, <1>5, <2>2, <2>4, DebtStep DEF e
  <2>6. e * totalSupply = -(units[c] * totalSupply)
    BY <1>1, <2>1
  <2>7. units'[c] * totalSupply' = -(w * (totalSupply + m))
    BY <1>1, <1>2, <1>5, <2>3, <2>4
  <2>8. first[c] * (accruals + 1) = first[c] * accruals + first[c]
    BY <1>1, <2>1
  <2>9. /\ first[c] * accruals \in Int /\ first[c] * issued \in Int
        /\ units[c] * totalSupply \in Int /\ w * (totalSupply + m) \in Int
    BY <1>1, <1>5, <2>1, <2>4
  <2>10. e <= -first[c]
    BY <2>1
  <2> HIDE DEF e
  <2>11. e \in Nat
    BY <2>2
  <2>12. -(w * (totalSupply + m)) <= first[c] * issued - (first[c] * accruals + first[c])
    BY <2>1, <2>5, <2>6, <2>9, <2>10, <2>11
  <2> QED
    BY <2>1, <2>3, <2>4, <2>5, <2>7, <2>8, <2>10, <2>11, <2>12
<1>8. (charged + fee) * ONE_YEAR_IN_SECONDS <= (time + t) * rate
  <2>1. charged * ONE_YEAR_IN_SECONDS <= time * rate
    BY DEF FeeInvariant
  <2>2. (charged + fee) * ONE_YEAR_IN_SECONDS
          = charged * ONE_YEAR_IN_SECONDS + fee * ONE_YEAR_IN_SECONDS
    BY <1>1, <1>3
  <2>3. (time + t) * rate = time * rate + t * rate
    BY <1>1
  <2>4. /\ charged * ONE_YEAR_IN_SECONDS \in Nat /\ fee * ONE_YEAR_IN_SECONDS \in Nat
        /\ time * rate \in Nat /\ t * rate \in Nat
    BY <1>1, <1>3
  <2> QED
    BY <1>3, <2>1, <2>2, <2>3, <2>4
<1>9. units' \in [Components -> Int]
  <2>1. units' = [c \in Components |-> units'[c]]
    BY <1>1, <1>2 DEF GetPostFeePositionUnits
  <2>2. \A c \in Components : units'[c] \in Int
    <3> TAKE c \in Components
    <3>1. first[c] \in Int
      BY <1>1
    <3>2. CASE first[c] >= 0
      BY <1>6, <3>2
    <3>3. CASE first[c] < 0
      BY <1>7, <3>3
    <3> QED
      BY <3>1, <3>2, <3>3
  <2> QED
    BY <2>1, <2>2
<1>10. HoldingsBacked' /\ DebtsKept'
  BY <1>1, <1>2, <1>6, <1>7, <1>9 DEF HoldingsBacked, DebtsKept
<1> QED
  BY <1>1, <1>2, <1>3, <1>5, <1>6, <1>7, <1>8, <1>9, <1>10 DEF FeeInvariant

LEMMA Inductive == FeeInvariant /\ [Next]_vars => FeeInvariant'
<1> SUFFICES ASSUME FeeInvariant, [Next]_vars PROVE FeeInvariant'
  OBVIOUS
<1>1. ASSUME NEW t \in Elapsed, Accrue(t) PROVE FeeInvariant'
  BY <1>1, AccrueKeeps
<1>2. CASE UNCHANGED vars
  BY <1>2 DEF vars, FeeInvariant, HoldingsBacked, DebtsKept
<1> QED
  BY <1>1, <1>2 DEF Next

\* The fees charged one by one fit the time, so their sum is not above the fee for it.
LEMMA FeeOfWholeTime == FeeInvariant => SplittingIsFree
<1> SUFFICES ASSUME FeeInvariant PROVE SplittingIsFree
  OBVIOUS
<1> DEFINE Y == ONE_YEAR_IN_SECONDS
           q == GetStreamingFee(time, rate)
<1>1. /\ charged \in Nat /\ time \in Nat /\ rate \in Nat /\ Y \in Nat \ {0}
      /\ charged * Y <= time * rate
  BY FeeAssumption DEF FeeInvariant
<1>2. time * rate \in Nat
  BY <1>1
<1>3. q \in Nat /\ time * rate < q * Y + Y
  BY <1>1, <1>2, DivNat DEF GetStreamingFee
<1>4. charged * Y \in Nat /\ q * Y \in Nat
  BY <1>1, <1>3
<1>5. charged * Y < q * Y + Y
  BY <1>1, <1>2, <1>3, <1>4
<1> HIDE DEF q, Y
<1>6. charged <= q
  BY <1>1, <1>3, <1>5, Cancellation
<1> QED
  BY <1>6 DEF SplittingIsFree, q

\* Every reachable state satisfies the inductive invariant.
THEOREM AccrualsKeepInvariant == Spec => []FeeInvariant
BY InitEstablishes, Inductive, PTL DEF Spec

\* The tokens of a Set never stand for more than it has (GetPostFeePositionUnits and
\* GetStreamingFeeInflationAmount taken together).
THEOREM HoldingsStayBacked == Spec => []HoldingsBacked
<1>1. FeeInvariant => HoldingsBacked
  BY DEF FeeInvariant
<1> QED
  BY <1>1, AccrualsKeepInvariant, PTL

\* The rounding of debts never loses one, and at most a unit of each per accrual.
THEOREM DebtsStayKept == Spec => []DebtsKept
<1>1. FeeInvariant => DebtsKept
  BY DEF FeeInvariant
<1> QED
  BY <1>1, AccrualsKeepInvariant, PTL

\* The sum of the fees is never above the fee for the whole time (GetStreamingFee).
THEOREM SplittingNeverPays == Spec => []SplittingIsFree
BY FeeOfWholeTime, AccrualsKeepInvariant, PTL

-----------------------------------------------------------------------------
(***************************************************************************)
(* The direction of every rounding.                                        *)
(***************************************************************************)
LEMMA SignOfProduct ==
  ASSUME NEW a \in Int, NEW b \in Int
  PROVE  /\ SameSign(a, b) => a * b > 0
         /\ a = 0 \/ b = 0 => a * b = 0
         /\ a # 0 /\ b # 0 /\ ~SameSign(a, b) => a * b < 0
<1>1. ASSUME NEW x \in Nat \ {0}, NEW y \in Nat \ {0} PROVE x * y > 0
  <2>1. 1 * y <= x * y
    BY Monotonic
  <2> QED
    BY <2>1
<1>2. CASE a > 0 /\ b > 0
  BY <1>1, <1>2 DEF SameSign
<1>3. CASE a < 0 /\ b < 0
  <2>1. (-a) * (-b) > 0
    BY <1>1, <1>3
  <2>2. (-a) * (-b) = a * b
    OBVIOUS
  <2> QED
    BY <1>3, <2>1, <2>2 DEF SameSign
<1>4. CASE a < 0 /\ b > 0
  <2>1. (-a) * b > 0 /\ (-a) * b = -(a * b)
    BY <1>1, <1>4
  <2> QED
    BY <1>4, <2>1 DEF SameSign
<1>5. CASE a > 0 /\ b < 0
  <2>1. a * (-b) > 0 /\ a * (-b) = -(a * b)
    BY <1>1, <1>5
  <2> QED
    BY <1>5, <2>1 DEF SameSign
<1>6. CASE a = 0 \/ b = 0
  BY <1>6 DEF SameSign
<1> QED
  BY <1>2, <1>3, <1>4, <1>5, <1>6

\* BigNumber.div drops the fraction, for any signs.
LEMMA DivToZero ==
  ASSUME NEW n \in Int, NEW d \in Int \ {0}
  PROVE  Div(n, d) \in Int /\ ToZero(n, d, Div(n, d))
<1> DEFINE q == Abs(n) \div Abs(d)
<1>1. Abs(n) \in Nat /\ Abs(d) \in Nat \ {0}
  BY DEF Abs
<1>2. q \in Nat /\ Abs(n) - q * Abs(d) \in 0..(Abs(d) - 1)
  <2>1. ASSUME NEW x \in Nat, NEW y \in Nat \ {0}
        PROVE  x \div y \in Nat /\ x - (x \div y) * y \in 0..(y - 1)
    <3>1. x \div y \in Int /\ x % y \in 0..(y - 1) /\ x = y * (x \div y) + (x % y)
      OBVIOUS
    <3> QED
      BY <3>1
  <2> QED
    BY <1>1, <2>1
<1>3. CASE (n < 0) <=> (d < 0)
  <2>1. Div(n, d) = q
    BY <1>3 DEF Div
  <2> HIDE DEF q
  <2>2. Abs(q) = q
    BY <1>2 DEF Abs
  <2> QED
    BY <1>2, <1>3, <2>1, <2>2 DEF ToZero, SignKept, Excess
<1>4. CASE ~((n < 0) <=> (d < 0))
  <2>1. Div(n, d) = -q
    BY <1>4 DEF Div
  <2> HIDE DEF q
  <2>2. Abs(-q) = q
    BY <1>2 DEF Abs
  <2> QED
    BY <1>2, <1>4, <2>1, <2>2 DEF ToZero, SignKept, Excess
<1> QED
  BY <1>3, <1>4

\* To step towards 0 before the division and away from it afterwards rounds up, and
\* leaves an exact quotient as it is.
LEMMA CeilFromZero ==
  ASSUME NEW n \in Int, NEW d \in Nat \ {0}
  PROVE  /\ n = 0 => FromZero(n, d, 0)
         /\ n > 0 => FromZero(n, d, Div(n - 1, d) + 1)
         /\ n < 0 => FromZero(n, d, Div(n + 1, d) - 1)
<1>1. ASSUME NEW x \in Nat \ {0}
      PROVE  /\ Div(x - 1, d) \in Nat
             /\ (Div(x - 1, d) + 1) * d - x \in 0..(d - 1)
  <2>1. /\ Div(x - 1, d) \in Nat
        /\ Div(x - 1, d) * d <= x - 1 /\ x - 1 < Div(x - 1, d) * d + d
    BY DivNat
  <2>2. (Div(x - 1, d) + 1) * d = Div(x - 1, d) * d + d /\ Div(x - 1, d) * d \in Nat
    BY <2>1
  <2> QED
    BY <2>1, <2>2
<1>2. CASE n = 0
  BY <1>2 DEF FromZero, SignKept, Excess, Abs
<1>3. CASE n > 0
  <2> DEFINE q == Div(n - 1, d) + 1
  <2>1. q \in Nat \ {0} /\ q * d - n \in 0..(d - 1)
    BY <1>1, <1>3
  <2> HIDE DEF q
  <2>2. Abs(q) = q /\ Abs(n) = n /\ Abs(d) = d /\ q * d \in Nat
    BY <1>3, <2>1 DEF Abs
  <2>3. FromZero(n, d, q)
    BY <1>3, <2>1, <2>2 DEF FromZero, SignKept, Excess
  <2> QED
    BY <1>3, <2>3 DEF q
<1>4. CASE n < 0
  <2> DEFINE q == Div(-n - 1, d) + 1
  <2>1. q \in Nat \ {0} /\ q * d - (-n) \in 0..(d - 1) /\ Div(-n - 1, d) \in Nat
    <3>1. -n \in Nat \ {0}
      BY <1>4
    <3>2. Div(-n - 1, d) \in Nat /\ (Div(-n - 1, d) + 1) * d - (-n) \in 0..(d - 1)
      BY <1>1, <3>1
    <3> QED
      BY <3>2
  <2>2. Div(n + 1, d) = -Div(-n - 1, d)
    <3>1. CASE n = -1
      BY <3>1, DivNat DEF Div, Abs
    <3>2. CASE n # -1
      <4>1. -n - 1 \in Nat \ {0} /\ n + 1 = -(-n - 1)
        BY <1>4, <3>2
      <4> QED
        BY <4>1, DivNegative
    <3> QED
      BY <3>1, <3>2
  <2>3. Div(n + 1, d) - 1 = -q
    BY <2>1, <2>2
  <2> HIDE DEF q
  <2>4. Abs(-q) = q /\ Abs(n) = -n /\ Abs(d) = d /\ q * d \in Nat
    BY <1>4, <2>1 DEF Abs
  <2> QED
    BY <1>4, <2>1, <2>3, <2>4 DEF FromZero, SignKept, Excess
<1> QED
  BY <1>2, <1>3, <1>4

LEMMA SmallMultiple ==
  ASSUME NEW m \in Int, NEW d \in Nat \ {0}, m * d \in 0..(d - 1)
  PROVE  m * d = 0
<1>1. CASE m > 0
  <2>1. 1 * d <= m * d
    BY <1>1, Monotonic
  <2> QED
    BY <2>1
<1>2. CASE m < 0
  <2>1. 1 * d <= (-m) * d /\ (-m) * d = -(m * d)
    BY <1>2, Monotonic
  <2> QED
    BY <2>1
<1>3. CASE m = 0
  BY <1>3
<1> QED
  BY <1>1, <1>2, <1>3

\* divDown takes one more from a negative quotient that is not exact.
LEMMA DivDownIsDown ==
  ASSUME NEW n \in Int, NEW d \in Nat \ {0}
  PROVE  Down(n, d, DivDown(n, d))
<1>1. CASE n >= 0
  <2>1. n * d >= 0
    BY <1>1, SignOfProduct DEF SameSign
  <2>2. n * d \in Int
    OBVIOUS
  <2>3. DivDown(n, d) = Div(n, d)
    BY <2>1, <2>2 DEF DivDown
  <2>4. Div(n, d) \in Nat /\ Div(n, d) * d <= n /\ n < Div(n, d) * d + d
    BY <1>1, DivNat
  <2>5. Div(n, d) * d \in Nat
    BY <2>4
  <2> QED
    BY <1>1, <2>3, <2>4, <2>5 DEF Down
<1>2. CASE n < 0
  <2> DEFINE p == -n
             q == Div(p, d)
             e == p - q * d
  <2>1. p \in Nat \ {0} /\ q \in Nat /\ e \in 0..(d - 1)
    <3>1. p \in Nat \ {0}
      BY <1>2
    <3>2. q \in Nat /\ q * d <= p /\ p < q * d + d
      BY <3>1, DivNat
    <3>3. q * d \in Nat
      BY <3>2
    <3> QED
      BY <3>1, <3>2, <3>3
  <2>2. Div(n, d) = -q
    BY <2>1, DivNegative
  <2>3. n * d < 0
    BY <1>2, SignOfProduct DEF SameSign
  <2>4. PICK k \in Int : n = d * k + (n % d) /\ n % d \in 0..(d - 1)
    <3>1. n \div d \in Int /\ n = d * (n \div d) + (n % d) /\ n % d \in 0..(d - 1)
      OBVIOUS
    <3> QED
      BY <3>1
  <2> HIDE DEF q
  <2>5. (n % d = 0) <=> (e = 0)
    <3>1. (-k - q) * d = e + (n % d)
      <4>1. (-k - q) * d = -(d * k) - q * d /\ q * d \in Nat /\ d * k \in Int
        BY <2>1
      <4> QED
        BY <2>4, <4>1
    <3>2. PICK m \in Int : m * d = e + (n % d)
      <4>1. -k - q \in Int
        BY <2>1
      <4> QED
        BY <3>1, <4>1
    <3> HIDE DEF e
    <3>3. ASSUME e = 0 PROVE n % d = 0
      <4>1. m * d = n % d
        BY <2>4, <3>2, <3>3
      <4> QED
        BY <2>4, <4>1, SmallMultiple
    <3>4. ASSUME n % d = 0 PROVE e = 0
      <4>1. m * d = e
        BY <2>1, <3>2, <3>4
      <4> QED
        BY <2>1, <4>1, SmallMultiple
    <3> QED
      BY <3>3, <3>4
  <2>6. CASE n % d = 0
    <3>1. DivDown(n, d) = -q
      BY <2>2, <2>6 DEF DivDown
    <3>2. n - (-q) * d = -e
      BY <2>1
    <3> QED
      BY <2>1, <2>5, <2>6, <3>1, <3>2 DEF Down
  <2>7. CASE n % d # 0
    <3>1. DivDown(n, d) = -q - 1
      BY <2>2, <2>3, <2>7 DEF DivDown
    <3>2. n - (-q - 1) * d = d - e
      BY <2>1
    <3> HIDE DEF e
    <3> QED
      BY <2>1, <2>5, <2>7, <3>1, <3>2 DEF Down
  <2> QED
    BY <2>6, <2>7
<1> QED
  BY <1>1, <1>2

\* The helpers of mathUtils.ts round as their names say, for operands of any size: the
\* units that any number of accruals leave, and a second operand of any sign.
THEOREM RoundingIsAsNamed == Spec => []RoundsAsNamed
<1>1. FeeInvariant => RoundsAsNamed
  <2> SUFFICES ASSUME FeeInvariant, NEW a \in Operands, NEW b \in -Bound..Bound
               PROVE  /\ ToZero(a * b, PRECISE_UNIT, PreciseMul(a, b))
                      /\ FromZero(a * b, PRECISE_UNIT, PreciseMulCeilInt(a, b))
                      /\ a * b >= 0 => FromZero(a * b, PRECISE_UNIT, PreciseMulCeil(a, b))
                      /\ b # 0 => ToZero(a * PRECISE_UNIT, b, PreciseDiv(a, b))
                      /\ b > 0 => FromZero(a * PRECISE_UNIT, b, PreciseDivCeilInt(a, b))
                      /\ b > 0 /\ a >= 0 => FromZero(a * PRECISE_UNIT, b, PreciseDivCeil(a, b))
                      /\ b > 0 => Down(a, b, DivDown(a, b))
    BY DEF RoundsAsNamed
  <2> DEFINE U == PRECISE_UNIT
  <2>1. a \in Int /\ b \in Int /\ U \in Nat \ {0} /\ U \in Int \ {0}
    BY UnitAssumption, BoundAssumption DEF FeeInvariant, Operands
  <2>2. a * b \in Int /\ a * U \in Int
    BY <2>1
  <2> HIDE DEF U
  <2>3. ToZero(a * b, U, PreciseMul(a, b))
    BY <2>1, <2>2, DivToZero DEF PreciseMul, U
  <2>4. FromZero(a * b, U, PreciseMulCeilInt(a, b))
    <3>1. CASE a = 0 \/ b = 0
      BY <2>1, <2>2, <3>1, SignOfProduct, CeilFromZero DEF PreciseMulCeilInt, U
    <3>2. CASE SameSign(a, b)
      BY <2>1, <2>2, <3>2, SignOfProduct, CeilFromZero DEF PreciseMulCeilInt, SameSign, U
    <3>3. CASE a # 0 /\ b # 0 /\ ~SameSign(a, b)
      BY <2>1, <2>2, <3>3, SignOfProduct, CeilFromZero DEF PreciseMulCeilInt, U
    <3> QED
      BY <3>1, <3>2, <3>3
  <2>5. a * b >= 0 => FromZero(a * b, U, PreciseMulCeil(a, b))
    <3>1. CASE a = 0 \/ b = 0
      BY <2>1, <2>2, <3>1, SignOfProduct, CeilFromZero DEF PreciseMulCeil, U
    <3>2. CASE a # 0 /\ b # 0
      BY <2>1, <2>2, <3>2, SignOfProduct, CeilFromZero DEF PreciseMulCeil, U
    <3> QED
      BY <3>1, <3>2
  <2>6. b # 0 => ToZero(a * U, b, PreciseDiv(a, b))
    BY <2>1, <2>2, DivToZero DEF PreciseDiv, U
  <2>7. ASSUME b > 0
        PROVE  /\ FromZero(a * U, b, PreciseDivCeilInt(a, b))
               /\ a >= 0 => FromZero(a * U, b, PreciseDivCeil(a, b))
    <3>1. b \in Nat \ {0} /\ b # 0
      BY <2>1, <2>7
    <3>2. CASE a = 0
      BY <2>1, <2>2, <3>1, <3>2, SignOfProduct, CeilFromZero
      DEF PreciseDivCeilInt, PreciseDivCeil, U
    <3>3. CASE a > 0
      <4>1. a * U > 0 /\ SameSign(a, b)
        BY <2>1, <2>7, <3>3, SignOfProduct DEF SameSign
      <4> QED
        BY <2>2, <3>1, <3>3, <4>1, CeilFromZero DEF PreciseDivCeilInt, PreciseDivCeil, U
    <3>4. CASE a < 0
      <4>1. a * U < 0 /\ ~SameSign(a, b)
        BY <2>1, <2>7, <3>4, SignOfProduct DEF SameSign
      <4> QED
        BY <2>1, <2>2, <3>1, <3>4, <4>1, CeilFromZero DEF PreciseDivCeilInt, U
    <3> QED
      BY <2>1, <3>2, <3>3, <3>4
  <2>8. b > 0 => Down(a, b, DivDown(a, b))
    BY <2>1, DivDownIsDown
  <2> QED
    BY <2>3, <2>4, <2>5, <2>6, <2>7, <2>8 DEF U
<1> QED
  BY <1>1, AccrualsKeepInvariant, PTL
=============================================================================

---------------------------- MODULE StreamingFee ----------------------------
(***************************************************************************)
(* What a manager's streaming fee does to a Set, as utils/common/          *)
(* feeModuleUtils.ts computes it for whoever checks a deployed fee module: *)
(* a fee for the time that has passed, the tokens minted for it, and the   *)
(* units every token stands for afterwards.  The three are computed and    *)
(* rounded one by one; the module accrues again and again.                 *)
(***************************************************************************)
EXTENDS PreciseMath

CONSTANTS
  Components,            \* positions of the Set
  InitialUnits,          \* their units, below 0 for a debt: vectors to start with
  InitialSupply,         \* numbers of tokens to start with
  Rates,                 \* streamingFeePercentage
  ONE_YEAR_IN_SECONDS,
  Elapsed,               \* times between two accruals
  MaxAccruals            \* bound on accruals

ASSUME FeeAssumption ==
  /\ InitialUnits \subseteq [Components -> Int]
  /\ InitialSupply \subseteq Nat /\ Rates \subseteq Nat /\ Elapsed \subseteq Nat
  /\ ONE_YEAR_IN_SECONDS \in Nat \ {0} /\ MaxAccruals \in Nat

VARIABLES
  first, issued,     \* units and supply at the start
  rate,
  units, totalSupply,
  time,              \* since the start
  charged,           \* the fees so far, added up
  accruals

vars == <<first, issued, rate, units, totalSupply, time, charged, accruals>>

GetStreamingFee(timeElapsed, accrualRate) ==
  Div(timeElapsed * accrualRate, ONE_YEAR_IN_SECONDS)

\* Mutant: the tokens are rounded up.
InflationRoundedUp(inflationPercent, supply) ==
  Div(inflationPercent * supply, PRECISE_UNIT - inflationPercent) + 1

GetStreamingFeeInflationAmount(inflationPercent, supply) ==
  Div(inflationPercent * supply, PRECISE_UNIT - inflationPercent)

\* Mutant: debts are rounded like holdings.
UnitsAllRoundedDown(preFeeUnits, inflationPercent) ==
  [c \in DOMAIN preFeeUnits |-> PreciseMul(preFeeUnits[c], PRECISE_UNIT - inflationPercent)]

GetPostFeePositionUnits(preFeeUnits, inflationPercent) ==
  [c \in DOMAIN preFeeUnits |->
     IF preFeeUnits[c] >= 0
       THEN PreciseMul(preFeeUnits[c], PRECISE_UNIT - inflationPercent)
       ELSE PreciseMulCeilInt(preFeeUnits[c], PRECISE_UNIT - inflationPercent)]

-----------------------------------------------------------------------------
Init ==
  /\ first \in InitialUnits /\ issued \in InitialSupply /\ rate \in Rates
  /\ units = first /\ totalSupply = issued
  /\ time = 0 /\ charged = 0 /\ accruals = 0

\* A fee that takes everything is a division by zero.
Accrue(timeElapsed) ==
  LET fee == GetStreamingFee(timeElapsed, rate) IN
  /\ accruals < MaxAccruals /\ fee < PRECISE_UNIT
  /\ units' = GetPostFeePositionUnits(units, fee)
  /\ totalSupply' = totalSupply + GetStreamingFeeInflationAmount(fee, totalSupply)
  /\ time' = time + timeElapsed
  /\ charged' = charged + fee
  /\ accruals' = accruals + 1
  /\ UNCHANGED <<first, issued, rate>>

Next == \E timeElapsed \in Elapsed : Accrue(timeElapsed)

Spec == Init /\ [][Next]_vars

-----------------------------------------------------------------------------
(***************************************************************************)
(* Properties.                                                             *)
(***************************************************************************)
\* However often fees are accrued, all tokens together never stand for more of a
\* component than the Set had at the start: the tokens minted are rounded down and so
\* are the units, and neither rounding undoes the other.
HoldingsBacked ==
  \A c \in DOMAIN units : first[c] >= 0 => units[c] * totalSupply <= first[c] * issued

\* What the Set owes is not rounded away: a debt stays one, and after n accruals all
\* tokens together owe at least what the Set owed, short of n units of the debt.
DebtsKept ==
  \A c \in DOMAIN units : first[c] < 0 =>
    /\ units[c] < 0
    /\ units[c] * totalSupply <= first[c] * issued - first[c] * accruals

\* Accruing often never charges more than accruing once.
SplittingIsFree == charged <= GetStreamingFee(time, rate)

\* The three together, as induction over the accruals needs them: a position keeps
\* its side, a debt does not grow, and the fees charged fit the time that has passed.
FeeInvariant ==
  /\ first \in [Components -> Int] /\ units \in [Components -> Int]
  /\ {issued, totalSupply, rate, time, charged, accruals} \subseteq Nat
  /\ \A c \in Components : first[c] >= 0 => units[c] >= 0
  /\ \A c \in Components : first[c] < 0 => first[c] <= units[c]
  /\ HoldingsBacked /\ DebtsKept
  /\ charged * ONE_YEAR_IN_SECONDS <= time * rate
=============================================================================

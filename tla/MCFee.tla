-------------------------------- MODULE MCFee --------------------------------
\* A Set with a holding and a debt.
EXTENDS Rounding

TwoPositions == [{"holding", "debt"} -> -20..20]
StartUnits   == {u \in TwoPositions : u["holding"] \in {0, 1, 7, 20} /\ u["debt"] \in {-1, -8, -20}}
=============================================================================

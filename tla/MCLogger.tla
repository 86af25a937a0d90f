------------------------------ MODULE MCLogger ------------------------------
EXTENDS Logger

\* Every frame on one day, one second apart.
OneDay == [f \in Frame |-> f]
\* The clock is stepped back across midnight after frame 1.
StepBack == [f \in Frame |-> IF f = 2 THEN 9 ELSE 10 + f]
=============================================================================

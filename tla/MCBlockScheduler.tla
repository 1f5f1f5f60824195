-------------------------- MODULE MCBlockScheduler --------------------------
(* Constant values for the model checking of BlockScheduler.                *)
EXTENDS BlockScheduler

CONSTANTS t1, t2, t3, t4

\* prompts of which one is a prefix of another
MCNested ==
    [t \in Tasks |-> IF t = t1 THEN <<1, 1, 1>> ELSE IF t = t2 THEN <<1, 1, 1, 2>> ELSE <<2, 2, 2>>]

\* prompts whose blocks hold the same tokens after different prefixes
MCAlike ==
    [t \in Tasks |-> IF t \in {t1, t4} THEN <<5, 5, 1, 1>>
                     ELSE IF t = t2 THEN <<6, 6>> ELSE <<1, 1>>]
=============================================================================

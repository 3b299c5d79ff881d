---------------------------- MODULE MCTestModel ----------------------------
(* TestModel on the sample circuits: every fault, and every fault after    *)
(* every other.                                                            *)
EXTENDS TestModel, SampleCircuits

MCCircuits == {StuckAt(Reconvergent), StuckAt(EarlyOutput), Transition(Sequential)}
=============================================================================

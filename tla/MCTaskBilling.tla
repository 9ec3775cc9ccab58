--------------------------- MODULE MCTaskBilling ---------------------------
EXTENDS TaskBilling, TLC
CONSTANT c1
OneChannel == [t \in Tasks |-> c1]
=============================================================================

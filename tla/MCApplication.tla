---------------------------- MODULE MCApplication ----------------------------
EXTENDS Application
MCDefault == [blockSize |-> 1, windowSize |-> 1, taskStackSize |-> 1]
MCConfigs == {MCDefault}
=============================================================================

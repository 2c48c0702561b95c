---------------------------- MODULE MCCompressor ----------------------------
EXTENDS Compressor, TLC
cfgA == [blockSize |-> 1, windowSize |-> 1, taskStackSize |-> 1]
cfgB == [blockSize |-> 2, windowSize |-> 1, taskStackSize |-> 1]
cfgBad == [blockSize |-> 1, windowSize |-> 3, taskStackSize |-> 1]
MCConfigs == {cfgA, cfgB, cfgBad}
MCDefault == cfgA
Symm == Permutations(Threads)
=============================================================================

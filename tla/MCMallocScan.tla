---------------------------- MODULE MCMallocScan ----------------------------
\* MallocScan for TLC.  The manager never looks at the bytes of the pool, so the
\* values of a byte are interchangeable.
EXTENDS MallocScan, TLC

ByteSymmetry == Permutations(Byte)
=============================================================================

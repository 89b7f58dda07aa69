----------------------------- MODULE MCCronLock -----------------------------
EXTENDS CronLock, TLC

Interchangeable == Permutations(Procs)
=============================================================================

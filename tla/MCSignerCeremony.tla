-------------------------- MODULE MCSignerCeremony --------------------------
EXTENDS SignerCeremony, TLC

Interchangeable == Permutations(Documents)
=============================================================================

----------------------------- MODULE MCAccounts -----------------------------
EXTENDS Accounts, TLC

CONSTANTS alice, bob, local, r1, r2

Alike == Permutations(Names) \union Permutations(Runs)
=============================================================================

-------------------------- MODULE MCAccountSecurity --------------------------
\* AccountSecurity for TLC: slots, users, addresses and recovery codes are interchangeable.
EXTENDS AccountSecurity, TLC

AccountSymmetry ==
    Permutations(Requests) \cup Permutations(Users) \cup Permutations(Addresses)
      \cup Permutations(RecoveryCodes)

=============================================================================

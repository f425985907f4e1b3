---------------------------- MODULE MCUserAgents ----------------------------
(* UserAgents for TLC.  Accounts are interchangeable, and so are clients.  *)
EXTENDS UserAgents, TLC

Symmetry == Permutations(UA) \cup Permutations(Client)
=============================================================================

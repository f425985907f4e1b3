----------------------------- MODULE MCSipCalls -----------------------------
(* SipCalls for TLC.  Threads, sessions and addresses are interchangeable: *)
(* no definition distinguishes one from another.                           *)
EXTENDS SipCalls, TLC

Symmetry ==
    Permutations(Thread) \cup Permutations(Session) \cup Permutations(Addr)
=============================================================================

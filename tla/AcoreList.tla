------------------------------ MODULE AcoreList ------------------------------
(***************************************************************************)
(* The doubly linked lists of src/core/acore_list.c over pjlib's pj_list.  *)
(* A list is the sequence of its nodes; a node occurs at most once.  The   *)
(* sentinel that closes the ring is Ring, which is never a node.           *)
(***************************************************************************)
EXTENDS Integers, Sequences, SequencesExt

(* A list without a cmp function: a new node goes behind the FIRST node,   *)
(* not at the end (pj_list_insert_after(frist, pos)).                      *)
AddUnsorted(s, n) == IF s = <<>> THEN <<n>> ELSE InsertAt(s, 2, n)

(* A list with a cmp function, rank[m] - rank[n]: before the first node    *)
(* that does not rank below the new one, or at the end.                    *)
AddSorted(s, n, rank) ==
    LET above == {i \in DOMAIN s : rank[s[i]] >= rank[n]}
    IN  InsertAt(s, IF above = {} THEN Len(s) + 1 ELSE Min(above), n)

(* The place of a node in its list. *)
PlaceOf(s, n) == CHOOSE i \in DOMAIN s : s[i] = n

(* pj_list_erase leaves the list of any other node alone. *)
Erase(s, n) == IF Contains(s, n) THEN RemoveAt(s, PlaceOf(s, n)) ELSE s

(* n->next.  Erasing a node links it to itself, so a walk that stands on   *)
(* an erased node does not leave it.                                       *)
NextOf(s, n, Ring) ==
    IF ~Contains(s, n) THEN n
    ELSE LET i == PlaceOf(s, n)
         IN  IF i = Len(s) THEN Ring ELSE s[i + 1]

FirstOf(s, Ring) == IF s = <<>> THEN Ring ELSE s[1]

(* acore_list_search with a comparison that has no side effect and accepts *)
(* the nodes in F: the first of them, or Ring.                             *)
Search(s, F, Ring) ==
    LET hits == {i \in DOMAIN s : s[i] \in F}
    IN  IF hits = {} THEN Ring ELSE s[Min(hits)]
=============================================================================
